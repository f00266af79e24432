---------------------- MODULE CheckoutEvaluationProofs ----------------------
(***************************************************************************)
(* What a checkout session promises, for any number of purchases and       *)
(* payments: its book is what was charged less what was credited, every    *)
(* file a crash leaves is one that a new process takes over, and no answer *)
(* is ever taken back.                                                     *)
(*                                                                         *)
(* The argument: a job changes one order, or adds one repayment, keeps the *)
(* session consistent and everything that was answered, and waits for its  *)
(* checkpoint before the next answer.                                      *)
(***************************************************************************)
EXTENDS CheckoutEvaluation, TotalsProofs

Phases == {"none", "prepared", "quoted", "authorized", "redeemed"} \cup Terminal
Notes == {"none", "claimed", "redeemed", "settled", "owed", "reported"}
MaybeReference == References \cup {None}
Order == [phase : Phases, credit : 0 .. Price, refund : 0 .. Price, reference : MaybeReference]
LedgerState == [funded : BOOLEAN, book : Nat, quotes : SUBSET Requests,
                notes : [Requests -> Notes], receipts : SUBSET References]
Session == [funded : BOOLEAN, opened : BOOLEAN, outstanding : Nat,
            orders : [Requests -> Order], repayments : [References -> 0 .. Price],
            ledger : LedgerState]
Answers == [orders : [Requests -> {"none"} \cup Terminal],
            repayments : [References -> 0 .. Price],
            refunds : [Requests -> MaybeReference], opened : BOOLEAN]

\* A job names what its kind is about.
JobOK(j) ==
    /\ j.kind \in {"purchase", "report"} => j.id \in Requests
    /\ j.kind \in {"acknowledge", "report"} => j.reference \in References

CheckoutTypeOK ==
    /\ session \in Session
    /\ disk # None => disk \in Session
    /\ job # None => job \in Job /\ JobOK(job)
    /\ waiting \subseteq Jobs
    /\ health \in {"up", "failed", "down"} /\ (health # "up" => job = None)
    /\ answered \in Answers

\* The order, its claim on the ledger and its amounts belong together.
OrderAgrees(o, note, receipts) ==
    /\ o.phase \in {"none", "prepared", "quoted", "expired", "declined"} => note = "none"
    /\ o.phase = "authorized" => note = "claimed"
    /\ o.phase \in {"redeemed", "delivered"} => note = "redeemed"
    /\ o.phase # "compensated" => o.credit = 0 /\ o.refund = 0 /\ o.reference = None
    /\ o.phase = "compensated" =>
          /\ o.credit + o.refund = Price
          /\ note = IF o.refund = 0 THEN "settled"
                    ELSE IF o.reference = None THEN "owed" ELSE "reported"
          /\ o.reference # None => o.reference \in receipts

Claims(s) == {r \in Requests : s.ledger.notes[r] # "none"}
Credits(s) == TotalOf(Requests, [r \in Requests |-> s.orders[r].credit], Price)
Repaid(s) == TotalOf(References, s.repayments, Price)
Balanced(s) == s.outstanding = Price * Cardinality(Claims(s)) - Credits(s) - Repaid(s)

\* The reserve covers what the claims lock.
Backed(s) == lockedBy(s.ledger) <= totalReserve(s.ledger)

\* A session as the jobs leave it, in memory or in the file.
Sound(s) ==
    /\ s.ledger.funded = s.funded
    /\ s.outstanding = s.ledger.book /\ s.outstanding <= Limit
    /\ \A r \in Requests : OrderAgrees(s.orders[r], s.ledger.notes[r], s.ledger.receipts)
    /\ Balanced(s) /\ Backed(s)

\* Between two jobs, and while one runs, memory is what the file holds.
FileUpToDate ==
    health = "up" /\ disk # None /\ (job = None \/ job.step = "running") => disk = session

CheckoutInv ==
    /\ CheckoutTypeOK
    /\ Sound(session) /\ (disk # None => Sound(disk))
    /\ FileUpToDate
    /\ AnswersSurvive

-----------------------------------------------------------------------------
(***************************************************************************)
(* The account of a session                                                *)
(***************************************************************************)
LEMMA SessionFields ==
    ASSUME NEW s \in Session
    PROVE  /\ s.outstanding \in Nat /\ s.opened \in BOOLEAN /\ s.funded \in BOOLEAN
           /\ s.orders \in [Requests -> Order] /\ s.repayments \in [References -> 0 .. Price]
           /\ s.ledger \in LedgerState /\ s.ledger.book \in Nat
           /\ s.ledger.notes \in [Requests -> Notes] /\ s.ledger.receipts \subseteq References
           /\ s.ledger.quotes \subseteq Requests /\ s.ledger.funded \in BOOLEAN
<1> QED
    BY DEF Session, LedgerState

\* The three sums of the account are naturals.
LEMMA AccountNats ==
    ASSUME NEW s \in Session
    PROVE  /\ Claims(s) \subseteq Requests /\ IsFiniteSet(Claims(s))
           /\ Cardinality(Claims(s)) \in Nat /\ Credits(s) \in Nat /\ Repaid(s) \in Nat
<1>1. Claims(s) \subseteq Requests
    BY DEF Claims
<1>2. IsFiniteSet(Claims(s)) /\ Cardinality(Claims(s)) \in Nat
    BY <1>1, CheckoutAssumption, FS_Subset, FS_CardinalityType
<1>3. Credits(s) \in Nat /\ Repaid(s) \in Nat
    BY CheckoutAssumption, UnitsFinite DEF Credits, Repaid
<1> QED
    BY <1>1, <1>2, <1>3

\* One order changes: the account moves by its charge and its credit.
LEMMA OrderBalance ==
    ASSUME NEW s \in Session, NEW u \in Session, NEW r \in Requests, Balanced(s),
           u.repayments = s.repayments,
           \A q \in Requests : q # r =>
              u.orders[q] = s.orders[q] /\ u.ledger.notes[q] = s.ledger.notes[q],
           NEW charge \in {0, Price},
           charge = 0 => (u.ledger.notes[r] = "none" <=> s.ledger.notes[r] = "none"),
           charge = Price => s.ledger.notes[r] = "none" /\ u.ledger.notes[r] # "none",
           u.outstanding = s.outstanding + charge + s.orders[r].credit - u.orders[r].credit
    PROVE  Balanced(u)
<1>1. /\ s.orders[r] \in Order /\ u.orders[r] \in Order
      /\ s.outstanding \in Nat /\ u.outstanding \in Nat /\ Price \in Nat /\ Price # 0
    BY SessionFields, CheckoutAssumption
<1>2. s.orders[r].credit \in 0 .. Price /\ u.orders[r].credit \in 0 .. Price
    BY <1>1 DEF Order
<1>3. Repaid(u) = Repaid(s)
    BY DEF Repaid
<1>4. Credits(u) = Credits(s) - s.orders[r].credit + u.orders[r].credit
    <2> DEFINE f == [q \in Requests |-> s.orders[q].credit]
               g == [q \in Requests |-> u.orders[q].credit]
    <2>1. f[r] = s.orders[r].credit /\ g[r] = u.orders[r].credit
        OBVIOUS
    <2>2. \A q \in Requests \ {r} : f[q] = g[q]
        OBVIOUS
    <2> HIDE DEF f, g
    <2>3. TotalOf(Requests, g, Price) = TotalOf(Requests, f, Price) - s.orders[r].credit
                                        + u.orders[r].credit
        BY <1>1, <1>2, <2>1, <2>2, CheckoutAssumption, TotalUpdate
    <2> QED
        BY <2>3 DEF Credits, f, g
<1>5. Price * Cardinality(Claims(u)) = Price * Cardinality(Claims(s)) + charge
    <2>1. CASE charge = 0
        <3>1. \A q \in Requests : u.ledger.notes[q] = "none" <=> s.ledger.notes[q] = "none"
            BY <2>1
        <3>2. Claims(u) = Claims(s)
            BY <3>1 DEF Claims
        <3> QED
            BY <1>1, <2>1, <3>2, AccountNats
    <2>2. CASE charge = Price
        <3>1. Claims(u) = Claims(s) \cup {r} /\ r \notin Claims(s)
            BY <2>2 DEF Claims
        <3>2. Cardinality(Claims(u)) = Cardinality(Claims(s)) + 1
            BY <3>1, AccountNats, FS_AddElement
        <3>3. \A n \in Nat : Price * (n + 1) = Price * n + Price
            BY <1>1
        <3> QED
            BY <2>2, <3>2, <3>3, AccountNats
    <2> QED
        BY <2>1, <2>2
<1>6. Price * Cardinality(Claims(s)) \in Nat
    BY <1>1, AccountNats
<1> QED
    BY <1>1, <1>2, <1>3, <1>4, <1>5, <1>6, AccountNats DEF Balanced

\* One repayment is added.
LEMMA RepaymentBalance ==
    ASSUME NEW s \in Session, NEW u \in Session, NEW p \in References, Balanced(s),
           NEW amount \in 0 .. Price, s.repayments[p] = 0, u.repayments[p] = amount,
           \A q \in References : q # p => u.repayments[q] = s.repayments[q],
           u.orders = s.orders, u.ledger.notes = s.ledger.notes,
           u.outstanding = s.outstanding - amount
    PROVE  Balanced(u)
<1>1. Claims(u) = Claims(s) /\ Credits(u) = Credits(s)
    BY DEF Claims, Credits
<1>2. Repaid(u) = Repaid(s) + amount
    <2>1. 0 \in 0 .. Price /\ Price \in Nat
        BY CheckoutAssumption
    <2>2. TotalOf(References, u.repayments, Price)
            = TotalOf(References, s.repayments, Price) - 0 + amount
        BY <2>1, CheckoutAssumption, TotalUpdate
    <2> QED
        BY <2>2, AccountNats DEF Repaid
<1>3. Price * Cardinality(Claims(s)) \in Nat /\ s.outstanding \in Nat
    BY CheckoutAssumption, AccountNats, SessionFields
<1> QED
    BY <1>1, <1>2, <1>3, AccountNats DEF Balanced

\* What the claims lock is a natural.
LEMMA LockedNat ==
    ASSUME NEW s \in Session
    PROVE  /\ IsFiniteSet({r \in Requests : locks(s.ledger.notes[r])})
           /\ Cardinality({r \in Requests : locks(s.ledger.notes[r])}) \in Nat
           /\ lockedBy(s.ledger) \in Nat /\ totalReserve(s.ledger) \in Nat
<1> DEFINE locking == {r \in Requests : locks(s.ledger.notes[r])}
<1>1. IsFiniteSet(locking) /\ Cardinality(locking) \in Nat
    BY CheckoutAssumption, FS_Subset, FS_CardinalityType
<1>2. lockedBy(s.ledger) = Price * Cardinality(locking)
    BY DEF lockedBy
<1> HIDE DEF locking
<1>3. lockedBy(s.ledger) \in Nat
    BY <1>1, <1>2, CheckoutAssumption
<1>4. totalReserve(s.ledger) \in Nat
    BY CheckoutAssumption DEF totalReserve
<1> QED
    BY <1>1, <1>3, <1>4 DEF locking

\* No claim starts to lock: what is backed stays so.
LEMMA BackedKept ==
    ASSUME NEW s \in Session, NEW u \in Session, Backed(s),
           s.ledger.funded => u.ledger.funded,
           \A r \in Requests : locks(u.ledger.notes[r]) => locks(s.ledger.notes[r])
    PROVE  Backed(u)
<1> DEFINE before == {r \in Requests : locks(s.ledger.notes[r])}
           after == {r \in Requests : locks(u.ledger.notes[r])}
<1>1. after \subseteq before /\ IsFiniteSet(before)
    BY LockedNat
<1>2. /\ Cardinality(after) \in Nat /\ Cardinality(before) \in Nat
      /\ lockedBy(s.ledger) = Price * Cardinality(before)
      /\ lockedBy(u.ledger) = Price * Cardinality(after)
    BY LockedNat DEF lockedBy
<1>3. Cardinality(after) <= Cardinality(before)
    BY <1>1, FS_Subset
<1> HIDE DEF before, after
<1>4. Price * Cardinality(after) <= Price * Cardinality(before)
    <2>1. \A m, n \in Nat : m <= n => Price * m <= Price * n
        BY CheckoutAssumption
    <2> QED
        BY <1>2, <1>3, <2>1
<1>5. totalReserve(s.ledger) <= totalReserve(u.ledger)
    BY CheckoutAssumption DEF totalReserve
<1>6. /\ lockedBy(s.ledger) \in Nat /\ lockedBy(u.ledger) \in Nat
      /\ totalReserve(s.ledger) \in Nat /\ totalReserve(u.ledger) \in Nat
    BY LockedNat
<1> QED
    BY <1>2, <1>4, <1>5, <1>6 DEF Backed

\* One more claim locks its price, which the reserve still covers.
LEMMA BackedDraw ==
    ASSUME NEW s \in Session, NEW u \in Session, NEW r \in Requests,
           u.ledger.funded = s.ledger.funded, ~locks(s.ledger.notes[r]),
           \A q \in Requests : q # r => u.ledger.notes[q] = s.ledger.notes[q],
           lockedBy(s.ledger) + Price <= totalReserve(s.ledger)
    PROVE  Backed(u)
<1> DEFINE before == {q \in Requests : locks(s.ledger.notes[q])}
           after == {q \in Requests : locks(u.ledger.notes[q])}
<1>1. /\ after \subseteq before \cup {r} /\ r \notin before
      /\ IsFiniteSet(before) /\ Cardinality(before) \in Nat /\ Cardinality(after) \in Nat
    BY LockedNat
<1>2. /\ lockedBy(s.ledger) = Price * Cardinality(before)
      /\ lockedBy(u.ledger) = Price * Cardinality(after)
    BY DEF lockedBy
<1> HIDE DEF before, after
<1>3. Cardinality(after) <= Cardinality(before) + 1
    <2>1. IsFiniteSet(before \cup {r}) /\ Cardinality(before \cup {r}) = Cardinality(before) + 1
        BY <1>1, FS_AddElement
    <2> QED
        BY <1>1, <2>1, FS_Subset
<1>4. Price * Cardinality(after) <= Price * Cardinality(before) + Price
    <2>1. \A m, n \in Nat : m <= n + 1 => Price * m <= Price * n + Price
        BY CheckoutAssumption
    <2> QED
        BY <1>1, <1>3, <2>1
<1>5. totalReserve(u.ledger) = totalReserve(s.ledger)
    BY DEF totalReserve
<1>6. /\ lockedBy(s.ledger) \in Nat /\ lockedBy(u.ledger) \in Nat
      /\ totalReserve(s.ledger) \in Nat /\ Price \in Nat
    BY LockedNat, CheckoutAssumption
<1> QED
    BY <1>2, <1>4, <1>5, <1>6 DEF Backed

\* A sound session passes the validation of recover.
LEMMA SoundRecovers ==
    ASSUME NEW s \in Session, Sound(s)
    PROVE  RecoverAccepts(s)
<1> QED
    BY DEF Sound, Backed, RecoverAccepts, OrderAgrees

\* An empty session is sound.
LEMMA BlankSound == Blank \in Session /\ Sound(Blank)
<1>1. Price \in Nat /\ 0 \in 0 .. Price /\ Limit \in Nat
    BY CheckoutAssumption
<1>2. NoOrder \in Order /\ NoOrder.credit = 0 /\ NoOrder.refund = 0
      /\ NoOrder.reference = None /\ NoOrder.phase = "none"
    BY <1>1 DEF NoOrder, Order, Phases, MaybeReference
<1>3. /\ Blank.orders = [r \in Requests |-> NoOrder] /\ Blank.outstanding = 0
      /\ Blank.repayments = [p \in References |-> 0]
      /\ Blank.ledger.notes = [r \in Requests |-> "none"] /\ Blank.ledger.book = 0
      /\ Blank.ledger.funded = Blank.funded
    BY DEF Blank
<1>4. Blank \in Session
    BY <1>1, <1>2 DEF Blank, Session, LedgerState, Notes
<1>5. Credits(Blank) = 0 /\ Repaid(Blank) = 0 /\ Cardinality(Claims(Blank)) = 0
    <2>1. Claims(Blank) = {}
        BY <1>3 DEF Claims
    <2>2. Units(Requests, [r \in Requests |-> Blank.orders[r].credit], Price) = {}
        BY <1>1, <1>2, <1>3 DEF Units
    <2>3. Units(References, Blank.repayments, Price) = {}
        BY <1>1, <1>3 DEF Units
    <2> QED
        BY <2>1, <2>2, <2>3, FS_EmptySet DEF Credits, Repaid, TotalOf
<1>6. Balanced(Blank)
    BY <1>1, <1>3, <1>5 DEF Balanced
<1>7. \A r \in Requests :
          OrderAgrees(Blank.orders[r], Blank.ledger.notes[r], Blank.ledger.receipts)
    BY <1>2, <1>3 DEF OrderAgrees
<1>8. Backed(Blank)
    <2>1. {r \in Requests : locks(Blank.ledger.notes[r])} = {}
        BY <1>3 DEF locks
    <2>2. lockedBy(Blank.ledger) = 0
        BY <1>1, <2>1, FS_EmptySet DEF lockedBy
    <2>3. totalReserve(Blank.ledger) \in Nat
        BY <1>4, LockedNat
    <2> QED
        BY <2>2, <2>3 DEF Backed
<1> QED
    BY <1>1, <1>3, <1>4, <1>6, <1>7, <1>8 DEF Sound

-----------------------------------------------------------------------------
(***************************************************************************)
(* The answers                                                             *)
(***************************************************************************)
\* A later session takes nothing back: terminal orders, repayments and refund
\* references stay.
Keeps(s, u) ==
    /\ s.opened => u.opened
    /\ \A r \in Requests :
          /\ s.orders[r].phase \in Terminal => u.orders[r].phase = s.orders[r].phase
          /\ s.orders[r].reference # None => u.orders[r].reference = s.orders[r].reference
    /\ \A p \in References : s.repayments[p] # 0 => u.repayments[p] = s.repayments[p]

LEMMA KeptAnswers ==
    ASSUME answered \in Answers, NEW s, NEW u, Agrees(s), Keeps(s, u)
    PROVE  Agrees(u)
<1>1. ASSUME NEW r \in Requests
      PROVE  /\ answered.orders[r] \in {"none", u.orders[r].phase}
             /\ answered.refunds[r] \in {None, u.orders[r].reference}
    <2>1. answered.orders[r] \in {"none"} \cup Terminal
        BY DEF Answers
    <2> QED
        BY <2>1 DEF Agrees, Keeps
<1> QED
    BY <1>1 DEF Agrees, Keeps

\* Before anything happened nothing was answered.
LEMMA UnansweredFacts == Unanswered \in Answers /\ (answered = Unanswered => Agrees(Blank))
<1>1. 0 \in 0 .. Price
    BY CheckoutAssumption
<1>2. /\ Unanswered.orders = [r \in Requests |-> "none"]
      /\ Unanswered.refunds = [r \in Requests |-> None]
      /\ Unanswered.repayments = [p \in References |-> 0] /\ Unanswered.opened = FALSE
    BY DEF Unanswered
<1> QED
    BY <1>1, <1>2 DEF Unanswered, Answers, MaybeReference, Agrees

LEMMA CheckoutInit == Init => CheckoutInv
<1> SUFFICES ASSUME Init PROVE CheckoutInv
    OBVIOUS
<1>1. CheckoutTypeOK
    BY BlankSound, UnansweredFacts DEF Init, CheckoutTypeOK
<1>2. Agrees(Blank)
    BY UnansweredFacts DEF Init
<1> QED
    BY <1>1, <1>2, BlankSound DEF Init, CheckoutInv, FileUpToDate, AnswersSurvive

-----------------------------------------------------------------------------
(***************************************************************************)
(* The steps of a job                                                      *)
(***************************************************************************)
\* The session executes a job.
Runs == health = "up" /\ job # None /\ job.step = "running"

\* Whatever sound session a job hands to its checkpoint, if it keeps what was
\* answered.
LEMMA SaveStep ==
    ASSUME CheckoutInv, Runs, NEW u \in Session, Sound(u), Keeps(session, u), Save(u)
    PROVE  CheckoutInv'
<1>1. /\ session' = u /\ job' = [job EXCEPT !.step = "saving"]
      /\ UNCHANGED <<disk, waiting, health, answered>>
    BY DEF Save, server
<1>2. job' \in Job /\ job'.step = "saving" /\ job' # None /\ JobOK(job')
    BY <1>1, NoneIsNoJob DEF CheckoutInv, CheckoutTypeOK, Runs, Job, JobOK
<1>3. CheckoutTypeOK'
    BY <1>1, <1>2 DEF CheckoutInv, CheckoutTypeOK, Runs, JobOK
<1>4. Agrees(session)
    BY DEF CheckoutInv, AnswersSurvive, Runs
<1>5. Agrees(u)
    BY <1>4, KeptAnswers DEF CheckoutInv, CheckoutTypeOK
<1>6. Agrees(u)' /\ (disk # None => Agrees(disk)')
    BY <1>1, <1>5 DEF Agrees, CheckoutInv, AnswersSurvive
<1>7. AnswersSurvive'
    BY <1>1, <1>6 DEF AnswersSurvive, Agrees
<1>8. Sound(session)' /\ (disk' # None => Sound(disk)')
    BY <1>1 DEF CheckoutInv, Sound, Balanced, Claims, Credits, Repaid,
                Backed, lockedBy, totalReserve
<1> QED
    BY <1>1, <1>2, <1>3, <1>7, <1>8 DEF CheckoutInv, FileUpToDate

\* A step of one order: its phase, its claim and its amounts move together.
LEMMA OrderStep ==
    ASSUME CheckoutInv, Runs, NEW u \in Session, Save(u), NEW r \in Requests,
           u.funded = session.funded, u.ledger.funded = session.ledger.funded,
           u.opened = session.opened, u.repayments = session.repayments,
           session.ledger.receipts \subseteq u.ledger.receipts,
           \A q \in Requests : q # r => /\ u.orders[q] = session.orders[q]
                                       /\ u.ledger.notes[q] = session.ledger.notes[q],
           OrderAgrees(u.orders[r], u.ledger.notes[r], u.ledger.receipts),
           session.orders[r].phase \in Terminal =>
              u.orders[r].phase = session.orders[r].phase,
           session.orders[r].reference # None =>
              u.orders[r].reference = session.orders[r].reference,
           u.outstanding = u.ledger.book, u.outstanding <= Limit,
           NEW charge \in {0, Price},
           charge = 0 => (u.ledger.notes[r] = "none" <=> session.ledger.notes[r] = "none"),
           charge = Price => session.ledger.notes[r] = "none" /\ u.ledger.notes[r] # "none",
           charge = 0 /\ locks(u.ledger.notes[r]) => locks(session.ledger.notes[r]),
           charge = Price => lockedBy(session.ledger) + Price <= totalReserve(session.ledger),
           u.outstanding = session.outstanding + charge + session.orders[r].credit
                           - u.orders[r].credit
    PROVE  CheckoutInv'
<1>1. session \in Session /\ Sound(session)
    BY DEF CheckoutInv, CheckoutTypeOK
<1>2. Balanced(u)
    BY <1>1, OrderBalance DEF Sound
<1>3. ASSUME NEW q \in Requests
      PROVE  OrderAgrees(u.orders[q], u.ledger.notes[q], u.ledger.receipts)
    <2>1. CASE q = r
        BY <2>1
    <2>2. CASE q # r
        <3>1. OrderAgrees(session.orders[q], session.ledger.notes[q], session.ledger.receipts)
            BY <1>1 DEF Sound
        <3>2. u.orders[q] = session.orders[q] /\ u.ledger.notes[q] = session.ledger.notes[q]
            BY <2>2
        <3> QED
            BY <3>1, <3>2 DEF OrderAgrees
    <2> QED
        BY <2>1, <2>2
<1>4. Backed(u)
    <2>1. CASE charge = 0
        <3>1. \A q \in Requests : locks(u.ledger.notes[q]) => locks(session.ledger.notes[q])
            BY <2>1
        <3> QED
            BY <1>1, <3>1, BackedKept DEF Sound
    <2>2. CASE charge = Price
        <3>1. ~locks(session.ledger.notes[r])
            BY <2>2 DEF locks
        <3> QED
            BY <1>1, <2>2, <3>1, BackedDraw
    <2> QED
        BY <2>1, <2>2
<1>5. Sound(u)
    BY <1>1, <1>2, <1>3, <1>4 DEF Sound
<1>6. Keeps(session, u)
    BY DEF Keeps
<1> QED
    BY <1>5, <1>6, SaveStep

-----------------------------------------------------------------------------
(***************************************************************************)
(* A session with another phase of one order, or another state of a claim  *)
(***************************************************************************)
LEMMA Entered ==
    ASSUME NEW s \in Session, NEW r \in Requests, NEW phase \in Phases, NEW u,
           u = [s EXCEPT !.orders[r].phase = phase]
    PROVE  /\ u \in Session
           /\ u.orders[r].phase = phase /\ u.orders[r].credit = s.orders[r].credit
           /\ u.orders[r].refund = s.orders[r].refund
           /\ u.orders[r].reference = s.orders[r].reference
           /\ \A q \in Requests : q # r => u.orders[q] = s.orders[q]
           /\ u.funded = s.funded /\ u.opened = s.opened /\ u.outstanding = s.outstanding
           /\ u.repayments = s.repayments /\ u.ledger = s.ledger
<1>1. s.orders \in [Requests -> Order] /\ s.orders[r] \in Order
    BY SessionFields
<1>2. PICK o : o = [s.orders[r] EXCEPT !.phase = phase]
    OBVIOUS
<1>3. /\ o \in Order /\ o.phase = phase /\ o.credit = s.orders[r].credit
      /\ o.refund = s.orders[r].refund /\ o.reference = s.orders[r].reference
    BY <1>1, <1>2 DEF Order
<1>4. PICK orders : orders = [s.orders EXCEPT ![r] = o]
    OBVIOUS
<1>5. /\ orders \in [Requests -> Order] /\ orders[r] = o
      /\ \A q \in Requests : q # r => orders[q] = s.orders[q]
    BY <1>1, <1>3, <1>4
<1>6. u = [s EXCEPT !.orders = orders]
    BY <1>2, <1>4
<1>7. /\ u \in Session /\ u.orders = orders
      /\ u.funded = s.funded /\ u.opened = s.opened /\ u.outstanding = s.outstanding
      /\ u.repayments = s.repayments /\ u.ledger = s.ledger
    BY <1>5, <1>6 DEF Session
<1> QED
    BY <1>3, <1>5, <1>7

\* What a circuit proved: book and claim of the ledger.
Moved(s, r, note) == [s EXCEPT !.ledger.book = s.outstanding, !.ledger.notes[r] = note]

LEMMA ProvedFacts ==
    ASSUME NEW s \in Session, NEW r \in Requests, NEW note \in Notes, NEW u,
           u = Moved(s, r, note)
    PROVE  /\ u \in Session
           /\ u.ledger.book = s.outstanding /\ u.ledger.notes[r] = note
           /\ \A q \in Requests : q # r => u.ledger.notes[q] = s.ledger.notes[q]
           /\ u.ledger.funded = s.ledger.funded /\ u.ledger.receipts = s.ledger.receipts
           /\ u.funded = s.funded /\ u.opened = s.opened /\ u.outstanding = s.outstanding
           /\ u.repayments = s.repayments /\ u.orders = s.orders
<1>1. /\ s.ledger \in LedgerState /\ s.ledger.notes \in [Requests -> Notes]
      /\ s.outstanding \in Nat
    BY SessionFields
<1>2. PICK notes : notes = [s.ledger.notes EXCEPT ![r] = note]
    OBVIOUS
<1>3. /\ notes \in [Requests -> Notes] /\ notes[r] = note
      /\ \A q \in Requests : q # r => notes[q] = s.ledger.notes[q]
    BY <1>1, <1>2
<1>4. PICK l : l = [s.ledger EXCEPT !.book = s.outstanding, !.notes = notes]
    OBVIOUS
<1>5. l = [funded |-> s.ledger.funded, book |-> s.outstanding, quotes |-> s.ledger.quotes,
           notes |-> notes, receipts |-> s.ledger.receipts]
    BY <1>1, <1>4 DEF LedgerState
<1>6. /\ l \in LedgerState /\ l.book = s.outstanding /\ l.notes = notes
      /\ l.funded = s.ledger.funded /\ l.receipts = s.ledger.receipts
    BY <1>1, <1>3, <1>5 DEF LedgerState
<1>7. u = [s EXCEPT !.ledger = l]
    BY <1>2, <1>4 DEF Moved
<1>8. /\ u \in Session /\ u.ledger = l
      /\ u.funded = s.funded /\ u.opened = s.opened /\ u.outstanding = s.outstanding
      /\ u.repayments = s.repayments /\ u.orders = s.orders
    BY <1>6, <1>7 DEF Session
<1> QED
    BY <1>3, <1>6, <1>8

-----------------------------------------------------------------------------
(***************************************************************************)
(* A purchase, phase by phase                                              *)
(***************************************************************************)
LEMMA PurchaseFacts ==
    ASSUME CheckoutInv, NEW phase \in Phases, AtPhase(phase)
    PROVE  /\ Runs /\ job.id \in Requests /\ session \in Session
           /\ session.orders[job.id] \in Order /\ session.orders[job.id].phase = phase
           /\ OrderAgrees(session.orders[job.id], ledger.notes[job.id], ledger.receipts)
           /\ session.outstanding = ledger.book /\ session.outstanding <= Limit
           /\ session.outstanding \in Nat /\ ledger.book \in Nat
<1>1. Runs /\ job.id \in Requests /\ session.orders[job.id].phase = phase
    BY DEF CheckoutInv, CheckoutTypeOK, AtPhase, Running, Runs, JobOK, order
<1>2. session \in Session /\ Sound(session)
    BY DEF CheckoutInv, CheckoutTypeOK
<1> QED
    BY <1>1, <1>2, SessionFields DEF Sound, ledger

\* Only the phase moves, between phases that leave claim and amounts alone.
LEMMA PhaseStep ==
    ASSUME CheckoutInv, NEW from \in Phases \ Terminal, AtPhase(from), NEW to \in Phases,
           NEW u, u = Enter(session, to), Save(u),
           \/ {from, to} \subseteq {"none", "prepared", "quoted", "expired", "declined"}
           \/ {from, to} \subseteq {"redeemed", "delivered"}
    PROVE  CheckoutInv'
<1> DEFINE r == job.id
<1>1. /\ Runs /\ r \in Requests /\ session \in Session
      /\ session.orders[r] \in Order /\ session.orders[r].phase = from
      /\ OrderAgrees(session.orders[r], ledger.notes[r], ledger.receipts)
      /\ session.outstanding = ledger.book /\ session.outstanding <= Limit
      /\ session.outstanding \in Nat
    BY PurchaseFacts
<1>2. u = [session EXCEPT !.orders[r].phase = to]
    BY DEF Enter
<1> HIDE DEF r
<1>3. /\ u \in Session
      /\ u.orders[r].phase = to /\ u.orders[r].credit = session.orders[r].credit
      /\ u.orders[r].refund = session.orders[r].refund
      /\ u.orders[r].reference = session.orders[r].reference
      /\ \A q \in Requests : q # r => u.orders[q] = session.orders[q]
      /\ u.funded = session.funded /\ u.opened = session.opened
      /\ u.outstanding = session.outstanding
      /\ u.repayments = session.repayments /\ u.ledger = session.ledger
    BY <1>1, <1>2, Entered
<1>4. OrderAgrees(u.orders[r], u.ledger.notes[r], u.ledger.receipts)
    BY <1>1, <1>3 DEF OrderAgrees, ledger
<1>5. 0 \in {0, Price} /\ 0 # Price
    BY CheckoutAssumption
<1>6. u.outstanding = session.outstanding + 0 + session.orders[r].credit - u.orders[r].credit
    BY <1>1, <1>3 DEF Order
<1>7. session.orders[r].phase \notin Terminal
    BY <1>1
<1>8. /\ session.ledger.receipts \subseteq u.ledger.receipts
      /\ \A q \in Requests : q # r => /\ u.orders[q] = session.orders[q]
                                     /\ u.ledger.notes[q] = session.ledger.notes[q]
      /\ u.ledger.notes[r] = "none" <=> session.ledger.notes[r] = "none"
      /\ u.outstanding = u.ledger.book /\ u.outstanding <= Limit
      /\ u.ledger.funded = session.ledger.funded
      /\ u.funded = session.funded /\ u.opened = session.opened
      /\ u.repayments = session.repayments
      /\ u.orders[r].reference = session.orders[r].reference
    BY <1>1, <1>3 DEF ledger
<1> QED
    BY <1>1, <1>3, <1>4, <1>5, <1>6, <1>7, <1>8, OrderStep

LEMMA IntentionStep ==
    ASSUME CheckoutInv, Intend \/ ExpireQuote \/ Decline \/ Deliver
    PROVE  CheckoutInv'
<1>1. CASE Intend
    <2>1. AtPhase("none") /\ Save(Enter(session, "prepared"))
        BY <1>1 DEF Intend
    <2> QED
        BY <2>1, PhaseStep DEF Phases, Terminal
<1>2. CASE ExpireQuote
    <2>1. (AtPhase("prepared") \/ AtPhase("quoted")) /\ Save(Enter(session, "expired"))
        BY <1>2 DEF ExpireQuote
    <2> QED
        BY <2>1, PhaseStep DEF Phases, Terminal
<1>3. CASE Decline
    <2>1. AtPhase("quoted") /\ Save(Enter(session, "declined"))
        BY <1>3 DEF Decline
    <2> QED
        BY <2>1, PhaseStep DEF Phases, Terminal
<1>4. CASE Deliver
    <2>1. AtPhase("redeemed") /\ Save(Enter(session, "delivered"))
        BY <1>4 DEF Deliver
    <2> QED
        BY <2>1, PhaseStep DEF Phases, Terminal
<1> QED
    BY <1>1, <1>2, <1>3, <1>4

LEMMA PostQuoteStep ==
    ASSUME CheckoutInv, PostQuote
    PROVE  CheckoutInv'
<1> DEFINE r == job.id
<1>1. AtPhase("prepared") /\ "prepared" \in Phases /\ "quoted" \in Phases
    BY DEF PostQuote, Phases
<1>2. /\ Runs /\ r \in Requests /\ session \in Session
      /\ session.orders[r] \in Order /\ session.orders[r].phase = "prepared"
      /\ OrderAgrees(session.orders[r], ledger.notes[r], ledger.receipts)
      /\ session.outstanding = ledger.book /\ session.outstanding <= Limit
      /\ session.outstanding \in Nat
    BY <1>1, PurchaseFacts
<1>3. PICK v : v = Enter(session, "quoted")
    OBVIOUS
<1>4. v = [session EXCEPT !.orders[r].phase = "quoted"]
    BY <1>3 DEF Enter
<1> HIDE DEF r
<1>5. /\ v \in Session
      /\ v.orders[r].phase = "quoted" /\ v.orders[r].credit = session.orders[r].credit
      /\ v.orders[r].refund = session.orders[r].refund
      /\ v.orders[r].reference = session.orders[r].reference
      /\ \A q \in Requests : q # r => v.orders[q] = session.orders[q]
      /\ v.funded = session.funded /\ v.opened = session.opened
      /\ v.outstanding = session.outstanding
      /\ v.repayments = session.repayments /\ v.ledger = session.ledger
    BY <1>1, <1>2, <1>4, Entered
<1>6. PICK l : l = [v.ledger EXCEPT !.quotes = @ \cup {r}]
    OBVIOUS
<1>7. /\ l \in LedgerState /\ l.notes = session.ledger.notes /\ l.book = session.ledger.book
      /\ l.receipts = session.ledger.receipts /\ l.funded = session.ledger.funded
    BY <1>2, <1>5, <1>6, SessionFields DEF LedgerState
<1>8. PICK u : u = [v EXCEPT !.ledger = l]
    OBVIOUS
<1>9. /\ u \in Session /\ u.ledger = l /\ u.orders = v.orders /\ u.funded = v.funded
      /\ u.opened = v.opened /\ u.outstanding = v.outstanding /\ u.repayments = v.repayments
    BY <1>5, <1>7, <1>8 DEF Session
<1>10. Save(u)
    BY <1>3, <1>6, <1>8 DEF PostQuote, r
<1>11. OrderAgrees(u.orders[r], u.ledger.notes[r], u.ledger.receipts)
    BY <1>2, <1>5, <1>7, <1>9 DEF OrderAgrees, ledger
<1>12. 0 \in {0, Price} /\ 0 # Price
    BY CheckoutAssumption
<1>13. u.outstanding = session.outstanding + 0 + session.orders[r].credit - u.orders[r].credit
    BY <1>2, <1>5, <1>9 DEF Order
<1>14. session.orders[r].phase \notin Terminal
    BY <1>2 DEF Terminal
<1> QED
    BY <1>2, <1>5, <1>7, <1>9, <1>10, <1>11, <1>12, <1>13, <1>14, OrderStep DEF ledger

\* A circuit moved the book and the claim, and the session follows it.
LEMMA CircuitStep ==
    ASSUME CheckoutInv, NEW from \in Phases \ Terminal, AtPhase(from),
           NEW v \in Session, NEW note \in Notes, Save(Proved(v, v.outstanding, note)),
           v.funded = session.funded, v.opened = session.opened,
           v.repayments = session.repayments, v.ledger = session.ledger,
           \A q \in Requests : q # job.id => v.orders[q] = session.orders[q],
           OrderAgrees(v.orders[job.id], note, session.ledger.receipts),
           v.outstanding <= Limit,
           NEW charge \in {0, Price},
           charge = 0 => (note = "none" <=> session.ledger.notes[job.id] = "none"),
           charge = Price => session.ledger.notes[job.id] = "none" /\ note # "none",
           charge = 0 => locks(session.ledger.notes[job.id]),
           charge = Price => lockedBy(session.ledger) + Price <= totalReserve(session.ledger),
           v.outstanding = session.outstanding + charge - v.orders[job.id].credit
    PROVE  CheckoutInv'
<1> DEFINE r == job.id
<1>1. /\ Runs /\ r \in Requests /\ session \in Session
      /\ session.orders[r] \in Order /\ session.orders[r].phase = from
      /\ OrderAgrees(session.orders[r], ledger.notes[r], ledger.receipts)
      /\ session.outstanding = ledger.book /\ session.outstanding <= Limit
      /\ session.outstanding \in Nat
    BY PurchaseFacts
<1>2. session.orders[r].phase \notin Terminal
    BY <1>1
<1>3. session.orders[r].credit = 0 /\ session.orders[r].reference = None
    BY <1>1, <1>2 DEF OrderAgrees, Terminal
<1>4. PICK u : u = Proved(v, v.outstanding, note)
    OBVIOUS
<1>5. /\ u \in Session
      /\ u.ledger.book = v.outstanding /\ u.ledger.notes[r] = note
      /\ \A q \in Requests : q # r => u.ledger.notes[q] = session.ledger.notes[q]
      /\ u.ledger.funded = session.ledger.funded /\ u.ledger.receipts = session.ledger.receipts
      /\ u.funded = v.funded /\ u.opened = v.opened /\ u.outstanding = v.outstanding
      /\ u.repayments = v.repayments /\ u.orders = v.orders
    <2>1. job.id \in Requests
        BY <1>1
    <2>2. /\ u \in Session
          /\ u.ledger.book = v.outstanding /\ u.ledger.notes[job.id] = note
          /\ \A q \in Requests : q # job.id => u.ledger.notes[q] = v.ledger.notes[q]
          /\ u.ledger.funded = v.ledger.funded /\ u.ledger.receipts = v.ledger.receipts
          /\ u.funded = v.funded /\ u.opened = v.opened /\ u.outstanding = v.outstanding
          /\ u.repayments = v.repayments /\ u.orders = v.orders
        <3>1. u = Moved(v, job.id, note)
            BY <1>4 DEF Proved, Moved
        <3> QED
            BY <2>1, <3>1, ProvedFacts
    <2> QED
        BY <2>2
<1>6. v.orders[r] \in Order
    BY <1>1, SessionFields
<1>7. Save(u)
    BY <1>4
<1>8. /\ u.outstanding = session.outstanding + charge + session.orders[r].credit
                          - u.orders[r].credit
      /\ u.outstanding = u.ledger.book /\ u.outstanding <= Limit
    <2>1. v.orders[r].credit \in Int /\ charge \in Int /\ session.outstanding \in Int
        BY <1>1, <1>6, CheckoutAssumption DEF Order
    <2>2. u.outstanding = v.outstanding /\ u.orders[r].credit = v.orders[r].credit
        BY <1>5
    <2>3. v.outstanding = session.outstanding + charge + 0 - v.orders[r].credit
        BY <2>1
    <2> QED
        BY <1>3, <1>5, <2>2, <2>3
<1>9. OrderAgrees(u.orders[r], u.ledger.notes[r], u.ledger.receipts)
    BY <1>5
<1>10. /\ session.ledger.receipts \subseteq u.ledger.receipts
       /\ \A q \in Requests : q # r => /\ u.orders[q] = session.orders[q]
                                      /\ u.ledger.notes[q] = session.ledger.notes[q]
       /\ charge = 0 => (u.ledger.notes[r] = "none" <=> session.ledger.notes[r] = "none")
       /\ charge = Price => session.ledger.notes[r] = "none" /\ u.ledger.notes[r] # "none"
       /\ charge = 0 /\ locks(u.ledger.notes[r]) => locks(session.ledger.notes[r])
       /\ charge = Price =>
             lockedBy(session.ledger) + Price <= totalReserve(session.ledger)
       /\ u.ledger.funded = session.ledger.funded
       /\ u.funded = session.funded /\ u.opened = session.opened
       /\ u.repayments = session.repayments
    BY <1>5
<1> HIDE DEF r
<1> QED
    BY <1>1, <1>2, <1>3, <1>5, <1>7, <1>8, <1>9, <1>10, OrderStep

LEMMA DrawStep ==
    ASSUME CheckoutInv, Draw
    PROVE  CheckoutInv'
<1> DEFINE r == job.id
<1>1. AtPhase("quoted") /\ "quoted" \in Phases \ Terminal /\ "authorized" \in Phases
    BY DEF Draw, Phases, Terminal
<1>2. /\ Runs /\ r \in Requests /\ session \in Session
      /\ session.orders[r] \in Order /\ session.orders[r].phase = "quoted"
      /\ OrderAgrees(session.orders[r], ledger.notes[r], ledger.receipts)
      /\ session.outstanding = ledger.book /\ session.outstanding \in Nat
    BY <1>1, PurchaseFacts
<1>3. PICK w : w = Enter(session, "authorized")
    OBVIOUS
<1>4. w = [session EXCEPT !.orders[r].phase = "authorized"]
    BY <1>3 DEF Enter
<1>5. PICK v : v = charged(w)
    OBVIOUS
<1>6. /\ Save(Proved(v, ledger.book + Price, "claimed")) /\ ledger.book + Price <= Limit
      /\ lockedBy(session.ledger) + Price <= totalReserve(session.ledger)
    BY <1>3, <1>5 DEF Draw, drawAccepted, ledger
<1> HIDE DEF r
<1>7. /\ w \in Session
      /\ w.orders[r].phase = "authorized" /\ w.orders[r].credit = session.orders[r].credit
      /\ w.orders[r].refund = session.orders[r].refund
      /\ w.orders[r].reference = session.orders[r].reference
      /\ \A q \in Requests : q # r => w.orders[q] = session.orders[q]
      /\ w.funded = session.funded /\ w.opened = session.opened
      /\ w.outstanding = session.outstanding
      /\ w.repayments = session.repayments /\ w.ledger = session.ledger
    BY <1>1, <1>2, <1>4, Entered
<1>8. PICK n : n = w.outstanding + Price
    OBVIOUS
<1>9. v = [w EXCEPT !.outstanding = n] /\ n \in Nat
    BY <1>2, <1>5, <1>7, <1>8, CheckoutAssumption DEF charged
<1>10. /\ v \in Session /\ v.orders = w.orders /\ v.outstanding = n /\ v.funded = w.funded
       /\ v.opened = w.opened /\ v.repayments = w.repayments /\ v.ledger = w.ledger
    BY <1>7, <1>9 DEF Session
<1>11. session.orders[r].credit = 0 /\ session.orders[r].refund = 0
       /\ session.orders[r].reference = None /\ session.ledger.notes[r] = "none"
    BY <1>2 DEF OrderAgrees, ledger
<1>12. OrderAgrees(v.orders[r], "claimed", session.ledger.receipts)
    BY <1>7, <1>10, <1>11 DEF OrderAgrees
<1>13. /\ v.outstanding = ledger.book + Price
       /\ v.outstanding = session.outstanding + Price - v.orders[r].credit
       /\ Price \in {0, Price} /\ Price # 0
    BY <1>2, <1>7, <1>8, <1>9, <1>10, <1>11, CheckoutAssumption
<1>14. "claimed" \in Notes /\ "claimed" # "none"
    BY DEF Notes
<1>15. Save(Proved(v, v.outstanding, "claimed")) /\ v.outstanding <= Limit
    BY <1>6, <1>13
<1> QED
    BY <1>1, <1>6, <1>7, <1>10, <1>11, <1>12, <1>13, <1>14, <1>15, CircuitStep DEF r

LEMMA RedeemStep ==
    ASSUME CheckoutInv, Redeem
    PROVE  CheckoutInv'
<1> DEFINE r == job.id
<1>1. AtPhase("authorized") /\ "authorized" \in Phases \ Terminal /\ "redeemed" \in Phases
    BY DEF Redeem, Phases, Terminal
<1>2. /\ Runs /\ r \in Requests /\ session \in Session
      /\ session.orders[r] \in Order /\ session.orders[r].phase = "authorized"
      /\ OrderAgrees(session.orders[r], ledger.notes[r], ledger.receipts)
      /\ session.outstanding = ledger.book /\ session.outstanding \in Nat
      /\ session.outstanding <= Limit
    BY <1>1, PurchaseFacts
<1>3. PICK w : w = Enter(session, "redeemed")
    OBVIOUS
<1>4. w = [session EXCEPT !.orders[r].phase = "redeemed"]
    BY <1>3 DEF Enter
<1>5. Save(Proved(w, ledger.book, "redeemed"))
    BY <1>3 DEF Redeem
<1> HIDE DEF r
<1>6. /\ w \in Session
      /\ w.orders[r].phase = "redeemed" /\ w.orders[r].credit = session.orders[r].credit
      /\ w.orders[r].refund = session.orders[r].refund
      /\ w.orders[r].reference = session.orders[r].reference
      /\ \A q \in Requests : q # r => w.orders[q] = session.orders[q]
      /\ w.funded = session.funded /\ w.opened = session.opened
      /\ w.outstanding = session.outstanding
      /\ w.repayments = session.repayments /\ w.ledger = session.ledger
    BY <1>1, <1>2, <1>4, Entered
<1>7. session.orders[r].credit = 0 /\ session.orders[r].refund = 0
      /\ session.orders[r].reference = None /\ session.ledger.notes[r] = "claimed"
      /\ locks(session.ledger.notes[r])
    BY <1>2 DEF OrderAgrees, ledger, locks
<1>8. OrderAgrees(w.orders[r], "redeemed", session.ledger.receipts)
    BY <1>6, <1>7 DEF OrderAgrees
<1>9. /\ w.outstanding = ledger.book /\ w.outstanding <= Limit
      /\ w.outstanding = session.outstanding + 0 - w.orders[r].credit
      /\ 0 \in {0, Price} /\ Price # 0
    BY <1>2, <1>6, <1>7, CheckoutAssumption
<1>10. "redeemed" \in Notes /\ "redeemed" # "none"
    BY DEF Notes
<1>11. Save(Proved(w, w.outstanding, "redeemed"))
    BY <1>5, <1>9
<1> QED
    BY <1>1, <1>6, <1>7, <1>8, <1>9, <1>10, <1>11, CircuitStep DEF r

\* What a compensation credits and refunds is the price, together.
LEMMA CreditParts ==
    ASSUME NEW n \in Nat
    PROVE  \E c \in 0 .. Price, refund \in 0 .. Price, left \in Nat :
              /\ c = IF n < Price THEN n ELSE Price
              /\ left = IF n < Price THEN 0 ELSE n - Price
              /\ n - c = left /\ Price - c = refund /\ c + refund = Price
              /\ (refund = 0) <=> ~(n < Price)
<1>1. CASE n < Price
    <2> n \in 0 .. Price /\ Price - n \in 0 .. Price
        BY <1>1, CheckoutAssumption
    <2> WITNESS n \in 0 .. Price, Price - n \in 0 .. Price, 0 \in Nat
    <2> QED
        BY <1>1, CheckoutAssumption
<1>2. CASE ~(n < Price)
    <2> Price \in 0 .. Price /\ 0 \in 0 .. Price /\ n - Price \in Nat
        BY <1>2, CheckoutAssumption
    <2> WITNESS Price \in 0 .. Price, 0 \in 0 .. Price, n - Price \in Nat
    <2> QED
        BY <1>2, CheckoutAssumption
<1> QED
    BY <1>1, <1>2

LEMMA CompensateStep ==
    ASSUME CheckoutInv, Compensate
    PROVE  CheckoutInv'
<1> DEFINE r == job.id
<1>1. AtPhase("authorized") /\ "authorized" \in Phases \ Terminal /\ "compensated" \in Phases
    BY DEF Compensate, Phases, Terminal
<1>2. /\ Runs /\ r \in Requests /\ session \in Session
      /\ session.orders[r] \in Order /\ session.orders[r].phase = "authorized"
      /\ OrderAgrees(session.orders[r], ledger.notes[r], ledger.receipts)
      /\ session.outstanding = ledger.book /\ session.outstanding \in Nat
      /\ session.outstanding <= Limit
    BY <1>1, PurchaseFacts
<1>3. PICK w : w = Enter(session, "compensated")
    OBVIOUS
<1>4. w = [session EXCEPT !.orders[r].phase = "compensated"]
    BY <1>3 DEF Enter
<1>5. PICK n \in Nat : n = session.outstanding
    BY <1>2
<1>6. PICK c \in 0 .. Price, refund \in 0 .. Price, left \in Nat :
          /\ c = IF n < Price THEN n ELSE Price
          /\ left = IF n < Price THEN 0 ELSE n - Price
          /\ n - c = left /\ Price - c = refund /\ c + refund = Price
          /\ (refund = 0) <=> ~(n < Price)
    BY CreditParts
<1>7. PICK v : v = [w EXCEPT !.outstanding = @ - credited,
                             !.orders[r].credit = credited,
                             !.orders[r].refund = Price - credited]
    OBVIOUS
<1>8. PICK note : note = compensatedNote
    OBVIOUS
<1>9. Save(Proved(v, debtAfterCredit, note))
    BY <1>3, <1>7, <1>8 DEF Compensate
<1> HIDE DEF r
<1>10. /\ w \in Session
       /\ w.orders[r].phase = "compensated" /\ w.orders[r].credit = session.orders[r].credit
       /\ w.orders[r].refund = session.orders[r].refund
       /\ w.orders[r].reference = session.orders[r].reference
       /\ \A q \in Requests : q # r => w.orders[q] = session.orders[q]
       /\ w.funded = session.funded /\ w.opened = session.opened
       /\ w.outstanding = session.outstanding
       /\ w.repayments = session.repayments /\ w.ledger = session.ledger
    BY <1>1, <1>2, <1>4, Entered
<1>11. w.orders \in [Requests -> Order] /\ w.orders[r] \in Order
    BY <1>2, <1>10, SessionFields
<1>12. PICK o : o = [w.orders[r] EXCEPT !.credit = c, !.refund = refund]
    OBVIOUS
<1>13. o = [phase |-> w.orders[r].phase, credit |-> c, refund |-> refund,
            reference |-> w.orders[r].reference]
    BY <1>11, <1>12 DEF Order
<1>14. o \in Order /\ o.phase = "compensated" /\ o.credit = c /\ o.refund = refund
       /\ o.reference = session.orders[r].reference
    BY <1>10, <1>11, <1>13 DEF Order
<1>15. PICK orders : orders = [w.orders EXCEPT ![r] = o]
    OBVIOUS
<1>16. /\ orders \in [Requests -> Order] /\ orders[r] = o
       /\ \A q \in Requests : q # r => orders[q] = session.orders[q]
    BY <1>2, <1>10, <1>11, <1>14, <1>15
<1>17. v = [w EXCEPT !.outstanding = left, !.orders[r].credit = c, !.orders[r].refund = refund]
    <2>1. credited = c
        BY <1>5, <1>6, CheckoutAssumption DEF credited
    <2>2. w.outstanding - credited = left
        BY <1>5, <1>6, <1>10, <2>1
    <2>3. Price - credited = refund
        BY <1>6, <2>1
    <2> QED
        BY <1>7, <2>1, <2>2, <2>3
<1>18. v = [funded |-> w.funded, opened |-> w.opened, outstanding |-> left,
            orders |-> orders, repayments |-> w.repayments, ledger |-> w.ledger]
    <2>1. orders = [w.orders EXCEPT ![r].credit = c, ![r].refund = refund]
        BY <1>11, <1>12, <1>15
    <2>2. w = [funded |-> w.funded, opened |-> w.opened, outstanding |-> w.outstanding,
               orders |-> w.orders, repayments |-> w.repayments, ledger |-> w.ledger]
        BY <1>10 DEF Session
    <2>3. PICK f, op, out, os, rep, l :
              w = [funded |-> f, opened |-> op, outstanding |-> out, orders |-> os,
                   repayments |-> rep, ledger |-> l]
        BY <2>2
    <2>4. v = [funded |-> f, opened |-> op, outstanding |-> left,
               orders |-> [os EXCEPT ![r].credit = c, ![r].refund = refund],
               repayments |-> rep, ledger |-> l]
        BY <1>17, <2>3
    <2>5. w.funded = f /\ w.opened = op /\ w.orders = os /\ w.repayments = rep /\ w.ledger = l
        BY <2>3
    <2> QED
        BY <2>1, <2>4, <2>5
<1>19. v \in Session
    BY <1>10, <1>16, <1>18, SessionFields DEF Session
<1>20. /\ v.orders = orders /\ v.outstanding = left /\ v.funded = session.funded
       /\ v.opened = session.opened /\ v.repayments = session.repayments
       /\ v.ledger = session.ledger
    BY <1>10, <1>18
<1>21. /\ session.orders[r].reference = None /\ session.ledger.notes[r] = "claimed"
       /\ locks(session.ledger.notes[r])
    BY <1>2 DEF OrderAgrees, ledger, locks
<1>22. note = (IF refund = 0 THEN "settled" ELSE "owed") /\ note \in Notes /\ note # "none"
    <2>1. refund = 0 <=> ~(ledger.book < Price)
        BY <1>2, <1>5, <1>6
    <2> QED
        BY <1>8, <2>1 DEF compensatedNote, Notes
<1>23. c + refund = Price
    BY <1>6
<1>24. OrderAgrees(v.orders[r], note, session.ledger.receipts)
    BY <1>14, <1>16, <1>20, <1>21, <1>22, <1>23 DEF OrderAgrees
<1>25. /\ Save(Proved(v, v.outstanding, note)) /\ v.outstanding <= Limit
       /\ v.outstanding = session.outstanding + 0 - v.orders[r].credit
       /\ 0 \in {0, Price} /\ Price # 0
    <2>1. debtAfterCredit = left
        BY <1>2, <1>5, <1>6 DEF debtAfterCredit
    <2>2. Save(Proved(v, v.outstanding, note))
        BY <1>9, <1>20, <2>1
    <2>3. v.orders[r].credit = c
        BY <1>14, <1>16, <1>20
    <2>4. left = n + 0 - c /\ left <= Limit
        BY <1>2, <1>5, <1>6, CheckoutAssumption
    <2> QED
        BY <1>5, <1>20, <2>2, <2>3, <2>4, CheckoutAssumption
<1> QED
    BY <1>1, <1>16, <1>19, <1>20, <1>21, <1>22, <1>24, <1>25, CircuitStep DEF r

-----------------------------------------------------------------------------
(***************************************************************************)
(* Repayments, refunds and the configuration                               *)
(***************************************************************************)
\* A session, taken apart.
LEMMA SessionParts ==
    ASSUME NEW s \in Session
    PROVE  s = [funded |-> s.funded, opened |-> s.opened, outstanding |-> s.outstanding,
                orders |-> s.orders, repayments |-> s.repayments,
                ledger |-> [funded |-> s.ledger.funded, book |-> s.ledger.book,
                            quotes |-> s.ledger.quotes, notes |-> s.ledger.notes,
                            receipts |-> s.ledger.receipts]]
<1>1. s.ledger = [funded |-> s.ledger.funded, book |-> s.ledger.book,
                  quotes |-> s.ledger.quotes, notes |-> s.ledger.notes,
                  receipts |-> s.ledger.receipts]
    BY SessionFields DEF LedgerState
<1>2. s = [funded |-> s.funded, opened |-> s.opened, outstanding |-> s.outstanding,
           orders |-> s.orders, repayments |-> s.repayments, ledger |-> s.ledger]
    BY DEF Session
<1> QED
    BY <1>1, <1>2

LEMMA RunFacts ==
    ASSUME CheckoutInv, NEW kind, Running(kind)
    PROVE  /\ Runs /\ job \in Job /\ JobOK(job) /\ job.kind = kind /\ job.amount \in 0 .. Price
           /\ session \in Session /\ Sound(session)
           /\ session.outstanding = session.ledger.book /\ session.outstanding <= Limit
<1>1. Runs /\ job.kind = kind
    BY DEF Running, Runs
<1>2. job \in Job /\ JobOK(job) /\ session \in Session /\ Sound(session)
    BY <1>1 DEF CheckoutInv, CheckoutTypeOK, Runs
<1> QED
    BY <1>1, <1>2 DEF Job, Sound

LEMMA AcknowledgeStep ==
    ASSUME CheckoutInv, Acknowledge
    PROVE  CheckoutInv'
<1> DEFINE p == job.reference
<1>1. /\ Runs /\ p \in References /\ session \in Session /\ Sound(session)
      /\ session.outstanding = session.ledger.book /\ session.outstanding <= Limit
      /\ job.amount \in 0 .. Price
    BY RunFacts DEF Acknowledge, JobOK
<1>2. /\ job.amount <= session.outstanding /\ session.repayments[p] = 0
    BY DEF Acknowledge, Unused
<1>3. PICK amount \in 0 .. Price, n \in Nat : amount = job.amount /\ n = session.outstanding
    BY <1>1, SessionFields
<1>4. PICK left \in Nat : left = n - amount /\ left <= Limit
    BY <1>1, <1>2, <1>3, CheckoutAssumption
<1>5. PICK u : u = [session EXCEPT !.outstanding = @ - job.amount,
                                   !.repayments[p] = job.amount,
                                   !.ledger.book = @ - job.amount,
                                   !.ledger.receipts = @ \cup {p}]
    OBVIOUS
<1>6. Save(u)
    BY <1>5 DEF Acknowledge, ledger
<1> HIDE DEF p
<1>7. PICK f, op, out, os, rep, lf, lb, lq, ln, lr :
          session = [funded |-> f, opened |-> op, outstanding |-> out,
                     orders |-> os, repayments |-> rep,
                     ledger |-> [funded |-> lf, book |-> lb, quotes |-> lq,
                                 notes |-> ln, receipts |-> lr]]
    BY <1>1, SessionParts
<1>8. /\ session.funded = f /\ session.opened = op /\ session.orders = os
      /\ session.repayments = rep /\ session.ledger.funded = lf /\ session.ledger.quotes = lq
      /\ session.ledger.notes = ln /\ session.ledger.receipts = lr
    BY <1>7
<1>9. PICK reps, receipts : reps = [rep EXCEPT ![p] = amount] /\ receipts = lr \cup {p}
    OBVIOUS
<1>10. u = [funded |-> f, opened |-> op, outstanding |-> left, orders |-> os,
            repayments |-> reps,
            ledger |-> [funded |-> lf, book |-> left, quotes |-> lq,
                        notes |-> ln, receipts |-> receipts]]
    <2>1. session.outstanding - job.amount = left /\ session.ledger.book - job.amount = left
        BY <1>1, <1>3, <1>4
    <2>2. u = [session EXCEPT !.outstanding = left, !.repayments[p] = amount,
                              !.ledger.book = left, !.ledger.receipts = lr \cup {p}]
        BY <1>3, <1>5, <1>8, <2>1
    <2> QED
        BY <1>7, <1>9, <2>2
<1>11. /\ rep \in [References -> 0 .. Price] /\ os \in [Requests -> Order] /\ f \in BOOLEAN
       /\ op \in BOOLEAN /\ lf \in BOOLEAN /\ lq \subseteq Requests
       /\ ln \in [Requests -> Notes] /\ lr \subseteq References
    BY <1>1, <1>8, SessionFields
<1>12. /\ reps \in [References -> 0 .. Price] /\ reps[p] = amount
       /\ \A q \in References : q # p => reps[q] = rep[q]
       /\ receipts \subseteq References
    BY <1>1, <1>9, <1>11
<1>13. u \in Session
    BY <1>10, <1>11, <1>12 DEF Session, LedgerState
<1>14. /\ u.repayments = reps /\ u.orders = session.orders /\ u.outstanding = left
       /\ u.ledger.notes = session.ledger.notes /\ u.ledger.book = left
       /\ u.ledger.receipts = session.ledger.receipts \cup {p}
       /\ u.funded = session.funded /\ u.opened = session.opened
       /\ u.ledger.funded = session.ledger.funded
    BY <1>8, <1>9, <1>10
<1>15. Balanced(u)
    <2>1. u.outstanding = session.outstanding - amount
        BY <1>3, <1>4, <1>14
    <2>2. \A q \in References : q # p => u.repayments[q] = session.repayments[q]
        BY <1>8, <1>12, <1>14
    <2> QED
        BY <1>1, <1>2, <1>12, <1>13, <1>14, <2>1, <2>2, RepaymentBalance DEF Sound
<1>16. ASSUME NEW r \in Requests
       PROVE  OrderAgrees(u.orders[r], u.ledger.notes[r], u.ledger.receipts)
    <2>1. OrderAgrees(session.orders[r], session.ledger.notes[r], session.ledger.receipts)
        BY <1>1 DEF Sound
    <2> QED
        BY <1>14, <2>1 DEF OrderAgrees
<1>17. Backed(u)
    BY <1>1, <1>13, <1>14, BackedKept DEF Sound
<1>18. Sound(u)
    BY <1>1, <1>4, <1>14, <1>15, <1>16, <1>17 DEF Sound
<1>19. Keeps(session, u)
    BY <1>2, <1>8, <1>12, <1>14 DEF Keeps
<1> QED
    BY <1>1, <1>6, <1>13, <1>18, <1>19, SaveStep

LEMMA ReportRefundStep ==
    ASSUME CheckoutInv, ReportRefund
    PROVE  CheckoutInv'
<1> DEFINE r == job.id  p == job.reference
<1>1. /\ Runs /\ r \in Requests /\ p \in References /\ session \in Session /\ Sound(session)
      /\ session.outstanding = session.ledger.book /\ session.outstanding <= Limit
    BY RunFacts DEF ReportRefund, JobOK
<1>2. /\ session.orders[r] \in Order
      /\ OrderAgrees(session.orders[r], session.ledger.notes[r], session.ledger.receipts)
      /\ session.orders[r].refund > 0 /\ session.orders[r].reference = None
      /\ session.ledger.notes[r] = "owed"
    BY <1>1, SessionFields DEF ReportRefund, order, ledger, Sound
<1>3. session.orders[r].refund # 0 /\ session.orders[r].phase = "compensated" /\ p # None
    BY <1>1, <1>2, CheckoutAssumption DEF OrderAgrees, Order
<1>4. PICK u : u = [session EXCEPT !.orders[r].reference = p, !.ledger.notes[r] = "reported",
                                   !.ledger.receipts = @ \cup {p}]
    OBVIOUS
<1>5. Save(u)
    BY <1>4 DEF ReportRefund, ledger
<1> HIDE DEF r, p
<1>6. PICK f, op, out, os, rep, lf, lb, lq, ln, lr :
          session = [funded |-> f, opened |-> op, outstanding |-> out,
                     orders |-> os, repayments |-> rep,
                     ledger |-> [funded |-> lf, book |-> lb, quotes |-> lq,
                                 notes |-> ln, receipts |-> lr]]
    BY <1>1, SessionParts
<1>7. /\ session.funded = f /\ session.opened = op /\ session.orders = os
      /\ session.outstanding = out /\ session.ledger.book = lb
      /\ session.repayments = rep /\ session.ledger.funded = lf /\ session.ledger.quotes = lq
      /\ session.ledger.notes = ln /\ session.ledger.receipts = lr
    BY <1>6
<1>8. PICK o : o = [os[r] EXCEPT !.reference = p]
    OBVIOUS
<1>9. PICK orders, notes, receipts :
          /\ orders = [os EXCEPT ![r] = o]
          /\ notes = [ln EXCEPT ![r] = "reported"]
          /\ receipts = lr \cup {p}
    OBVIOUS
<1>10. u = [funded |-> f, opened |-> op, outstanding |-> out, orders |-> orders,
            repayments |-> rep,
            ledger |-> [funded |-> lf, book |-> lb, quotes |-> lq,
                        notes |-> notes, receipts |-> receipts]]
    BY <1>4, <1>6, <1>8, <1>9
<1>11. /\ rep \in [References -> 0 .. Price] /\ os \in [Requests -> Order] /\ f \in BOOLEAN
       /\ op \in BOOLEAN /\ lf \in BOOLEAN /\ lq \subseteq Requests
       /\ ln \in [Requests -> Notes] /\ lr \subseteq References /\ out \in Nat /\ lb \in Nat
    BY <1>1, <1>7, SessionFields
<1>12. /\ o \in Order /\ o.phase = "compensated" /\ o.reference = p
       /\ o.credit = session.orders[r].credit /\ o.refund = session.orders[r].refund
    BY <1>1, <1>2, <1>3, <1>7, <1>8 DEF Order, MaybeReference
<1>13. /\ orders \in [Requests -> Order] /\ orders[r] = o
       /\ \A q \in Requests : q # r => orders[q] = os[q]
       /\ notes \in [Requests -> Notes] /\ notes[r] = "reported"
       /\ \A q \in Requests : q # r => notes[q] = ln[q]
       /\ receipts \subseteq References
    BY <1>1, <1>9, <1>11, <1>12 DEF Notes
<1>14. u \in Session
    BY <1>10, <1>11, <1>13 DEF Session, LedgerState
<1>15. /\ u.funded = session.funded /\ u.ledger.funded = session.ledger.funded
       /\ u.opened = session.opened /\ u.repayments = session.repayments
       /\ session.ledger.receipts \subseteq u.ledger.receipts
       /\ \A q \in Requests : q # r => /\ u.orders[q] = session.orders[q]
                                      /\ u.ledger.notes[q] = session.ledger.notes[q]
       /\ u.outstanding = u.ledger.book /\ u.outstanding <= Limit
       /\ u.outstanding = session.outstanding
       /\ u.orders[r] = o /\ u.ledger.notes[r] = "reported" /\ p \in u.ledger.receipts
    BY <1>1, <1>7, <1>9, <1>10, <1>13
<1>16. OrderAgrees(u.orders[r], u.ledger.notes[r], u.ledger.receipts)
    BY <1>2, <1>3, <1>12, <1>15 DEF OrderAgrees
<1>17. /\ u.outstanding = session.outstanding + 0 + session.orders[r].credit
                          - u.orders[r].credit
       /\ 0 \in {0, Price} /\ Price # 0
    BY <1>2, <1>11, <1>7, <1>12, <1>15, CheckoutAssumption DEF Order
<1>18. /\ u.orders[r].phase = session.orders[r].phase
       /\ u.ledger.notes[r] # "none" /\ session.ledger.notes[r] # "none"
       /\ locks(session.ledger.notes[r])
    BY <1>2, <1>3, <1>12, <1>15 DEF locks
<1> QED
    BY <1>1, <1>2, <1>5, <1>14, <1>15, <1>16, <1>17, <1>18, OrderStep

LEMMA ConfigureStep ==
    ASSUME CheckoutInv, Fund \/ Open
    PROVE  CheckoutInv'
<1>1. /\ Runs /\ session \in Session /\ Sound(session)
    BY RunFacts DEF Fund, Open
<1>2. PICK u : /\ Save(u)
              /\ \/ u = [session EXCEPT !.funded = TRUE, !.ledger.funded = TRUE]
                 \/ u = [session EXCEPT !.opened = TRUE]
    BY DEF Fund, Open
<1>3. PICK f, op, out, os, rep, lf, lb, lq, ln, lr :
          session = [funded |-> f, opened |-> op, outstanding |-> out,
                     orders |-> os, repayments |-> rep,
                     ledger |-> [funded |-> lf, book |-> lb, quotes |-> lq,
                                 notes |-> ln, receipts |-> lr]]
    BY <1>1, SessionParts
<1>4. /\ session.funded = f /\ session.opened = op /\ session.orders = os
      /\ session.outstanding = out /\ session.ledger.book = lb
      /\ session.repayments = rep /\ session.ledger.funded = lf /\ session.ledger.quotes = lq
      /\ session.ledger.notes = ln /\ session.ledger.receipts = lr
    BY <1>3
<1>5. /\ rep \in [References -> 0 .. Price] /\ os \in [Requests -> Order] /\ f \in BOOLEAN
      /\ op \in BOOLEAN /\ lf \in BOOLEAN /\ lq \subseteq Requests
      /\ ln \in [Requests -> Notes] /\ lr \subseteq References /\ out \in Nat /\ lb \in Nat
    BY <1>1, <1>4, SessionFields
<1>6. PICK f2 \in BOOLEAN, op2 \in BOOLEAN, lf2 \in BOOLEAN :
          /\ u = [funded |-> f2, opened |-> op2, outstanding |-> out,
                  orders |-> os, repayments |-> rep,
                  ledger |-> [funded |-> lf2, book |-> lb, quotes |-> lq,
                              notes |-> ln, receipts |-> lr]]
          /\ (op => op2) /\ (lf => lf2)
          /\ lf2 = f2 \/ (lf2 = lf /\ f2 = f)
    <2>1. CASE u = [session EXCEPT !.funded = TRUE, !.ledger.funded = TRUE]
        <3>1. u = [funded |-> TRUE, opened |-> op, outstanding |-> out,
                   orders |-> os, repayments |-> rep,
                   ledger |-> [funded |-> TRUE, book |-> lb, quotes |-> lq,
                               notes |-> ln, receipts |-> lr]]
            BY <1>3, <2>1
        <3> QED
            BY <1>5, <3>1
    <2>2. CASE u = [session EXCEPT !.opened = TRUE]
        <3>1. u = [funded |-> f, opened |-> TRUE, outstanding |-> out,
                   orders |-> os, repayments |-> rep,
                   ledger |-> [funded |-> lf, book |-> lb, quotes |-> lq,
                               notes |-> ln, receipts |-> lr]]
            BY <1>3, <2>2
        <3> QED
            BY <1>5, <3>1
    <2> QED
        BY <1>2, <2>1, <2>2
<1>7. u \in Session
    BY <1>5, <1>6 DEF Session, LedgerState
<1>8. /\ u.orders = session.orders /\ u.repayments = session.repayments
      /\ u.outstanding = session.outstanding /\ u.ledger.book = session.ledger.book
      /\ u.ledger.notes = session.ledger.notes /\ u.ledger.receipts = session.ledger.receipts
    BY <1>4, <1>6
<1>9. u.ledger.funded = u.funded
    <2>1. lf = f
        BY <1>1, <1>4 DEF Sound
    <2>2. u.ledger.funded = lf2 /\ u.funded = f2
        BY <1>6
    <2> QED
        BY <1>6, <2>1, <2>2
<1>10. session.opened => u.opened
    <2>1. u.opened = op2
        BY <1>6
    <2> QED
        BY <1>4, <1>6, <2>1
<1>11. Backed(u)
    <2>1. session.ledger.funded => u.ledger.funded
        BY <1>4, <1>6
    <2> QED
        BY <1>1, <1>7, <1>8, <2>1, BackedKept DEF Sound
<1>12. Sound(u)
    BY <1>1, <1>8, <1>9, <1>11 DEF Sound, Balanced, Claims, Credits, Repaid
<1>13. Keeps(session, u)
    BY <1>8, <1>10 DEF Keeps
<1> QED
    BY <1>1, <1>2, <1>7, <1>12, <1>13, SaveStep

-----------------------------------------------------------------------------
(***************************************************************************)
(* Answers, the checkpoint and the server                                  *)
(***************************************************************************)
LEMMA JobsAreJobs ==
    ASSUME NEW j \in Jobs, NEW run,
           run = [step |-> "running", kind |-> j.kind, id |-> j.id,
                  amount |-> j.amount, reference |-> j.reference]
    PROVE  run \in Job /\ JobOK(run) /\ run.step = "running" /\ run # None
<1>1. /\ j.kind \in {"configure", "purchase", "acknowledge", "report"}
      /\ j.id \in Requests \cup {None} /\ j.amount \in 0 .. Price
      /\ j.reference \in References \cup {None}
      /\ j.kind \in {"purchase", "report"} => j.id \in Requests
      /\ j.kind \in {"acknowledge", "report"} => j.reference \in References
    BY CheckoutAssumption DEF Jobs
<1>2. run \in Job
    BY <1>1 DEF Job
<1> QED
    BY <1>1, <1>2, NoneIsNoJob DEF JobOK

\* A session with answers still unsaved has none for its callers.
LEMMA ReplyStep ==
    ASSUME CheckoutInv, Reply
    PROVE  CheckoutInv'
<1>1. /\ Runs /\ job \in Job /\ JobOK(job) /\ session \in Session /\ answered \in Answers
      /\ Agrees(session) /\ (disk # None => disk = session)
    BY DEF Reply, Runs, CheckoutInv, CheckoutTypeOK, AnswersSurvive, FileUpToDate
<1>2. /\ UNCHANGED <<session, disk, waiting, health>> /\ job' = None
    BY DEF Reply, server
<1>3. answered' \in Answers /\ Agrees(session)'
    <2>1. CASE job.kind = "configure"
        <3>1. session.opened /\ answered' = [answered EXCEPT !.opened = TRUE]
            BY <2>1 DEF Reply, Finished, Told
        <3> QED
            BY <1>1, <1>2, <3>1 DEF Answers, Agrees
    <2>2. CASE job.kind = "purchase"
        <3>1. /\ session.orders[job.id].phase \in Terminal /\ job.id \in Requests
              /\ answered' = [answered EXCEPT !.orders[job.id] = session.orders[job.id].phase]
            BY <1>1, <2>2 DEF Reply, Finished, Told, order, JobOK
        <3>2. PICK orders : orders = [answered.orders EXCEPT ![job.id] = session.orders[job.id].phase]
            OBVIOUS
        <3>3. answered' = [answered EXCEPT !.orders = orders]
            BY <3>1, <3>2
        <3>4. /\ orders \in [Requests -> {"none"} \cup Terminal]
              /\ orders[job.id] = session.orders[job.id].phase
              /\ \A r \in Requests : r # job.id => orders[r] = answered.orders[r]
            BY <1>1, <3>1, <3>2 DEF Answers
        <3>5. /\ answered' \in Answers /\ answered'.orders = orders
              /\ answered'.repayments = answered.repayments
              /\ answered'.refunds = answered.refunds /\ answered'.opened = answered.opened
            BY <1>1, <3>3, <3>4 DEF Answers
        <3> QED
            BY <1>1, <1>2, <3>4, <3>5 DEF Agrees
    <2>3. CASE job.kind = "acknowledge"
        <3>1. /\ session.repayments[job.reference] = job.amount /\ job.reference \in References
              /\ answered' = [answered EXCEPT !.repayments[job.reference] = job.amount]
            BY <1>1, <2>3 DEF Reply, Finished, Told, JobOK
        <3>2. PICK reps : reps = [answered.repayments EXCEPT ![job.reference] = job.amount]
            OBVIOUS
        <3>3. answered' = [answered EXCEPT !.repayments = reps]
            BY <3>1, <3>2
        <3>4. /\ reps \in [References -> 0 .. Price] /\ reps[job.reference] = job.amount
              /\ \A p \in References : p # job.reference => reps[p] = answered.repayments[p]
            BY <1>1, <3>1, <3>2 DEF Answers, Job
        <3>5. /\ answered' \in Answers /\ answered'.orders = answered.orders
              /\ answered'.repayments = reps
              /\ answered'.refunds = answered.refunds /\ answered'.opened = answered.opened
            BY <1>1, <3>3, <3>4 DEF Answers
        <3> QED
            BY <1>1, <1>2, <3>1, <3>4, <3>5 DEF Agrees
    <2>4. CASE job.kind = "report"
        <3>1. /\ session.orders[job.id].reference = job.reference /\ job.id \in Requests
              /\ job.reference \in MaybeReference
              /\ answered' = [answered EXCEPT !.refunds[job.id] = job.reference]
            BY <1>1, <2>4 DEF Reply, Finished, Told, order, JobOK, MaybeReference
        <3>2. PICK refunds : refunds = [answered.refunds EXCEPT ![job.id] = job.reference]
            OBVIOUS
        <3>3. answered' = [answered EXCEPT !.refunds = refunds]
            BY <3>1, <3>2
        <3>4. /\ refunds \in [Requests -> MaybeReference] /\ refunds[job.id] = job.reference
              /\ \A r \in Requests : r # job.id => refunds[r] = answered.refunds[r]
            BY <1>1, <3>1, <3>2 DEF Answers
        <3>5. /\ answered' \in Answers /\ answered'.orders = answered.orders
              /\ answered'.repayments = answered.repayments
              /\ answered'.refunds = refunds /\ answered'.opened = answered.opened
            BY <1>1, <3>3, <3>4 DEF Answers
        <3> QED
            BY <1>1, <1>2, <3>1, <3>4, <3>5 DEF Agrees
    <2> QED
        BY <1>1, <2>1, <2>2, <2>3, <2>4 DEF Job
<1>4. CheckoutTypeOK'
    BY <1>2, <1>3 DEF CheckoutInv, CheckoutTypeOK
<1>5. AnswersSurvive'
    BY <1>1, <1>2, <1>3 DEF AnswersSurvive, Agrees
<1>6. Sound(session)' /\ (disk' # None => Sound(disk)') /\ FileUpToDate'
    BY <1>1, <1>2 DEF CheckoutInv, Sound, Balanced, Claims, Credits, Repaid,
                      Backed, lockedBy, totalReserve, FileUpToDate
<1> QED
    BY <1>4, <1>5, <1>6 DEF CheckoutInv

\* A session of which neither the memory nor the file changes.
LEMMA IdleStep ==
    ASSUME CheckoutInv, UNCHANGED <<session, answered>>, disk' = disk \/ disk' = None,
           job' = None, waiting' \subseteq Jobs,
           health' = health \/ health' = "failed", health' \in {"up", "failed", "down"},
           health' = "up" => Runs \/ job = None
    PROVE  CheckoutInv'
<1>1. CheckoutTypeOK'
    BY DEF CheckoutInv, CheckoutTypeOK
<1>2. Sound(session)' /\ (disk' # None => Sound(disk)')
    BY DEF CheckoutInv, Sound, Balanced, Claims, Credits, Repaid,
           Backed, lockedBy, totalReserve
<1>3. AnswersSurvive'
    BY DEF CheckoutInv, AnswersSurvive, Agrees
<1>4. FileUpToDate'
    BY DEF CheckoutInv, FileUpToDate, Runs
<1> QED
    BY <1>1, <1>2, <1>3, <1>4 DEF CheckoutInv

\* Memory, job and file unchanged, or the file gone.
LEMMA SameStep ==
    ASSUME CheckoutInv, UNCHANGED <<session, answered, job, health>>,
           disk' = disk \/ disk' = None, waiting' \subseteq Jobs
    PROVE  CheckoutInv'
<1>1. CheckoutTypeOK'
    BY DEF CheckoutInv, CheckoutTypeOK, JobOK
<1>2. Sound(session)' /\ (disk' # None => Sound(disk)')
    BY DEF CheckoutInv, Sound, Balanced, Claims, Credits, Repaid,
           Backed, lockedBy, totalReserve
<1>3. AnswersSurvive'
    BY DEF CheckoutInv, AnswersSurvive, Agrees
<1>4. FileUpToDate'
    BY DEF CheckoutInv, FileUpToDate
<1> QED
    BY <1>1, <1>2, <1>3, <1>4 DEF CheckoutInv

LEMMA CheckpointedStep ==
    ASSUME CheckoutInv, Checkpointed
    PROVE  CheckoutInv'
<1>1. /\ UNCHANGED <<session, waiting, health, answered>> /\ disk' = session
      /\ health = "up" /\ job # None /\ job \in Job /\ JobOK(job)
      /\ job' = [job EXCEPT !.step = "running"]
    BY DEF Checkpointed, Saving, server, CheckoutInv, CheckoutTypeOK
<1>2. job' \in Job /\ JobOK(job') /\ job' # None
    BY <1>1, NoneIsNoJob DEF Job, JobOK
<1>3. session \in Session /\ Sound(session) /\ Agrees(session)
    BY <1>1 DEF CheckoutInv, CheckoutTypeOK, AnswersSurvive
<1>4. CheckoutTypeOK'
    BY <1>1, <1>2, <1>3 DEF CheckoutInv, CheckoutTypeOK, JobOK
<1>5. Sound(session)' /\ Sound(disk)' /\ Agrees(session)' /\ Agrees(disk)'
    BY <1>1, <1>3 DEF Sound, Balanced, Claims, Credits, Repaid,
                      Backed, lockedBy, totalReserve, Agrees
<1> QED
    BY <1>1, <1>4, <1>5 DEF CheckoutInv, AnswersSurvive, FileUpToDate

\* A save that fails, before or after the rename, leaves a file that holds
\* every answer.
LEMMA CheckpointFailsStep ==
    ASSUME CheckoutInv, CheckpointFails
    PROVE  CheckoutInv'
<1>1. /\ UNCHANGED <<session, waiting, answered>> /\ disk' \in {disk, session}
      /\ health = "up" /\ health' = "failed" /\ job' = None
    BY DEF CheckpointFails
<1>2. session \in Session /\ Sound(session) /\ Agrees(session)
    BY <1>1 DEF CheckoutInv, CheckoutTypeOK, AnswersSurvive
<1>3. CheckoutTypeOK'
    BY <1>1, <1>2 DEF CheckoutInv, CheckoutTypeOK
<1>4. disk # None => Sound(disk) /\ Agrees(disk)
    BY DEF CheckoutInv, AnswersSurvive
<1>5. Sound(session)' /\ (disk' # None => Sound(disk)' /\ Agrees(disk)')
    <2>1. Sound(session)'
        BY <1>1, <1>2 DEF Sound, Balanced, Claims, Credits, Repaid,
                          Backed, lockedBy, totalReserve
    <2>2. CASE disk' = disk
        BY <1>1, <1>4, <2>1, <2>2 DEF Sound, Balanced, Claims, Credits, Repaid,
                                       Backed, lockedBy, totalReserve, Agrees
    <2>3. CASE disk' = session
        BY <1>1, <1>2, <2>1, <2>3 DEF Sound, Balanced, Claims, Credits, Repaid,
                                      Backed, lockedBy, totalReserve, Agrees
    <2> QED
        BY <1>1, <2>1, <2>2, <2>3
<1> QED
    BY <1>1, <1>3, <1>5 DEF CheckoutInv, AnswersSurvive, FileUpToDate

\* A crash loses the memory; the file holds every answer.
LEMMA CrashStep ==
    ASSUME CheckoutInv, Crash
    PROVE  CheckoutInv'
<1>1. /\ UNCHANGED answered /\ (disk' = disk \/ (Saving /\ disk' = session))
      /\ session' = Blank /\ health' = "down" /\ job' = None /\ waiting' = {}
    BY DEF Crash
<1>2. Saving => session \in Session /\ Sound(session) /\ Agrees(session)
    BY DEF CheckoutInv, CheckoutTypeOK, AnswersSurvive, Saving
<1>3. CheckoutTypeOK'
    BY <1>1, <1>2, BlankSound DEF CheckoutInv, CheckoutTypeOK
<1>4. disk # None => Sound(disk) /\ Agrees(disk)
    BY DEF CheckoutInv, AnswersSurvive
<1>5. disk' # None => Sound(disk)' /\ Agrees(disk)'
    <2>1. CASE disk' = disk
        BY <1>1, <1>4, <2>1 DEF Sound, Balanced, Claims, Credits, Repaid,
                                 Backed, lockedBy, totalReserve, Agrees
    <2>2. CASE Saving /\ disk' = session
        BY <1>1, <1>2, <2>2 DEF Sound, Balanced, Claims, Credits, Repaid,
                                Backed, lockedBy, totalReserve, Agrees
    <2> QED
        BY <1>1, <2>1, <2>2
<1>6. Sound(session)'
    BY <1>1, BlankSound DEF Sound, Balanced, Claims, Credits, Repaid,
                            Backed, lockedBy, totalReserve
<1> QED
    BY <1>1, <1>3, <1>5, <1>6 DEF CheckoutInv, AnswersSurvive, FileUpToDate

LEMMA RecoverStep ==
    ASSUME CheckoutInv, Recover
    PROVE  CheckoutInv'
<1>1. /\ UNCHANGED <<disk, job, waiting, answered>> /\ session' = disk /\ disk # None
      /\ health = "down" /\ health' = "up" /\ job = None
    BY DEF Recover, CheckoutInv, CheckoutTypeOK
<1>2. disk \in Session /\ Sound(disk) /\ Agrees(disk)
    BY <1>1 DEF CheckoutInv, CheckoutTypeOK, AnswersSurvive
<1>3. CheckoutTypeOK'
    BY <1>1, <1>2 DEF CheckoutInv, CheckoutTypeOK
<1>4. Sound(session)' /\ Sound(disk)' /\ Agrees(session)' /\ Agrees(disk)'
    BY <1>1, <1>2 DEF Sound, Balanced, Claims, Credits, Repaid,
                      Backed, lockedBy, totalReserve, Agrees
<1> QED
    BY <1>1, <1>3, <1>4 DEF CheckoutInv, AnswersSurvive, FileUpToDate

LEMMA QueueStep ==
    ASSUME CheckoutInv, NEW j \in Jobs, Queue(j)
    PROVE  CheckoutInv'
<1>1. /\ UNCHANGED <<session, disk, health, answered>> /\ waiting' \subseteq Jobs
      /\ health = "up" /\ job = None
      /\ job' = [step |-> "running", kind |-> j.kind, id |-> j.id,
                 amount |-> j.amount, reference |-> j.reference]
    BY DEF Queue, Idle, server, CheckoutInv, CheckoutTypeOK
<1>2. job' \in Job /\ JobOK(job') /\ job'.step = "running" /\ job' # None
    BY <1>1, JobsAreJobs
<1>3. CheckoutTypeOK'
    BY <1>1, <1>2 DEF CheckoutInv, CheckoutTypeOK, JobOK
<1>4. Sound(session)' /\ (disk' # None => Sound(disk)') /\ AnswersSurvive'
    BY <1>1 DEF CheckoutInv, Sound, Balanced, Claims, Credits, Repaid,
                Backed, lockedBy, totalReserve, AnswersSurvive, Agrees
<1>5. FileUpToDate'
    BY <1>1 DEF CheckoutInv, FileUpToDate
<1> QED
    BY <1>3, <1>4, <1>5 DEF CheckoutInv

-----------------------------------------------------------------------------
(***************************************************************************)
(* Every step                                                              *)
(***************************************************************************)
LEMMA CheckoutNext == CheckoutInv /\ [Next]_vars => CheckoutInv'
<1> SUFFICES ASSUME CheckoutInv, [Next]_vars PROVE CheckoutInv'
    OBVIOUS
<1>1. waiting \subseteq Jobs /\ health \in {"up", "failed", "down"}
      /\ (health # "up" => job = None)
    BY DEF CheckoutInv, CheckoutTypeOK
<1>2. CASE Fund \/ Open
    BY <1>2, ConfigureStep
<1>3. CASE Intend \/ ExpireQuote \/ Decline \/ Deliver
    BY <1>3, IntentionStep
<1>4. CASE PostQuote
    BY <1>4, PostQuoteStep
<1>5. CASE Draw
    BY <1>5, DrawStep
<1>6. CASE Compensate
    BY <1>6, CompensateStep
<1>7. CASE Redeem
    BY <1>7, RedeemStep
<1>8. CASE Acknowledge
    BY <1>8, AcknowledgeStep
<1>9. CASE ReportRefund
    BY <1>9, ReportRefundStep
<1>10. CASE Reply
    BY <1>10, ReplyStep
<1>11. CASE Refuse
    BY <1>1, <1>11, IdleStep DEF Refuse, server, Runs
<1>12. CASE Checkpointed
    BY <1>12, CheckpointedStep
<1>13. CASE CheckpointFails
    BY <1>13, CheckpointFailsStep
<1>14. CASE Crash
    BY <1>14, CrashStep
<1>15. CASE Recover
    BY <1>15, RecoverStep
<1>16. ASSUME NEW j \in Jobs, Arrive(j) \/ Queue(j) \/ Unavailable(j)
       PROVE  CheckoutInv'
    <2>1. CASE Queue(j)
        BY <2>1, QueueStep
    <2>2. CASE Arrive(j) \/ Unavailable(j)
        BY <1>1, <2>2, SameStep DEF Arrive, Unavailable, server
    <2> QED
        BY <1>16, <2>1, <2>2
<1>17. CASE Sweep \/ RemoveFile \/ Age
    BY <1>1, <1>17, SameStep DEF Sweep, RemoveFile, Age, server
<1>18. ASSUME NEW r \in Requests, Expire(r)
       PROVE  CheckoutInv'
    BY <1>1, <1>18, SameStep DEF Expire, server
<1>19. CASE UNCHANGED vars
    BY <1>1, <1>19, SameStep DEF vars, server, clock
<1> QED
    BY <1>2, <1>3, <1>4, <1>5, <1>6, <1>7, <1>8, <1>9, <1>10, <1>11, <1>12, <1>13, <1>14,
       <1>15, <1>16, <1>17, <1>18, <1>19 DEF Next

LEMMA CheckoutSafety == Spec => []CheckoutInv
<1> QED
    BY CheckoutInit, CheckoutNext, PTL DEF Spec

-----------------------------------------------------------------------------
(***************************************************************************)
(* Theorems                                                                *)
(***************************************************************************)
\* What a caller was told is in the file and in every process that recovers it
\* (checkpoint of checkout-engine.ts): no crash takes an answer back.
THEOREM AnswersAreKept == Spec => []AnswersSurvive
<1>1. CheckoutInv => AnswersSurvive
    BY DEF CheckoutInv
<1> QED
    BY <1>1, CheckoutSafety, PTL

\* Every file a crash or a failed save leaves passes the validation of recover,
\* in the middle of a purchase too: no file stops the start of the server.
THEOREM FilesRecover == Spec => []CheckpointsRecover
<1>1. CheckoutInv => CheckpointsRecover
    BY SoundRecovers DEF CheckoutInv, CheckoutTypeOK, CheckpointsRecover
<1> QED
    BY <1>1, CheckoutSafety, PTL

\* The book is every claim charged once, less the credits and the repayments,
\* each taken off once (purchase, resume, acknowledge), and within the limit.
THEOREM BookIsCharges == Spec => []ChargedAndCreditedOnce
<1>1. CheckoutInv => ChargedAndCreditedOnce
    <2> SUFFICES ASSUME CheckoutInv PROVE ChargedAndCreditedOnce
        OBVIOUS
    <2>1. session \in Session /\ Sound(session)
        BY DEF CheckoutInv, CheckoutTypeOK
    <2>2. session.outstanding \in Nat /\ session.outstanding <= Limit /\ Limit \in Nat
        BY <2>1, SessionFields, CheckoutAssumption DEF Sound
    <2>3. session.outstanding \in 0 .. Limit
        BY <2>2
    <2> QED
        BY <2>1, <2>3 DEF Sound, Balanced, Claims, Credits, Repaid, ChargedAndCreditedOnce,
                          ledger
<1> QED
    BY <1>1, CheckoutSafety, PTL
=============================================================================
