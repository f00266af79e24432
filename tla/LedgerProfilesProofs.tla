------------------------ MODULE LedgerProfilesProofs ------------------------
(***************************************************************************)
(* What TLAPS proves about the two other ledgers, for every value of the   *)
(* constants.  Of the organization profile: its tokens back every claim,   *)
(* its merchants hold what they redeemed, no claim of it waits, and it     *)
(* implements the escrow whose refunds are in kind.  Of the private        *)
(* facility, for any number of borrowers, books, quotes and claims: a      *)
(* borrower has one book to spend from, it carries all its debt, and       *)
(* behind its commitments the reserve is the escrow of ClaimEscrow.        *)
(***************************************************************************)
EXTENDS LedgerProfiles, LineContractProofs

-----------------------------------------------------------------------------
(* The organization profile: its steps *)

\* The steps that touch no claim, no counter and no token.
Administrative ==
    /\ [Next]_vars
    /\ UNCHANGED <<counters, notes, assets>>
    /\ DOMAIN registeredMerchants' = DOMAIN registeredMerchants

LEMMA AdministrativeSteps ==
    ASSUME TypeOK, UNCHANGED assets,
           \/ Tick \/ UNCHANGED vars
           \/ \E caller \in Principals :
                \/ \E m \in Merchants : disableMerchant(caller, m)
                \/ \E agent \in Agents, limit \in Limits, expiry \in Times,
                      flat \in FlatFees, bps \in Rates :
                      openLine(caller, agent, limit, expiry, flat, bps)
                \/ \E next \in Status, book \in HeldBooks : setStatus(caller, next, book)
                \/ \E invoice \in Invoices, amount \in Prices, expiry \in Times :
                      postQuote(caller, invoice, amount, expiry)
    PROVE  Administrative
<1>1. CASE Tick \/ UNCHANGED vars
    BY <1>1 DEF Administrative, Tick, vars, Next
<1>2. ASSUME NEW caller \in Principals, NEW m \in Merchants, disableMerchant(caller, m)
      PROVE  Administrative
    <2>1. DOMAIN registeredMerchants' = DOMAIN registeredMerchants
        BY <1>2 DEF disableMerchant, Insert
    <2> QED
        BY <1>2, <2>1 DEF Administrative, disableMerchant, Next
<1>3. ASSUME NEW caller \in Principals, NEW agent \in Agents, NEW limit \in Limits,
             NEW expiry \in Times, NEW flat \in FlatFees, NEW bps \in Rates,
             openLine(caller, agent, limit, expiry, flat, bps)
      PROVE  Administrative
    <2>1. UNCHANGED <<counters, notes, registeredMerchants>>
        BY <1>3 DEF openLine
    <2> QED
        BY <1>3, <2>1 DEF Administrative, Next
<1>4. ASSUME NEW caller \in Principals, NEW next \in Status, NEW book \in HeldBooks,
             setStatus(caller, next, book)
      PROVE  Administrative
    <2>1. UNCHANGED <<counters, notes, registeredMerchants>>
        BY <1>4 DEF setStatus
    <2> QED
        BY <1>4, <2>1 DEF Administrative, Next
<1>5. ASSUME NEW caller \in Principals, NEW invoice \in Invoices, NEW amount \in Prices,
             NEW expiry \in Times, postQuote(caller, invoice, amount, expiry)
      PROVE  Administrative
    <2>1. UNCHANGED <<counters, notes, registeredMerchants>>
        BY <1>5 DEF postQuote
    <2> QED
        BY <1>5, <2>1 DEF Administrative, Next
<1> QED
    BY <1>1, <1>2, <1>3, <1>4, <1>5

\* The bounds of a refund and of a repayment are those of a Uint<64>.
LEMMA InputBounds ==
    ASSUME TypeOK
    PROVE  /\ \A D \in DOMAIN notes : cost(notes[D]) \in Uint64 =>
                  0..cost(notes[D]) \subseteq Uint64
           /\ \A book \in HeldBooks : 0..book.outstanding \subseteq Uint64
<1>1. \A v \in Uint64 : 0..v \subseteq Uint64
    BY Bounds
<1>2. \A book \in HeldBooks : book.outstanding \in Uint64
    BY HeldBookType DEF TypeOK, Books
<1> QED
    BY <1>1, <1>2

\* Every step, by what it does to the claims and the tokens.
LEMMA OrgStepCases ==
    ASSUME TypeOK, [orgNext]_orgVars
    PROVE  \/ Administrative
           \/ \E caller \in Principals, m \in Merchants, r \in Recipients :
                 orgRegisterMerchant(caller, m, r)
           \/ \E caller \in Principals, a \in Deposits :
                 orgFundReserve(caller, a) \/ orgWithdrawUnencumberedReserve(caller, a)
           \/ \E caller \in Principals : orgWithdrawFees(caller)
           \/ \E agent \in Agents, book \in HeldBooks, Q \in DOMAIN quotes,
                 fee \in Uint64 : orgDraw(agent, book, Q, fee)
           \/ \E D \in DOMAIN notes :
                \/ \E caller \in Principals : orgRedeemDraw(caller, D)
                \/ expireNote(D) /\ UNCHANGED assets
                \/ \E caller \in Principals, book \in HeldBooks :
                      allocateCompensation(caller, D, book) /\ UNCHANGED assets
                \/ \E caller \in Principals, amount \in Uint64,
                      payRef \in Payments \cup {Empty}, receiptExpiry \in Times :
                      orgRefund(caller, D, amount, payRef, receiptExpiry)
           \/ \E caller \in Principals, book \in HeldBooks, amount \in Uint64,
                 payRef \in Payments \cup {Empty}, receiptExpiry \in Times :
                 orgAcknowledgeRepayment(caller, book, amount, payRef, receiptExpiry)
<1> DEFINE Redeems == \E D \in DOMAIN notes, caller \in Principals : orgRedeemDraw(caller, D)
           Expires == \E D \in DOMAIN notes : expireNote(D) /\ UNCHANGED assets
           Compensates == \E D \in DOMAIN notes, caller \in Principals, book \in HeldBooks :
                             allocateCompensation(caller, D, book) /\ UNCHANGED assets
           Refunds == \E D \in DOMAIN notes, caller \in Principals, amount \in Uint64,
                         payRef \in Payments \cup {Empty}, receiptExpiry \in Times :
                         orgRefund(caller, D, amount, payRef, receiptExpiry)
           Repays == \E caller \in Principals, book \in HeldBooks, amount \in Uint64,
                        payRef \in Payments \cup {Empty}, receiptExpiry \in Times :
                        orgAcknowledgeRepayment(caller, book, amount, payRef, receiptExpiry)
<1>1. CASE (Tick /\ UNCHANGED assets) \/ UNCHANGED orgVars
    BY <1>1, AdministrativeSteps DEF orgVars
<1>2. ASSUME NEW caller \in Principals, orgUnchanged(caller)
      PROVE  Administrative \/ Expires \/ Compensates
    BY <1>2, AdministrativeSteps DEF orgUnchanged
<1>3. ASSUME NEW caller \in Principals, NEW D \in DOMAIN notes,
             NEW amount \in 0..cost(notes[D]), NEW payRef \in Payments \cup {Empty},
             NEW receiptExpiry \in Times, orgRefund(caller, D, amount, payRef, receiptExpiry)
      PROVE  Refunds
    <2>1. cost(notes[D]) \in Uint64
        BY <1>3 DEF orgRefund, reportRefund
    <2> QED
        BY <1>3, <2>1, InputBounds
<1>4. ASSUME NEW caller \in Principals, NEW book \in HeldBooks,
             NEW amount \in 0..book.outstanding, NEW payRef \in Payments \cup {Empty},
             NEW receiptExpiry \in Times,
             orgAcknowledgeRepayment(caller, book, amount, payRef, receiptExpiry)
      PROVE  Repays
    BY <1>4, InputBounds
<1>5. CASE orgNext
    BY <1>1, <1>2, <1>3, <1>4, <1>5 DEF orgNext
<1> QED
    BY <1>1, <1>5

\* All but the refund and the repayment are steps of the canonical facility.
LEMMA CanonicalSteps ==
    ASSUME TypeOK, [orgNext]_orgVars
    PROVE  \/ [Next]_vars
           \/ \E D \in DOMAIN notes, caller \in Principals, amount \in Uint64,
                 payRef \in Payments \cup {Empty}, receiptExpiry \in Times :
                 orgRefund(caller, D, amount, payRef, receiptExpiry)
           \/ \E caller \in Principals, book \in HeldBooks, amount \in Uint64,
                 payRef \in Payments \cup {Empty}, receiptExpiry \in Times :
                 orgAcknowledgeRepayment(caller, book, amount, payRef, receiptExpiry)
<1>1. CASE Administrative
    BY <1>1 DEF Administrative
<1>2. ASSUME NEW caller \in Principals, NEW m \in Merchants, NEW r,
             orgRegisterMerchant(caller, m, r)
      PROVE  Next
    BY <1>2 DEF orgRegisterMerchant, Next
<1>3. ASSUME NEW caller \in Principals, NEW a \in Deposits,
             orgFundReserve(caller, a) \/ orgWithdrawUnencumberedReserve(caller, a)
      PROVE  Next
    BY <1>3 DEF orgFundReserve, orgWithdrawUnencumberedReserve, Next
<1>4. ASSUME NEW caller \in Principals, orgWithdrawFees(caller)
      PROVE  Next
    BY <1>4 DEF orgWithdrawFees, Next
<1>5. ASSUME NEW agent \in Agents, NEW book \in HeldBooks, NEW Q \in DOMAIN quotes,
             NEW fee \in Uint64, orgDraw(agent, book, Q, fee)
      PROVE  Next
    BY <1>5 DEF orgDraw, Next, Principals
<1>6. ASSUME NEW caller \in Principals, NEW D \in DOMAIN notes, orgRedeemDraw(caller, D)
      PROVE  Next
    BY <1>6 DEF orgRedeemDraw, Next
<1>7. ASSUME NEW D \in DOMAIN notes, expireNote(D)
      PROVE  Next
    BY <1>7 DEF Next, Principals
<1>8. ASSUME NEW caller \in Principals, NEW D \in DOMAIN notes, NEW book \in HeldBooks,
             allocateCompensation(caller, D, book)
      PROVE  Next
    BY <1>8 DEF Next
<1> QED
    BY <1>1, <1>2, <1>3, <1>4, <1>5, <1>6, <1>7, <1>8, OrgStepCases

-----------------------------------------------------------------------------
(* Types, solvency and custody *)

\* The two circuits of its own keep the ledger's types.
LEMMA OrgTypeStep ==
    ASSUME TypeOK, [orgNext]_orgVars
    PROVE  TypeOK'
<1>1. ASSUME NEW caller \in Principals, NEW D \in DOMAIN notes, NEW amount \in Uint64,
             NEW payRef \in Payments \cup {Empty}, NEW receiptExpiry \in Times,
             orgRefund(caller, D, amount, payRef, receiptExpiry)
      PROVE  TypeOK'
    <2> DEFINE n == acknowledgedNote(notes[D], paymentNullifier(payRef))
    <2>1. notes[D] \in NoteMeta
        BY DEF TypeOK, NotesOK
    <2>2. payRef \in Payments /\ notes' = [notes EXCEPT ![D] = n]
        BY <1>1 DEF orgRefund, reportRefund
    <2>3. n \in NoteMeta
        BY <2>1, <2>2 DEF NoteMeta, paymentNullifier, acknowledgedNote
    <2> HIDE DEF n
    <2>4. NotesOK'
        BY <2>2, <2>3, UpdatedNotesType
    <2>5. castsHold /\ UNCHANGED <<registeredMerchants, terms, lineCommit, status, quotes,
                                  blockTime, repaid>>
        BY <1>1 DEF orgRefund
    <2> QED
        BY <2>4, <2>5, UnchangedTypes DEF TypeOK, castsHold
<1>2. ASSUME NEW caller \in Principals, NEW book \in HeldBooks, NEW amount \in Uint64,
             NEW payRef \in Payments \cup {Empty}, NEW receiptExpiry \in Times,
             orgAcknowledgeRepayment(caller, book, amount, payRef, receiptExpiry)
      PROVE  TypeOK'
    <2>1. rotateBook(book, book.outstanding - amount) /\ repaid' = repaid + amount
        BY <1>2 DEF orgAcknowledgeRepayment, creditRepayment
    <2>2. castsHold /\ UNCHANGED <<registeredMerchants, terms, status, quotes, notes, blockTime>>
        BY <1>2 DEF orgAcknowledgeRepayment
    <2>3. LineOK'
        BY <2>1, <2>2, RotatedLineType
    <2>4. repaid' \in Nat
        BY <2>1, Bounds DEF TypeOK
    <2> QED
        BY <2>2, <2>3, <2>4, UnchangedTypes DEF TypeOK, castsHold
<1> QED
    BY <1>1, <1>2, CanonicalSteps, StepType

\* Every field of the organization's ledger keeps its declared type.
LEMMA OrgTypes == orgSpec => []TypeOK
<1>1. orgInit => TypeOK
    BY InitType DEF orgInit
<1> QED
    BY <1>1, OrgTypeStep, PTL DEF orgSpec

\* Neither does one of them lock more than the reserve covers.
LEMMA OrgSolventStep ==
    ASSUME TypeOK, TypeOK', ReserveSolvent, [orgNext]_orgVars
    PROVE  ReserveSolvent'
<1>0. CountersOK /\ CountersOK'
    BY DEF TypeOK
<1>1. ASSUME NEW caller \in Principals, NEW D \in DOMAIN notes, NEW amount \in Uint64,
             NEW payRef \in Payments \cup {Empty}, NEW receiptExpiry \in Times,
             orgRefund(caller, D, amount, payRef, receiptExpiry)
      PROVE  ReserveSolvent'
    <2>1. amount \in 1..cost(notes[D])
        BY <1>1 DEF orgRefund, reportRefund
    <2> QED
        BY <1>0, <1>1, <2>1, CounterNats, NoteAmounts DEF orgRefund, ReserveSolvent, locked
<1>2. ASSUME NEW caller \in Principals, NEW book \in HeldBooks, NEW amount \in Uint64,
             NEW payRef \in Payments \cup {Empty}, NEW receiptExpiry \in Times,
             orgAcknowledgeRepayment(caller, book, amount, payRef, receiptExpiry)
      PROVE  ReserveSolvent'
    <2>1. amount \in Nat
        BY Bounds
    <2> QED
        BY <1>0, <1>2, <2>1, CounterNats
           DEF orgAcknowledgeRepayment, ReserveSolvent, locked
<1> QED
    BY <1>1, <1>2, CanonicalSteps, SolventStep

\* The tokens are the reserve less the redeemed principal, which has left.
CustodyInv == custody = totalReserve - redeemedReserve

LEMMA CustodyStep ==
    ASSUME TypeOK, CustodyInv, [orgNext]_orgVars
    PROVE  CustodyInv'
<1> USE DEF CustodyInv
<1>0. /\ totalReserve \in Int /\ redeemedReserve \in Int /\ feeReserve \in Int
      /\ \A D \in DOMAIN notes : notes[D].amount \in Int
    BY Bounds, NoteAmounts DEF TypeOK, CountersOK
<1>1. CASE Administrative
    BY <1>1 DEF Administrative, counters, assets
<1>2. ASSUME NEW caller \in Principals, NEW m \in Merchants, NEW r,
             orgRegisterMerchant(caller, m, r)
      PROVE  CustodyInv'
    BY <1>2 DEF orgRegisterMerchant, registerMerchant, counters
<1>3. ASSUME NEW caller \in Principals, NEW a \in Deposits,
             orgFundReserve(caller, a) \/ orgWithdrawUnencumberedReserve(caller, a)
      PROVE  CustodyInv'
    <2>1. a \in Int
        BY Bounds
    <2> QED
        BY <1>0, <1>3, <2>1 DEF orgFundReserve, orgWithdrawUnencumberedReserve, fundReserve,
           withdrawUnencumberedReserve, receive, send
<1>4. ASSUME NEW caller \in Principals, orgWithdrawFees(caller)
      PROVE  CustodyInv'
    BY <1>0, <1>4 DEF orgWithdrawFees, withdrawFees, send
<1>5. ASSUME NEW agent \in Agents, NEW book \in HeldBooks, NEW Q \in DOMAIN quotes,
             NEW fee \in Uint64, orgDraw(agent, book, Q, fee)
      PROVE  CustodyInv'
    BY <1>5 DEF orgDraw, draw, assets
<1>6. ASSUME NEW caller \in Principals, NEW D \in DOMAIN notes, orgRedeemDraw(caller, D)
      PROVE  CustodyInv'
    BY <1>0, <1>6 DEF orgRedeemDraw, redeemDraw, send
<1>7. ASSUME NEW D \in DOMAIN notes, expireNote(D), UNCHANGED assets
      PROVE  CustodyInv'
    BY <1>7 DEF expireNote, assets
<1>8. ASSUME NEW caller \in Principals, NEW D \in DOMAIN notes, NEW book \in HeldBooks,
             allocateCompensation(caller, D, book), UNCHANGED assets
      PROVE  CustodyInv'
    BY <1>8 DEF allocateCompensation, moveToRefund, assets
<1>9. ASSUME NEW caller \in Principals, NEW D \in DOMAIN notes, NEW amount \in Uint64,
             NEW payRef \in Payments \cup {Empty}, NEW receiptExpiry \in Times,
             orgRefund(caller, D, amount, payRef, receiptExpiry)
      PROVE  CustodyInv'
    <2>1. amount \in Int
        BY Bounds
    <2> QED
        BY <1>0, <1>9, <2>1 DEF orgRefund, send
<1>10. ASSUME NEW caller \in Principals, NEW book \in HeldBooks, NEW amount \in Uint64,
              NEW payRef \in Payments \cup {Empty}, NEW receiptExpiry \in Times,
              orgAcknowledgeRepayment(caller, book, amount, payRef, receiptExpiry)
       PROVE  CustodyInv'
    <2>1. amount \in Int
        BY Bounds
    <2> QED
        BY <1>0, <1>10, <2>1 DEF orgAcknowledgeRepayment, receive
<1> HIDE DEF CustodyInv
<1> QED
    BY <1>1, <1>2, <1>3, <1>4, <1>5, <1>6, <1>7, <1>8, <1>9, <1>10, OrgStepCases

\* The contract's token balance is the whole reserve but the redeemed principal, and
\* covers every other budget: no payment, refund or fee waits for tokens.
THEOREM CustodyIsBacked == orgSpec => []CustodyBacksClaims
<1>1. orgInit => ReserveSolvent /\ CustodyInv
    BY DEF orgInit, Init, ReserveSolvent, locked, CustodyInv
<1>2. TypeOK /\ TypeOK' /\ ReserveSolvent /\ CustodyInv /\ [orgNext]_orgVars
        => ReserveSolvent' /\ CustodyInv'
    BY OrgSolventStep, CustodyStep
<1>3. TypeOK /\ ReserveSolvent /\ CustodyInv => CustodyBacksClaims
    <2> SUFFICES ASSUME TypeOK, ReserveSolvent, CustodyInv PROVE CustodyBacksClaims
        OBVIOUS
    <2>1. CountersOK
        BY DEF TypeOK
    <2> QED
        BY <2>1, CounterNats DEF CustodyBacksClaims, CustodyInv, ReserveSolvent, locked
<1> QED
    BY <1>1, <1>2, <1>3, OrgTypes, PTL DEF orgSpec

-----------------------------------------------------------------------------
(* The payments of the merchants *)

\* What the claims redeemed by the merchants of one address add up to.
PaidTo(r) == [D \in DOMAIN notes |->
                 IF merchantPayoutRecipients[D.merchant] = r THEN redeemedBy(notes[D]) ELSE 0]

\* Every registered merchant has its address, which no later step changes, and
\* every claim is of a registered merchant.
PaidInv ==
    /\ merchantPayoutRecipients \in [DOMAIN registeredMerchants -> Recipients]
    /\ \A D \in DOMAIN notes : D.merchant \in DOMAIN registeredMerchants
    /\ received \in [Recipients -> Nat]
    /\ \A r \in Recipients : received[r] = Total(PaidTo(r))

\* What a claim adds to a payment is a Uint<64>.
LEMMA PaidShare ==
    ASSUME NEW n \in NoteMeta
    PROVE  redeemedBy(n) \in 0..MaxUint64 /\ 0 \in 0..MaxUint64
BY Bounds DEF redeemedBy, NoteMeta

\* Steps that redeem nothing leave the payments alone.
LEMMA UnpaidMove ==
    ASSUME TypeOK, PaidInv, UNCHANGED <<merchantPayoutRecipients, received>>,
           DOMAIN registeredMerchants' = DOMAIN registeredMerchants,
           DOMAIN notes' = DOMAIN notes,
           \A D \in DOMAIN notes : redeemedBy(notes'[D]) = redeemedBy(notes[D])
    PROVE  PaidInv'
<1>1. ASSUME NEW r \in Recipients
      PROVE  Total(PaidTo(r))' = Total(PaidTo(r))
    <2>1. PaidTo(r)' = PaidTo(r)
        BY DEF PaidTo, redeemedBy
    <2> QED
        BY <2>1 DEF Total
<1> QED
    BY <1>1 DEF PaidInv

\* Nor does a new address for a merchant that had none.
LEMMA PaidAfterRegistration ==
    ASSUME TypeOK, PaidInv, NEW caller, NEW m, NEW r \in Recipients,
           orgRegisterMerchant(caller, m, r)
    PROVE  PaidInv'
<1>1. /\ m \notin DOMAIN registeredMerchants
      /\ registeredMerchants' = Insert(registeredMerchants, m, TRUE)
      /\ merchantPayoutRecipients' = Insert(merchantPayoutRecipients, m, r)
      /\ UNCHANGED <<notes, received>>
    BY DEF orgRegisterMerchant, registerMerchant
<1>2. /\ DOMAIN registeredMerchants' = DOMAIN registeredMerchants \cup {m}
      /\ merchantPayoutRecipients' \in [DOMAIN registeredMerchants' -> Recipients]
      /\ \A x \in DOMAIN registeredMerchants :
            merchantPayoutRecipients'[x] = merchantPayoutRecipients[x]
    BY <1>1 DEF PaidInv, Insert
<1>3. ASSUME NEW a \in Recipients
      PROVE  Total(PaidTo(a))' = Total(PaidTo(a))
    <2>1. \A D \in DOMAIN notes :
            merchantPayoutRecipients'[D.merchant] = merchantPayoutRecipients[D.merchant]
        BY <1>2 DEF PaidInv
    <2>2. PaidTo(a)' = PaidTo(a)
        BY <1>1, <2>1 DEF PaidTo, redeemedBy
    <2> QED
        BY <1>1, <2>2 DEF Total
<1> QED
    BY <1>1, <1>2, <1>3 DEF PaidInv

\* A drawn claim has paid nothing yet, and its merchant is registered.
LEMMA PaidAfterDraw ==
    ASSUME TypeOK, PaidInv, NEW agent \in Agents, NEW book, NEW Q \in DOMAIN quotes,
           NEW fee \in Uint64, orgDraw(agent, book, Q, fee)
    PROVE  PaidInv'
<1> DEFINE D == drawNoteCommit(lineGeneration, agent, Q, Q.merchant, Q.amount, fee,
                               quotes[Q].expiry)
           n == freshNote(Q.amount, fee, quotes[Q].expiry)
<1>1. /\ D \notin DOMAIN notes /\ notes' = Insert(notes, D, n)
      /\ Q.merchant \in DOMAIN registeredMerchants
      /\ UNCHANGED <<registeredMerchants, merchantPayoutRecipients, received>>
    BY DEF orgDraw, draw, assets
<1>2. D.merchant = Q.merchant /\ redeemedBy(n) = 0
    BY DEF drawNoteCommit, freshNote, redeemedBy
<1> HIDE DEF D, n
<1>3. /\ DOMAIN notes' = DOMAIN notes \cup {D} /\ notes'[D] = n
      /\ \A x \in DOMAIN notes : notes'[x] = notes[x]
    BY <1>1 DEF Insert
<1>4. ASSUME NEW r \in Recipients
      PROVE  Total(PaidTo(r))' = Total(PaidTo(r))
    <2> DEFINE f == PaidTo(r)
               g == PaidTo(r)'
    <2>1. /\ IsFiniteSet(DOMAIN notes) /\ D \notin DOMAIN notes
          /\ MaxUint64 \in Nat /\ 0 \in 0..MaxUint64
        BY <1>1, Bounds DEF TypeOK, NotesOK
    <2>2. g[D] = 0 /\ \A x \in DOMAIN notes : f[x] = g[x]
        BY <1>1, <1>2, <1>3 DEF PaidTo, redeemedBy
    <2> HIDE DEF f, g
    <2>3. TotalOf(DOMAIN notes \cup {D}, g, MaxUint64) = TotalOf(DOMAIN notes, f, MaxUint64) + 0
        <3> DEFINE v == 0
        <3>1. v \in 0..MaxUint64 /\ g[D] = v
            BY <2>1, <2>2
        <3> HIDE DEF v
        <3>2. TotalOf(DOMAIN notes \cup {D}, g, MaxUint64) = TotalOf(DOMAIN notes, f, MaxUint64) + v
            BY <2>1, <2>2, <3>1, TotalInserted
        <3> QED
            BY <3>2 DEF v
    <2>4. TotalOf(DOMAIN notes, f, MaxUint64) \in Nat
        BY <2>1, UnitsFinite
    <2> QED
        BY <1>3, <2>3, <2>4 DEF f, g, Total
<1> QED
    BY <1>1, <1>2, <1>3, <1>4 DEF PaidInv

\* A redemption pays the claim's principal to the address of its merchant.
LEMMA PaidAfterRedemption ==
    ASSUME TypeOK, PaidInv, NEW caller, NEW D \in DOMAIN notes, orgRedeemDraw(caller, D)
    PROVE  PaidInv'
<1> DEFINE n == [notes[D] EXCEPT !.redeemed = TRUE]
           a == merchantPayoutRecipients[caller]
<1>1. notes[D] \in NoteMeta /\ notes[D].amount \in Nat
    BY NoteAmounts
<1>2. /\ ~notes[D].redeemed /\ opensNoteAs(D, caller)
      /\ notes' = [notes EXCEPT ![D] = n]
      /\ received' = [received EXCEPT ![a] = @ + notes[D].amount]
      /\ caller \in DOMAIN merchantPayoutRecipients
      /\ UNCHANGED <<registeredMerchants, merchantPayoutRecipients>>
    BY <1>1 DEF orgRedeemDraw, redeemDraw
<1>3. D.merchant = caller
    BY <1>2 DEF opensNoteAs, drawNoteCommit
<1>4. a \in Recipients
    BY <1>2 DEF PaidInv
<1>5. n \in NoteMeta /\ redeemedBy(n) = notes[D].amount /\ redeemedBy(notes[D]) = 0
    BY <1>1, <1>2 DEF NoteMeta, redeemedBy
<1> HIDE DEF n
<1>6. /\ DOMAIN notes' = DOMAIN notes /\ notes'[D] = n
      /\ \A x \in DOMAIN notes \ {D} : notes'[x] = notes[x]
    BY <1>2 DEF TypeOK, NotesOK
<1>7. ASSUME NEW r \in Recipients
      PROVE  received'[r] = Total(PaidTo(r))'
    <2> DEFINE f == PaidTo(r)
               g == PaidTo(r)'
               v == IF a = r THEN notes[D].amount ELSE 0
    <2>1. IsFiniteSet(DOMAIN notes) /\ MaxUint64 \in Nat
        BY Bounds DEF TypeOK, NotesOK
    <2>2. v \in 0..MaxUint64 /\ 0 \in 0..MaxUint64 /\ v \in Nat
        BY <1>1, <1>5, PaidShare
    <2>3. f[D] = 0 /\ g[D] = v /\ \A x \in DOMAIN notes \ {D} : f[x] = g[x]
        BY <1>2, <1>3, <1>5, <1>6 DEF PaidTo, redeemedBy
    <2>4. received'[r] = received[r] + v
        BY <1>1, <1>2, <1>4 DEF PaidInv
    <2> HIDE DEF f, g, v
    <2>5. TotalOf(DOMAIN notes, g, MaxUint64) = TotalOf(DOMAIN notes, f, MaxUint64) - 0 + v
        BY <2>1, <2>2, <2>3, TotalUpdate
    <2>6. TotalOf(DOMAIN notes, f, MaxUint64) \in Nat
        BY <2>1, UnitsFinite
    <2>7. received[r] = TotalOf(DOMAIN notes, f, MaxUint64)
        BY DEF PaidInv, Total, f
    <2>8. received'[r] = TotalOf(DOMAIN notes, g, MaxUint64)
        BY <2>2, <2>4, <2>5, <2>6, <2>7
    <2> QED
        BY <1>6, <2>8 DEF Total, g
<1>8. received' \in [Recipients -> Nat]
    BY <1>1, <1>2, <1>4 DEF PaidInv
<1> QED
    BY <1>2, <1>6, <1>7, <1>8 DEF PaidInv

\* Only a redemption pays.
LEMMA PaidStep ==
    ASSUME TypeOK, ClaimsOK, PaidInv, [orgNext]_orgVars
    PROVE  PaidInv'
<1>1. ASSUME UNCHANGED notes, UNCHANGED <<merchantPayoutRecipients, received>>,
             DOMAIN registeredMerchants' = DOMAIN registeredMerchants
      PROVE  PaidInv'
    BY <1>1, UnpaidMove
<1>2. ASSUME NEW D \in DOMAIN notes, NEW n, notes' = [notes EXCEPT ![D] = n],
             redeemedBy(n) = redeemedBy(notes[D]),
             UNCHANGED <<merchantPayoutRecipients, received, registeredMerchants>>
      PROVE  PaidInv'
    <2>1. /\ DOMAIN notes' = DOMAIN notes
          /\ \A x \in DOMAIN notes : notes'[x] = IF x = D THEN n ELSE notes[x]
        BY <1>2 DEF TypeOK, NotesOK
    <2>2. \A x \in DOMAIN notes : redeemedBy(notes'[x]) = redeemedBy(notes[x])
        BY <1>2, <2>1
    <2> QED
        BY <1>2, <2>1, <2>2, UnpaidMove
<1>3. CASE Administrative
    BY <1>1, <1>3 DEF Administrative, assets
<1>4. ASSUME NEW caller \in Principals, NEW a \in Deposits,
             orgFundReserve(caller, a) \/ orgWithdrawUnencumberedReserve(caller, a)
      PROVE  PaidInv'
    BY <1>1, <1>4 DEF orgFundReserve, orgWithdrawUnencumberedReserve, fundReserve,
       withdrawUnencumberedReserve
<1>5. ASSUME NEW caller \in Principals, orgWithdrawFees(caller)
      PROVE  PaidInv'
    BY <1>1, <1>5 DEF orgWithdrawFees, withdrawFees
<1>6. ASSUME NEW D \in DOMAIN notes, expireNote(D), UNCHANGED assets
      PROVE  PaidInv'
    <2>1. UNCHANGED <<merchantPayoutRecipients, received, registeredMerchants>>
        BY <1>6 DEF expireNote, assets
    <2>2. \E n : notes' = [notes EXCEPT ![D] = n] /\ redeemedBy(n) = redeemedBy(notes[D])
        BY <1>6, ExpiredClaim DEF budgetShares
    <2> QED
        BY <1>2, <2>1, <2>2
<1>7. ASSUME NEW caller \in Principals, NEW D \in DOMAIN notes, NEW book \in HeldBooks,
             allocateCompensation(caller, D, book), UNCHANGED assets
      PROVE  PaidInv'
    <2>1. UNCHANGED <<merchantPayoutRecipients, received, registeredMerchants>>
        BY <1>7 DEF allocateCompensation, assets
    <2>2. PICK refund \in Uint64 :
              ~notes[D].redeemed /\ notes' = [notes EXCEPT ![D] = allocatedNote(D, refund)]
        BY <1>7, AllocationTerms
    <2>3. redeemedBy(allocatedNote(D, refund)) = 0 /\ redeemedBy(notes[D]) = 0
        BY <2>2 DEF allocatedNote, redeemedBy
    <2> QED
        BY <1>2, <2>1, <2>2, <2>3
<1>8. ASSUME NEW caller \in Principals, NEW D \in DOMAIN notes, NEW amount \in Uint64,
             NEW payRef \in Payments \cup {Empty}, NEW receiptExpiry \in Times,
             orgRefund(caller, D, amount, payRef, receiptExpiry)
      PROVE  PaidInv'
    <2>1. UNCHANGED <<merchantPayoutRecipients, received, registeredMerchants>>
        BY <1>8 DEF orgRefund
    <2>2. reportRefund(caller, D, amount, payRef, receiptExpiry)
        BY <1>8 DEF orgRefund
    <2>3. \E n : notes' = [notes EXCEPT ![D] = n] /\ redeemedBy(n) = redeemedBy(notes[D])
        BY <2>2, RefundedClaim DEF budgetShares
    <2> QED
        BY <1>2, <2>1, <2>3
<1>9. ASSUME NEW caller \in Principals, NEW book \in HeldBooks, NEW amount \in Uint64,
             NEW payRef \in Payments \cup {Empty}, NEW receiptExpiry \in Times,
             orgAcknowledgeRepayment(caller, book, amount, payRef, receiptExpiry)
      PROVE  PaidInv'
    BY <1>1, <1>9 DEF orgAcknowledgeRepayment
<1> QED
    BY <1>3, <1>4, <1>5, <1>6, <1>7, <1>8, <1>9, PaidAfterRegistration, PaidAfterDraw,
       PaidAfterRedemption, OrgStepCases

LEMMA PaidInitially == orgInit => PaidInv
<1> SUFFICES ASSUME orgInit PROVE PaidInv
    OBVIOUS
<1>1. /\ DOMAIN notes = {} /\ DOMAIN registeredMerchants = {InitialMerchant}
      /\ merchantPayoutRecipients \in [{InitialMerchant} -> Recipients]
      /\ received = [r \in Recipients |-> 0]
    BY DEF orgInit, Init
<1>2. \A r \in Recipients : Total(PaidTo(r)) = 0
    BY <1>1, TotalEmpty, Bounds DEF Total
<1> QED
    BY <1>1, <1>2 DEF PaidInv

-----------------------------------------------------------------------------
(* The budgets of the claims *)

\* What a claim keeps in custody's four budgets: a refund paid in kind keeps nothing.
custodyHoldOf(n) == encumberedBy(n) + pendingFeeOf(n) + redeemedBy(n) + refundLockOf(n)
CustodyHolds == [D \in DOMAIN notes |-> custodyHoldOf(notes[D])]
CustodyBudgets == encumberedReserve + pendingFeeReserve + redeemedReserve + refundReserve

\* The claims are well formed and hold together what the counters lock, and the
\* canonical budget of reported refunds stays empty.
BackedInv ==
    /\ ClaimsOK
    /\ reportedRefundReserve = 0
    /\ Total(CustodyHolds) = CustodyBudgets

\* The escrow's hold of a claim.
LEMMA CustodyHold ==
    ASSUME NEW n \in NoteMeta, ClaimOK(n)
    PROVE  /\ OrgEscrow!hold([principal |-> n.amount, fee |-> n.fee,
                              state |-> claimState(n)]) = custodyHoldOf(n)
           /\ custodyHoldOf(n) \in 0..MaxUint64
<1> DEFINE c == [principal |-> n.amount, fee |-> n.fee, state |-> claimState(n)]
<1>1. Escrow!hold(c) = holdOf(n) /\ holdOf(n) \in 0..MaxUint64
    BY HoldOfClaim
<1>2. /\ encumberedBy(n) \in Nat /\ pendingFeeOf(n) \in Nat /\ redeemedBy(n) \in Nat
      /\ refundLockOf(n) \in Nat /\ reportedLockOf(n) \in Nat
    BY Shares, Bounds
<1>3. CASE n.refundAcknowledged
    <2>1. ~n.redeemed /\ n.cancelled /\ ~live(n) /\ ~awaitingRefund(n)
        BY <1>3 DEF ClaimOK, live, awaitingRefund
    <2>2. custodyHoldOf(n) = 0
        BY <2>1 DEF custodyHoldOf, encumberedBy, pendingFeeOf, redeemedBy, refundLockOf
    <2>3. OrgEscrow!hold(c) = 0
        BY <1>3, ClaimStates DEF OrgEscrow!hold
    <2> QED
        BY <2>2, <2>3, Bounds DEF c
<1>4. CASE ~n.refundAcknowledged
    <2>1. custodyHoldOf(n) = holdOf(n)
        BY <1>2, <1>4 DEF custodyHoldOf, holdOf, reportedLockOf
    <2>2. c.state # "settled" /\ c.state \in {"paid", "live", "expired", "released", "owed"}
        <3>1. n.redeemed \/ live(n) \/ n.cancelled
            BY DEF live
        <3>2. claimState(n) \in {"paid", "live", "expired", "released", "owed"}
            BY <1>4, <3>1, ClaimStates DEF NoteMeta
        <3> QED
            BY <3>2
    <2>3. OrgEscrow!hold(c) = Escrow!hold(c)
        BY <2>2 DEF OrgEscrow!hold, Escrow!hold
    <2> QED
        BY <1>1, <2>1, <2>3 DEF c
<1> QED
    BY <1>3, <1>4 DEF NoteMeta

\* A claim that moves, and the counters by as much.
LEMMA BackedMove ==
    ASSUME TypeOK, BackedInv, NEW D \in DOMAIN notes, NEW n \in NoteMeta, ClaimOK(n),
           notes' = [notes EXCEPT ![D] = n], reportedRefundReserve' = 0,
           CustodyBudgets' = CustodyBudgets - custodyHoldOf(notes[D]) + custodyHoldOf(n)
    PROVE  BackedInv'
<1> DEFINE S == DOMAIN notes
<1>1. IsFiniteSet(S) /\ MaxUint64 \in Nat /\ notes[D] \in NoteMeta /\ ClaimOK(notes[D])
    BY Bounds DEF TypeOK, NotesOK, ClaimsOK, BackedInv
<1>2. /\ DOMAIN notes' = S /\ notes'[D] = n
      /\ \A x \in S \ {D} : notes'[x] = notes[x]
    BY DEF TypeOK, NotesOK
<1>3. custodyHoldOf(n) \in 0..MaxUint64 /\ custodyHoldOf(notes[D]) \in 0..MaxUint64
    BY <1>1, CustodyHold
<1>4. Total(CustodyHolds)' = Total(CustodyHolds) - custodyHoldOf(notes[D]) + custodyHoldOf(n)
    BY <1>1, <1>2, <1>3, TotalUpdate DEF Total, CustodyHolds
<1>5. ClaimsOK'
    BY ClaimsAfterMove DEF BackedInv
<1> QED
    BY <1>4, <1>5 DEF BackedInv

\* A drawn claim, and the counters by its cost.
LEMMA BackedDraw ==
    ASSUME TypeOK, BackedInv, NEW agent \in Agents, NEW book \in HeldBooks,
           NEW Q \in DOMAIN quotes, NEW fee \in Uint64, draw(agent, book, Q, fee)
    PROVE  BackedInv'
<1>1. PICK D \in NoteCommits, n \in NoteMeta :
          /\ D \notin DOMAIN notes /\ notes' = Insert(notes, D, n) /\ ClaimOK(n)
          /\ budgetShares(n) = <<Q.amount, fee, 0, 0, 0>>
    BY DrawnClaim
<1>2. ClaimsOK'
    BY <1>1, ClaimsAfterDraw DEF BackedInv
<1>3. Q.amount \in Nat /\ fee \in Nat
    BY Bounds DEF TypeOK, QuotesOK, QuoteCommits
<1>4. custodyHoldOf(n) = Q.amount + fee
    BY <1>1, <1>3 DEF budgetShares, custodyHoldOf
<1>5. custodyHoldOf(n) \in 0..MaxUint64
    BY <1>1, CustodyHold
<1>6. /\ DOMAIN notes' = DOMAIN notes \cup {D} /\ notes'[D] = n
      /\ \A x \in DOMAIN notes : notes'[x] = notes[x]
    BY <1>1 DEF Insert
<1>7. IsFiniteSet(DOMAIN notes) /\ D \notin DOMAIN notes /\ MaxUint64 \in Nat
    BY <1>1, Bounds DEF TypeOK, NotesOK
<1>8. Total(CustodyHolds)' = Total(CustodyHolds) + custodyHoldOf(n)
    BY <1>5, <1>6, <1>7, TotalInserted DEF Total, CustodyHolds
<1>9. /\ CustodyBudgets' = CustodyBudgets + (Q.amount + fee)
      /\ UNCHANGED reportedRefundReserve
    <2>1. CountersOK
        BY DEF TypeOK
    <2> QED
        BY <1>3, <2>1, CounterNats DEF draw, CustodyBudgets
<1> QED
    BY <1>2, <1>4, <1>8, <1>9 DEF BackedInv

\* Every step keeps the budgets of the claims.
LEMMA BackedStep ==
    ASSUME TypeOK, BackedInv, [orgNext]_orgVars
    PROVE  BackedInv'
<1>0. /\ ClaimsOK /\ reportedRefundReserve = 0
      /\ encumberedReserve \in Nat /\ pendingFeeReserve \in Nat
      /\ redeemedReserve \in Nat /\ refundReserve \in Nat
      /\ \A D \in DOMAIN notes : /\ notes[D].amount \in Nat /\ notes[D].fee \in Nat
                                /\ cost(notes[D]) = notes[D].amount + notes[D].fee
    BY CounterNats, NoteAmounts DEF TypeOK, BackedInv
<1>1. ASSUME UNCHANGED <<notes, encumberedReserve, pendingFeeReserve, redeemedReserve,
                         refundReserve, reportedRefundReserve>>
      PROVE  BackedInv'
    <2>1. Total(CustodyHolds)' = Total(CustodyHolds) /\ CustodyBudgets' = CustodyBudgets
        BY <1>1 DEF Total, CustodyHolds, CustodyBudgets
    <2>2. ClaimsOK'
        BY <1>0, <1>1 DEF ClaimsOK, ClaimOK, cost
    <2> QED
        BY <1>1, <2>1, <2>2 DEF BackedInv
<1>2. CASE Administrative
    BY <1>1, <1>2 DEF Administrative, counters
<1>3. ASSUME NEW caller \in Principals, NEW m \in Merchants, NEW r \in Recipients,
             orgRegisterMerchant(caller, m, r)
      PROVE  BackedInv'
    BY <1>1, <1>3 DEF orgRegisterMerchant, registerMerchant, counters
<1>4. ASSUME NEW caller \in Principals, NEW a \in Deposits,
             orgFundReserve(caller, a) \/ orgWithdrawUnencumberedReserve(caller, a)
      PROVE  BackedInv'
    BY <1>1, <1>4 DEF orgFundReserve, orgWithdrawUnencumberedReserve, fundReserve,
       withdrawUnencumberedReserve
<1>5. ASSUME NEW caller \in Principals, orgWithdrawFees(caller)
      PROVE  BackedInv'
    BY <1>1, <1>5 DEF orgWithdrawFees, withdrawFees
<1>6. ASSUME NEW agent \in Agents, NEW book \in HeldBooks, NEW Q \in DOMAIN quotes,
             NEW fee \in Uint64, orgDraw(agent, book, Q, fee)
      PROVE  BackedInv'
    BY <1>6, BackedDraw DEF orgDraw
<1>7. ASSUME NEW caller \in Principals, NEW D \in DOMAIN notes, orgRedeemDraw(caller, D)
      PROVE  BackedInv'
    <2>1. redeemDraw(caller, D)
        BY <1>7 DEF orgRedeemDraw
    <2>2. PICK n \in NoteMeta :
              /\ notes' = [notes EXCEPT ![D] = n] /\ ClaimOK(n)
              /\ budgetShares(notes[D]) = <<notes[D].amount, notes[D].fee, 0, 0, 0>>
              /\ budgetShares(n) = <<0, 0, notes[D].amount, 0, 0>>
        BY <1>0, <2>1, RedeemedClaim
    <2>3. /\ CustodyBudgets' = CustodyBudgets - notes[D].fee
          /\ UNCHANGED reportedRefundReserve
        BY <1>0, <2>1 DEF redeemDraw, CustodyBudgets
    <2>4. /\ custodyHoldOf(notes[D]) = notes[D].amount + notes[D].fee
          /\ custodyHoldOf(n) = notes[D].amount
        BY <1>0, <2>2 DEF budgetShares, custodyHoldOf
    <2>5. CustodyBudgets \in Nat
        BY <1>0 DEF CustodyBudgets
    <2>6. CustodyBudgets' = CustodyBudgets - custodyHoldOf(notes[D]) + custodyHoldOf(n)
        BY <1>0, <2>3, <2>4, <2>5
    <2> QED
        BY <1>0, <2>2, <2>3, <2>6, BackedMove
<1>8. ASSUME NEW D \in DOMAIN notes, expireNote(D)
      PROVE  BackedInv'
    <2>1. PICK n \in NoteMeta :
              /\ notes' = [notes EXCEPT ![D] = n] /\ ClaimOK(n)
              /\ budgetShares(notes[D]) = <<notes[D].amount, notes[D].fee, 0, 0, 0>>
              /\ budgetShares(n) = <<0, 0, 0, cost(notes[D]), 0>>
        BY <1>0, <1>8, ExpiredClaim
    <2>2. CustodyBudgets' = CustodyBudgets /\ UNCHANGED reportedRefundReserve
        BY <1>0, <1>8 DEF expireNote, CustodyBudgets
    <2>3. custodyHoldOf(notes[D]) = cost(notes[D]) /\ custodyHoldOf(n) = cost(notes[D])
        BY <1>0, <2>1 DEF budgetShares, custodyHoldOf
    <2>4. CustodyBudgets \in Nat
        BY <1>0 DEF CustodyBudgets
    <2>5. CustodyBudgets' = CustodyBudgets - custodyHoldOf(notes[D]) + custodyHoldOf(n)
        BY <1>0, <2>2, <2>3, <2>4
    <2> QED
        BY <1>0, <2>1, <2>2, <2>5, BackedMove
<1>9. ASSUME NEW caller \in Principals, NEW D \in DOMAIN notes, NEW book \in HeldBooks,
             allocateCompensation(caller, D, book)
      PROVE  BackedInv'
    <2>1. PICK refund \in Uint64 :
              /\ ~notes[D].redeemed /\ ~notes[D].compensationAllocated
              /\ refund <= cost(notes[D])
              /\ notes' = [notes EXCEPT ![D] = allocatedNote(D, refund)]
              /\ moveToRefund(notes[D], IF refund > 0 THEN 0 ELSE cost(notes[D]))
        BY <1>9, AllocationTerms
    <2>2. PICK n \in NoteMeta :
              /\ notes' = [notes EXCEPT ![D] = n] /\ ClaimOK(n)
              /\ budgetShares(notes[D]) =
                    IF notes[D].cancelled THEN <<0, 0, 0, cost(notes[D]), 0>>
                    ELSE <<notes[D].amount, notes[D].fee, 0, 0, 0>>
              /\ budgetShares(n) = <<0, 0, 0, IF refund > 0 THEN cost(notes[D]) ELSE 0, 0>>
        BY <1>0, <2>1, AllocatedClaim
    <2>3. custodyHoldOf(notes[D]) = cost(notes[D])
        <3>1. CASE notes[D].cancelled
            BY <1>0, <2>2, <3>1 DEF budgetShares, custodyHoldOf
        <3>2. CASE ~notes[D].cancelled
            BY <1>0, <2>2, <3>2 DEF budgetShares, custodyHoldOf
        <3> QED
            BY <3>1, <3>2
    <2>4. custodyHoldOf(n) = IF refund > 0 THEN cost(notes[D]) ELSE 0
        BY <1>0, <2>2 DEF budgetShares, custodyHoldOf
    <2>5. /\ CustodyBudgets' = CustodyBudgets - (IF refund > 0 THEN 0 ELSE cost(notes[D]))
          /\ UNCHANGED reportedRefundReserve
        <3>1. CASE notes[D].cancelled
            BY <1>0, <2>1, <3>1 DEF moveToRefund, CustodyBudgets
        <3>2. CASE ~notes[D].cancelled
            BY <1>0, <2>1, <3>2 DEF moveToRefund, CustodyBudgets
        <3> QED
            BY <3>1, <3>2
    <2>6. CustodyBudgets \in Nat /\ cost(notes[D]) \in Nat
        BY <1>0 DEF CustodyBudgets
    <2>7. CustodyBudgets' = CustodyBudgets - custodyHoldOf(notes[D]) + custodyHoldOf(n)
        BY <2>3, <2>4, <2>5, <2>6
    <2> QED
        BY <1>0, <2>2, <2>5, <2>7, BackedMove
<1>10. ASSUME NEW caller \in Principals, NEW D \in DOMAIN notes, NEW amount \in Uint64,
              NEW payRef \in Payments \cup {Empty}, NEW receiptExpiry \in Times,
              orgRefund(caller, D, amount, payRef, receiptExpiry)
       PROVE  BackedInv'
    <2>1. reportRefund(caller, D, amount, payRef, receiptExpiry)
        BY <1>10 DEF orgRefund
    <2>2. PICK n \in NoteMeta :
              /\ notes' = [notes EXCEPT ![D] = n] /\ ClaimOK(n)
              /\ budgetShares(notes[D]) = <<0, 0, 0, cost(notes[D]), 0>>
              /\ budgetShares(n) = <<0, 0, 0, 0, cost(notes[D])>>
        BY <1>0, <2>1, RefundedClaim
    <2>3. /\ CustodyBudgets' = CustodyBudgets - cost(notes[D])
          /\ UNCHANGED reportedRefundReserve
        BY <1>0, <1>10 DEF orgRefund, CustodyBudgets
    <2>4. custodyHoldOf(notes[D]) = cost(notes[D]) /\ custodyHoldOf(n) = 0
        BY <1>0, <2>2 DEF budgetShares, custodyHoldOf
    <2>5. CustodyBudgets \in Nat
        BY <1>0 DEF CustodyBudgets
    <2>6. CustodyBudgets' = CustodyBudgets - custodyHoldOf(notes[D]) + custodyHoldOf(n)
        BY <1>0, <2>3, <2>4, <2>5
    <2> QED
        BY <1>0, <2>2, <2>3, <2>6, BackedMove
<1>11. ASSUME NEW caller \in Principals, NEW book \in HeldBooks, NEW amount \in Uint64,
              NEW payRef \in Payments \cup {Empty}, NEW receiptExpiry \in Times,
              orgAcknowledgeRepayment(caller, book, amount, payRef, receiptExpiry)
       PROVE  BackedInv'
    BY <1>1, <1>11 DEF orgAcknowledgeRepayment
<1> QED
    BY <1>2, <1>3, <1>4, <1>5, <1>6, <1>7, <1>8, <1>9, <1>10, <1>11, OrgStepCases

\* The budgets of the claims along every behaviour.
LEMMA BackedInvariant == orgSpec => []BackedInv
<1>1. orgInit => BackedInv
    <2> SUFFICES ASSUME orgInit PROVE BackedInv
        OBVIOUS
    <2>1. DOMAIN notes = {}
        BY DEF orgInit, Init
    <2>2. Total(CustodyHolds) = 0
        BY <2>1, TotalEmpty, Bounds DEF Total
    <2> QED
        BY <2>1, <2>2 DEF orgInit, Init, BackedInv, ClaimsOK, CustodyBudgets
<1> QED
    BY <1>1, BackedStep, OrgTypes, PTL DEF orgSpec

\* Every merchant address holds exactly what the claims of its merchants redeemed.
THEOREM MerchantsArePaid == orgSpec => []MerchantsPaid
<1>1. TypeOK /\ BackedInv /\ PaidInv /\ [orgNext]_orgVars => PaidInv'
    BY PaidStep DEF BackedInv
<1>2. PaidInv => MerchantsPaid
    BY DEF PaidInv, MerchantsPaid, PaidTo
<1> QED
    BY <1>1, <1>2, PaidInitially, OrgTypes, BackedInvariant, PTL DEF orgSpec

-----------------------------------------------------------------------------
(* No claim waits *)

\* The budgets of live claims and of refunds are exactly their claims.
ClaimBudgets ==
    /\ encumberedReserve = Total(Encumbered)
    /\ pendingFeeReserve = Total(PendingFees)
    /\ refundReserve = Total(RefundLocks)

\* A claim that moves, and its budgets by as much.
LEMMA ClaimBudgetsMove ==
    ASSUME TypeOK, ClaimsOK, ClaimBudgets, NEW D \in DOMAIN notes, NEW n \in NoteMeta,
           ClaimOK(n), notes' = [notes EXCEPT ![D] = n],
           encumberedReserve' = encumberedReserve - encumberedBy(notes[D]) + encumberedBy(n),
           pendingFeeReserve' = pendingFeeReserve - pendingFeeOf(notes[D]) + pendingFeeOf(n),
           refundReserve' = refundReserve - refundLockOf(notes[D]) + refundLockOf(n)
    PROVE  ClaimBudgets'
BY BudgetsMoved DEF ClaimBudgets

\* A drawn claim adds its amount and its fee.
LEMMA ClaimBudgetsDraw ==
    ASSUME TypeOK, ClaimBudgets, NEW agent \in Agents, NEW book \in HeldBooks,
           NEW Q \in DOMAIN quotes, NEW fee \in Uint64, draw(agent, book, Q, fee)
    PROVE  ClaimBudgets'
<1>1. PICK D \in NoteCommits, n \in NoteMeta :
          /\ D \notin DOMAIN notes
          /\ notes' = Insert(notes, D, n)
          /\ ClaimOK(n)
          /\ budgetShares(n) = <<Q.amount, fee, 0, 0, 0>>
    BY DrawnClaim
<1>2. encumberedBy(n) = Q.amount /\ pendingFeeOf(n) = fee /\ refundLockOf(n) = 0
    BY <1>1 DEF budgetShares
<1>3. /\ encumberedReserve' = encumberedReserve + Q.amount
      /\ pendingFeeReserve' = pendingFeeReserve + fee
      /\ UNCHANGED refundReserve
    BY DEF draw
<1> QED
    BY <1>1, <1>2, <1>3, BudgetsAdded, TotalNats DEF ClaimBudgets

\* Every step keeps the three budgets.
LEMMA ClaimBudgetsStep ==
    ASSUME TypeOK, ClaimsOK, ClaimBudgets, [orgNext]_orgVars
    PROVE  ClaimBudgets'
<1>0. /\ encumberedReserve \in Nat /\ pendingFeeReserve \in Nat /\ refundReserve \in Nat
      /\ \A D \in DOMAIN notes : /\ notes[D].amount \in Nat /\ notes[D].fee \in Nat
                                /\ cost(notes[D]) \in Nat
    BY CounterNats, NoteAmounts DEF TypeOK
<1>1. UNCHANGED <<notes, encumberedReserve, pendingFeeReserve, refundReserve>>
        => ClaimBudgets'
    BY SameTotals DEF ClaimBudgets
<1>2. CASE Administrative
    BY <1>1, <1>2 DEF Administrative, counters
<1>3. ASSUME NEW caller, NEW m, NEW r, orgRegisterMerchant(caller, m, r)
      PROVE  ClaimBudgets'
    BY <1>1, <1>3 DEF orgRegisterMerchant, registerMerchant, counters
<1>4. ASSUME NEW caller, NEW a,
             orgFundReserve(caller, a) \/ orgWithdrawUnencumberedReserve(caller, a)
      PROVE  ClaimBudgets'
    BY <1>1, <1>4 DEF orgFundReserve, orgWithdrawUnencumberedReserve, fundReserve,
       withdrawUnencumberedReserve
<1>5. ASSUME NEW caller, orgWithdrawFees(caller)
      PROVE  ClaimBudgets'
    BY <1>1, <1>5 DEF orgWithdrawFees, withdrawFees
<1>6. ASSUME NEW agent \in Agents, NEW book \in HeldBooks, NEW Q \in DOMAIN quotes,
             NEW fee \in Uint64, orgDraw(agent, book, Q, fee)
      PROVE  ClaimBudgets'
    BY <1>6, ClaimBudgetsDraw DEF orgDraw
<1>7. ASSUME NEW caller \in Principals, NEW D \in DOMAIN notes, orgRedeemDraw(caller, D)
      PROVE  ClaimBudgets'
    <2>1. redeemDraw(caller, D)
        BY <1>7 DEF orgRedeemDraw
    <2>2. PICK n \in NoteMeta :
              /\ notes' = [notes EXCEPT ![D] = n] /\ ClaimOK(n)
              /\ budgetShares(notes[D]) = <<notes[D].amount, notes[D].fee, 0, 0, 0>>
              /\ budgetShares(n) = <<0, 0, notes[D].amount, 0, 0>>
        BY <2>1, RedeemedClaim
    <2>3. /\ encumberedReserve' = encumberedReserve - encumberedBy(notes[D]) + encumberedBy(n)
          /\ pendingFeeReserve' = pendingFeeReserve - pendingFeeOf(notes[D]) + pendingFeeOf(n)
          /\ refundReserve' = refundReserve - refundLockOf(notes[D]) + refundLockOf(n)
        BY <1>0, <2>1, <2>2 DEF redeemDraw, budgetShares
    <2> QED
        BY <2>2, <2>3, ClaimBudgetsMove
<1>8. ASSUME NEW D \in DOMAIN notes, expireNote(D)
      PROVE  ClaimBudgets'
    <2>1. PICK n \in NoteMeta :
              /\ notes' = [notes EXCEPT ![D] = n] /\ ClaimOK(n)
              /\ budgetShares(notes[D]) = <<notes[D].amount, notes[D].fee, 0, 0, 0>>
              /\ budgetShares(n) = <<0, 0, 0, cost(notes[D]), 0>>
        BY <1>8, ExpiredClaim
    <2>2. /\ encumberedReserve' = encumberedReserve - encumberedBy(notes[D]) + encumberedBy(n)
          /\ pendingFeeReserve' = pendingFeeReserve - pendingFeeOf(notes[D]) + pendingFeeOf(n)
          /\ refundReserve' = refundReserve - refundLockOf(notes[D]) + refundLockOf(n)
        BY <1>0, <1>8, <2>1 DEF expireNote, budgetShares
    <2> QED
        BY <2>1, <2>2, ClaimBudgetsMove
<1>9. ASSUME NEW caller \in Principals, NEW D \in DOMAIN notes, NEW book \in HeldBooks,
             allocateCompensation(caller, D, book)
      PROVE  ClaimBudgets'
    <2>1. PICK refund \in Uint64 :
              /\ ~notes[D].redeemed /\ ~notes[D].compensationAllocated
              /\ refund <= cost(notes[D])
              /\ notes' = [notes EXCEPT ![D] = allocatedNote(D, refund)]
              /\ moveToRefund(notes[D], IF refund > 0 THEN 0 ELSE cost(notes[D]))
        BY <1>9, AllocationTerms
    <2>2. PICK n \in NoteMeta :
              /\ notes' = [notes EXCEPT ![D] = n] /\ ClaimOK(n)
              /\ budgetShares(notes[D]) =
                    IF notes[D].cancelled THEN <<0, 0, 0, cost(notes[D]), 0>>
                    ELSE <<notes[D].amount, notes[D].fee, 0, 0, 0>>
              /\ budgetShares(n) = <<0, 0, 0, IF refund > 0 THEN cost(notes[D]) ELSE 0, 0>>
        BY <2>1, AllocatedClaim
    <2>3. /\ encumberedReserve' = encumberedReserve - encumberedBy(notes[D]) + encumberedBy(n)
          /\ pendingFeeReserve' = pendingFeeReserve - pendingFeeOf(notes[D]) + pendingFeeOf(n)
          /\ refundReserve' = refundReserve - refundLockOf(notes[D]) + refundLockOf(n)
        <3>1. CASE notes[D].cancelled
            BY <1>0, <2>1, <2>2, <3>1 DEF budgetShares, moveToRefund
        <3>2. CASE ~notes[D].cancelled
            BY <1>0, <2>1, <2>2, <3>2 DEF budgetShares, moveToRefund
        <3> QED
            BY <3>1, <3>2
    <2> QED
        BY <2>2, <2>3, ClaimBudgetsMove
<1>10. ASSUME NEW caller \in Principals, NEW D \in DOMAIN notes, NEW amount \in Uint64,
              NEW payRef \in Payments \cup {Empty}, NEW receiptExpiry \in Times,
              orgRefund(caller, D, amount, payRef, receiptExpiry)
       PROVE  ClaimBudgets'
    <2>1. reportRefund(caller, D, amount, payRef, receiptExpiry)
        BY <1>10 DEF orgRefund
    <2>2. PICK n \in NoteMeta :
              /\ notes' = [notes EXCEPT ![D] = n] /\ ClaimOK(n)
              /\ budgetShares(notes[D]) = <<0, 0, 0, cost(notes[D]), 0>>
              /\ budgetShares(n) = <<0, 0, 0, 0, cost(notes[D])>>
        BY <2>1, RefundedClaim
    <2>3. /\ encumberedReserve' = encumberedReserve - encumberedBy(notes[D]) + encumberedBy(n)
          /\ pendingFeeReserve' = pendingFeeReserve - pendingFeeOf(notes[D]) + pendingFeeOf(n)
          /\ refundReserve' = refundReserve - refundLockOf(notes[D]) + refundLockOf(n)
        BY <1>0, <1>10, <2>2 DEF orgRefund, budgetShares
    <2> QED
        BY <2>2, <2>3, ClaimBudgetsMove
<1>11. ASSUME NEW caller, NEW book, NEW amount, NEW payRef, NEW receiptExpiry,
              orgAcknowledgeRepayment(caller, book, amount, payRef, receiptExpiry)
       PROVE  ClaimBudgets'
    BY <1>1, <1>11 DEF orgAcknowledgeRepayment
<1> QED
    BY <1>2, <1>3, <1>4, <1>5, <1>6, <1>7, <1>8, <1>9, <1>10, <1>11, OrgStepCases

\* The notes of the organization's ledger open as the canonical ones do, and the two
\* circuits of its own spend no redeem nullifier.
LEMMA OrgOpeningStep ==
    ASSUME TypeOK, ClaimsOK, OpeningInv, [orgNext]_orgVars
    PROVE  OpeningInv'
<1>1. ASSUME NEW caller \in Principals, NEW D \in DOMAIN notes, NEW amount \in Uint64,
             NEW payRef \in Payments \cup {Empty}, NEW receiptExpiry \in Times,
             orgRefund(caller, D, amount, payRef, receiptExpiry)
      PROVE  OpeningInv'
    <2> DEFINE n == acknowledgedNote(notes[D], paymentNullifier(payRef))
    <2>1. /\ ~notes[D].redeemed /\ notes' = [notes EXCEPT ![D] = n]
          /\ nullifiers' = nullifiers \cup {paymentNullifier(payRef)}
        BY <1>1 DEF orgRefund, reportRefund
    <2>2. SameTerms(n, notes[D]) /\ SameTerms(notes[D], notes[D])
        BY DEF acknowledgedNote, SameTerms
    <2> HIDE DEF n
    <2>3. /\ DOMAIN notes' = DOMAIN notes
          /\ \A E \in DOMAIN notes : notes'[E] = IF E = D THEN n ELSE notes[E]
        BY <2>1 DEF TypeOK, NotesOK
    <2>4. \A E \in DOMAIN notes : /\ SameTerms(notes'[E], notes[E])
                                  /\ notes[E].redeemed => notes'[E].redeemed
        BY <2>1, <2>2, <2>3 DEF SameTerms
    <2>5. \A N \in nullifiers' \ nullifiers : N.kind # "redeem"
        BY <2>1 DEF paymentNullifier
    <2> QED
        BY <2>3, <2>4, <2>5, OpeningKept
<1>2. ASSUME NEW caller, NEW book, NEW amount, NEW payRef, NEW receiptExpiry,
             orgAcknowledgeRepayment(caller, book, amount, payRef, receiptExpiry)
      PROVE  OpeningInv'
    <2>1. \A N \in nullifiers' \ nullifiers : N.kind # "redeem"
        BY <1>2 DEF orgAcknowledgeRepayment, creditRepayment, paymentNullifier, repayNullifier
    <2>2. UNCHANGED notes
        BY <1>2 DEF orgAcknowledgeRepayment
    <2> QED
        BY <2>1, <2>2, OpeningKept DEF SameTerms
<1> QED
    BY <1>1, <1>2, CanonicalSteps, OpeningStep

\* Both along every behaviour.
OrgOpenInv == ClaimBudgets /\ OpeningInv

LEMMA OrgOpenInvariant == orgSpec => []OrgOpenInv
<1>1. orgInit => OrgOpenInv
    <2> SUFFICES ASSUME orgInit PROVE OrgOpenInv
        OBVIOUS
    <2>1. DOMAIN notes = {} /\ nullifiers = {}
        BY DEF orgInit, Init
    <2>2. Total(Encumbered) = 0 /\ Total(PendingFees) = 0 /\ Total(RefundLocks) = 0
        BY <2>1, TotalEmpty, Bounds DEF Total
    <2> QED
        BY <2>1, <2>2 DEF orgInit, Init, OrgOpenInv, ClaimBudgets, OpeningInv
<1>2. TypeOK /\ BackedInv /\ OrgOpenInv /\ [orgNext]_orgVars => OrgOpenInv'
    BY ClaimBudgetsStep, OrgOpeningStep DEF BackedInv, OrgOpenInv
<1> QED
    BY <1>1, <1>2, OrgTypes, BackedInvariant, PTL DEF orgSpec

\* What a redemption needs here besides: the address of the merchant, and the tokens.
orgRedemptionOpen(D) ==
    /\ redemptionOpen(D)
    /\ D.merchant \in DOMAIN merchantPayoutRecipients
    /\ custody >= notes[D].amount

\* The ledger and the balances it leaves.
orgRedemptionWrites(D) ==
    /\ redemptionWrites(D)
    /\ custody' = custody - notes[D].amount
    /\ received' = [received EXCEPT ![merchantPayoutRecipients[D.merchant]] =
                                        @ + notes[D].amount]
    /\ UNCHANGED merchantPayoutRecipients

\* A redemption is its guards and its writes.
LEMMA OrgRedemptionIsItsGuards ==
    ASSUME CountersOK, NEW D
    PROVE  orgRedeemDraw(D.merchant, D) <=> orgRedemptionOpen(D) /\ orgRedemptionWrites(D)
BY RedemptionIsItsGuards DEF orgRedeemDraw, orgRedemptionOpen, orgRedemptionWrites, send

\* Every live claim can be redeemed or expired, and every refund owed can be sent.
OrgClaimsOpen ==
    /\ \A D \in Live :
          IF blockTime < notes[D].expiry THEN orgRedemptionOpen(D) ELSE expiryOpen(D)
    /\ \A D \in Allocated \ Refunded :
          notes[D].cashRefundOwed => notes[D].refundCommitment.amount <= custody

\* A live claim's principal, and a refund that is owed, are in custody.
LEMMA CustodyCovers ==
    ASSUME TypeOK, ClaimsOK, ClaimBudgets, CustodyBacksClaims
    PROVE  /\ \A D \in Live : notes[D].amount <= custody
           /\ \A D \in Allocated \ Refunded :
                 notes[D].cashRefundOwed => notes[D].refundCommitment.amount <= custody
<1>0. CountersOK /\ custody >= encumberedReserve + feeReserve + pendingFeeReserve + refundReserve
    BY DEF TypeOK, CustodyBacksClaims
<1>1. custody \in Int
    BY <1>0, CounterNats DEF CustodyBacksClaims
<1>2. ASSUME NEW D \in Live
      PROVE  notes[D].amount <= custody
    <2>1. /\ D \in DOMAIN notes /\ notes[D].amount \in Uint64
          /\ Encumbered[D] = notes[D].amount
        BY DEF Live, Encumbered, encumberedBy, TypeOK, NotesOK, NoteMeta
    <2>2. notes[D].amount <= encumberedReserve
        BY <2>1, ShareOfTotal DEF ClaimBudgets
    <2> QED
        BY <1>0, <1>1, <2>1, <2>2, CounterNats, Bounds
<1>3. ASSUME NEW D \in Allocated \ Refunded, notes[D].cashRefundOwed
      PROVE  notes[D].refundCommitment.amount <= custody
    <2>1. /\ D \in DOMAIN notes /\ ~notes[D].refundAcknowledged
          /\ notes[D].compensationAllocated
        BY DEF Allocated, Refunded
    <2>2. /\ notes[D].cancelled /\ cost(notes[D]) \in Uint64
          /\ notes[D].refundCommitment.amount \in Uint64
          /\ notes[D].refundCommitment.amount <= cost(notes[D])
        BY <2>1 DEF ClaimsOK, ClaimOK
    <2>3. RefundLocks[D] = cost(notes[D])
        BY <1>3, <2>1, <2>2 DEF RefundLocks, refundLockOf, awaitingRefund
    <2>4. cost(notes[D]) <= refundReserve
        BY <2>1, <2>2, <2>3, ShareOfTotal DEF ClaimBudgets
    <2> QED
        BY <1>0, <1>1, <2>2, <2>4, CounterNats, Bounds
<1> QED
    BY <1>2, <1>3

\* No claim waits for tokens: until it expires its merchant's redemption, and then
\* its expiry, can be executed; so can every refund that is owed.
THEOREM OrgClaimsAreOpen == orgSpec => []OrgClaimsOpen
<1>1. TypeOK /\ BackedInv /\ PaidInv /\ [orgNext]_orgVars => PaidInv'
    BY PaidStep DEF BackedInv
<1>2. orgInit => ReserveSolvent
    BY DEF orgInit, Init, ReserveSolvent, locked
<1>3. TypeOK /\ TypeOK' /\ ReserveSolvent /\ [orgNext]_orgVars => ReserveSolvent'
    BY OrgSolventStep
<1>4. TypeOK /\ BackedInv /\ PaidInv /\ ReserveSolvent /\ OrgOpenInv /\ CustodyBacksClaims
        => OrgClaimsOpen
    <2> SUFFICES ASSUME TypeOK, BackedInv, PaidInv, ReserveSolvent, OrgOpenInv,
                        CustodyBacksClaims
                 PROVE  OrgClaimsOpen
        OBVIOUS
    <2>1. ClaimsOK /\ ClaimBudgets /\ OpeningInv
        BY DEF BackedInv, OrgOpenInv
    <2>2. ASSUME NEW D \in Live
          PROVE  IF blockTime < notes[D].expiry THEN orgRedemptionOpen(D) ELSE expiryOpen(D)
        <3>1. IF blockTime < notes[D].expiry THEN redemptionOpen(D) ELSE expiryOpen(D)
            BY <2>1, LiveIsOpen DEF ClaimBudgets
        <3>2. D.merchant \in DOMAIN merchantPayoutRecipients
            BY DEF Live, PaidInv
        <3>3. custody \in Int /\ notes[D].amount \in Int
            BY Bounds DEF CustodyBacksClaims, TypeOK, CountersOK, Live, NotesOK, NoteMeta
        <3>4. notes[D].amount <= custody
            BY <2>1, CustodyCovers
        <3>5. custody >= notes[D].amount
            BY <3>3, <3>4
        <3> QED
            BY <3>1, <3>2, <3>5 DEF orgRedemptionOpen
    <2> QED
        BY <2>1, <2>2, CustodyCovers DEF OrgClaimsOpen
<1> QED
    BY <1>1, <1>2, <1>3, <1>4, PaidInitially, OrgTypes, BackedInvariant, OrgOpenInvariant,
       CustodyIsBacked, PTL DEF orgSpec

-----------------------------------------------------------------------------
(* The escrow whose refunds are in kind *)

\* The escrow counts as the facility does.
LEMMA OrgCountedAlike == \A S : OrgEscrow!Cardinality(S) = Cardinality(S)
BY DEF OrgEscrow!Cardinality, Cardinality

\* It holds exactly what the reserve locks.
LEMMA CustodyHeldIsLocked ==
    ASSUME TypeOK, BackedInv
    PROVE  OrgEscrow!Held = locked
<1> DEFINE escrowHolds == [c \in DOMAIN claimsOf |-> OrgEscrow!hold(claimsOf[c])]
<1>1. DOMAIN claimsOf = DOMAIN notes
    BY DEF claimsOf
<1>2. \A D \in DOMAIN notes : escrowHolds[D] = CustodyHolds[D]
    <2>1. ASSUME NEW D \in DOMAIN notes
          PROVE  escrowHolds[D] = CustodyHolds[D]
        <3>1. notes[D] \in NoteMeta /\ ClaimOK(notes[D])
            BY DEF TypeOK, NotesOK, BackedInv, ClaimsOK
        <3>2. claimsOf[D] = [principal |-> notes[D].amount, fee |-> notes[D].fee,
                             state |-> claimState(notes[D])]
            BY DEF claimsOf
        <3> QED
            BY <1>1, <3>1, <3>2, CustodyHold DEF CustodyHolds
    <2> QED
        BY <2>1
<1> HIDE DEF escrowHolds
<1>3. TotalOf(DOMAIN notes, escrowHolds, MaxUint64) = TotalOf(DOMAIN notes, CustodyHolds, MaxUint64)
    BY <1>2, Bounds, TotalSame
<1>4. OrgEscrow!TotalOf(DOMAIN claimsOf, escrowHolds, MaxUint64)
        = TotalOf(DOMAIN notes, escrowHolds, MaxUint64)
    BY <1>1, OrgCountedAlike DEF OrgEscrow!TotalOf, OrgEscrow!Units, TotalOf, Units
<1>5. OrgEscrow!Held = OrgEscrow!TotalOf(DOMAIN claimsOf, escrowHolds, MaxUint64) + feeReserve
    BY DEF OrgEscrow!Held, escrowHolds
<1>6. TotalOf(DOMAIN notes, CustodyHolds, MaxUint64) = CustodyBudgets
    BY DEF BackedInv, Total
<1>7. CountersOK /\ reportedRefundReserve = 0
    BY DEF TypeOK, BackedInv
<1> QED
    BY <1>3, <1>4, <1>5, <1>6, <1>7, CounterNats DEF CustodyBudgets, locked

\* A refund settles an owed claim out of the capital, by at most what it holds.
LEMMA CustodySettle ==
    ASSUME TypeOK, ClaimsOK, NEW caller \in Principals, NEW D \in DOMAIN notes,
           NEW amount \in Uint64, NEW payRef \in Payments \cup {Empty},
           NEW receiptExpiry \in Times,
           orgRefund(caller, D, amount, payRef, receiptExpiry)
    PROVE  D \in DOMAIN claimsOf /\ OrgEscrow!Settle(D)
<1> DEFINE n == acknowledgedNote(notes[D], paymentNullifier(payRef))
<1>1. /\ notes' = [notes EXCEPT ![D] = n] /\ payRef \in Payments
      /\ notes[D].compensationAllocated /\ notes[D].cashRefundOwed /\ notes[D].cancelled
      /\ ~notes[D].redeemed /\ ~notes[D].refundAcknowledged
      /\ amount \in 1..cost(notes[D])
      /\ totalReserve' = totalReserve - amount /\ UNCHANGED feeReserve
    BY DEF orgRefund, reportRefund
<1>2. n \in NoteMeta /\ SameTerms(n, notes[D])
    BY <1>1 DEF TypeOK, NotesOK, NoteMeta, ClaimsOK, ClaimOK, acknowledgedNote,
                paymentNullifier, SameTerms
<1>3. /\ ~n.redeemed /\ n.cancelled /\ n.compensationAllocated /\ n.cashRefundOwed
      /\ n.refundAcknowledged
    BY DEF acknowledgedNote
<1>4. claimState(notes[D]) = "owed"
    BY <1>1 DEF claimState, live
<1> HIDE DEF n
<1>5. claimState(n) = "settled"
    BY <1>3 DEF claimState, live
<1>6. /\ D \in DOMAIN claimsOf /\ claimsOf[D].state = "owed"
      /\ claimsOf' = [claimsOf EXCEPT ![D].state = "settled"]
    BY <1>1, <1>2, <1>4, <1>5, EscrowMove
<1>7. OrgEscrow!hold(claimsOf[D]) = cost(notes[D])
    BY <1>6, NoteAmounts DEF claimsOf, OrgEscrow!hold
<1>8. totalReserve' \in (totalReserve - OrgEscrow!hold(claimsOf[D]))..(totalReserve - 1)
    <2>1. totalReserve \in Int /\ amount \in Int /\ cost(notes[D]) \in Int
        BY Bounds, NoteAmounts DEF TypeOK, CountersOK
    <2> QED
        BY <1>1, <1>7, <2>1
<1> QED
    BY <1>1, <1>6, <1>8 DEF OrgEscrow!Settle, OrgEscrow!Move

\* The organization profile implements the escrow: its deposits and repayments fund
\* it, and every payment, expiry, compensation and refund moves one claim as the
\* escrow allows.
THEOREM CustodyEscrowIsImplemented == orgSpec => ImplementsCustodyEscrow
<1>1. orgInit => OrgEscrow!Init
    BY DEF orgInit, Init, OrgEscrow!Init, claimsOf
<1>2. TypeOK /\ BackedInv /\ [orgNext]_orgVars => [OrgEscrow!Next]_(OrgEscrow!vars)
    <2> DEFINE Goal == OrgEscrow!Next \/ UNCHANGED OrgEscrow!vars
    <2> SUFFICES ASSUME TypeOK, BackedInv, [orgNext]_orgVars
                 PROVE  Goal
        OBVIOUS
    <2>0. ClaimsOK /\ OrgEscrow!Held = locked /\ totalReserve \in Nat /\ locked \in Int
        BY CustodyHeldIsLocked, Bounds DEF BackedInv, TypeOK, CountersOK, locked
    <2>1. UNCHANGED notes => UNCHANGED claimsOf
        BY DEF claimsOf, claimState, live
    <2>2. CASE Administrative
        BY <2>1, <2>2 DEF Administrative, OrgEscrow!vars, counters
    <2>3. ASSUME NEW caller \in Principals, NEW m \in Merchants, NEW r \in Recipients,
                 orgRegisterMerchant(caller, m, r)
          PROVE  Goal
        BY <2>1, <2>3 DEF orgRegisterMerchant, registerMerchant, OrgEscrow!vars, counters
    <2>4. ASSUME NEW caller \in Principals, NEW a \in Deposits, orgFundReserve(caller, a)
          PROVE  Goal
        <3>1. totalReserve' > totalReserve /\ UNCHANGED <<feeReserve, notes>>
            BY <2>0, <2>4, Bounds DEF orgFundReserve, fundReserve
        <3> QED
            BY <2>1, <3>1 DEF OrgEscrow!Fund, OrgEscrow!Next
    <2>5. ASSUME NEW caller \in Principals, NEW a \in Deposits,
                 orgWithdrawUnencumberedReserve(caller, a)
          PROVE  Goal
        <3>1. /\ a > 0 /\ a <= totalReserve - locked /\ totalReserve' = totalReserve - a
              /\ UNCHANGED <<feeReserve, notes>> /\ a \in Nat
            BY <2>5, Bounds DEF orgWithdrawUnencumberedReserve, withdrawUnencumberedReserve,
               reserveCovers
        <3>2. totalReserve' < totalReserve /\ OrgEscrow!Held <= totalReserve'
            BY <2>0, <3>1
        <3> QED
            BY <2>1, <3>1, <3>2 DEF OrgEscrow!Withdraw, OrgEscrow!Next
    <2>6. ASSUME NEW caller \in Principals, orgWithdrawFees(caller)
          PROVE  Goal
        BY <2>1, <2>6 DEF orgWithdrawFees, withdrawFees, OrgEscrow!CollectFees, OrgEscrow!Next
    <2>7. ASSUME NEW agent \in Agents, NEW book \in HeldBooks, NEW Q \in DOMAIN quotes,
                 NEW fee \in Uint64, orgDraw(agent, book, Q, fee)
          PROVE  Goal
        <3>1. draw(agent, book, Q, fee)
            BY <2>7 DEF orgDraw
        <3>2. OrgEscrow!Promise
            BY <2>0, <3>1, PromisedClaim DEF OrgEscrow!Promise, OrgEscrow!Insert, Insert
        <3> QED
            BY <3>2 DEF OrgEscrow!Next
    <2>8. ASSUME NEW D \in DOMAIN notes, NEW caller \in Principals, orgRedeemDraw(caller, D)
          PROVE  Goal
        <3>1. D \in DOMAIN claimsOf /\ Escrow!Pay(D)
            BY <2>0, <2>8, EscrowPay DEF orgRedeemDraw
        <3> QED
            BY <3>1 DEF Escrow!Pay, Escrow!Move, OrgEscrow!Pay, OrgEscrow!Move, OrgEscrow!Next
    <2>9. ASSUME NEW D \in DOMAIN notes,
                 \/ expireNote(D)
                 \/ \E caller \in Principals, book \in HeldBooks :
                       allocateCompensation(caller, D, book)
          PROVE  Goal
        <3>1. D \in DOMAIN claimsOf /\ Escrow!Expire(D)
            BY <2>0, <2>9, EscrowExpire, EscrowCompensate
        <3> QED
            BY <3>1 DEF Escrow!Expire, Escrow!Move, OrgEscrow!Expire, OrgEscrow!Move,
               OrgEscrow!Next
    <2>10. ASSUME NEW D \in DOMAIN notes, NEW caller \in Principals, NEW amount \in Uint64,
                  NEW payRef \in Payments \cup {Empty}, NEW receiptExpiry \in Times,
                  orgRefund(caller, D, amount, payRef, receiptExpiry)
           PROVE  Goal
        BY <2>0, <2>10, CustodySettle DEF OrgEscrow!Next
    <2>11. ASSUME NEW caller \in Principals, NEW book \in HeldBooks, NEW amount \in Uint64,
                  NEW payRef \in Payments \cup {Empty}, NEW receiptExpiry \in Times,
                  orgAcknowledgeRepayment(caller, book, amount, payRef, receiptExpiry)
           PROVE  Goal
        <3>1. totalReserve' > totalReserve /\ UNCHANGED <<feeReserve, notes>>
            BY <2>0, <2>11, Bounds DEF orgAcknowledgeRepayment, creditRepayment
        <3> QED
            BY <2>1, <3>1 DEF OrgEscrow!Fund, OrgEscrow!Next
    <2> HIDE DEF Goal
    <2> QED
        BY <2>2, <2>3, <2>4, <2>5, <2>6, <2>7, <2>8, <2>9, <2>10, <2>11, OrgStepCases
<1> QED
    BY <1>1, <1>2, OrgTypes, BackedInvariant, PTL
       DEF orgSpec, ImplementsCustodyEscrow, OrgEscrow!Spec

-----------------------------------------------------------------------------
(* The private facility: types *)

PrivateBook == [identity : Borrowers, limit : Uint64, outstanding : Uint64, epoch : Uint64,
                generation : Nat, expiry : Uint64, flatFee : Uint64, basisPoints : Nat,
                status : Status]
Binding == [identity : Borrowers, generation : Nat]
Offer == [merchant : Merchants, binding : Binding, invoice : Invoices, amount : Uint64,
          expiry : Uint64]
PrivateNote == [identity : Borrowers, lineGeneration : Nat, quote : Offer, merchant : Merchants,
                amount : Uint64, fee : Uint64, expiry : Uint64]
PrivateMeta == [amount : Uint64, fee : Uint64, redeemed : BOOLEAN, cancelled : BOOLEAN,
                expiry : Uint64, compensationAllocated : BOOLEAN,
                refundCommitment : {Empty} \cup [note : PrivateNote, amount : Uint64],
                cashRefundOwed : BOOLEAN, refundAcknowledged : BOOLEAN]
Reserve == [totalReserve : Uint64, encumberedReserve : Uint64, redeemedReserve : Uint64,
            feeReserve : Uint64, pendingFeeReserve : Uint64, refundReserve : Uint64,
            reportedRefundReserve : Uint64]

\* A request names a new book, the first of its borrower or the one after its
\* predecessor.
RequestOK(r) ==
    /\ r = [book |-> r.book, predecessor |-> r.predecessor]
    /\ r.book \in PrivateBook /\ r.book.outstanding = 0
    /\ IF r.predecessor = NoBook THEN r.book.generation = 1
       ELSE /\ r.predecessor \in books /\ r.predecessor.identity = r.book.identity
            /\ r.book.generation = r.predecessor.generation + 1

BookTypes ==
    /\ \A b \in books : b \in PrivateBook
    /\ spentBooks \subseteq books \cup DOMAIN enrollments
    /\ \A r \in DOMAIN enrollments : RequestOK(r)

ClaimTypes ==
    /\ DOMAIN claims \subseteq PrivateNote /\ IsFiniteSet(DOMAIN claims)
    /\ claims \in [DOMAIN claims -> PrivateMeta]

\* The shape of one claim, as ClaimOK; but a refund of nothing is acknowledged too.
PrivateClaimOK(n) ==
    /\ cost(n) \in Uint64
    /\ n.redeemed => ~n.cancelled
    /\ n.compensationAllocated =>
          /\ n.cancelled
          /\ n.refundCommitment \in [note : PrivateNote, amount : Uint64]
          /\ n.refundCommitment.amount <= cost(n)
          /\ n.cashRefundOwed <=> n.refundCommitment.amount > 0
    /\ n.cashRefundOwed => n.compensationAllocated
    /\ n.refundAcknowledged => n.compensationAllocated
PrivateClaimsOK == \A D \in DOMAIN claims : PrivateClaimOK(claims[D])

\* The books that can still be spent.  Any other book of their borrower is of an
\* earlier generation or an earlier epoch, so what replaces a book is new, and no
\* borrower has two; and who ever had a book has one.
Current == books \ spentBooks
Older(c, b) == c.generation < b.generation \/ (c.generation = b.generation /\ c.epoch < b.epoch)
OneCurrent ==
    \A b \in Current, c \in books : c.identity = b.identity => c = b \/ Older(c, b)
StaysEnrolled == \A c \in books : \E b \in Current : b.identity = c.identity
IssuedOnce == \A c \in books : <<c.identity, 1>> \in initialEnrollments
BooksOK == BookTypes /\ OneCurrent /\ StaysEnrolled /\ IssuedOnce

-----------------------------------------------------------------------------
(* The books *)

BooksStay == UNCHANGED <<books, spentBooks, enrollments, initialEnrollments>>

\* A request is no book.
LEMMA RequestIsNoBook ==
    ASSUME NEW b \in PrivateBook, NEW r, RequestOK(r)
    PROVE  b # r
<1>1. DOMAIN b = {"identity", "limit", "outstanding", "epoch", "generation", "expiry",
                  "flatFee", "basisPoints", "status"}
    BY DEF PrivateBook
<1>2. DOMAIN r = {"book", "predecessor"}
    BY DEF RequestOK
<1> QED
    BY <1>1, <1>2

\* A book that comes after all of its borrower's takes the place of the one that
\* is spent with it, or is the first.
LEMMA Succession ==
    ASSUME BooksOK, NEW c \in PrivateBook, NEW x, books' = books \cup {c},
           spentBooks' = spentBooks \cup {x}, UNCHANGED DOMAIN enrollments,
           \A b \in books : b.identity = c.identity => Older(b, c),
           \/ x \in Current /\ x.identity = c.identity
           \/ x \in DOMAIN enrollments /\ \A b \in books : b.identity # c.identity,
           initialEnrollments \subseteq initialEnrollments',
           <<c.identity, 1>> \in initialEnrollments'
    PROVE  BooksOK' /\ Current' = (Current \ {x}) \cup {c} /\ c \notin books
<1>1. c \notin books
    BY Bounds DEF Older, PrivateBook
<1>2. c \notin spentBooks /\ c # x
    <2>1. \A r \in DOMAIN enrollments : r # c
        BY RequestIsNoBook DEF BooksOK, BookTypes
    <2> QED
        BY <1>1, <2>1 DEF BooksOK, BookTypes, Current
<1>3. Current' = (Current \ {x}) \cup {c}
    BY <1>1, <1>2 DEF Current
<1>4. BookTypes'
    <2>1. \A r \in DOMAIN enrollments : RequestOK(r)'
        BY DEF BooksOK, BookTypes, RequestOK
    <2> QED
        BY <2>1 DEF BooksOK, BookTypes, Current
<1>5. OneCurrent'
    <2> SUFFICES ASSUME NEW b \in Current', NEW d \in books', d.identity = b.identity
                 PROVE  d = b \/ Older(d, b)
        BY DEF OneCurrent
    <2>1. CASE b = c
        BY <2>1
    <2>2. CASE b # c /\ d # c
        BY <1>3, <2>2 DEF BooksOK, OneCurrent
    <2>3. CASE b # c /\ d = c
        <3>1. b \in Current /\ b # x /\ b \in books
            BY <1>3, <2>3 DEF Current
        <3>2. x \in Current /\ x.identity = c.identity /\ x \in books
            BY <2>3, <3>1 DEF Current
        <3>3. Older(x, b) /\ Older(b, x)
            BY <2>3, <3>1, <3>2 DEF BooksOK, OneCurrent
        <3>4. /\ b.generation \in Nat /\ b.epoch \in Nat
              /\ x.generation \in Nat /\ x.epoch \in Nat
            <4>1. b \in PrivateBook /\ x \in PrivateBook
                BY <3>1, <3>2 DEF BooksOK, BookTypes
            <4> QED
                BY <4>1, Bounds DEF PrivateBook
        <3> QED
            BY <3>3, <3>4 DEF Older
    <2> QED
        BY <2>1, <2>2, <2>3
<1>6. StaysEnrolled'
    <2> SUFFICES ASSUME NEW d \in books' PROVE \E b \in Current' : b.identity = d.identity
        BY DEF StaysEnrolled
    <2>1. CASE d.identity = c.identity
        BY <1>3, <2>1
    <2>2. CASE d.identity # c.identity
        <3>1. PICK b \in Current : b.identity = d.identity
            BY <2>2 DEF BooksOK, StaysEnrolled
        <3>2. b # x
            BY <2>2, <3>1, RequestIsNoBook DEF BooksOK, BookTypes, Current
        <3> QED
            BY <1>3, <3>1, <3>2
    <2> QED
        BY <2>1, <2>2
<1>7. IssuedOnce'
    BY DEF BooksOK, IssuedOnce
<1> QED
    BY <1>1, <1>3, <1>4, <1>5, <1>6, <1>7 DEF BooksOK

\* A call that spends a book replaces it by its next epoch.
LEMMA Replaced ==
    ASSUME BooksOK, NEW b, readBook(b), NEW balance, NEW next \in Status,
           replaceBook(b, balance, next), UNCHANGED <<enrollments, initialEnrollments>>
    PROVE  \E c \in PrivateBook :
             /\ c.identity = b.identity /\ c.generation = b.generation
             /\ c.outstanding = balance
             /\ b \in Current /\ c \notin books /\ books' = books \cup {c}
             /\ Current' = (Current \ {b}) \cup {c} /\ BooksOK'
<1> DEFINE c == [identity |-> b.identity, limit |-> b.limit, outstanding |-> balance,
                 epoch |-> b.epoch + 1, generation |-> b.generation, expiry |-> b.expiry,
                 flatFee |-> b.flatFee, basisPoints |-> b.basisPoints, status |-> next]
<1>1. b \in PrivateBook /\ b \in Current
    BY DEF readBook, BooksOK, BookTypes, Current
<1>2. c = [b EXCEPT !.outstanding = balance, !.epoch = @ + 1, !.status = next]
    <2>1. PICK m : m = [b EXCEPT !.outstanding = balance, !.epoch = @ + 1, !.status = next]
        OBVIOUS
    <2>2. /\ DOMAIN b = {"identity", "limit", "outstanding", "epoch", "generation", "expiry",
                         "flatFee", "basisPoints", "status"}
          /\ b = [f \in DOMAIN b |-> b[f]]
        BY <1>1 DEF PrivateBook
    <2>3. m = c
        BY <2>1, <2>2
    <2> QED
        BY <2>1, <2>3
<1>3. c \in PrivateBook
    BY <1>1, Bounds DEF replaceBook, PrivateBook
<1>4. /\ c.identity = b.identity /\ c.generation = b.generation /\ c.epoch = b.epoch + 1
      /\ c.outstanding = balance
    OBVIOUS
<1> HIDE DEF c
<1>5. books' = books \cup {c} /\ spentBooks' = spentBooks \cup {b}
    BY <1>2 DEF replaceBook
<1>6. \A d \in books : d.identity = c.identity => Older(d, c)
    <2> SUFFICES ASSUME NEW d \in books, d.identity = c.identity PROVE Older(d, c)
        OBVIOUS
    <2>1. d = b \/ Older(d, b)
        BY <1>1, <1>4 DEF BooksOK, OneCurrent
    <2>2. d \in PrivateBook
        BY DEF BooksOK, BookTypes
    <2> QED
        BY <1>1, <1>4, <2>1, <2>2, Bounds DEF PrivateBook, Older
<1>7. <<c.identity, 1>> \in initialEnrollments
    BY <1>1, <1>4 DEF BooksOK, IssuedOnce, Current
<1>8. BooksOK' /\ Current' = (Current \ {b}) \cup {c} /\ c \notin books
    BY <1>1, <1>3, <1>4, <1>5, <1>6, <1>7, Succession
<1> QED
    BY <1>1, <1>3, <1>4, <1>5, <1>8

\* A borrower's request.
LEMMA Requested ==
    ASSUME BooksOK, NEW agent \in Borrowers, NEW prior \in books \cup {NoBook},
           NEW limit \in Limits, NEW expiry \in Times, NEW flat \in FlatFees, NEW bps \in Rates,
           requestLine(enrollment(agent, prior, limit, expiry, flat, bps))
    PROVE  BooksOK'
<1> DEFINE r == enrollment(agent, prior, limit, expiry, flat, bps)
           c == newBook(agent, limit, IF prior = NoBook THEN 1 ELSE prior.generation + 1,
                        expiry, flat, bps)
<1>1. /\ r = [book |-> c, predecessor |-> prior]
      /\ r.book = c /\ r.predecessor = prior
    BY DEF enrollment
<1>2. prior # NoBook => prior \in PrivateBook
    BY DEF BooksOK, BookTypes
<1>3. c \in PrivateBook /\ c.outstanding = 0 /\ c.identity = agent
      /\ c.generation = IF prior = NoBook THEN 1 ELSE prior.generation + 1
    BY <1>2, Bounds DEF newBook, PrivateBook, Status
<1> HIDE DEF c
<1>4. mayFollow(agent, prior)
    BY <1>1, <1>3 DEF requestLine, openable
<1> HIDE DEF r
<1>5. RequestOK(r)
    BY <1>1, <1>3, <1>4 DEF RequestOK, mayFollow
<1>6. /\ enrollments' = Insert(enrollments, r, FALSE)
      /\ UNCHANGED <<books, spentBooks, initialEnrollments>>
    BY DEF requestLine, r
<1>7. DOMAIN enrollments' = DOMAIN enrollments \cup {r}
    BY <1>6 DEF Insert
<1>8. BookTypes'
    <2>1. \A q \in DOMAIN enrollments \cup {r} : RequestOK(q)'
        BY <1>5, <1>6 DEF BooksOK, BookTypes, RequestOK
    <2> QED
        BY <1>6, <1>7, <2>1 DEF BooksOK, BookTypes
<1> QED
    BY <1>6, <1>8 DEF BooksOK, OneCurrent, StaysEnrolled, IssuedOnce, Current

\* The issuer's acceptance: the book takes the place of its closed predecessor, or
\* is the first of its borrower.
LEMMA Accepted ==
    ASSUME BooksOK, NEW caller, NEW r \in DOMAIN enrollments, acceptLine(caller, r)
    PROVE  /\ BooksOK' /\ r.book \in PrivateBook /\ r.book.outstanding = 0
           /\ r.book \notin books /\ books' = books \cup {r.book}
           /\ Current' = (Current \ {spendOf(r)}) \cup {r.book}
           /\ \/ /\ spendOf(r) \in Current /\ spendOf(r).identity = r.book.identity
                 /\ spendOf(r).outstanding = 0
              \/ \A b \in books : b.identity # r.book.identity
<1> DEFINE c == r.book
           x == spendOf(r)
<1>1. RequestOK(r) /\ c \in PrivateBook /\ c.outstanding = 0
    BY DEF BooksOK, BookTypes, RequestOK
<1>2. /\ books' = books \cup {c} /\ spentBooks' = spentBooks \cup {x}
      /\ initialEnrollments' = initialEnrollments \cup {<<c.identity, c.generation>>}
      /\ <<c.identity, c.generation>> \notin initialEnrollments
      /\ DOMAIN enrollments' = DOMAIN enrollments
      /\ mayFollow(c.identity, r.predecessor) /\ x \notin spentBooks
    BY DEF acceptLine, openable, issuance
<1>3. CASE r.predecessor = NoBook
    <2>1. x = r /\ c.generation = 1
        BY <1>1, <1>3 DEF spendOf, RequestOK
    <2>2. \A b \in books : b.identity # c.identity
        BY <1>2, <2>1 DEF BooksOK, IssuedOnce
    <2> HIDE DEF c, x
    <2>3. BooksOK' /\ Current' = (Current \ {x}) \cup {c} /\ c \notin books
        BY <1>1, <1>2, <2>1, <2>2, Succession
    <2> QED
        BY <1>1, <1>2, <2>2, <2>3 DEF c, x
<1>4. CASE r.predecessor # NoBook
    <2>1. /\ x = r.predecessor /\ x \in Current /\ x.identity = c.identity
          /\ x.outstanding = 0 /\ c.generation = x.generation + 1
        BY <1>1, <1>2, <1>4 DEF spendOf, RequestOK, mayFollow, Current
    <2>2. \A b \in books : b.identity = c.identity => Older(b, c)
        <3> SUFFICES ASSUME NEW b \in books, b.identity = c.identity PROVE Older(b, c)
            OBVIOUS
        <3>1. b = x \/ Older(b, x)
            BY <2>1 DEF BooksOK, OneCurrent
        <3>2. b \in PrivateBook /\ x \in PrivateBook
            BY <2>1 DEF BooksOK, BookTypes, Current
        <3> QED
            BY <2>1, <3>1, <3>2 DEF PrivateBook, Older
    <2>3. <<c.identity, 1>> \in initialEnrollments'
        BY <1>2, <2>1 DEF BooksOK, IssuedOnce, Current
    <2> HIDE DEF c, x
    <2>4. BooksOK' /\ Current' = (Current \ {x}) \cup {c} /\ c \notin books
        BY <1>1, <1>2, <2>1, <2>2, <2>3, Succession
    <2> QED
        BY <1>1, <1>2, <2>1, <2>4 DEF c, x
<1> QED
    BY <1>3, <1>4

-----------------------------------------------------------------------------
(* The claims and their sums *)

\* What a claim owes, promises in cash and leaves open to a credit, in the account
\* of one borrower or of one of its books; and what it keeps in the reserve.
owesShare(n, D, a) == IF D.identity = a THEN owedFor(n) ELSE 0
promiseShare(n, D, a) == IF D.identity = a THEN promisedBy(n) ELSE 0
openShare(n, D, b) ==
    IF D.identity = b.identity /\ D.lineGeneration = b.generation /\ ~n.compensationAllocated
    THEN cost(n) ELSE 0
privateHold(n) ==
    IF n.redeemed THEN n.amount
    ELSE IF n.compensationAllocated /\ ~n.cashRefundOwed THEN 0 ELSE cost(n)

Owes(a) == [D \in DOMAIN claims |-> owesShare(claims[D], D, a)]
Promises(a) == [D \in DOMAIN claims |-> promiseShare(claims[D], D, a)]
OpenTo(b) == [D \in DOMAIN claims |-> openShare(claims[D], D, b)]
PrivateHolds == [D \in DOMAIN claims |-> privateHold(claims[D])]
AllOf(f) == TotalOf(DOMAIN claims, f, MaxUint64)

\* Each share is a Uint<64>, and a promise is a part of what is owed.
LEMMA PrivateShares ==
    ASSUME NEW n \in PrivateMeta, PrivateClaimOK(n), NEW D, NEW a, NEW b
    PROVE  /\ owesShare(n, D, a) \in 0..MaxUint64 /\ promiseShare(n, D, a) \in 0..MaxUint64
           /\ openShare(n, D, b) \in 0..MaxUint64 /\ privateHold(n) \in 0..MaxUint64
           /\ promiseShare(n, D, a) <= owesShare(n, D, a)
           /\ promiseShare(n, D, b.identity) + openShare(n, D, b) <= owesShare(n, D, b.identity)
<1>1. /\ cost(n) \in 0..MaxUint64 /\ n.amount \in 0..MaxUint64 /\ 0 \in 0..MaxUint64
      /\ MaxUint64 \in Nat
    BY Bounds DEF PrivateMeta, PrivateClaimOK
<1>2. n.compensationAllocated =>
         n.refundCommitment.amount \in 0..MaxUint64 /\ n.refundCommitment.amount <= cost(n)
    BY Bounds DEF PrivateClaimOK
<1> QED
    BY <1>1, <1>2 DEF owesShare, promiseShare, openShare, privateHold, owedFor, promisedBy

\* Sums of claims are natural.
LEMMA PrivateSums ==
    ASSUME ClaimTypes, NEW a, NEW b
    PROVE  /\ AllOf(Owes(a)) \in Nat /\ AllOf(Promises(a)) \in Nat
           /\ AllOf(OpenTo(b)) \in Nat /\ AllOf(PrivateHolds) \in Nat
BY Bounds, UnitsFinite DEF ClaimTypes, AllOf

\* A new claim adds its share to every sum.
LEMMA PrivateAdded ==
    ASSUME ClaimTypes, PrivateClaimsOK, NEW D \in PrivateNote, D \notin DOMAIN claims,
           NEW n \in PrivateMeta, PrivateClaimOK(n), claims' = Insert(claims, D, n),
           NEW a, NEW b
    PROVE  /\ AllOf(Owes(a))' = AllOf(Owes(a)) + owesShare(n, D, a)
           /\ AllOf(Promises(a))' = AllOf(Promises(a)) + promiseShare(n, D, a)
           /\ AllOf(OpenTo(b))' = AllOf(OpenTo(b)) + openShare(n, D, b)
           /\ AllOf(PrivateHolds)' = AllOf(PrivateHolds) + privateHold(n)
<1> DEFINE S == DOMAIN claims
<1>1. IsFiniteSet(S) /\ MaxUint64 \in Nat
    BY Bounds DEF ClaimTypes
<1>2. /\ DOMAIN claims' = S \cup {D} /\ claims'[D] = n
      /\ \A x \in S : claims'[x] = claims[x]
    BY DEF Insert
<1>3. /\ owesShare(n, D, a) \in 0..MaxUint64 /\ promiseShare(n, D, a) \in 0..MaxUint64
      /\ openShare(n, D, b) \in 0..MaxUint64 /\ privateHold(n) \in 0..MaxUint64
    BY PrivateShares
<1>4. AllOf(Owes(a))' = AllOf(Owes(a)) + owesShare(n, D, a)
    BY <1>3, <1>1, <1>2, TotalInserted DEF AllOf, Owes
<1>5. AllOf(Promises(a))' = AllOf(Promises(a)) + promiseShare(n, D, a)
    BY <1>3, <1>1, <1>2, TotalInserted DEF AllOf, Promises
<1>6. AllOf(OpenTo(b))' = AllOf(OpenTo(b)) + openShare(n, D, b)
    BY <1>3, <1>1, <1>2, TotalInserted DEF AllOf, OpenTo
<1>7. AllOf(PrivateHolds)' = AllOf(PrivateHolds) + privateHold(n)
    BY <1>3, <1>1, <1>2, TotalInserted DEF AllOf, PrivateHolds
<1> QED
    BY <1>4, <1>5, <1>6, <1>7

\* A claim that changes moves every sum by the difference.
LEMMA PrivateMoved ==
    ASSUME ClaimTypes, PrivateClaimsOK, NEW D \in DOMAIN claims, NEW n \in PrivateMeta,
           PrivateClaimOK(n), claims' = [claims EXCEPT ![D] = n], NEW a, NEW b
    PROVE  /\ AllOf(Owes(a))'
                = AllOf(Owes(a)) - owesShare(claims[D], D, a) + owesShare(n, D, a)
           /\ AllOf(Promises(a))'
                = AllOf(Promises(a)) - promiseShare(claims[D], D, a) + promiseShare(n, D, a)
           /\ AllOf(OpenTo(b))'
                = AllOf(OpenTo(b)) - openShare(claims[D], D, b) + openShare(n, D, b)
           /\ AllOf(PrivateHolds)'
                = AllOf(PrivateHolds) - privateHold(claims[D]) + privateHold(n)
<1> DEFINE S == DOMAIN claims
           m == claims[D]
<1>1. /\ IsFiniteSet(S) /\ MaxUint64 \in Nat
      /\ m \in PrivateMeta /\ PrivateClaimOK(m)
    BY Bounds DEF ClaimTypes, PrivateClaimsOK
<1>2. /\ DOMAIN claims' = S /\ claims'[D] = n
      /\ \A x \in S \ {D} : claims'[x] = claims[x]
    BY DEF ClaimTypes
<1>3. /\ owesShare(n, D, a) \in 0..MaxUint64 /\ promiseShare(n, D, a) \in 0..MaxUint64
      /\ openShare(n, D, b) \in 0..MaxUint64 /\ privateHold(n) \in 0..MaxUint64
      /\ owesShare(m, D, a) \in 0..MaxUint64 /\ promiseShare(m, D, a) \in 0..MaxUint64
      /\ openShare(m, D, b) \in 0..MaxUint64 /\ privateHold(m) \in 0..MaxUint64
    BY <1>1, PrivateShares
<1>4. AllOf(Owes(a))' = AllOf(Owes(a)) - owesShare(m, D, a) + owesShare(n, D, a)
    BY <1>3, <1>1, <1>2, TotalUpdate DEF AllOf, Owes
<1>5. AllOf(Promises(a))' = AllOf(Promises(a)) - promiseShare(m, D, a) + promiseShare(n, D, a)
    BY <1>3, <1>1, <1>2, TotalUpdate DEF AllOf, Promises
<1>6. AllOf(OpenTo(b))' = AllOf(OpenTo(b)) - openShare(m, D, b) + openShare(n, D, b)
    BY <1>3, <1>1, <1>2, TotalUpdate DEF AllOf, OpenTo
<1>7. AllOf(PrivateHolds)' = AllOf(PrivateHolds) - privateHold(m) + privateHold(n)
    BY <1>3, <1>1, <1>2, TotalUpdate DEF AllOf, PrivateHolds
<1> QED
    BY <1>4, <1>5, <1>6, <1>7

\* A sum over one borrower's claims is the sum of its shares over all of them.
LEMMA SumOfBorrower ==
    ASSUME NEW a
    PROVE  owedBy(a) = AllOf(Owes(a)) /\ promisedTo(a) = AllOf(Promises(a))
<1>1. Units(claimsOfAgent(a), [D \in claimsOfAgent(a) |-> owedFor(claims[D])], MaxUint64)
        = Units(DOMAIN claims, Owes(a), MaxUint64)
    BY Bounds DEF Units, claimsOfAgent, Owes, owesShare
<1>2. Units(claimsOfAgent(a), [D \in claimsOfAgent(a) |-> promisedBy(claims[D])], MaxUint64)
        = Units(DOMAIN claims, Promises(a), MaxUint64)
    BY Bounds DEF Units, claimsOfAgent, Promises, promiseShare
<1> QED
    BY <1>1, <1>2 DEF owedBy, promisedTo, sumOver, AllOf, TotalOf

\* What a borrower was promised, and what its open claims of one book cost, are
\* different parts of what it owes, whatever the claims are.
LEMMA PromisesBesideOpen ==
    ASSUME NEW map, IsFiniteSet(DOMAIN map), map \in [DOMAIN map -> PrivateMeta],
           \A D \in DOMAIN map : PrivateClaimOK(map[D]), NEW b
    PROVE  TotalOf(DOMAIN map, [D \in DOMAIN map |-> promiseShare(map[D], D, b.identity)],
                   MaxUint64)
             + TotalOf(DOMAIN map, [D \in DOMAIN map |-> openShare(map[D], D, b)], MaxUint64)
             <= TotalOf(DOMAIN map, [D \in DOMAIN map |-> owesShare(map[D], D, b.identity)],
                        MaxUint64)
<1> DEFINE a == b.identity
           p == [D \in DOMAIN map |-> promiseShare(map[D], D, a)]
           u == [D \in DOMAIN map |-> openShare(map[D], D, b)]
           o == [D \in DOMAIN map |-> owesShare(map[D], D, a)]
           P == Units(DOMAIN map, p, MaxUint64)
           U == Units(DOMAIN map, u, MaxUint64)
           O == Units(DOMAIN map, o, MaxUint64)
<1>1. IsFiniteSet(P) /\ IsFiniteSet(U) /\ IsFiniteSet(O)
    BY UnitsFinite, Bounds
<1>2. \A D \in DOMAIN map :
        /\ p[D] \in Nat /\ u[D] \in Nat /\ o[D] \in Nat
        /\ (p[D] = 0 /\ u[D] <= o[D]) \/ (u[D] = 0 /\ p[D] <= o[D])
    <2> SUFFICES ASSUME NEW D \in DOMAIN map
                 PROVE  /\ promiseShare(map[D], D, a) \in Nat
                        /\ openShare(map[D], D, b) \in Nat
                        /\ owesShare(map[D], D, a) \in Nat
                        /\ \/ /\ promiseShare(map[D], D, a) = 0
                              /\ openShare(map[D], D, b) <= owesShare(map[D], D, a)
                           \/ /\ openShare(map[D], D, b) = 0
                              /\ promiseShare(map[D], D, a) <= owesShare(map[D], D, a)
        OBVIOUS
    <2>1. map[D] \in PrivateMeta /\ PrivateClaimOK(map[D])
        OBVIOUS
    <2>2. /\ promiseShare(map[D], D, a) \in Nat /\ openShare(map[D], D, b) \in Nat
          /\ owesShare(map[D], D, a) \in Nat
          /\ promiseShare(map[D], D, a) <= owesShare(map[D], D, a)
          /\ promiseShare(map[D], D, a) + openShare(map[D], D, b) <= owesShare(map[D], D, a)
        BY <2>1, PrivateShares
    <2>3. promiseShare(map[D], D, a) = 0 \/ openShare(map[D], D, b) = 0
        BY DEF promiseShare, openShare, promisedBy
    <2> QED
        BY <2>2, <2>3
<1> HIDE DEF p, u, o
<1>3. P \cap U = {}
    BY <1>2 DEF Units
<1>4. P \cup U \in SUBSET O
    <2>1. ASSUME NEW D \in DOMAIN map, NEW k \in 1..MaxUint64, k <= p[D] \/ k <= u[D]
          PROVE  k <= o[D]
        BY <1>2, <2>1
    <2> QED
        BY <2>1 DEF Units
<1> HIDE DEF P, U, O
<1>5. Cardinality(P \cup U) = Cardinality(P) + Cardinality(U)
    BY <1>1, <1>3, DisjointUnion
<1>6. Cardinality(P \cup U) <= Cardinality(O)
    BY <1>1, <1>4, FS_Subset
<1> QED
    BY <1>5, <1>6 DEF P, U, O, p, u, o, TotalOf

-----------------------------------------------------------------------------
(* The debts *)

Booked(a) == \E b \in books : b.identity = a

\* What a borrower owes is on its book, or repaid; what the book holds is owed for
\* claims of its own generation; and only what was repaid is promised in cash.
DebtOn(b) ==
    /\ b.outstanding + credited[b.identity] = AllOf(Owes(b.identity))
    /\ b.outstanding <= AllOf(OpenTo(b))
DebtsOK ==
    /\ credited \in [Borrowers -> Nat]
    /\ \A D \in DOMAIN claims : Booked(D.identity)
    /\ \A a \in Borrowers : credited[a] # 0 => Booked(a)
    /\ \A b \in Current : DebtOn(b)
    /\ \A a \in Borrowers : AllOf(Promises(a)) <= credited[a]

\* A borrower has one current book.
LEMMA OnlyOneCurrent ==
    ASSUME BooksOK, NEW b \in Current, NEW c \in Current, b.identity = c.identity
    PROVE  b = c
<1>1. b \in books /\ c \in books
    BY DEF Current
<1>2. b \in PrivateBook /\ c \in PrivateBook
    BY <1>1 DEF BooksOK, BookTypes
<1>3. /\ b.generation \in Nat /\ b.epoch \in Nat
      /\ c.generation \in Nat /\ c.epoch \in Nat
    BY <1>2, Bounds DEF PrivateBook
<1>4. (b = c \/ Older(b, c)) /\ (b = c \/ Older(c, b))
    BY <1>1 DEF BooksOK, OneCurrent
<1> QED
    BY <1>3, <1>4 DEF Older

\* The sums of the borrowers that a step leaves alone.
OthersStay(x) ==
    /\ \A a \in Borrowers \ {x} :
          /\ credited'[a] = credited[a]
          /\ AllOf(Owes(a))' = AllOf(Owes(a))
          /\ AllOf(Promises(a))' = AllOf(Promises(a))
    /\ \A e \in Current : e.identity # x => AllOf(OpenTo(e))' = AllOf(OpenTo(e))
    /\ \A D \in DOMAIN claims' : D \in DOMAIN claims \/ D.identity = x

\* When one borrower's current book is succeeded by c, its debt is looked at alone:
\* what was promised in cash cannot exceed what was repaid.
LEMMA DebtsSucceed ==
    ASSUME BooksOK, DebtsOK, NEW c \in PrivateBook, books' = books \cup {c},
           \A e \in Current' : e = c \/ (e \in Current /\ e.identity # c.identity),
           credited' \in [Borrowers -> Nat], OthersStay(c.identity),
           ClaimTypes', PrivateClaimsOK', DebtOn(c)'
    PROVE  DebtsOK'
<1>1. \A a : Booked(a) => Booked(a)'
    BY DEF Booked
<1>2. Booked(c.identity)'
    BY DEF Booked
<1>3. \A D \in DOMAIN claims' : Booked(D.identity)'
    BY <1>1, <1>2 DEF DebtsOK, OthersStay
<1>4. \A a \in Borrowers : credited'[a] # 0 => Booked(a)'
    BY <1>1, <1>2 DEF DebtsOK, OthersStay
<1>5. \A a \in Borrowers : AllOf(Promises(a))' <= credited'[a]
    <2>1. AllOf(Promises(c.identity))' + AllOf(OpenTo(c))' <= AllOf(Owes(c.identity))'
        <3>1. /\ IsFiniteSet(DOMAIN claims') /\ claims' \in [DOMAIN claims' -> PrivateMeta]
              /\ \A D \in DOMAIN claims' : PrivateClaimOK(claims'[D])
            BY DEF ClaimTypes, PrivateClaimsOK
        <3> QED
            BY <3>1, PromisesBesideOpen DEF AllOf, Promises, OpenTo, Owes
    <2>2. /\ AllOf(Promises(c.identity))' \in Nat /\ AllOf(OpenTo(c))' \in Nat
          /\ AllOf(Owes(c.identity))' \in Nat
        BY Bounds, UnitsFinite DEF ClaimTypes, AllOf
    <2>3. c.outstanding \in Nat /\ credited'[c.identity] \in Nat
        BY Bounds DEF PrivateBook
    <2>4. AllOf(Promises(c.identity))' <= credited'[c.identity]
        BY <2>1, <2>2, <2>3 DEF DebtOn
    <2> QED
        BY <2>4 DEF DebtsOK, OthersStay
<1>6. ASSUME NEW e \in Current' PROVE DebtOn(e)'
    <2>1. CASE e = c
        BY <2>1
    <2>2. CASE e # c
        <3>1. e \in Current /\ e.identity # c.identity
            BY <2>2
        <3>2. e.identity \in Borrowers
            BY <3>1 DEF BooksOK, BookTypes, Current, PrivateBook
        <3>3. /\ credited'[e.identity] = credited[e.identity]
              /\ AllOf(Owes(e.identity))' = AllOf(Owes(e.identity))
              /\ AllOf(OpenTo(e))' = AllOf(OpenTo(e))
            BY <3>1, <3>2 DEF OthersStay
        <3>4. DebtOn(e)
            BY <3>1 DEF DebtsOK
        <3> QED
            BY <3>3, <3>4 DEF DebtOn
    <2> QED
        BY <2>1, <2>2
<1> QED
    BY <1>3, <1>4, <1>5, <1>6 DEF DebtsOK

\* A step that changes no book and no repayment, and moves one claim whose debt it
\* leaves as it was.
LEMMA DebtsKept ==
    ASSUME BooksOK, ClaimTypes, PrivateClaimsOK, DebtsOK, UNCHANGED <<books, spentBooks, credited>>,
           NEW D \in DOMAIN claims, NEW n \in PrivateMeta, PrivateClaimOK(n),
           claims' = [claims EXCEPT ![D] = n],
           owedFor(n) = owedFor(claims[D]), promisedBy(n) = promisedBy(claims[D]),
           n.compensationAllocated <=> claims[D].compensationAllocated, cost(n) = cost(claims[D])
    PROVE  DebtsOK'
<1>1. Current' = Current /\ DOMAIN claims' = DOMAIN claims
    BY DEF Current, ClaimTypes
<1>2. ASSUME NEW a, NEW b
      PROVE  /\ AllOf(Owes(a))' = AllOf(Owes(a)) /\ AllOf(Promises(a))' = AllOf(Promises(a))
             /\ AllOf(OpenTo(b))' = AllOf(OpenTo(b))
    <2>1. /\ owesShare(n, D, a) = owesShare(claims[D], D, a)
          /\ promiseShare(n, D, a) = promiseShare(claims[D], D, a)
          /\ openShare(n, D, b) = openShare(claims[D], D, b)
        BY DEF owesShare, promiseShare, openShare
    <2>2. claims[D] \in PrivateMeta /\ PrivateClaimOK(claims[D])
        BY DEF ClaimTypes, PrivateClaimsOK
    <2>3. /\ owesShare(claims[D], D, a) \in 0..MaxUint64
          /\ promiseShare(claims[D], D, a) \in 0..MaxUint64
          /\ openShare(claims[D], D, b) \in 0..MaxUint64
        BY <2>2, PrivateShares
    <2>4. /\ AllOf(Owes(a))'
                = AllOf(Owes(a)) - owesShare(claims[D], D, a) + owesShare(n, D, a)
          /\ AllOf(Promises(a))'
                = AllOf(Promises(a)) - promiseShare(claims[D], D, a) + promiseShare(n, D, a)
          /\ AllOf(OpenTo(b))'
                = AllOf(OpenTo(b)) - openShare(claims[D], D, b) + openShare(n, D, b)
        BY PrivateMoved
    <2>5. AllOf(Owes(a)) \in Nat /\ AllOf(Promises(a)) \in Nat /\ AllOf(OpenTo(b)) \in Nat
        BY PrivateSums
    <2> QED
        BY <2>1, <2>3, <2>4, <2>5, Bounds
<1>3. \A a : Booked(a)' <=> Booked(a)
    BY DEF Booked
<1>4. ASSUME NEW b \in Current PROVE DebtOn(b)'
    BY <1>2, <1>4 DEF DebtsOK, DebtOn
<1> QED
    BY <1>1, <1>2, <1>3, <1>4 DEF DebtsOK
-----------------------------------------------------------------------------
(* The reserve *)

\* What the reserve keeps for claims: all that is locked but the earned fees.
kept(r) == lockedIn(r) - r.feeReserve

HoldsOK ==
    /\ reserve \in Reserve
    /\ AllOf(PrivateHolds) = kept(reserve)
    /\ lockedIn(reserve) <= reserve.totalReserve

LEMMA ReserveFields ==
    ASSUME NEW r \in Reserve
    PROVE  /\ r.totalReserve \in Nat /\ r.encumberedReserve \in Nat
           /\ r.redeemedReserve \in Nat /\ r.feeReserve \in Nat
           /\ r.pendingFeeReserve \in Nat /\ r.refundReserve \in Nat
           /\ r.reportedRefundReserve \in Nat
           /\ DOMAIN r = {"totalReserve", "encumberedReserve", "redeemedReserve", "feeReserve",
                          "pendingFeeReserve", "refundReserve", "reportedRefundReserve"}
           /\ r = [f \in DOMAIN r |-> r[f]]
           /\ kept(r) = r.encumberedReserve + r.redeemedReserve + r.pendingFeeReserve
                          + r.refundReserve + r.reportedRefundReserve
           /\ kept(r) \in Nat /\ lockedIn(r) = kept(r) + r.feeReserve
<1>1. /\ r.totalReserve \in Nat /\ r.encumberedReserve \in Nat
      /\ r.redeemedReserve \in Nat /\ r.feeReserve \in Nat
      /\ r.pendingFeeReserve \in Nat /\ r.refundReserve \in Nat
      /\ r.reportedRefundReserve \in Nat
    BY Bounds DEF Reserve
<1>2. /\ DOMAIN r = {"totalReserve", "encumberedReserve", "redeemedReserve", "feeReserve",
                     "pendingFeeReserve", "refundReserve", "reportedRefundReserve"}
      /\ r = [f \in DOMAIN r |-> r[f]]
    BY DEF Reserve
<1> QED
    BY <1>1, <1>2 DEF kept, lockedIn

\* The next reserve book has its values in Uint<64>, and is solvent.
LEMMA Rotated ==
    ASSUME NEW t, NEW e, NEW d, NEW f, NEW p, NEW x, NEW u,
           rotateReserve([totalReserve |-> t, encumberedReserve |-> e, redeemedReserve |-> d,
                          feeReserve |-> f, pendingFeeReserve |-> p, refundReserve |-> x,
                          reportedRefundReserve |-> u])
    PROVE  /\ reserve' \in Reserve /\ lockedIn(reserve') <= reserve'.totalReserve
           /\ reserve'.totalReserve = t /\ reserve'.feeReserve = f
           /\ kept(reserve') = e + d + p + x + u
<1> DEFINE r == [totalReserve |-> t, encumberedReserve |-> e, redeemedReserve |-> d,
                 feeReserve |-> f, pendingFeeReserve |-> p, refundReserve |-> x,
                 reportedRefundReserve |-> u]
<1>1. reserve' = r /\ (\A i \in DOMAIN r : r[i] \in Uint64) /\ lockedIn(r) <= r.totalReserve
    BY DEF rotateReserve
<1>2. DOMAIN r = {"totalReserve", "encumberedReserve", "redeemedReserve", "feeReserve",
                  "pendingFeeReserve", "refundReserve", "reportedRefundReserve"}
    OBVIOUS
<1>3. /\ r.totalReserve = t /\ r.encumberedReserve = e /\ r.redeemedReserve = d
      /\ r.feeReserve = f /\ r.pendingFeeReserve = p /\ r.refundReserve = x
      /\ r.reportedRefundReserve = u
    OBVIOUS
<1>4. /\ t \in Uint64 /\ e \in Uint64 /\ d \in Uint64 /\ f \in Uint64
      /\ p \in Uint64 /\ x \in Uint64 /\ u \in Uint64
    BY <1>1, <1>2, <1>3
<1>5. r \in Reserve
    BY <1>4 DEF Reserve
<1>6. kept(r) = e + d + p + x + u
    <2> HIDE DEF r
    <2> QED
        BY <1>3, <1>5, ReserveFields
<1> QED
    BY <1>1, <1>3, <1>5, <1>6

\* Capital calls touch the total and the earned fees.
LEMMA CapitalMoved ==
    ASSUME HoldsOK, NEW total, NEW earned,
           rotateReserve([reserve EXCEPT !.totalReserve = total, !.feeReserve = earned])
    PROVE  /\ reserve' \in Reserve /\ lockedIn(reserve') <= reserve'.totalReserve
           /\ reserve'.totalReserve = total /\ reserve'.feeReserve = earned
           /\ kept(reserve') = kept(reserve)
<1>1. PICK r : r = [reserve EXCEPT !.totalReserve = total, !.feeReserve = earned]
    OBVIOUS
<1>2. rotateReserve(r)
    BY <1>1
<1>3. r = [totalReserve |-> total, encumberedReserve |-> reserve.encumberedReserve,
           redeemedReserve |-> reserve.redeemedReserve, feeReserve |-> earned,
           pendingFeeReserve |-> reserve.pendingFeeReserve,
           refundReserve |-> reserve.refundReserve,
           reportedRefundReserve |-> reserve.reportedRefundReserve]
    BY <1>1, ReserveFields DEF HoldsOK
<1>4. kept(reserve) = reserve.encumberedReserve + reserve.redeemedReserve
                        + reserve.pendingFeeReserve + reserve.refundReserve
                        + reserve.reportedRefundReserve
    BY ReserveFields DEF HoldsOK
<1> QED
    BY <1>2, <1>3, <1>4, Rotated

\* A draw encumbers its principal and its fee.
LEMMA Encumbers ==
    ASSUME HoldsOK, NEW amount \in Nat, NEW fee \in Nat,
           rotateReserve([reserve EXCEPT !.encumberedReserve = @ + amount,
                                         !.pendingFeeReserve = @ + fee])
    PROVE  /\ reserve' \in Reserve /\ lockedIn(reserve') <= reserve'.totalReserve
           /\ reserve'.totalReserve = reserve.totalReserve
           /\ reserve'.feeReserve = reserve.feeReserve
           /\ kept(reserve') = kept(reserve) + amount + fee
<1>1. PICK r : r = [reserve EXCEPT !.encumberedReserve = @ + amount,
                                   !.pendingFeeReserve = @ + fee]
    OBVIOUS
<1>2. rotateReserve(r)
    BY <1>1
<1>3. r = [totalReserve |-> reserve.totalReserve,
           encumberedReserve |-> reserve.encumberedReserve + amount,
           redeemedReserve |-> reserve.redeemedReserve, feeReserve |-> reserve.feeReserve,
           pendingFeeReserve |-> reserve.pendingFeeReserve + fee,
           refundReserve |-> reserve.refundReserve,
           reportedRefundReserve |-> reserve.reportedRefundReserve]
    BY <1>1, ReserveFields DEF HoldsOK
<1>4. /\ reserve.encumberedReserve \in Nat /\ reserve.redeemedReserve \in Nat
      /\ reserve.pendingFeeReserve \in Nat /\ reserve.refundReserve \in Nat
      /\ reserve.reportedRefundReserve \in Nat
      /\ kept(reserve) = reserve.encumberedReserve + reserve.redeemedReserve
                        + reserve.pendingFeeReserve + reserve.refundReserve
                        + reserve.reportedRefundReserve
    BY ReserveFields DEF HoldsOK
<1>5. /\ reserve' \in Reserve /\ lockedIn(reserve') <= reserve'.totalReserve
      /\ reserve'.totalReserve = reserve.totalReserve
      /\ reserve'.feeReserve = reserve.feeReserve
      /\ kept(reserve') = (reserve.encumberedReserve + amount) + reserve.redeemedReserve
            + (reserve.pendingFeeReserve + fee) + reserve.refundReserve
            + reserve.reportedRefundReserve
    BY <1>2, <1>3, Rotated
<1> QED
    BY <1>4, <1>5

\* A redemption keeps the principal and earns the fee.
LEMMA Redeems ==
    ASSUME HoldsOK, NEW amount \in Nat, NEW fee \in Nat,
           rotateReserve([reserve EXCEPT
                !.encumberedReserve = @ - amount, !.redeemedReserve = @ + amount,
                !.feeReserve = @ + fee, !.pendingFeeReserve = @ - fee])
    PROVE  /\ reserve' \in Reserve /\ lockedIn(reserve') <= reserve'.totalReserve
           /\ reserve'.totalReserve = reserve.totalReserve
           /\ reserve'.feeReserve = reserve.feeReserve + fee
           /\ kept(reserve') = kept(reserve) - fee
<1>1. PICK r : r = [reserve EXCEPT
                        !.encumberedReserve = @ - amount, !.redeemedReserve = @ + amount,
                        !.feeReserve = @ + fee, !.pendingFeeReserve = @ - fee]
    OBVIOUS
<1>2. rotateReserve(r)
    BY <1>1
<1>3. r = [totalReserve |-> reserve.totalReserve,
           encumberedReserve |-> reserve.encumberedReserve - amount,
           redeemedReserve |-> reserve.redeemedReserve + amount,
           feeReserve |-> reserve.feeReserve + fee,
           pendingFeeReserve |-> reserve.pendingFeeReserve - fee,
           refundReserve |-> reserve.refundReserve,
           reportedRefundReserve |-> reserve.reportedRefundReserve]
    BY <1>1, ReserveFields DEF HoldsOK
<1>4. /\ reserve.encumberedReserve \in Nat /\ reserve.redeemedReserve \in Nat
      /\ reserve.pendingFeeReserve \in Nat /\ reserve.refundReserve \in Nat
      /\ reserve.reportedRefundReserve \in Nat
      /\ kept(reserve) = reserve.encumberedReserve + reserve.redeemedReserve
                        + reserve.pendingFeeReserve + reserve.refundReserve
                        + reserve.reportedRefundReserve
    BY ReserveFields DEF HoldsOK
<1>5. /\ reserve' \in Reserve /\ lockedIn(reserve') <= reserve'.totalReserve
      /\ reserve'.totalReserve = reserve.totalReserve
      /\ reserve'.feeReserve = reserve.feeReserve + fee
      /\ kept(reserve') = (reserve.encumberedReserve - amount)
            + (reserve.redeemedReserve + amount) + (reserve.pendingFeeReserve - fee)
            + reserve.refundReserve + reserve.reportedRefundReserve
    BY <1>2, <1>3, Rotated
<1> QED
    BY <1>4, <1>5

\* An expiry keeps what the claim held; what is released and what is reported
\* leave the refunds, and what stays locked after a report comes back.
LEMMA Refunds ==
    ASSUME HoldsOK, NEW n \in PrivateMeta, NEW released \in Nat, NEW reported \in Nat,
           NEW stays \in Nat, moveRefunds(n, released, reported, stays)
    PROVE  /\ reserve' \in Reserve /\ lockedIn(reserve') <= reserve'.totalReserve
           /\ reserve'.totalReserve = reserve.totalReserve
           /\ reserve'.feeReserve = reserve.feeReserve
           /\ kept(reserve') = kept(reserve) - released - reported + stays
<1>1. PICK e \in Nat, p \in Nat : /\ e = IF ~n.cancelled THEN n.amount ELSE 0
                                  /\ p = IF ~n.cancelled THEN n.fee ELSE 0
    BY Bounds DEF PrivateMeta
<1>2. (IF ~n.cancelled THEN cost(n) ELSE 0) = e + p
    BY <1>1, Bounds DEF cost, PrivateMeta
<1>3. PICK r : r = [reserve EXCEPT
            !.encumberedReserve = @ - e, !.pendingFeeReserve = @ - p,
            !.refundReserve = @ + (e + p) - released - reported,
            !.reportedRefundReserve = @ + stays]
    OBVIOUS
<1>4. rotateReserve(r)
    BY <1>1, <1>2, <1>3 DEF moveRefunds
<1>5. r = [totalReserve |-> reserve.totalReserve,
           encumberedReserve |-> reserve.encumberedReserve - e,
           redeemedReserve |-> reserve.redeemedReserve, feeReserve |-> reserve.feeReserve,
           pendingFeeReserve |-> reserve.pendingFeeReserve - p,
           refundReserve |-> reserve.refundReserve + (e + p) - released - reported,
           reportedRefundReserve |-> reserve.reportedRefundReserve + stays]
    BY <1>3, ReserveFields DEF HoldsOK
<1>6. /\ reserve.encumberedReserve \in Nat /\ reserve.redeemedReserve \in Nat
      /\ reserve.pendingFeeReserve \in Nat /\ reserve.refundReserve \in Nat
      /\ reserve.reportedRefundReserve \in Nat
      /\ kept(reserve) = reserve.encumberedReserve + reserve.redeemedReserve
                        + reserve.pendingFeeReserve + reserve.refundReserve
                        + reserve.reportedRefundReserve
    BY ReserveFields DEF HoldsOK
<1>7. /\ reserve' \in Reserve /\ lockedIn(reserve') <= reserve'.totalReserve
      /\ reserve'.totalReserve = reserve.totalReserve
      /\ reserve'.feeReserve = reserve.feeReserve
      /\ kept(reserve') = (reserve.encumberedReserve - e) + reserve.redeemedReserve
            + (reserve.pendingFeeReserve - p)
            + (reserve.refundReserve + (e + p) - released - reported)
            + (reserve.reportedRefundReserve + stays)
    BY <1>4, <1>5, Rotated
<1> QED
    BY <1>6, <1>7
-----------------------------------------------------------------------------
(* The claims *)

\* The states of a claim: as ClaimStates, but a refund of nothing may be
\* acknowledged, which changes no state.
LEMMA PrivateStates ==
    ASSUME NEW n \in PrivateMeta, PrivateClaimOK(n)
    PROVE  /\ n.redeemed => claimState(n) = "paid"
           /\ live(n) => claimState(n) = "live"
           /\ n.cancelled /\ ~n.compensationAllocated => claimState(n) = "expired"
           /\ n.compensationAllocated /\ ~n.cashRefundOwed => claimState(n) = "released"
           /\ n.cashRefundOwed /\ ~n.refundAcknowledged => claimState(n) = "owed"
           /\ n.cashRefundOwed /\ n.refundAcknowledged => claimState(n) = "settled"
BY DEF PrivateClaimOK, claimState, live

\* A claim that becomes n, and a reserve that keeps the difference.
MovesTo(D, n) ==
    /\ n \in PrivateMeta /\ PrivateClaimOK(n)
    /\ n.amount = claims[D].amount /\ n.fee = claims[D].fee
    /\ claims' = [claims EXCEPT ![D] = n]
    /\ reserve' \in Reserve /\ lockedIn(reserve') <= reserve'.totalReserve
    /\ reserve'.totalReserve = reserve.totalReserve
    /\ kept(reserve') = kept(reserve) - privateHold(claims[D]) + privateHold(n)

LEMMA Moved ==
    ASSUME ClaimTypes, PrivateClaimsOK, HoldsOK, NEW D \in DOMAIN claims, NEW n, MovesTo(D, n)
    PROVE  ClaimTypes' /\ PrivateClaimsOK' /\ HoldsOK'
<1>1. n \in PrivateMeta /\ PrivateClaimOK(n) /\ claims' = [claims EXCEPT ![D] = n]
    BY DEF MovesTo
<1>2. DOMAIN claims' = DOMAIN claims
    BY <1>1 DEF ClaimTypes
<1>3. ClaimTypes'
    BY <1>1, <1>2 DEF ClaimTypes
<1>4. PrivateClaimsOK'
    BY <1>1, <1>2 DEF PrivateClaimsOK, ClaimTypes
<1>5. AllOf(PrivateHolds)' = AllOf(PrivateHolds) - privateHold(claims[D]) + privateHold(n)
    BY <1>1, PrivateMoved
<1>6. HoldsOK'
    BY <1>5 DEF HoldsOK, MovesTo
<1> QED
    BY <1>3, <1>4, <1>6

\* The claim that a step is about is typed.
LEMMA TheClaim ==
    ASSUME ClaimTypes, PrivateClaimsOK, NEW D \in DOMAIN claims
    PROVE  /\ D \in PrivateNote /\ claims[D] \in PrivateMeta /\ PrivateClaimOK(claims[D])
           /\ claims[D].amount \in Nat /\ claims[D].fee \in Nat /\ cost(claims[D]) \in Nat
           /\ cost(claims[D]) = claims[D].amount + claims[D].fee
           /\ cost(claims[D]) \in Uint64
<1>1. D \in PrivateNote /\ claims[D] \in PrivateMeta /\ PrivateClaimOK(claims[D])
    BY DEF ClaimTypes, PrivateClaimsOK
<1> QED
    BY <1>1, Bounds DEF PrivateMeta, PrivateClaimOK, cost

\* A redeemed claim is paid out of what it held, and its fee is earned.
LEMMA RedeemedPrivately ==
    ASSUME ClaimTypes, PrivateClaimsOK, HoldsOK, NEW D \in DOMAIN claims, NEW caller,
           redeemPrivately(caller, D)
    PROVE  \E n \in PrivateMeta :
              /\ MovesTo(D, n) /\ claimState(claims[D]) = "live" /\ claimState(n) = "paid"
              /\ ~n.compensationAllocated /\ ~claims[D].compensationAllocated
              /\ reserve'.feeReserve = reserve.feeReserve + claims[D].fee
<1> DEFINE m == claims[D]
           n == [m EXCEPT !.redeemed = TRUE]
<1>1. m \in PrivateMeta /\ PrivateClaimOK(m) /\ m.amount \in Nat /\ m.fee \in Nat
      /\ cost(m) = m.amount + m.fee
    BY TheClaim
<1>2. /\ ~m.redeemed /\ ~m.cancelled /\ claims' = [claims EXCEPT ![D] = n]
      /\ rotateReserve([reserve EXCEPT
                !.encumberedReserve = @ - m.amount, !.redeemedReserve = @ + m.amount,
                !.feeReserve = @ + m.fee, !.pendingFeeReserve = @ - m.fee])
    BY DEF redeemPrivately
<1>3. n \in PrivateMeta
    BY <1>1 DEF PrivateMeta
<1>4. /\ n.redeemed /\ ~n.cancelled /\ n.amount = m.amount /\ n.fee = m.fee
      /\ ~m.compensationAllocated /\ ~n.compensationAllocated /\ ~n.cashRefundOwed
      /\ ~n.refundAcknowledged
    BY <1>1, <1>2 DEF PrivateMeta, PrivateClaimOK
<1> HIDE DEF n
<1>5. cost(n) = cost(m)
    BY <1>4 DEF cost
<1>6. PrivateClaimOK(n)
    BY <1>1, <1>4, <1>5 DEF PrivateClaimOK
<1>7. claimState(m) = "live" /\ claimState(n) = "paid"
    BY <1>1, <1>2, <1>3, <1>4, <1>6, PrivateStates DEF live
<1>8. /\ reserve' \in Reserve /\ lockedIn(reserve') <= reserve'.totalReserve
      /\ reserve'.totalReserve = reserve.totalReserve
      /\ reserve'.feeReserve = reserve.feeReserve + m.fee
      /\ kept(reserve') = kept(reserve) - m.fee
    BY <1>1, <1>2, Redeems
<1>9. privateHold(m) = m.amount + m.fee /\ privateHold(n) = m.amount
    BY <1>1, <1>2, <1>4 DEF privateHold
<1>10. kept(reserve) \in Nat
    BY ReserveFields DEF HoldsOK
<1>11. MovesTo(D, n)
    BY <1>1, <1>2, <1>3, <1>4, <1>6, <1>8, <1>9, <1>10 DEF MovesTo
<1> QED
    BY <1>3, <1>4, <1>7, <1>8, <1>11

\* An expired claim keeps what it held.
LEMMA ExpiredPrivately ==
    ASSUME ClaimTypes, PrivateClaimsOK, HoldsOK, NEW D \in DOMAIN claims, expirePrivately(D)
    PROVE  \E n \in PrivateMeta :
              /\ MovesTo(D, n) /\ claimState(claims[D]) = "live" /\ claimState(n) = "expired"
              /\ ~n.compensationAllocated /\ ~claims[D].compensationAllocated
              /\ reserve'.feeReserve = reserve.feeReserve
<1> DEFINE m == claims[D]
           n == [m EXCEPT !.cancelled = TRUE]
<1>1. m \in PrivateMeta /\ PrivateClaimOK(m) /\ m.amount \in Nat /\ m.fee \in Nat
      /\ cost(m) = m.amount + m.fee
    BY TheClaim
<1>2. /\ ~m.redeemed /\ ~m.cancelled /\ claims' = [claims EXCEPT ![D] = n]
      /\ moveRefunds(m, 0, 0, 0)
    BY DEF expirePrivately, refundMoves
<1>3. n \in PrivateMeta
    BY <1>1 DEF PrivateMeta
<1>4. /\ ~n.redeemed /\ n.cancelled /\ n.amount = m.amount /\ n.fee = m.fee
      /\ ~m.compensationAllocated /\ ~n.compensationAllocated /\ ~n.cashRefundOwed
      /\ ~n.refundAcknowledged
    BY <1>1, <1>2 DEF PrivateMeta, PrivateClaimOK
<1> HIDE DEF n
<1>5. cost(n) = cost(m)
    BY <1>4 DEF cost
<1>6. PrivateClaimOK(n)
    BY <1>1, <1>4, <1>5 DEF PrivateClaimOK
<1>7. claimState(m) = "live" /\ claimState(n) = "expired"
    BY <1>1, <1>2, <1>3, <1>4, <1>6, PrivateStates DEF live
<1>8. kept(reserve) \in Nat
    BY ReserveFields DEF HoldsOK
<1>9. /\ reserve' \in Reserve /\ lockedIn(reserve') <= reserve'.totalReserve
      /\ reserve'.totalReserve = reserve.totalReserve
      /\ reserve'.feeReserve = reserve.feeReserve
      /\ kept(reserve') = kept(reserve) - 0 - 0 + 0
    BY <1>1, <1>2, Refunds
<1>10. privateHold(m) = privateHold(n) /\ privateHold(m) \in Nat
    BY <1>1, <1>2, <1>4, <1>5 DEF privateHold
<1>11. MovesTo(D, n)
    BY <1>1, <1>2, <1>3, <1>4, <1>6, <1>8, <1>9, <1>10 DEF MovesTo
<1> QED
    BY <1>3, <1>4, <1>7, <1>9, <1>11

\* A reported refund stays locked; a refund of nothing is released before it is
\* acknowledged.
LEMMA ReportedPrivately ==
    ASSUME ClaimTypes, PrivateClaimsOK, HoldsOK, NEW D \in DOMAIN claims, NEW caller,
           NEW amount, NEW payRef, NEW receiptExpiry,
           reportPrivately(caller, D, amount, payRef, receiptExpiry)
    PROVE  \E n \in PrivateMeta :
              /\ MovesTo(D, n)
              /\ \/ claimState(claims[D]) = "owed" /\ claimState(n) = "settled"
                 \/ claimState(n) = claimState(claims[D])
              /\ n.compensationAllocated /\ claims[D].compensationAllocated
              /\ n.refundCommitment = claims[D].refundCommitment
              /\ reserve'.feeReserve = reserve.feeReserve
<1> DEFINE m == claims[D]
           n == [m EXCEPT !.refundAcknowledged = TRUE]
           r == IF m.cashRefundOwed THEN cost(m) ELSE 0
<1>1. m \in PrivateMeta /\ PrivateClaimOK(m) /\ m.amount \in Nat /\ m.fee \in Nat
      /\ cost(m) \in Nat
    BY TheClaim
<1>2. /\ ~m.redeemed /\ m.cancelled /\ m.compensationAllocated /\ ~m.refundAcknowledged
      /\ claims' = [claims EXCEPT ![D] = n] /\ moveRefunds(m, 0, r, r)
    BY DEF reportPrivately, refundMoves
<1>3. n \in PrivateMeta
    BY <1>1 DEF PrivateMeta
<1>4. /\ ~n.redeemed /\ n.cancelled /\ n.amount = m.amount /\ n.fee = m.fee
      /\ n.compensationAllocated /\ (n.cashRefundOwed <=> m.cashRefundOwed)
      /\ n.refundAcknowledged /\ n.refundCommitment = m.refundCommitment
    BY <1>1, <1>2 DEF PrivateMeta
<1> HIDE DEF n
<1>5. cost(n) = cost(m)
    BY <1>4 DEF cost
<1>6. PrivateClaimOK(n)
    BY <1>1, <1>2, <1>4, <1>5 DEF PrivateClaimOK
<1>7. \/ claimState(m) = "owed" /\ claimState(n) = "settled"
      \/ claimState(n) = claimState(m)
    BY <1>1, <1>2, <1>3, <1>4, <1>6, PrivateStates
<1>8. kept(reserve) \in Nat /\ r \in Nat
    BY <1>1, ReserveFields DEF HoldsOK
<1> HIDE DEF r
<1>9. /\ reserve' \in Reserve /\ lockedIn(reserve') <= reserve'.totalReserve
      /\ reserve'.totalReserve = reserve.totalReserve
      /\ reserve'.feeReserve = reserve.feeReserve
      /\ kept(reserve') = kept(reserve) - 0 - r + r
    BY <1>1, <1>2, <1>8, Refunds
<1>10. privateHold(m) = privateHold(n) /\ privateHold(m) \in Nat
    BY <1>1, <1>2, <1>4, <1>5 DEF privateHold
<1>11. MovesTo(D, n)
    BY <1>1, <1>2, <1>3, <1>4, <1>6, <1>8, <1>9, <1>10 DEF MovesTo
<1> QED
    BY <1>2, <1>3, <1>4, <1>7, <1>9, <1>11

\* What a compensation leaves to be refunded in cash.
refundOf(D, b) ==
    IF D.lineGeneration = b.generation THEN cashRefundAmount(b.outstanding, cost(claims[D]))
                                       ELSE cost(claims[D])

\* A compensated claim is released when the book takes all of it; else it keeps
\* what it held.
LEMMA CompensatedPrivately ==
    ASSUME ClaimTypes, PrivateClaimsOK, HoldsOK, NEW D \in DOMAIN claims, NEW caller,
           NEW b \in PrivateBook, compensatePrivately(caller, D, b)
    PROVE  \E n \in PrivateMeta :
              /\ MovesTo(D, n) /\ claimState(claims[D]) \in {"live", "expired"}
              /\ claimState(n) \in {"owed", "released"}
              /\ ~claims[D].compensationAllocated /\ n.compensationAllocated
              /\ n.refundCommitment.amount = refundOf(D, b)
              /\ reserve'.feeReserve = reserve.feeReserve
<1> DEFINE m == claims[D]
           refund == refundOf(D, b)
           n == [m EXCEPT !.cancelled = TRUE, !.compensationAllocated = TRUE,
                          !.refundCommitment = refundCommit(D, refund),
                          !.cashRefundOwed = refund > 0]
           released == IF refund > 0 THEN 0 ELSE cost(m)
<1>1. m \in PrivateMeta /\ PrivateClaimOK(m) /\ m.amount \in Nat /\ m.fee \in Nat
      /\ cost(m) \in Nat /\ cost(m) \in Uint64 /\ D \in PrivateNote
    BY TheClaim
<1>2. refund \in Nat /\ refund <= cost(m) /\ refund \in Uint64
    BY <1>1, Bounds DEF refundOf, cashRefundAmount, PrivateBook
<1>3. /\ ~m.redeemed /\ ~m.compensationAllocated
      /\ claims' = [claims EXCEPT ![D] = n]
      /\ moveRefunds(m, released, 0, 0)
    BY DEF compensatePrivately, refundMoves, refundOf
<1> HIDE DEF refund
<1>4. n \in PrivateMeta
    <2>1. refundCommit(D, refund) \in [note : PrivateNote, amount : Uint64]
        BY <1>1, <1>2 DEF refundCommit
    <2>2. (refund > 0) \in BOOLEAN
        BY <1>2
    <2> QED
        BY <1>1, <2>1, <2>2 DEF PrivateMeta
<1>5. /\ ~n.redeemed /\ n.cancelled /\ n.amount = m.amount /\ n.fee = m.fee
      /\ n.compensationAllocated /\ (n.cashRefundOwed <=> refund > 0)
      /\ ~n.refundAcknowledged /\ n.refundCommitment = [note |-> D, amount |-> refund]
    BY <1>1, <1>3 DEF PrivateMeta, PrivateClaimOK, refundCommit
<1>6. /\ n.refundCommitment.amount = refund
      /\ n.refundCommitment \in [note : PrivateNote, amount : Uint64]
    BY <1>1, <1>2, <1>5
<1> HIDE DEF n
<1>7. cost(n) = cost(m)
    BY <1>5 DEF cost
<1>8. PrivateClaimOK(n)
    BY <1>1, <1>2, <1>5, <1>6, <1>7 DEF PrivateClaimOK
<1>9. claimState(m) \in {"live", "expired"}
    BY <1>1, <1>3, PrivateStates DEF live
<1>10. claimState(n) \in {"owed", "released"}
    BY <1>4, <1>5, <1>8, PrivateStates
<1>11. kept(reserve) \in Nat /\ released \in Nat
    BY <1>1, ReserveFields DEF HoldsOK
<1>12. privateHold(m) = cost(m) /\ privateHold(n) = cost(m) - released
    BY <1>1, <1>2, <1>3, <1>5, <1>7 DEF privateHold
<1> HIDE DEF released
<1>13. /\ reserve' \in Reserve /\ lockedIn(reserve') <= reserve'.totalReserve
      /\ reserve'.totalReserve = reserve.totalReserve
      /\ reserve'.feeReserve = reserve.feeReserve
      /\ kept(reserve') = kept(reserve) - released - 0 + 0
    BY <1>1, <1>3, <1>11, Refunds
<1>14. MovesTo(D, n)
    BY <1>1, <1>3, <1>4, <1>5, <1>8, <1>11, <1>12, <1>13 DEF MovesTo
<1> QED
    BY <1>3, <1>4, <1>5, <1>6, <1>9, <1>10, <1>13, <1>14 DEF refund
-----------------------------------------------------------------------------
(* The debts of each step *)

\* A claim that moves is in the account of its own borrower.
LEMMA OthersMoved ==
    ASSUME ClaimTypes, PrivateClaimsOK, NEW D \in DOMAIN claims, NEW n, MovesTo(D, n),
           UNCHANGED credited
    PROVE  OthersStay(D.identity)
<1> DEFINE m == claims[D]
<1>1. n \in PrivateMeta /\ PrivateClaimOK(n) /\ claims' = [claims EXCEPT ![D] = n]
    BY DEF MovesTo
<1>2. DOMAIN claims' = DOMAIN claims
    BY <1>1 DEF ClaimTypes
<1>3. ASSUME NEW a \in Borrowers, a # D.identity
      PROVE  AllOf(Owes(a))' = AllOf(Owes(a)) /\ AllOf(Promises(a))' = AllOf(Promises(a))
    <2>1. /\ AllOf(Owes(a))' = AllOf(Owes(a)) - owesShare(m, D, a) + owesShare(n, D, a)
          /\ AllOf(Promises(a))'
                = AllOf(Promises(a)) - promiseShare(m, D, a) + promiseShare(n, D, a)
        BY <1>1, PrivateMoved
    <2>2. /\ owesShare(m, D, a) = 0 /\ owesShare(n, D, a) = 0
          /\ promiseShare(m, D, a) = 0 /\ promiseShare(n, D, a) = 0
        BY <1>3 DEF owesShare, promiseShare
    <2> QED
        BY <2>1, <2>2, PrivateSums
<1>4. ASSUME NEW e \in Current, e.identity # D.identity
      PROVE  AllOf(OpenTo(e))' = AllOf(OpenTo(e))
    <2>1. AllOf(OpenTo(e))' = AllOf(OpenTo(e)) - openShare(m, D, e) + openShare(n, D, e)
        BY <1>1, PrivateMoved
    <2>2. openShare(m, D, e) = 0 /\ openShare(n, D, e) = 0
        BY <1>4 DEF openShare
    <2> QED
        BY <2>1, <2>2, PrivateSums
<1> QED
    BY <1>2, <1>3, <1>4 DEF OthersStay

\* Nor does a new claim count for another borrower.
LEMMA OthersAdded ==
    ASSUME ClaimTypes, PrivateClaimsOK, NEW D \in PrivateNote, D \notin DOMAIN claims,
           NEW n \in PrivateMeta, PrivateClaimOK(n), claims' = Insert(claims, D, n),
           UNCHANGED credited
    PROVE  OthersStay(D.identity)
<1>1. DOMAIN claims' = DOMAIN claims \cup {D}
    BY DEF Insert
<1>2. ASSUME NEW a \in Borrowers, a # D.identity
      PROVE  AllOf(Owes(a))' = AllOf(Owes(a)) /\ AllOf(Promises(a))' = AllOf(Promises(a))
    <2>1. /\ AllOf(Owes(a))' = AllOf(Owes(a)) + owesShare(n, D, a)
          /\ AllOf(Promises(a))' = AllOf(Promises(a)) + promiseShare(n, D, a)
        BY PrivateAdded
    <2>2. owesShare(n, D, a) = 0 /\ promiseShare(n, D, a) = 0
        BY <1>2 DEF owesShare, promiseShare
    <2> QED
        BY <2>1, <2>2, PrivateSums
<1>3. ASSUME NEW e \in Current, e.identity # D.identity
      PROVE  AllOf(OpenTo(e))' = AllOf(OpenTo(e))
    <2>1. AllOf(OpenTo(e))' = AllOf(OpenTo(e)) + openShare(n, D, e)
        BY PrivateAdded
    <2>2. openShare(n, D, e) = 0
        BY <1>3 DEF openShare
    <2> QED
        BY <2>1, <2>2, PrivateSums
<1> QED
    BY <1>1, <1>2, <1>3 DEF OthersStay

\* The book that replaces a book takes its place among the current ones.
LEMMA TakesThePlace ==
    ASSUME BooksOK, NEW x \in Current, NEW c, c.identity = x.identity,
           Current' = (Current \ {x}) \cup {c}
    PROVE  \A e \in Current' : e = c \/ (e \in Current /\ e.identity # c.identity)
BY OnlyOneCurrent

\* The debts of a book that is replaced by c of the same generation.
LEMMA SameAccount ==
    ASSUME NEW b, NEW c, c.identity = b.identity, c.generation = b.generation
    PROVE  OpenTo(c) = OpenTo(b)
BY DEF OpenTo, openShare

\* A redemption, an expiry and a report change no debt.
LEMMA DebtsUnmoved ==
    ASSUME BooksOK, ClaimTypes, PrivateClaimsOK, DebtsOK,
           UNCHANGED <<books, spentBooks, credited>>,
           NEW D \in DOMAIN claims, NEW n, MovesTo(D, n),
           n.compensationAllocated <=> claims[D].compensationAllocated,
           n.compensationAllocated => n.refundCommitment = claims[D].refundCommitment
    PROVE  DebtsOK'
<1>1. cost(n) = cost(claims[D])
    BY DEF MovesTo, cost
<1>2. owedFor(n) = owedFor(claims[D]) /\ promisedBy(n) = promisedBy(claims[D])
    BY <1>1 DEF owedFor, promisedBy
<1> QED
    BY <1>1, <1>2, DebtsKept DEF MovesTo

\* A compensation credits the book with what it can of a claim of its own
\* generation, and leaves the rest to be refunded.
LEMMA DebtsCompensated ==
    ASSUME BooksOK, ClaimTypes, PrivateClaimsOK, HoldsOK, DebtsOK, NEW D \in DOMAIN claims,
           NEW caller, NEW b \in books, compensatePrivately(caller, D, b)
    PROVE  /\ BooksOK' /\ DebtsOK'
           /\ \E n \in PrivateMeta : MovesTo(D, n)
<1>1. b \in PrivateBook /\ readBook(b) /\ b.status \in Status
    BY DEF compensatePrivately, BooksOK, BookTypes, PrivateBook
<1>2. PICK n \in PrivateMeta :
              /\ MovesTo(D, n)
              /\ ~claims[D].compensationAllocated /\ n.compensationAllocated
              /\ n.refundCommitment.amount = refundOf(D, b)
    BY <1>1, CompensatedPrivately
<1> DEFINE m == claims[D]
           k == cost(m)
           same == D.lineGeneration = b.generation
           balance == IF same THEN debtAfterCredit(b.outstanding, k) ELSE b.outstanding
<1>3. PICK c \in PrivateBook :
             /\ c.identity = b.identity /\ c.generation = b.generation
             /\ c.outstanding = balance
             /\ b \in Current /\ c \notin books /\ books' = books \cup {c}
             /\ Current' = (Current \ {b}) \cup {c} /\ BooksOK'
    <2>1. /\ replaceBook(b, balance, b.status)
          /\ UNCHANGED <<enrollments, initialEnrollments>>
        BY DEF compensatePrivately
    <2> HIDE DEF balance
    <2> QED
        BY <1>1, <2>1, Replaced
<1>4. D.identity = b.identity /\ UNCHANGED credited
    BY DEF compensatePrivately
<1>5. /\ n \in PrivateMeta /\ PrivateClaimOK(n) /\ claims' = [claims EXCEPT ![D] = n]
      /\ cost(n) = k
    BY <1>2 DEF MovesTo, cost
<1>6. ClaimTypes' /\ PrivateClaimsOK'
    BY <1>2, Moved
<1>7. k \in Nat /\ b.outstanding \in Nat /\ credited[b.identity] \in Nat
    BY <1>1, TheClaim, Bounds DEF PrivateBook, DebtsOK
<1>8. b.outstanding + credited[b.identity] = AllOf(Owes(b.identity))
      /\ b.outstanding <= AllOf(OpenTo(b))
    BY <1>3 DEF DebtsOK, DebtOn
<1>9. /\ owesShare(m, D, b.identity) = k /\ owesShare(n, D, b.identity) = refundOf(D, b)
      /\ openShare(m, D, c) = (IF same THEN k ELSE 0) /\ openShare(n, D, c) = 0
    BY <1>2, <1>3, <1>4 DEF owesShare, openShare, owedFor
<1>10. /\ AllOf(Owes(b.identity))' = AllOf(Owes(b.identity)) - k + refundOf(D, b)
       /\ AllOf(OpenTo(c))' = AllOf(OpenTo(c)) - (IF same THEN k ELSE 0) + 0
    <2>1. /\ AllOf(Owes(b.identity))'
                = AllOf(Owes(b.identity)) - owesShare(m, D, b.identity)
                    + owesShare(n, D, b.identity)
          /\ AllOf(OpenTo(c))'
                = AllOf(OpenTo(c)) - openShare(m, D, c) + openShare(n, D, c)
        BY <1>5, PrivateMoved
    <2> QED
        BY <1>9, <2>1
<1>11. AllOf(OpenTo(c)) = AllOf(OpenTo(b))
    BY <1>3, SameAccount
<1>12. /\ AllOf(Owes(b.identity)) \in Nat /\ AllOf(OpenTo(b)) \in Nat
       /\ AllOf(OpenTo(c))' \in Nat
    <2>1. AllOf(OpenTo(c))' \in Nat
        BY <1>6, Bounds, UnitsFinite DEF ClaimTypes, AllOf
    <2> QED
        BY <2>1, PrivateSums
<1>13. DebtOn(c)'
    <2>1. c.outstanding + credited[b.identity] = AllOf(Owes(b.identity))'
          /\ c.outstanding <= AllOf(OpenTo(c))'
        <3>1. CASE same /\ b.outstanding >= k
            <4>1. c.outstanding = b.outstanding - k /\ refundOf(D, b) = 0
                BY <1>3, <3>1 DEF refundOf, cashRefundAmount, debtAfterCredit
            <4> QED
                BY <1>7, <1>8, <1>10, <1>11, <1>12, <3>1, <4>1
        <3>2. CASE same /\ ~(b.outstanding >= k)
            <4>1. c.outstanding = 0 /\ refundOf(D, b) = k - b.outstanding
                BY <1>3, <3>2 DEF refundOf, cashRefundAmount, debtAfterCredit
            <4> QED
                BY <1>7, <1>8, <1>10, <1>11, <1>12, <3>2, <4>1
        <3>3. CASE ~same
            <4>1. c.outstanding = b.outstanding /\ refundOf(D, b) = k
                BY <1>3, <3>3 DEF refundOf
            <4> QED
                BY <1>7, <1>8, <1>10, <1>11, <1>12, <3>3, <4>1
        <3> QED
            BY <3>1, <3>2, <3>3
    <2> QED
        BY <1>3, <1>4, <2>1 DEF DebtOn
<1>14. OthersStay(c.identity)
    BY <1>2, <1>3, <1>4, OthersMoved
<1>15. \A e \in Current' : e = c \/ (e \in Current /\ e.identity # c.identity)
    BY <1>3, TakesThePlace
<1>16. credited' \in [Borrowers -> Nat]
    BY <1>4 DEF DebtsOK
<1>17. DebtsOK'
    BY <1>3, <1>6, <1>13, <1>14, <1>15, <1>16, DebtsSucceed
<1> QED
    BY <1>2, <1>3, <1>17
\* The fee of a book is a natural number.
LEMMA PrivateFees ==
    ASSUME NEW b \in PrivateBook, NEW amount \in Uint64
    PROVE  privateFee(b, amount) \in Nat
<1>1. b.flatFee \in Nat /\ b.basisPoints \in Nat /\ amount \in Nat
    BY Bounds DEF PrivateBook
<1>2. PICK product \in Nat : product = amount * b.basisPoints
    BY <1>1
<1>3. ceilDiv(product, 10000) \in Nat
    BY <1>2 DEF ceilDiv
<1> QED
    BY <1>1, <1>2, <1>3 DEF privateFee

\* What a draw adds: a live claim of the book's borrower and generation, for the
\* price the book takes.
DrawsFrom(b, D, n) ==
    /\ D \in PrivateNote /\ D \notin DOMAIN claims
    /\ n \in PrivateMeta /\ PrivateClaimOK(n) /\ claimState(n) = "live"
    /\ ~n.compensationAllocated
    /\ claims' = Insert(claims, D, n)
    /\ D.identity = b.identity /\ D.lineGeneration = b.generation
    /\ cost(n) <= reserve.totalReserve - lockedIn(reserve)
    /\ replaceBook(b, b.outstanding + cost(n), b.status)
    /\ reserve' \in Reserve /\ lockedIn(reserve') <= reserve'.totalReserve
    /\ reserve'.totalReserve = reserve.totalReserve /\ reserve'.feeReserve = reserve.feeReserve
    /\ kept(reserve') = kept(reserve) + privateHold(n)

LEMMA DrawnPrivately ==
    ASSUME HoldsOK, NEW caller, NEW b \in PrivateBook, NEW Q \in Offer,
           drawPrivately(caller, b, Q)
    PROVE  \E D \in PrivateNote, n \in PrivateMeta : DrawsFrom(b, D, n)
<1> DEFINE fee == privateFee(b, Q.amount)
           D == privateNote(b, Q, fee)
           n == privateMeta(Q.amount, fee, Q.expiry)
<1>1. /\ Q.amount \in Uint64 /\ Q.expiry \in Uint64 /\ Q.merchant \in Merchants
      /\ Q.amount \in Nat
    BY Bounds DEF Offer
<1>2. /\ b.identity \in Borrowers /\ b.generation \in Nat /\ b.outstanding \in Nat
      /\ b.limit \in Nat /\ b.limit <= MaxUint64
    BY Bounds DEF PrivateBook
<1>3. fee \in Nat
    BY <1>1, PrivateFees
<1>4. /\ D \notin DOMAIN claims /\ claims' = Insert(claims, D, n)
      /\ Q.amount + fee <= reserve.totalReserve - lockedIn(reserve)
      /\ replaceBook(b, b.outstanding + (Q.amount + fee), b.status)
      /\ rotateReserve([reserve EXCEPT !.encumberedReserve = @ + Q.amount,
                                       !.pendingFeeReserve = @ + fee])
    BY DEF drawPrivately
<1>5. /\ D = [identity |-> b.identity, lineGeneration |-> b.generation, quote |-> Q,
              merchant |-> Q.merchant, amount |-> Q.amount, fee |-> fee, expiry |-> Q.expiry]
      /\ n = [amount |-> Q.amount, fee |-> fee, redeemed |-> FALSE, cancelled |-> FALSE,
              expiry |-> Q.expiry, compensationAllocated |-> FALSE, refundCommitment |-> Empty,
              cashRefundOwed |-> FALSE, refundAcknowledged |-> FALSE]
    BY DEF privateNote, privateMeta
<1>6. fee \in Uint64 /\ Q.amount + fee \in Uint64
    BY <1>1, <1>2, <1>3, <1>4, Bounds DEF replaceBook
<1> HIDE DEF fee, D, n
<1>7. D \in PrivateNote /\ D.identity = b.identity /\ D.lineGeneration = b.generation
    BY <1>1, <1>2, <1>5, <1>6 DEF PrivateNote
<1>8. n \in PrivateMeta
    BY <1>1, <1>5, <1>6 DEF PrivateMeta
<1>9. /\ n.amount = Q.amount /\ n.fee = fee /\ ~n.redeemed /\ ~n.cancelled
      /\ ~n.compensationAllocated /\ ~n.cashRefundOwed /\ ~n.refundAcknowledged
    BY <1>5
<1>10. cost(n) = Q.amount + fee
    BY <1>9 DEF cost
<1>11. PrivateClaimOK(n)
    BY <1>6, <1>9, <1>10 DEF PrivateClaimOK
<1>12. claimState(n) = "live"
    BY <1>8, <1>9, <1>11, PrivateStates DEF live
<1>13. privateHold(n) = Q.amount + fee
    BY <1>9, <1>10 DEF privateHold
<1>14. /\ reserve' \in Reserve /\ lockedIn(reserve') <= reserve'.totalReserve
       /\ reserve'.totalReserve = reserve.totalReserve
       /\ reserve'.feeReserve = reserve.feeReserve
       /\ kept(reserve') = kept(reserve) + Q.amount + fee
    BY <1>1, <1>3, <1>4, Encumbers
<1>15. kept(reserve) \in Nat
    BY ReserveFields DEF HoldsOK
<1>16. DrawsFrom(b, D, n)
    BY <1>1, <1>3, <1>4, <1>7, <1>8, <1>9, <1>10, <1>11, <1>12, <1>13, <1>14, <1>15
       DEF DrawsFrom
<1> QED
    BY <1>7, <1>8, <1>16

\* A draw puts its price on the book and on the claim.
LEMMA DebtsDrawn ==
    ASSUME BooksOK, ClaimTypes, PrivateClaimsOK, HoldsOK, DebtsOK, NEW b \in books, readBook(b),
           NEW D \in PrivateNote, NEW n \in PrivateMeta, DrawsFrom(b, D, n),
           UNCHANGED <<enrollments, initialEnrollments, credited>>
    PROVE  BooksOK' /\ ClaimTypes' /\ PrivateClaimsOK' /\ HoldsOK' /\ DebtsOK'
<1>1. b \in PrivateBook /\ b.status \in Status
    BY DEF BooksOK, BookTypes, PrivateBook
<1>2. /\ D \notin DOMAIN claims /\ PrivateClaimOK(n) /\ claims' = Insert(claims, D, n)
      /\ ~n.compensationAllocated /\ D.identity = b.identity /\ D.lineGeneration = b.generation
      /\ replaceBook(b, b.outstanding + cost(n), b.status)
    BY DEF DrawsFrom
<1>3. /\ DOMAIN claims' = DOMAIN claims \cup {D} /\ DOMAIN claims' \subseteq PrivateNote
      /\ claims' \in [DOMAIN claims' -> PrivateMeta]
    BY <1>2, InsertType DEF ClaimTypes
<1>4. IsFiniteSet(DOMAIN claims')
    BY <1>3, FS_AddElement DEF ClaimTypes
<1>5. ClaimTypes'
    BY <1>3, <1>4 DEF ClaimTypes
<1>6. PrivateClaimsOK'
    BY <1>2, <1>3 DEF PrivateClaimsOK, Insert
<1>7. PICK c \in PrivateBook :
             /\ c.identity = b.identity /\ c.generation = b.generation
             /\ c.outstanding = b.outstanding + cost(n)
             /\ b \in Current /\ c \notin books /\ books' = books \cup {c}
             /\ Current' = (Current \ {b}) \cup {c} /\ BooksOK'
    BY <1>1, <1>2, Replaced
<1>8. /\ owesShare(n, D, b.identity) = cost(n) /\ openShare(n, D, c) = cost(n)
    BY <1>2, <1>7 DEF owesShare, openShare, owedFor
<1>9. /\ AllOf(Owes(b.identity))' = AllOf(Owes(b.identity)) + owesShare(n, D, b.identity)
      /\ AllOf(OpenTo(c))' = AllOf(OpenTo(c)) + openShare(n, D, c)
      /\ AllOf(PrivateHolds)' = AllOf(PrivateHolds) + privateHold(n)
    BY <1>2, PrivateAdded
<1>10. HoldsOK'
    BY <1>9 DEF HoldsOK, DrawsFrom
<1>11. /\ cost(n) \in Nat /\ b.outstanding \in Nat /\ credited[b.identity] \in Nat
       /\ AllOf(Owes(b.identity)) \in Nat /\ AllOf(OpenTo(b)) \in Nat
    <2>1. cost(n) \in Nat
        BY <1>2, Bounds DEF PrivateClaimOK
    <2>2. b.outstanding \in Nat /\ b.identity \in Borrowers
        BY <1>1, Bounds DEF PrivateBook
    <2> QED
        BY <2>1, <2>2, PrivateSums DEF DebtsOK
<1>12. AllOf(OpenTo(c)) = AllOf(OpenTo(b))
    BY <1>7, SameAccount
<1>13. DebtOn(c)'
    <2>1. b.outstanding + credited[b.identity] = AllOf(Owes(b.identity))
          /\ b.outstanding <= AllOf(OpenTo(b))
        BY <1>7 DEF DebtsOK, DebtOn
    <2> QED
        BY <1>7, <1>8, <1>9, <1>11, <1>12, <2>1 DEF DebtOn
<1>14. OthersStay(c.identity)
    BY <1>2, <1>7, OthersAdded
<1>15. \A e \in Current' : e = c \/ (e \in Current /\ e.identity # c.identity)
    BY <1>7, TakesThePlace
<1>16. DebtsOK'
    BY <1>5, <1>6, <1>7, <1>13, <1>14, <1>15, DebtsSucceed DEF DebtsOK
<1> QED
    BY <1>5, <1>6, <1>7, <1>10, <1>16

\* A step that changes no claim leaves every sum alone.
LEMMA SumsStay ==
    ASSUME UNCHANGED claims, NEW x, \A a \in Borrowers \ {x} : credited'[a] = credited[a]
    PROVE  /\ OthersStay(x)
           /\ \A a : AllOf(Owes(a))' = AllOf(Owes(a))
           /\ \A b : AllOf(OpenTo(b))' = AllOf(OpenTo(b))
BY DEF OthersStay, AllOf, Owes, OpenTo, Promises

\* A change of status keeps the debt; a repayment is credited by what leaves it.
LEMMA DebtsReplaced ==
    ASSUME BooksOK, ClaimTypes, PrivateClaimsOK, DebtsOK, NEW b \in books, readBook(b),
           NEW amount \in Nat, amount <= b.outstanding, NEW next \in Status,
           replaceBook(b, b.outstanding - amount, next),
           credited' = [credited EXCEPT ![b.identity] = @ + amount],
           UNCHANGED <<enrollments, initialEnrollments, claims>>
    PROVE  BooksOK' /\ DebtsOK'
<1>1. b \in PrivateBook
    BY DEF BooksOK, BookTypes
<1>2. PICK c \in PrivateBook :
             /\ c.identity = b.identity /\ c.generation = b.generation
             /\ c.outstanding = b.outstanding - amount
             /\ b \in Current /\ c \notin books /\ books' = books \cup {c}
             /\ Current' = (Current \ {b}) \cup {c} /\ BooksOK'
    BY Replaced
<1>3. ClaimTypes' /\ PrivateClaimsOK'
    BY DEF ClaimTypes, PrivateClaimsOK
<1>4. b.outstanding \in Nat /\ b.identity \in Borrowers /\ credited[b.identity] \in Nat
    BY <1>1, Bounds DEF PrivateBook, DebtsOK
<1>5. /\ credited' \in [Borrowers -> Nat]
      /\ credited'[b.identity] = credited[b.identity] + amount
      /\ \A a \in Borrowers \ {b.identity} : credited'[a] = credited[a]
    BY <1>4 DEF DebtsOK
<1>6. /\ OthersStay(b.identity)
      /\ AllOf(Owes(b.identity))' = AllOf(Owes(b.identity))
      /\ AllOf(OpenTo(c))' = AllOf(OpenTo(c))
    BY <1>5, SumsStay
<1>7. AllOf(OpenTo(c)) = AllOf(OpenTo(b)) /\ AllOf(OpenTo(b)) \in Nat
    BY <1>2, SameAccount, PrivateSums
<1>8. DebtOn(c)'
    <2>1. b.outstanding + credited[b.identity] = AllOf(Owes(b.identity))
          /\ b.outstanding <= AllOf(OpenTo(b))
        BY <1>2 DEF DebtsOK, DebtOn
    <2> QED
        BY <1>2, <1>4, <1>5, <1>6, <1>7, <2>1 DEF DebtOn
<1>9. \A e \in Current' : e = c \/ (e \in Current /\ e.identity # c.identity)
    BY <1>2, TakesThePlace
<1>10. OthersStay(c.identity)
    BY <1>2, <1>6
<1>11. DebtsOK'
    BY <1>2, <1>3, <1>5, <1>8, <1>9, <1>10, DebtsSucceed
<1> QED
    BY <1>2, <1>11

\* A sum without shares is zero.
LEMMA NoShares ==
    ASSUME NEW S, NEW f, \A D \in S : f[D] = 0
    PROVE  TotalOf(S, f, MaxUint64) = 0
<1>1. Units(S, f, MaxUint64) = {}
    BY Bounds DEF Units
<1> QED
    BY <1>1, FS_EmptySet DEF TotalOf

\* An accepted line starts without debt, and its borrower has none.
LEMMA DebtsAccepted ==
    ASSUME BooksOK, ClaimTypes, PrivateClaimsOK, DebtsOK, NEW caller,
           NEW r \in DOMAIN enrollments, acceptLine(caller, r)
    PROVE  BooksOK' /\ DebtsOK'
<1> DEFINE c == r.book
           x == spendOf(r)
           a == c.identity
<1>1. /\ BooksOK' /\ c \in PrivateBook /\ c.outstanding = 0
      /\ c \notin books /\ books' = books \cup {c}
      /\ Current' = (Current \ {x}) \cup {c}
      /\ \/ x \in Current /\ x.identity = c.identity /\ x.outstanding = 0
         \/ \A b \in books : b.identity # c.identity
    BY Accepted
<1>2. UNCHANGED <<claims, credited>>
    BY DEF acceptLine
<1> HIDE DEF c, x
<1>3. ClaimTypes' /\ PrivateClaimsOK'
    BY <1>2 DEF ClaimTypes, PrivateClaimsOK
<1>4. /\ OthersStay(a)
      /\ AllOf(Owes(a))' = AllOf(Owes(a))
      /\ AllOf(OpenTo(c))' = AllOf(OpenTo(c))
    BY <1>2, SumsStay
<1>5. a \in Borrowers /\ credited[a] \in Nat
    BY <1>1 DEF PrivateBook, DebtsOK
<1>6. credited[a] = AllOf(Owes(a))
    <2>1. CASE x \in Current /\ x.identity = c.identity /\ x.outstanding = 0
        BY <1>5, <2>1 DEF DebtsOK, DebtOn
    <2>2. CASE \A b \in books : b.identity # c.identity
        <3>1. ~Booked(a)
            BY <2>2 DEF Booked
        <3>2. credited[a] = 0
            BY <1>5, <3>1 DEF DebtsOK
        <3>3. \A D \in DOMAIN claims : Owes(a)[D] = 0
            BY <3>1 DEF DebtsOK, Owes, owesShare
        <3> QED
            BY <3>2, <3>3, NoShares DEF AllOf
    <2> QED
        BY <1>1, <2>1, <2>2
<1>7. DebtOn(c)'
    <2>1. AllOf(OpenTo(c)) \in Nat
        BY PrivateSums
    <2> QED
        BY <1>1, <1>2, <1>4, <1>5, <1>6, <2>1 DEF DebtOn
<1>8. \A e \in Current' : e = c \/ (e \in Current /\ e.identity # c.identity)
    <2>1. CASE x \in Current /\ x.identity = c.identity
        BY <1>1, <2>1, TakesThePlace
    <2>2. CASE \A b \in books : b.identity # c.identity
        BY <1>1, <2>2 DEF Current
    <2> QED
        BY <1>1, <2>1, <2>2
<1>9. DebtsOK'
    BY <1>1, <1>2, <1>3, <1>4, <1>7, <1>8, DebtsSucceed DEF DebtsOK
<1> QED
    BY <1>1, <1>9
-----------------------------------------------------------------------------
(* The invariant *)

PrivateInv ==
    /\ BooksOK
    /\ DOMAIN offers \subseteq Offer
    /\ ClaimTypes /\ PrivateClaimsOK
    /\ HoldsOK
    /\ DebtsOK

\* What a step leaves alone stays as it was.
LEMMA BooksUnmoved == ASSUME BooksOK, BooksStay PROVE BooksOK'
<1>1. BookTypes'
    <2>1. \A r \in DOMAIN enrollments : RequestOK(r)'
        BY DEF BooksOK, BooksStay, BookTypes, RequestOK
    <2> QED
        BY <2>1 DEF BooksOK, BooksStay, BookTypes
<1> QED
    BY <1>1 DEF BooksOK, BooksStay, OneCurrent, StaysEnrolled, IssuedOnce, Current

LEMMA DebtsUntouched ==
    ASSUME DebtsOK, UNCHANGED <<books, spentBooks, claims, credited>>
    PROVE  DebtsOK'
<1>1. /\ \A a : AllOf(Owes(a))' = AllOf(Owes(a)) /\ AllOf(Promises(a))' = AllOf(Promises(a))
      /\ \A b : AllOf(OpenTo(b))' = AllOf(OpenTo(b))
    BY DEF AllOf, Owes, OpenTo, Promises
<1>2. Current' = Current /\ \A a : Booked(a)' <=> Booked(a)
    BY DEF Current, Booked
<1>3. \A b \in Current : DebtOn(b)'
    BY <1>1 DEF DebtsOK, DebtOn
<1> QED
    BY <1>1, <1>2, <1>3 DEF DebtsOK

LEMMA ClaimsUntouched ==
    ASSUME ClaimTypes, PrivateClaimsOK, UNCHANGED claims
    PROVE  ClaimTypes' /\ PrivateClaimsOK' /\ AllOf(PrivateHolds)' = AllOf(PrivateHolds)
BY DEF ClaimTypes, PrivateClaimsOK, AllOf, PrivateHolds

\* The capital calls.
LEMMA CapitalStep ==
    ASSUME PrivateInv, NEW caller, NEW total, NEW earned, moveCapital(caller, total, earned)
    PROVE  PrivateInv'
<1>1. /\ BooksStay /\ UNCHANGED <<offers, claims, credited>>
      /\ rotateReserve([reserve EXCEPT !.totalReserve = total, !.feeReserve = earned])
    BY DEF moveCapital, BooksStay
<1>2. BooksOK' /\ DebtsOK'
    BY <1>1, BooksUnmoved, DebtsUntouched DEF PrivateInv, BooksStay
<1>3. ClaimTypes' /\ PrivateClaimsOK' /\ AllOf(PrivateHolds)' = AllOf(PrivateHolds)
    BY <1>1, ClaimsUntouched DEF PrivateInv
<1>4. /\ reserve' \in Reserve /\ lockedIn(reserve') <= reserve'.totalReserve
      /\ kept(reserve') = kept(reserve)
    BY <1>1, CapitalMoved DEF PrivateInv
<1>5. HoldsOK'
    BY <1>3, <1>4 DEF PrivateInv, HoldsOK
<1> QED
    BY <1>1, <1>2, <1>3, <1>5 DEF PrivateInv

\* The calls about one claim that change no debt.
LEMMA ClaimStep ==
    ASSUME PrivateInv, BooksStay, UNCHANGED <<offers, credited>>,
           NEW D \in DOMAIN claims, NEW n, MovesTo(D, n),
           n.compensationAllocated <=> claims[D].compensationAllocated,
           n.compensationAllocated => n.refundCommitment = claims[D].refundCommitment
    PROVE  PrivateInv'
<1>1. BooksOK'
    BY BooksUnmoved DEF PrivateInv
<1>2. ClaimTypes' /\ PrivateClaimsOK' /\ HoldsOK'
    BY Moved DEF PrivateInv
<1>3. DebtsOK'
    BY DebtsUnmoved DEF PrivateInv, BooksStay
<1> QED
    BY <1>1, <1>2, <1>3 DEF PrivateInv

\* Every step of the facility keeps the invariant.
LEMMA FacilityStep ==
    ASSUME PrivateInv, facilityNext
    PROVE  PrivateInv'
<1>1. ASSUME NEW caller \in Principals, NEW a \in Deposits,
             fundPrivately(caller, a) \/ withdrawPrivately(caller, a)
      PROVE  PrivateInv'
    BY <1>1, CapitalStep DEF fundPrivately, withdrawPrivately
<1>2. ASSUME NEW caller \in Principals, withdrawFeesPrivately(caller)
      PROVE  PrivateInv'
    BY <1>2, CapitalStep DEF withdrawFeesPrivately
<1>3. ASSUME NEW agent \in Borrowers, NEW prior \in books \cup {NoBook}, NEW limit \in Limits,
             NEW expiry \in Times, NEW flat \in FlatFees, NEW bps \in Rates,
             requestLine(enrollment(agent, prior, limit, expiry, flat, bps))
      PROVE  PrivateInv'
    <2>1. BooksOK'
        BY <1>3, Requested DEF PrivateInv
    <2>2. UNCHANGED <<reserve, books, spentBooks, offers, claims, credited>>
        BY <1>3 DEF requestLine
    <2>3. ClaimTypes' /\ PrivateClaimsOK' /\ HoldsOK'
        BY <2>2, ClaimsUntouched DEF PrivateInv, HoldsOK
    <2>4. DebtsOK'
        BY <2>2, DebtsUntouched DEF PrivateInv
    <2> QED
        BY <2>1, <2>2, <2>3, <2>4 DEF PrivateInv
<1>4. ASSUME NEW caller \in Principals, NEW r \in DOMAIN enrollments, acceptLine(caller, r)
      PROVE  PrivateInv'
    <2>1. BooksOK' /\ DebtsOK'
        BY <1>4, DebtsAccepted DEF PrivateInv
    <2>2. UNCHANGED <<reserve, offers, claims>>
        BY <1>4 DEF acceptLine
    <2>3. ClaimTypes' /\ PrivateClaimsOK' /\ HoldsOK'
        BY <2>2, ClaimsUntouched DEF PrivateInv, HoldsOK
    <2> QED
        BY <2>1, <2>2, <2>3 DEF PrivateInv
<1>5. ASSUME NEW caller \in Principals, NEW b \in books, NEW next \in Status,
             changeStatus(caller, b, next)
      PROVE  PrivateInv'
    <2>1. b \in PrivateBook
        BY DEF PrivateInv, BooksOK, BookTypes
    <2>2. b.outstanding \in Nat /\ b.identity \in Borrowers
        BY <2>1, Bounds DEF PrivateBook
    <2>3. /\ readBook(b) /\ replaceBook(b, b.outstanding, next)
          /\ UNCHANGED <<reserve, enrollments, initialEnrollments, offers, claims, credited>>
        BY <1>5 DEF changeStatus
    <2>4. PICK amount \in Nat : amount = 0
        OBVIOUS
    <2>5. BooksOK' /\ DebtsOK'
        <3>1. amount <= b.outstanding /\ b.outstanding - amount = b.outstanding
            BY <2>2, <2>4
        <3>2. credited' = [credited EXCEPT ![b.identity] = @ + amount]
            BY <2>2, <2>3, <2>4 DEF PrivateInv, DebtsOK
        <3>3. replaceBook(b, b.outstanding - amount, next)
            BY <2>3, <3>1
        <3> QED
            BY <2>3, <3>1, <3>2, <3>3, DebtsReplaced DEF PrivateInv
    <2>6. ClaimTypes' /\ PrivateClaimsOK' /\ HoldsOK'
        BY <2>3, ClaimsUntouched DEF PrivateInv, HoldsOK
    <2> QED
        BY <2>3, <2>5, <2>6 DEF PrivateInv
<1>6. ASSUME NEW caller \in Suppliers, NEW agent \in Borrowers, NEW g \in 1..MaxReopened,
             NEW invoice \in Invoices, NEW amount \in Prices, NEW expiry \in Times,
             privateQuote(caller, facilityBinding(agent, g), invoice, amount, expiry)
      PROVE  PrivateInv'
    <2> DEFINE Q == [merchant |-> caller, binding |-> facilityBinding(agent, g),
                     invoice |-> invoice, amount |-> amount, expiry |-> expiry]
    <2>1. Q \in Offer
        BY Bounds, BorrowersAreAgents DEF Offer, Binding, facilityBinding
    <2>2. /\ offers' = Insert(offers, Q, FALSE) /\ BooksStay
          /\ UNCHANGED <<reserve, claims, credited>>
        BY <1>6 DEF privateQuote, BooksStay
    <2>3. DOMAIN offers' \subseteq Offer
        BY <2>1, <2>2 DEF PrivateInv, Insert
    <2>4. BooksOK' /\ DebtsOK'
        BY <2>2, BooksUnmoved, DebtsUntouched DEF PrivateInv, BooksStay
    <2>5. ClaimTypes' /\ PrivateClaimsOK' /\ HoldsOK'
        BY <2>2, ClaimsUntouched DEF PrivateInv, HoldsOK
    <2> QED
        BY <2>3, <2>4, <2>5 DEF PrivateInv
<1>7. ASSUME NEW caller \in Principals, NEW b \in books, NEW Q \in DOMAIN offers,
             drawPrivately(caller, b, Q)
      PROVE  PrivateInv'
    <2>1. b \in PrivateBook /\ Q \in Offer
        BY DEF PrivateInv, BooksOK, BookTypes
    <2>2. PICK D \in PrivateNote, n \in PrivateMeta : DrawsFrom(b, D, n)
        BY <1>7, <2>1, DrawnPrivately DEF PrivateInv
    <2>3. /\ readBook(b) /\ DOMAIN offers' = DOMAIN offers
          /\ UNCHANGED <<enrollments, initialEnrollments, credited>>
        BY <1>7 DEF drawPrivately
    <2>4. BooksOK' /\ ClaimTypes' /\ PrivateClaimsOK' /\ HoldsOK' /\ DebtsOK'
        BY <2>2, <2>3, DebtsDrawn DEF PrivateInv
    <2> QED
        BY <2>3, <2>4 DEF PrivateInv
<1>8. ASSUME NEW D \in DOMAIN claims, NEW caller \in Principals, redeemPrivately(caller, D)
      PROVE  PrivateInv'
    <2>1. PICK n \in PrivateMeta :
              MovesTo(D, n) /\ ~n.compensationAllocated /\ ~claims[D].compensationAllocated
        BY <1>8, RedeemedPrivately DEF PrivateInv
    <2>2. BooksStay /\ UNCHANGED <<offers, credited>>
        BY <1>8 DEF redeemPrivately, BooksStay
    <2> QED
        BY <2>1, <2>2, ClaimStep
<1>9. ASSUME NEW D \in DOMAIN claims, expirePrivately(D)
      PROVE  PrivateInv'
    <2>1. PICK n \in PrivateMeta :
              MovesTo(D, n) /\ ~n.compensationAllocated /\ ~claims[D].compensationAllocated
        BY <1>9, ExpiredPrivately DEF PrivateInv
    <2>2. BooksStay /\ UNCHANGED <<offers, credited>>
        BY <1>9 DEF expirePrivately, BooksStay
    <2> QED
        BY <2>1, <2>2, ClaimStep
<1>10. ASSUME NEW D \in DOMAIN claims, NEW caller \in Principals, NEW b \in books,
              compensatePrivately(caller, D, b)
       PROVE  PrivateInv'
    <2>1. /\ BooksOK' /\ DebtsOK'
          /\ \E n \in PrivateMeta : MovesTo(D, n)
        BY <1>10, DebtsCompensated DEF PrivateInv
    <2>2. ClaimTypes' /\ PrivateClaimsOK' /\ HoldsOK'
        BY <2>1, Moved DEF PrivateInv
    <2>3. UNCHANGED offers
        BY <1>10 DEF compensatePrivately
    <2> QED
        BY <2>1, <2>2, <2>3 DEF PrivateInv
<1>11. ASSUME NEW D \in DOMAIN claims, NEW caller \in Principals, NEW amount, NEW payRef,
              NEW receiptExpiry, reportPrivately(caller, D, amount, payRef, receiptExpiry)
       PROVE  PrivateInv'
    <2>1. PICK n \in PrivateMeta :
              /\ MovesTo(D, n) /\ n.compensationAllocated /\ claims[D].compensationAllocated
              /\ n.refundCommitment = claims[D].refundCommitment
        BY <1>11, ReportedPrivately DEF PrivateInv
    <2>2. BooksStay /\ UNCHANGED <<offers, credited>>
        BY <1>11 DEF reportPrivately, BooksStay
    <2> QED
        BY <2>1, <2>2, ClaimStep
<1>12. ASSUME NEW caller \in Principals, NEW b \in books, NEW amount \in 0..b.outstanding,
              NEW payRef, NEW receiptExpiry,
              repayPrivately(caller, b, amount, payRef, receiptExpiry)
       PROVE  PrivateInv'
    <2>1. /\ readBook(b) /\ replaceBook(b, b.outstanding - amount, b.status)
          /\ credited' = [credited EXCEPT ![b.identity] = @ + amount]
          /\ UNCHANGED <<reserve, enrollments, initialEnrollments, offers, claims>>
        BY <1>12 DEF repayPrivately
    <2>2. b \in PrivateBook
        BY DEF PrivateInv, BooksOK, BookTypes
    <2>3. b.status \in Status /\ amount \in Nat /\ amount <= b.outstanding
        BY <2>2, Bounds DEF PrivateBook
    <2>4. BooksOK' /\ DebtsOK'
        BY <2>1, <2>3, DebtsReplaced DEF PrivateInv
    <2>5. ClaimTypes' /\ PrivateClaimsOK' /\ HoldsOK'
        BY <2>1, ClaimsUntouched DEF PrivateInv, HoldsOK
    <2> QED
        BY <2>1, <2>4, <2>5 DEF PrivateInv
<1> QED
    BY <1>1, <1>2, <1>3, <1>4, <1>5, <1>6, <1>7, <1>8, <1>9, <1>10, <1>11, <1>12
       DEF facilityNext

\* A step of the profile is one of the facility, or leaves it alone.
LEMMA ProfileSteps ==
    ASSUME [profileNext]_profileVars
    PROVE  facilityNext \/ UNCHANGED facilityVars
BY DEF profileNext, profileVars

LEMMA PrivateInvariant == profileSpec => []PrivateInv
<1>1. profileInit => PrivateInv
    <2> SUFFICES ASSUME facilityInit PROVE PrivateInv
        BY DEF profileInit
    <2>1. /\ books = {} /\ spentBooks = {} /\ DOMAIN enrollments = {} /\ DOMAIN offers = {}
          /\ DOMAIN claims = {} /\ \A a \in Borrowers : credited[a] = 0
          /\ credited \in [Borrowers -> Nat]
        BY DEF facilityInit
    <2>2. BooksOK
        BY <2>1 DEF BooksOK, BookTypes, OneCurrent, StaysEnrolled, IssuedOnce, Current
    <2>3. ClaimTypes /\ PrivateClaimsOK
        BY <2>1, FS_EmptySet DEF ClaimTypes, PrivateClaimsOK
    <2>4. \A f : AllOf(f) = 0
        BY <2>1, TotalEmpty, Bounds DEF AllOf
    <2>5. HoldsOK
        BY <2>4, Bounds DEF facilityInit, HoldsOK, Reserve, kept, lockedIn
    <2>6. DebtsOK
        BY <2>1, <2>4 DEF DebtsOK, Current
    <2> QED
        BY <2>1, <2>2, <2>3, <2>5, <2>6 DEF PrivateInv
<1>2. PrivateInv /\ [profileNext]_profileVars => PrivateInv'
    <2> SUFFICES ASSUME PrivateInv, UNCHANGED facilityVars PROVE PrivateInv'
        BY FacilityStep, ProfileSteps
    <2>1. BooksStay /\ UNCHANGED <<reserve, offers, claims, credited>>
        BY DEF facilityVars, BooksStay
    <2>2. BooksOK' /\ DebtsOK'
        BY <2>1, BooksUnmoved, DebtsUntouched DEF PrivateInv, BooksStay
    <2>3. ClaimTypes' /\ PrivateClaimsOK' /\ HoldsOK'
        BY <2>1, ClaimsUntouched DEF PrivateInv, HoldsOK
    <2> QED
        BY <2>1, <2>2, <2>3 DEF PrivateInv
<1> QED
    BY <1>1, <1>2, PTL DEF profileSpec

\* A borrower of the private facility has one book to spend from, and it carries
\* its whole debt: what it owes, or repaid, is what its claims cost less what was
\* credited to it.
THEOREM OneBookForEachBorrower == profileSpec => []OneBookCarriesTheDebt
<1>1. PrivateInv => OneBookCarriesTheDebt
    <2> SUFFICES ASSUME PrivateInv, NEW agent \in Borrowers
                 PROVE  /\ Cardinality(current(agent)) <= 1
                        /\ claimsOfAgent(agent) # {} => current(agent) # {}
                        /\ \A b \in current(agent) :
                              b.outstanding + credited[agent] = owedBy(agent)
                        /\ promisedTo(agent) <= credited[agent]
        BY DEF OneBookCarriesTheDebt
    <2>1. current(agent) = {b \in Current : b.identity = agent}
        BY DEF current, Current
    <2>2. Cardinality(current(agent)) <= 1
        <3>1. CASE current(agent) = {}
            BY <3>1, FS_EmptySet
        <3>2. CASE current(agent) # {}
            <4>1. PICK b : b \in current(agent)
                BY <3>2
            <4>2. current(agent) = {b}
                BY <2>1, <4>1, OnlyOneCurrent DEF PrivateInv
            <4> QED
                BY <4>2, FS_Singleton
        <3> QED
            BY <3>1, <3>2
    <2>3. claimsOfAgent(agent) # {} => current(agent) # {}
        BY <2>1 DEF PrivateInv, claimsOfAgent, DebtsOK, Booked, BooksOK, StaysEnrolled
    <2>4. \A b \in current(agent) : b.outstanding + credited[agent] = owedBy(agent)
        BY <2>1, SumOfBorrower DEF PrivateInv, DebtsOK, DebtOn
    <2>5. promisedTo(agent) <= credited[agent]
        BY SumOfBorrower DEF PrivateInv, DebtsOK
    <2> QED
        BY <2>2, <2>3, <2>4, <2>5
<1> QED
    BY <1>1, PrivateInvariant, PTL
-----------------------------------------------------------------------------
(* The escrow behind the commitments *)

\* The escrow counts as the facility does.
LEMMA PrivateCountedAlike == \A S : PrivateEscrow!Cardinality(S) = Cardinality(S)
BY DEF PrivateEscrow!Cardinality, Cardinality

\* What it holds for a claim.
LEMMA PrivateHoldOfClaim ==
    ASSUME NEW n \in PrivateMeta, PrivateClaimOK(n)
    PROVE  PrivateEscrow!hold([principal |-> n.amount, fee |-> n.fee, state |-> claimState(n)])
             = privateHold(n)
<1> DEFINE c == [principal |-> n.amount, fee |-> n.fee, state |-> claimState(n)]
<1>1. c.principal = n.amount /\ c.fee = n.fee /\ c.state = claimState(n)
    OBVIOUS
<1>2. n.redeemed \in BOOLEAN /\ n.cancelled \in BOOLEAN /\ n.compensationAllocated \in BOOLEAN
      /\ n.cashRefundOwed \in BOOLEAN /\ n.refundAcknowledged \in BOOLEAN
    BY DEF PrivateMeta
<1> HIDE DEF c
<1>3. CASE n.redeemed
    <2>1. c.state = "paid"
        BY <1>1, <1>3, PrivateStates
    <2> QED
        BY <1>1, <1>3, <2>1 DEF PrivateEscrow!hold, privateHold, c
<1>4. CASE ~n.redeemed /\ n.compensationAllocated /\ ~n.cashRefundOwed
    <2>1. c.state = "released"
        BY <1>1, <1>4, PrivateStates
    <2> QED
        BY <1>1, <1>4, <2>1 DEF PrivateEscrow!hold, privateHold, c
<1>5. CASE ~n.redeemed /\ ~(n.compensationAllocated /\ ~n.cashRefundOwed)
    <2>1. c.state \in {"live", "expired", "owed", "settled"}
        BY <1>1, <1>2, <1>5, PrivateStates DEF live, PrivateClaimOK
    <2> QED
        BY <1>1, <1>5, <2>1 DEF PrivateEscrow!hold, privateHold, cost, c
<1> QED
    BY <1>2, <1>3, <1>4, <1>5

\* It holds exactly what the reserve locks.
LEMMA PrivateHeldIsLocked ==
    ASSUME PrivateInv
    PROVE  PrivateEscrow!Held = lockedIn(reserve)
<1> DEFINE escrowHolds == [c \in DOMAIN privateClaims |-> PrivateEscrow!hold(privateClaims[c])]
<1>1. DOMAIN privateClaims = DOMAIN claims
    BY DEF privateClaims
<1>2. \A D \in DOMAIN claims : escrowHolds[D] = PrivateHolds[D]
    <2>1. ASSUME NEW D \in DOMAIN claims
          PROVE  escrowHolds[D] = PrivateHolds[D]
        <3>1. claims[D] \in PrivateMeta /\ PrivateClaimOK(claims[D])
            BY TheClaim DEF PrivateInv
        <3>2. privateClaims[D] = [principal |-> claims[D].amount, fee |-> claims[D].fee,
                                  state |-> claimState(claims[D])]
            BY DEF privateClaims
        <3> QED
            BY <1>1, <3>1, <3>2, PrivateHoldOfClaim DEF PrivateHolds
    <2> QED
        BY <2>1
<1> HIDE DEF escrowHolds
<1>3. TotalOf(DOMAIN claims, escrowHolds, MaxUint64) = TotalOf(DOMAIN claims, PrivateHolds, MaxUint64)
    BY <1>2, Bounds, TotalSame
<1>4. PrivateEscrow!TotalOf(DOMAIN privateClaims, escrowHolds, MaxUint64)
        = TotalOf(DOMAIN claims, escrowHolds, MaxUint64)
    BY <1>1, PrivateCountedAlike DEF PrivateEscrow!TotalOf, PrivateEscrow!Units, TotalOf, Units
<1>5. PrivateEscrow!Held
        = PrivateEscrow!TotalOf(DOMAIN privateClaims, escrowHolds, MaxUint64) + reserve.feeReserve
    BY DEF PrivateEscrow!Held, escrowHolds
<1>6. AllOf(PrivateHolds) = kept(reserve) /\ reserve \in Reserve
    BY DEF PrivateInv, HoldsOK
<1>7. lockedIn(reserve) = kept(reserve) + reserve.feeReserve
    BY <1>6, ReserveFields
<1> QED
    BY <1>3, <1>4, <1>5, <1>6, <1>7 DEF AllOf

\* A claim that moves changes its state in the escrow, and nothing else.
LEMMA PrivateMove ==
    ASSUME ClaimTypes, NEW D \in DOMAIN claims, NEW n, MovesTo(D, n)
    PROVE  /\ D \in DOMAIN privateClaims
           /\ privateClaims[D].state = claimState(claims[D])
           /\ privateClaims[D].fee = claims[D].fee
           /\ privateClaims' = [privateClaims EXCEPT ![D].state = claimState(n)]
<1> DEFINE entry(m) == [principal |-> m.amount, fee |-> m.fee, state |-> claimState(m)]
<1>1. privateClaims = [E \in DOMAIN claims |-> entry(claims[E])]
    BY DEF privateClaims
<1>2. privateClaims' = [E \in DOMAIN claims' |-> entry(claims'[E])]
    BY DEF privateClaims, claimState, live
<1>3. entry(n) = [entry(claims[D]) EXCEPT !.state = claimState(n)]
    BY DEF MovesTo
<1>4. entry(claims[D]).state = claimState(claims[D]) /\ entry(claims[D]).fee = claims[D].fee
    OBVIOUS
<1> HIDE DEF entry
<1>5. /\ DOMAIN claims' = DOMAIN claims /\ claims'[D] = n
      /\ \A E \in DOMAIN claims \ {D} : claims'[E] = claims[E]
    BY DEF ClaimTypes, MovesTo
<1>6. privateClaims' = [privateClaims EXCEPT ![D] = entry(n)]
    BY <1>1, <1>2, <1>5
<1>7. privateClaims[D] = entry(claims[D])
    BY <1>1
<1> QED
    BY <1>1, <1>3, <1>4, <1>6, <1>7

\* A claim whose state stays is the same claim to the escrow.
LEMMA PrivateStutter ==
    ASSUME ClaimTypes, NEW D \in DOMAIN claims, NEW n, MovesTo(D, n),
           claimState(n) = claimState(claims[D])
    PROVE  UNCHANGED privateClaims
<1>1. /\ D \in DOMAIN privateClaims
      /\ privateClaims[D].state = claimState(claims[D])
      /\ privateClaims' = [privateClaims EXCEPT ![D].state = claimState(n)]
    BY PrivateMove
<1>2. privateClaims[D] = [principal |-> claims[D].amount, fee |-> claims[D].fee,
                          state |-> claimState(claims[D])]
    BY DEF privateClaims
<1>3. [privateClaims[D] EXCEPT !.state = claimState(n)] = privateClaims[D]
    BY <1>2
<1>4. privateClaims = [E \in DOMAIN privateClaims |-> privateClaims[E]]
    BY DEF privateClaims
<1> QED
    BY <1>1, <1>3, <1>4

\* A drawn claim is promised out of what the escrow does not hold.
LEMMA PrivatePromise ==
    ASSUME PrivateInv, NEW b, NEW D \in PrivateNote, NEW n \in PrivateMeta, DrawsFrom(b, D, n)
    PROVE  PrivateEscrow!Promise
<1> DEFINE entry == [principal |-> n.amount, fee |-> n.fee, state |-> claimState(n)]
<1>1. /\ D \notin DOMAIN claims /\ claims' = Insert(claims, D, n) /\ claimState(n) = "live"
      /\ cost(n) <= reserve.totalReserve - lockedIn(reserve)
      /\ reserve'.totalReserve = reserve.totalReserve
      /\ reserve'.feeReserve = reserve.feeReserve
    BY DEF DrawsFrom
<1>2. DOMAIN privateClaims = DOMAIN claims /\ DOMAIN privateClaims' = DOMAIN claims \cup {D}
    BY <1>1 DEF privateClaims, Insert
<1>3. privateClaims'[D] = entry
    BY <1>1 DEF privateClaims, claimState, live, Insert
<1>4. privateClaims' = Insert(privateClaims, D, privateClaims'[D])
    <2>1. \A E \in DOMAIN claims : privateClaims'[E] = privateClaims[E]
        BY <1>1 DEF privateClaims, claimState, live, Insert
    <2>2. privateClaims' = [E \in DOMAIN privateClaims' |-> privateClaims'[E]]
        BY DEF privateClaims
    <2> QED
        BY <1>2, <2>1, <2>2 DEF Insert
<1>5. /\ privateClaims'[D].state = "live"
      /\ privateClaims'[D].principal + privateClaims'[D].fee
            <= reserve.totalReserve - lockedIn(reserve)
    BY <1>1, <1>3 DEF cost
<1>6. D \in DOMAIN privateClaims' \ DOMAIN privateClaims
    BY <1>1, <1>2
<1>7. PrivateEscrow!Held = lockedIn(reserve)
    BY PrivateHeldIsLocked
<1> QED
    BY <1>1, <1>4, <1>5, <1>6, <1>7 DEF PrivateEscrow!Promise, PrivateEscrow!Insert, Insert

\* Each step of the facility is one of the escrow, or one it does not see.
LEMMA PrivateEscrowStep ==
    ASSUME PrivateInv, facilityNext
    PROVE  PrivateEscrow!Next \/ UNCHANGED PrivateEscrow!vars
<1> DEFINE Goal == PrivateEscrow!Next \/ UNCHANGED PrivateEscrow!vars
<1> SUFFICES Goal
    OBVIOUS
<1>1. UNCHANGED claims => UNCHANGED privateClaims
    BY DEF privateClaims, claimState, live
<1>2. ClaimTypes /\ PrivateClaimsOK /\ HoldsOK /\ reserve \in Reserve
    BY DEF PrivateInv, HoldsOK
<1>3. /\ reserve.totalReserve \in Nat /\ reserve.feeReserve \in Nat
      /\ lockedIn(reserve) \in Nat /\ PrivateEscrow!Held = lockedIn(reserve)
    BY <1>2, ReserveFields, PrivateHeldIsLocked
<1>4. CASE UNCHANGED <<reserve, claims>>
    BY <1>1, <1>4 DEF PrivateEscrow!vars
<1>5. ASSUME NEW caller \in Principals, NEW a \in Deposits, fundPrivately(caller, a)
      PROVE  Goal
    <2>1. /\ reserve'.totalReserve = reserve.totalReserve + a /\ UNCHANGED claims /\ a > 0
          /\ reserve'.feeReserve = reserve.feeReserve
        BY <1>2, <1>5, CapitalMoved DEF fundPrivately, moveCapital
    <2>2. reserve'.totalReserve > reserve.totalReserve
        BY <1>3, <2>1, Bounds
    <2> QED
        BY <1>1, <2>1, <2>2 DEF PrivateEscrow!Fund, PrivateEscrow!Next
<1>6. ASSUME NEW caller \in Principals, NEW a \in Deposits, withdrawPrivately(caller, a)
      PROVE  Goal
    <2>1. /\ reserve'.totalReserve = reserve.totalReserve - a /\ UNCHANGED claims /\ a > 0
          /\ reserve'.feeReserve = reserve.feeReserve
          /\ a <= reserve.totalReserve - lockedIn(reserve)
        BY <1>2, <1>6, CapitalMoved DEF withdrawPrivately, moveCapital
    <2>2. /\ reserve'.totalReserve < reserve.totalReserve
          /\ PrivateEscrow!Held <= reserve'.totalReserve
        BY <1>3, <2>1, Bounds
    <2> QED
        BY <1>1, <2>1, <2>2 DEF PrivateEscrow!Withdraw, PrivateEscrow!Next
<1>7. ASSUME NEW caller \in Principals, withdrawFeesPrivately(caller)
      PROVE  Goal
    <2>1. /\ reserve'.totalReserve = reserve.totalReserve - reserve.feeReserve
          /\ reserve'.feeReserve = 0 /\ UNCHANGED claims /\ reserve.feeReserve > 0
        BY <1>2, <1>7, CapitalMoved DEF withdrawFeesPrivately, moveCapital
    <2> QED
        BY <1>1, <2>1 DEF PrivateEscrow!CollectFees, PrivateEscrow!Next
<1>8. ASSUME NEW caller \in Principals, NEW b \in books, NEW Q \in DOMAIN offers,
             drawPrivately(caller, b, Q)
      PROVE  Goal
    <2>1. b \in PrivateBook /\ Q \in Offer
        BY DEF PrivateInv, BooksOK, BookTypes
    <2>2. PICK D \in PrivateNote, n \in PrivateMeta : DrawsFrom(b, D, n)
        BY <1>2, <1>8, <2>1, DrawnPrivately
    <2> QED
        BY <2>2, PrivatePromise DEF PrivateEscrow!Next
<1>9. ASSUME NEW D \in DOMAIN claims, NEW caller \in Principals, redeemPrivately(caller, D)
      PROVE  Goal
    <2>1. PICK n \in PrivateMeta :
              /\ MovesTo(D, n) /\ claimState(claims[D]) = "live" /\ claimState(n) = "paid"
              /\ reserve'.feeReserve = reserve.feeReserve + claims[D].fee
        BY <1>2, <1>9, RedeemedPrivately
    <2>2. /\ D \in DOMAIN privateClaims /\ privateClaims[D].state = "live"
          /\ privateClaims[D].fee = claims[D].fee
          /\ privateClaims' = [privateClaims EXCEPT ![D].state = "paid"]
        BY <1>2, <2>1, PrivateMove
    <2>3. PrivateEscrow!Pay(D)
        BY <2>1, <2>2 DEF MovesTo, PrivateEscrow!Pay, PrivateEscrow!Move
    <2> QED
        BY <2>2, <2>3 DEF PrivateEscrow!Next
<1>10. ASSUME NEW D \in DOMAIN claims,
              \/ expirePrivately(D)
              \/ \E caller \in Principals, b \in books : compensatePrivately(caller, D, b)
       PROVE  Goal
    <2>1. \E n \in PrivateMeta :
              /\ MovesTo(D, n) /\ reserve'.feeReserve = reserve.feeReserve
              /\ \/ claimState(claims[D]) = "live" /\ claimState(n) = "expired"
                 \/ claimState(claims[D]) \in {"live", "expired"} /\ claimState(n) = "owed"
                 \/ claimState(claims[D]) \in {"live", "expired"} /\ claimState(n) = "released"
        <3>1. CASE expirePrivately(D)
            BY <1>2, <3>1, ExpiredPrivately
        <3>2. ASSUME NEW caller \in Principals, NEW b \in books, compensatePrivately(caller, D, b)
              PROVE  \E n \in PrivateMeta :
                        /\ MovesTo(D, n) /\ claimState(claims[D]) \in {"live", "expired"}
                        /\ claimState(n) \in {"owed", "released"}
                        /\ reserve'.feeReserve = reserve.feeReserve
            <4>1. b \in PrivateBook
                BY DEF PrivateInv, BooksOK, BookTypes
            <4> QED
                BY <1>2, <3>2, <4>1, CompensatedPrivately
        <3> QED
            BY <1>10, <3>1, <3>2
    <2>2. PICK n \in PrivateMeta :
              /\ MovesTo(D, n) /\ reserve'.feeReserve = reserve.feeReserve
              /\ \/ claimState(claims[D]) = "live" /\ claimState(n) = "expired"
                 \/ claimState(claims[D]) \in {"live", "expired"} /\ claimState(n) = "owed"
                 \/ claimState(claims[D]) \in {"live", "expired"} /\ claimState(n) = "released"
        BY <2>1
    <2>3. /\ D \in DOMAIN privateClaims /\ privateClaims[D].state = claimState(claims[D])
          /\ privateClaims' = [privateClaims EXCEPT ![D].state = claimState(n)]
        BY <1>2, <2>2, PrivateMove
    <2>4. PrivateEscrow!Expire(D)
        BY <2>2, <2>3 DEF MovesTo, PrivateEscrow!Expire, PrivateEscrow!Move
    <2> QED
        BY <2>3, <2>4 DEF PrivateEscrow!Next
<1>11. ASSUME NEW D \in DOMAIN claims, NEW caller \in Principals, NEW amount, NEW payRef,
              NEW receiptExpiry, reportPrivately(caller, D, amount, payRef, receiptExpiry)
       PROVE  Goal
    <2>1. PICK n \in PrivateMeta :
              /\ MovesTo(D, n)
              /\ \/ claimState(claims[D]) = "owed" /\ claimState(n) = "settled"
                 \/ claimState(n) = claimState(claims[D])
              /\ reserve'.feeReserve = reserve.feeReserve
        BY <1>2, <1>11, ReportedPrivately
    <2>2. CASE claimState(claims[D]) = "owed" /\ claimState(n) = "settled"
        <3>1. /\ D \in DOMAIN privateClaims /\ privateClaims[D].state = "owed"
              /\ privateClaims' = [privateClaims EXCEPT ![D].state = "settled"]
            BY <1>2, <2>1, <2>2, PrivateMove
        <3>2. PrivateEscrow!Settle(D)
            BY <2>1, <3>1 DEF MovesTo, PrivateEscrow!Settle, PrivateEscrow!Move
        <3> QED
            BY <3>1, <3>2 DEF PrivateEscrow!Next
    <2>3. CASE claimState(n) = claimState(claims[D])
        BY <1>2, <2>1, <2>3, PrivateStutter DEF MovesTo, PrivateEscrow!vars
    <2> QED
        BY <2>1, <2>2, <2>3
<1>12. ASSUME \/ \E agent \in Borrowers, prior \in books \cup {NoBook}, limit \in Limits,
                    expiry \in Times, flat \in FlatFees, bps \in Rates :
                     requestLine(enrollment(agent, prior, limit, expiry, flat, bps))
              \/ \E caller \in Principals, request \in DOMAIN enrollments :
                     acceptLine(caller, request)
              \/ \E caller \in Principals, b \in books, next \in Status :
                     changeStatus(caller, b, next)
              \/ \E caller \in Suppliers, agent \in Borrowers, g \in 1..MaxReopened,
                    invoice \in Invoices, amount \in Prices, expiry \in Times :
                     privateQuote(caller, facilityBinding(agent, g), invoice, amount, expiry)
              \/ \E caller \in Principals, b \in books : \E amount \in 0..b.outstanding,
                    payRef \in Payments \cup {Empty}, receiptExpiry \in Times :
                     repayPrivately(caller, b, amount, payRef, receiptExpiry)
       PROVE  Goal
    <2>1. UNCHANGED <<reserve, claims>>
        BY <1>12, ZenonT(40)
           DEF requestLine, acceptLine, changeStatus, privateQuote, repayPrivately
    <2> QED
        BY <1>4, <2>1
<1> HIDE DEF Goal
<1> QED
    BY <1>5, <1>6, <1>7, <1>8, <1>9, <1>10, <1>11, <1>12 DEF facilityNext

\* Behind its commitments the private facility implements the escrow: every draw is
\* promised out of what is not held, and every claim ends in one of its ways.
THEOREM PrivateEscrowIsImplemented == profileSpec => ImplementsPrivateEscrow
<1>1. profileInit => PrivateEscrow!Init
    BY DEF profileInit, facilityInit, PrivateEscrow!Init, privateClaims
<1>2. PrivateInv /\ [profileNext]_profileVars => [PrivateEscrow!Next]_(PrivateEscrow!vars)
    <2>1. UNCHANGED facilityVars => UNCHANGED PrivateEscrow!vars
        BY DEF facilityVars, PrivateEscrow!vars, privateClaims, claimState, live
    <2> QED
        BY <2>1, PrivateEscrowStep, ProfileSteps
<1> QED
    BY <1>1, <1>2, PrivateInvariant, PTL
       DEF profileSpec, ImplementsPrivateEscrow, PrivateEscrow!Spec
=============================================================================
