------------------------- MODULE CheckoutEvaluation -------------------------
(***************************************************************************)
(* The checkout evaluation server: one durable session of it.  The session *)
(* (checkout-engine.ts) executes the credit contract in its own process,   *)
(* one job at a time, and saves book, orders and contract state together   *)
(* in one checkpoint (checkout-storage.ts) after every step.  The HTTP     *)
(* layer (checkout-http.ts) looks the session up, waits for the request's  *)
(* body and then queues the job; it drops a session half an hour old that  *)
(* owes nothing.  A crash loses everything but the file; a failed save     *)
(* stops the session until the server is restarted.                        *)
(***************************************************************************)
EXTENDS Totals

CONSTANTS Requests,     \* request IDs of purchases
          References,   \* payment references of repayments and refunds
          None,         \* no reference, no file, no job
          Price,        \* of the service
          Limit,        \* credit limit of the line
          Reserve       \* units that back the claims

ASSUME CheckoutAssumption ==
    /\ None \notin Requests \cup References
    /\ IsFiniteSet(Requests) /\ IsFiniteSet(References)    \* names of bounded length
    /\ Price \in Nat \ {0} /\ Limit \in Nat /\ Reserve \in Nat

VARIABLES
    session,   \* the session in memory, contract state included
    disk,      \* the checkpoint file
    job,       \* the job the session executes and how far it is
    waiting,   \* bound to one: jobs whose request still sends its body
    health,    \* of process and session: "up", "failed", "down"
    listed,    \* the server still finds the session
    removing,  \* the server dropped the session, its file is being deleted
    late,      \* orders whose quote and claim have expired
    old,       \* the session is older than half an hour
    answered   \* history: what the callers were told

vars == <<session, disk, job, waiting, health, listed, removing, late, old, answered>>
server == <<health, listed, removing>>
clock == <<late, old>>

MaxWaiting == 1

Terminal == {"delivered", "declined", "expired", "compensated"}
Jobs == [kind : {"configure"}, id : {None}, amount : {0}, reference : {None}]
   \cup [kind : {"purchase"}, id : Requests, amount : {0}, reference : {None}]
   \cup [kind : {"acknowledge"}, id : {None}, amount : 1 .. Price, reference : References]
   \cup [kind : {"report"}, id : Requests, amount : {0}, reference : References]
Job == [step : {"running", "saving"},
        kind : {"configure", "purchase", "acknowledge", "report"}, id : Requests \cup {None},
        amount : 0 .. Price, reference : References \cup {None}]
ASSUME NoneIsNoJob == None \notin Job

NoOrder == [phase |-> "none", credit |-> 0, refund |-> 0, reference |-> None]
Blank ==
    [funded |-> FALSE, opened |-> FALSE, outstanding |-> 0,
     orders |-> [r \in Requests |-> NoOrder],
     repayments |-> [p \in References |-> 0],
     ledger |-> [funded |-> FALSE, book |-> 0, quotes |-> {},
                 notes |-> [r \in Requests |-> "none"], receipts |-> {}]]
Unanswered == [orders |-> [r \in Requests |-> "none"],
               repayments |-> [p \in References |-> 0],
               refunds |-> [r \in Requests |-> None], opened |-> FALSE]

Init ==
    /\ session = Blank /\ disk = Blank      \* create: saved before it is answered
    /\ job = None /\ waiting = {}
    /\ health = "up" /\ listed = TRUE /\ removing = FALSE
    /\ late = {} /\ old = FALSE
    /\ answered = Unanswered

-----------------------------------------------------------------------------
(* The contract's state in the checkpoint *)

ledger == session.ledger
\* A redeemed, owed or reported claim keeps its full backing locked, in one of
\* the six budgets.
locks(note) == note \notin {"none", "settled"}
lockedBy(L) == Price * Cardinality({r \in Requests : locks(L.notes[r])})
totalReserve(L) == IF L.funded THEN Reserve ELSE 0

drawAccepted(r) ==
    /\ r \in ledger.quotes /\ r \notin late
    /\ ledger.book + Price <= Limit
    /\ lockedBy(ledger) + Price <= totalReserve(ledger)
debtAfterCredit == IF ledger.book < Price THEN 0 ELSE ledger.book - Price
compensatedNote == IF ledger.book < Price THEN "owed" ELSE "settled"

\* recover: what a checkpoint must satisfy to be taken over by a new process.
\* That the fee policy is zero is left out: a session's contract has no other.
RecoverAccepts(s) ==
    /\ s.outstanding <= Limit
    /\ s.ledger.funded = s.funded /\ lockedBy(s.ledger) <= totalReserve(s.ledger)
    /\ s.opened => s.outstanding = s.ledger.book
    /\ \A r \in Requests :
        LET o == s.orders[r]
            note == s.ledger.notes[r]
        IN /\ o.phase = "authorized" => note = "claimed"
           /\ o.phase \in {"redeemed", "delivered"} => note = "redeemed"
           /\ o.phase = "compensated" =>
                /\ o.credit + o.refund = Price
                /\ note = IF o.refund = 0 THEN "settled"
                          ELSE IF o.reference = None THEN "owed" ELSE "reported"
                /\ o.reference # None => o.reference \in s.ledger.receipts

-----------------------------------------------------------------------------
(* The jobs of the session: every step ends in a checkpoint *)

Running(kind) == health = "up" /\ job # None /\ job.step = "running" /\ job.kind = kind
order == session.orders[job.id]
AtPhase(phase) == Running("purchase") /\ order.phase = phase

Save(s) ==
    /\ session' = s
    /\ job' = [job EXCEPT !.step = "saving"]
    /\ UNCHANGED <<disk, waiting, server, answered>>
Enter(s, phase) == [s EXCEPT !.orders[job.id].phase = phase]
Proved(s, book, note) ==
    [s EXCEPT !.ledger.book = book, !.ledger.notes[job.id] = note]

Fund ==
    /\ Running("configure") /\ ~session.funded
    /\ Save([session EXCEPT !.funded = TRUE, !.ledger.funded = TRUE])
    /\ UNCHANGED clock
Open ==
    /\ Running("configure") /\ session.funded /\ ~session.opened
    /\ Save([session EXCEPT !.opened = TRUE])
    /\ UNCHANGED clock

\* purchase: the intention and its openings are saved before any circuit.
Intend ==
    /\ AtPhase("none") /\ session.opened /\ ~old
    /\ Save(Enter(session, "prepared"))
    /\ late' = late \ {job.id} /\ UNCHANGED old

\* resume, by the phase of the order.
ExpireQuote ==
    /\ (AtPhase("prepared") \/ AtPhase("quoted")) /\ job.id \in late
    /\ Save(Enter(session, "expired"))
    /\ UNCHANGED clock
PostQuote ==
    /\ AtPhase("prepared") /\ job.id \notin late
    /\ Save([Enter(session, "quoted") EXCEPT !.ledger.quotes = @ \cup {job.id}])
    /\ UNCHANGED clock

\* Mutant of charged: the book is updated on the next visit.
chargedLater(s) == s

charged(s) == [s EXCEPT !.outstanding = @ + Price]
Draw ==
    /\ AtPhase("quoted") /\ drawAccepted(job.id)
    /\ Save(Proved(charged(Enter(session, "authorized")), ledger.book + Price, "claimed"))
    /\ UNCHANGED clock
Decline ==      \* also when the quote expires between the check and the draw
    /\ AtPhase("quoted") /\ ~drawAccepted(job.id)
    /\ Save(Enter(session, "declined"))
    /\ UNCHANGED clock

\* Mutant of credited: what was repaid meanwhile is credited once more.
creditsInFull == Price

credited == IF session.outstanding < Price THEN session.outstanding ELSE Price
Compensate ==
    /\ AtPhase("authorized") /\ job.id \in late
    /\ LET compensated == [Enter(session, "compensated") EXCEPT
                !.outstanding = @ - credited,
                !.orders[job.id].credit = credited,
                !.orders[job.id].refund = Price - credited]
       IN Save(Proved(compensated, debtAfterCredit, compensatedNote))
    /\ UNCHANGED clock
Redeem ==
    /\ AtPhase("authorized") /\ job.id \notin late
    /\ Save(Proved(Enter(session, "redeemed"), ledger.book, "redeemed"))
    /\ UNCHANGED clock

\* Mutant of Deliver: the result is returned before its checkpoint.
deliversFirst ==
    /\ AtPhase("redeemed")
    /\ session' = Enter(session, "delivered")
    /\ UNCHANGED <<disk, job, waiting, server, clock, answered>>

Deliver ==
    /\ AtPhase("redeemed")
    /\ Save(Enter(session, "delivered"))
    /\ UNCHANGED clock

\* A reference pays one repayment or one refund.
reported(reference) == \E r \in Requests : session.orders[r].reference = reference
Unused(reference) == session.repayments[reference] = 0 /\ ~reported(reference)

Acknowledge ==
    /\ Running("acknowledge") /\ Unused(job.reference)
    /\ session.opened /\ job.amount <= session.outstanding
    /\ job.reference \notin ledger.receipts
    /\ Save([session EXCEPT !.outstanding = @ - job.amount,
                            !.repayments[job.reference] = job.amount,
                            !.ledger.book = @ - job.amount,
                            !.ledger.receipts = @ \cup {job.reference}])
    /\ UNCHANGED clock
ReportRefund ==
    /\ Running("report") /\ Unused(job.reference)
    /\ order.refund > 0 /\ order.reference = None
    /\ ledger.notes[job.id] = "owed" /\ job.reference \notin ledger.receipts
    /\ Save([session EXCEPT !.orders[job.id].reference = job.reference,
                            !.ledger.notes[job.id] = "reported",
                            !.ledger.receipts = @ \cup {job.reference}])
    /\ UNCHANGED clock

\* A job whose terms hold, now or since an earlier run of it, is answered.
Finished ==
    CASE job.kind = "configure"   -> session.opened
      [] job.kind = "purchase"    -> order.phase \in Terminal
      [] job.kind = "acknowledge" -> session.repayments[job.reference] = job.amount
      [] job.kind = "report"      -> order.reference = job.reference
Told ==
    CASE job.kind = "configure"   -> [answered EXCEPT !.opened = TRUE]
      [] job.kind = "purchase"    -> [answered EXCEPT !.orders[job.id] = order.phase]
      [] job.kind = "acknowledge" -> [answered EXCEPT !.repayments[job.reference] = job.amount]
      [] job.kind = "report"      -> [answered EXCEPT !.refunds[job.id] = job.reference]
Reply ==
    /\ health = "up" /\ job # None /\ job.step = "running"
    /\ Finished
    /\ answered' = Told
    /\ job' = None
    /\ UNCHANGED <<session, disk, waiting, server, clock>>
\* A refused request, a rejected circuit, an unreachable merchant or clock.
Refuse ==
    /\ health = "up" /\ job # None /\ job.step = "running"
    /\ ~Finished
    /\ job.kind = "purchase" => order.phase # "redeemed"
    /\ job' = None
    /\ UNCHANGED <<session, disk, waiting, server, clock, answered>>

-----------------------------------------------------------------------------
(* checkpoint: write a temporary file, rename it, sync the directory *)

Saving == job # None /\ job.step = "saving"
Checkpointed ==
    /\ health = "up" /\ Saving
    /\ disk' = session
    /\ job' = [job EXCEPT !.step = "running"]
    /\ UNCHANGED <<session, waiting, server, clock, answered>>
\* Before the rename nothing changed; after it the publication is uncertain.
CheckpointFails ==
    /\ health = "up" /\ Saving
    /\ disk' \in {disk, session}
    /\ health' = "failed" /\ job' = None
    /\ UNCHANGED <<session, waiting, listed, removing, clock, answered>>

Crash ==
    /\ health # "down"
    /\ disk' \in {disk} \cup (IF Saving THEN {session} ELSE {})
    /\ health' = "down" /\ listed' = FALSE /\ removing' = FALSE
    /\ session' = Blank /\ job' = None /\ waiting' = {}
    /\ UNCHANGED <<clock, answered>>
Recover ==
    /\ health = "down" /\ disk # None /\ RecoverAccepts(disk)
    /\ session' = disk /\ health' = "up" /\ listed' = TRUE
    /\ UNCHANGED <<disk, job, waiting, removing, clock, answered>>

-----------------------------------------------------------------------------
(* HTTP: look the session up, read the body, queue the job *)

\* Debt, claims that can still be redeemed, refunds owed or reported.
hasOutstandingObligations ==
    \/ session.outstanding > 0
    \/ \E r \in Requests : \/ ledger.notes[r] = "reported"
                           \/ session.orders[r].phase = "authorized"
                           \/ session.orders[r].refund > 0 /\ session.orders[r].reference = None
Idle == health = "up" /\ job = None

\* Every request first sweeps the sessions that are half an hour old.
Arrive(j) ==
    /\ health # "down" /\ listed
    /\ old => Idle /\ hasOutstandingObligations
    /\ Cardinality(waiting) < MaxWaiting
    /\ waiting' = waiting \cup {j}
    /\ UNCHANGED <<session, disk, job, server, clock, answered>>
Queue(j) ==
    /\ Idle /\ j \in waiting
    /\ waiting' = waiting \ {j}
    /\ job' = [step |-> "running", kind |-> j.kind, id |-> j.id,
               amount |-> j.amount, reference |-> j.reference]
    /\ UNCHANGED <<session, disk, server, clock, answered>>
Unavailable(j) ==
    /\ health = "failed" /\ j \in waiting
    /\ waiting' = waiting \ {j}
    /\ UNCHANGED <<session, disk, job, server, clock, answered>>
Sweep ==
    /\ Idle /\ listed /\ old /\ ~hasOutstandingObligations
    /\ listed' = FALSE /\ removing' = TRUE
    /\ UNCHANGED <<session, disk, job, waiting, health, clock, answered>>
RemoveFile ==
    /\ removing
    /\ removing' = FALSE /\ disk' = None
    /\ UNCHANGED <<session, job, waiting, health, listed, clock, answered>>

Expire(r) ==
    /\ health = "up" /\ session.orders[r].phase \in {"prepared", "quoted", "authorized"}
    /\ late' = late \cup {r}
    /\ UNCHANGED <<session, disk, job, waiting, server, old, answered>>
Age ==
    /\ ~old /\ old' = TRUE
    /\ UNCHANGED <<session, disk, job, waiting, server, late, answered>>

Next ==
    \/ Fund \/ Open \/ Intend \/ ExpireQuote \/ PostQuote \/ Draw \/ Decline
    \/ Compensate \/ Redeem \/ Deliver \/ Acknowledge \/ ReportRefund
    \/ Reply \/ Refuse \/ Checkpointed \/ CheckpointFails \/ Crash \/ Recover
    \/ \E j \in Jobs : Arrive(j) \/ Queue(j) \/ Unavailable(j)
    \/ Sweep \/ RemoveFile \/ Age
    \/ \E r \in Requests : Expire(r)
Spec == Init /\ [][Next]_vars

-----------------------------------------------------------------------------
(* Properties *)

Agrees(s) ==
    /\ answered.opened => s.opened
    /\ \A r \in Requests : /\ answered.orders[r] \in {"none", s.orders[r].phase}
                           /\ answered.refunds[r] \in {None, s.orders[r].reference}
    /\ \A p \in References : answered.repayments[p] \in {0, s.repayments[p]}

\* What a caller was told, an outcome of a purchase, a repayment or a refund,
\* is in the file and in every later process that recovers it: no crash or
\* failed save between answer and checkpoint takes it back (checkpoint).
AnswersSurvive ==
    /\ disk # None => Agrees(disk)
    /\ health = "up" => Agrees(session)

\* Every file a crash can leave, in the middle of a purchase too, passes the
\* validation of recover: one rejected file stops the start of the server.
CheckpointsRecover == disk # None => RecoverAccepts(disk)

\* Over all retries, crashes and recoveries every claim was charged to the book
\* once, every repayment and every credit taken off it once (purchase, resume,
\* acknowledge), and the book never leaves 0 .. Limit.
ChargedAndCreditedOnce ==
    LET claims == {r \in Requests : ledger.notes[r] # "none"}
        credits == TotalOf(Requests, [r \in Requests |-> session.orders[r].credit], Price)
        repaid == TotalOf(References, session.repayments, Price)
    IN /\ session.outstanding = Price * Cardinality(claims) - credits - repaid
       /\ session.outstanding \in 0 .. Limit

\* Debt, open claims and refund budgets keep a session reachable while the
\* server runs (the sweep of checkout-http.ts): not so when a request that was
\* admitted before the sweep executes after it.
ObligationsReachable ==
    Idle /\ ~listed => ~hasOutstandingObligations
=============================================================================
