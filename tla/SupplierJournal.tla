-------------------------- MODULE SupplierJournal --------------------------
(***************************************************************************)
(* The supplier's server: API orders that are quoted, redeemed and then    *)
(* delivered (organization-merchants.mjs), each step with one transaction  *)
(* that a durable journal signs, saves and sends at most once              *)
(* (native-operation-journal.mjs), behind an HTTP job slot that admits one *)
(* request at a time (organization-api.mjs).  A crash between any two      *)
(* writes is followed by recoverPending of the restarted process; a failed *)
(* write (persistenceUncertain) stops the process and is such a crash.     *)
(***************************************************************************)
EXTENDS ServiceRequests

VARIABLES
    orders,   \* status of every order in the encrypted controller record
    journal,  \* the pending operation of that record
    wire,     \* the transaction (.bin file) of every operation and its fate
    job       \* the admitted request and how far its process got

supplierVars == <<orders, journal, wire, job>>

Kinds == {"postQuote", "redeemDraw"}
Operations == Kinds \X Requests      \* `quote-ID` and `redeem-ID`
Statuses == {"none", "created", "quoted", "redeemed", "delivered"}
WireFates == {"none", "signed", "pooled", "lost", "succeeded", "failed"}

NoEntry == [op |-> <<>>, disposition |-> "none"]
NoJob == [kind |-> "none", rid |-> 0, step |-> "none"]
Recovery == [kind |-> "recover", rid |-> 0, step |-> "admitted"]
Job == [kind : Kinds \cup {"none", "recover"}, rid : Requests \cup {0},
        step : {"none", "admitted", "executing", "sending", "observing"}]

InitSupplier ==
    /\ orders = [r \in Requests |-> "none"]
    /\ journal = NoEntry
    /\ wire = [k \in Operations |-> "none"]
    /\ job = NoJob

Busy == journal # NoEntry
Saved == Busy /\ wire[journal.op] # "none"      \* existsSync(`${id}.bin`)
AtStep(s) == job.step = s

\* organization-api: one job at a time; redemption needs a known order.
Admit(kind, r) ==
    /\ job = NoJob
    /\ kind = "redeemDraw" => orders[r] # "none"
    /\ job' = [kind |-> kind, rid |-> r, step |-> "admitted"]
    /\ UNCHANGED <<orders, journal, wire>>

\* quoteOrder: the order and its quote opening are saved before any proof.
CreateOrder ==
    /\ AtStep("admitted") /\ ~Busy
    /\ job.kind = "postQuote" /\ orders[job.rid] = "none"
    /\ orders' = [orders EXCEPT ![job.rid] = "created"]
    /\ UNCHANGED <<journal, wire, job>>

Before(kind) == IF kind = "postQuote" THEN "created" ELSE "quoted"
After(kind) == IF kind = "postQuote" THEN "quoted" ELSE "redeemed"

\* operation: the pending entry is saved, then the call is executed.
Begin ==
    /\ AtStep("admitted") /\ ~Busy
    /\ job.kind \in Kinds /\ orders[job.rid] = Before(job.kind)
    /\ journal' = [op |-> <<job.kind, job.rid>>, disposition |-> "none"]
    /\ job' = [job EXCEPT !.step = "executing"]
    /\ UNCHANGED <<orders, wire>>

\* journalAndSubmit: the bytes of the balanced transaction ...
SaveBytes ==
    /\ AtStep("executing") /\ ~Saved
    /\ wire' = [wire EXCEPT ![journal.op] = "signed"]
    /\ UNCHANGED <<orders, journal, job>>

\* ... then its record, by the same process or by recoverPending ...
SaveRecord ==
    /\ job.step \in {"admitted", "executing"}
    /\ Saved /\ journal.disposition = "none"
    /\ journal' = [journal EXCEPT !.disposition = "prepared"]
    /\ UNCHANGED <<orders, wire, job>>

\* Mutant of maySubmit: recovery sends an attempted submission once more.
submitsAgain == journal.disposition \in {"prepared", "attempted"}

\* submitPrepared: uncertainty is saved before the network call.
maySubmit == journal.disposition = "prepared"

MarkAttempted ==
    /\ job.step \in {"admitted", "executing"}
    /\ Saved /\ maySubmit
    /\ journal' = [journal EXCEPT !.disposition = "attempted"]
    /\ job' = [job EXCEPT !.step = "sending"]
    /\ UNCHANGED <<orders, wire>>

\* The POST arrives or not, and so does its answer.
Post ==
    /\ AtStep("sending")
    /\ \E f \in {"pooled", "lost"} : wire' = [wire EXCEPT ![journal.op] = f]
    /\ job' \in {NoJob, [job EXCEPT !.step = "observing"]}
    /\ UNCHANGED <<orders, journal>>

\* Mutant of receiptProves: any finalized receipt will do.
anyReceipt(f) == f \in {"succeeded", "failed"}

\* reconcile: an exact finalized success publishes the candidate.
receiptProves(f) == f = "succeeded"

Observing == Busy /\ journal.disposition = "attempted" /\ job.step \in {"admitted", "observing"}

ReconcileReceipt ==
    /\ Observing
    /\ receiptProves(wire[journal.op])
    /\ orders' = [orders EXCEPT ![journal.op[2]] = After(journal.op[1])]
    /\ journal' = NoEntry
    /\ job' = [job EXCEPT !.step = "admitted"]
    /\ UNCHANGED wire

\* The receipt is missing, failed, or not found in time: the entry stays.
NoReceipt ==
    /\ Observing
    /\ job' = NoJob
    /\ UNCHANGED <<orders, journal, wire>>

\* recoverPending of an operation that never produced bytes.
ClearUnsigned ==
    /\ AtStep("admitted") /\ Busy
    /\ ~Saved /\ journal.disposition = "none"
    /\ journal' = NoEntry
    /\ UNCHANGED <<orders, wire, job>>

\* redeemOrder: the service result is fulfilled after the payout.
DeliverService ==
    /\ AtStep("admitted") /\ ~Busy
    /\ job.kind = "redeemDraw" /\ orders[job.rid] = "redeemed"
    /\ orders' = [orders EXCEPT ![job.rid] = "delivered"]
    /\ UNCHANGED <<journal, wire, job>>

\* The job returns the order, or recovery of a restart is through.
Answer ==
    /\ AtStep("admitted") /\ ~Busy
    /\ \/ job.kind = "recover"
       \/ job.kind = "postQuote" /\ orders[job.rid] \notin {"none", "created"}
       \/ job.kind = "redeemDraw" /\ orders[job.rid] = "delivered"
    /\ job' = NoJob
    /\ UNCHANGED <<orders, journal, wire>>

\* Mutant of Throw: a failed call always clears its entry.
throwForgets ==
    /\ job.step \in {"admitted", "executing"}
    /\ journal' = IF AtStep("executing") THEN NoEntry ELSE journal
    /\ job' = NoJob
    /\ UNCHANGED <<orders, wire>>

\* A check, the prover or the wallet throws; `operation` clears its entry
\* if no bytes exist.
Throw ==
    /\ job.step \in {"admitted", "executing"}
    /\ journal' = IF AtStep("executing") /\ ~Saved THEN NoEntry ELSE journal
    /\ job' = NoJob
    /\ UNCHANGED <<orders, wire>>

CrashServer ==
    /\ job' = Recovery
    /\ UNCHANGED <<orders, journal, wire>>

\* The network: a pooled transaction is finalized or drops out.
Finalize(k, f) ==
    /\ wire[k] = "pooled"
    /\ wire' = [wire EXCEPT ![k] = f]
    /\ UNCHANGED <<orders, journal, job>>

SupplierStep ==
    \/ CreateOrder \/ Begin \/ SaveBytes \/ SaveRecord \/ MarkAttempted \/ Post
    \/ ReconcileReceipt \/ NoReceipt \/ ClearUnsigned \/ DeliverService \/ Answer
    \/ Throw \/ CrashServer

NextSupplier ==
    \/ SupplierStep
    \/ \E kind \in Kinds, r \in Requests : Admit(kind, r)
    \/ \E k \in Operations, f \in {"succeeded", "failed", "lost"} : Finalize(k, f)

SpecSupplier == InitSupplier /\ [][NextSupplier]_supplierVars

(***************************************************************************)
(* Properties                                                              *)
(***************************************************************************)
\* Every variable keeps its type.
SupplierTypeOK ==
    /\ orders \in [Requests -> Statuses]
    /\ journal \in {NoEntry} \cup
         [op : Operations, disposition : {"none", "prepared", "attempted"}]
    /\ wire \in [Operations -> WireFates]
    /\ job \in Job

\* Bytes that may still be sent or executed belong to the pending entry: no
\* other operation starts while one is undecided, also across restarts.
UndecidedIsPending ==
    \A k \in Operations : wire[k] \in {"signed", "pooled"} => journal.op = k

\* An order advances only on a finalized success (reconcile), and a service
\* is delivered only after the payout of its claim.
StatusFollowsReceipts ==
    \A r \in Requests :
        /\ orders[r] \in {"quoted", "redeemed", "delivered"} =>
              wire[<<"postQuote", r>>] = "succeeded"
        /\ orders[r] \in {"redeemed", "delivered"} =>
              wire[<<"redeemDraw", r>>] = "succeeded"

\* "A restart never repeats it" (submitPrepared): bytes once handed to the
\* network are never handed to it again, whatever became of the call.
NeverRebroadcast ==
    [][\A k \in Operations : wire[k] = "lost" => wire'[k] = "lost"]_supplierVars
=============================================================================
