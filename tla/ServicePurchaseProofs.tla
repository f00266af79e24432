----------------------- MODULE ServicePurchaseProofs ------------------------
(***************************************************************************)
(* A purchase over API, for any number of tabs, requests and operations,   *)
(* from the two journals it runs on: what the supplier's operation journal *)
(* keeps, what the organization account keeps, and then what neither       *)
(* promises alone: one charge for each purchase, and nothing delivered     *)
(* unpaid.                                                                 *)
(***************************************************************************)
EXTENDS ServicePurchase, FiniteSetTheorems, TLAPS

-----------------------------------------------------------------------------
(***************************************************************************)
(* At most once, for any set of orders: the supplier's journal never       *)
(* forgets bytes that may still execute, never sends bytes again, and no   *)
(* order advances without a successful receipt.                            *)
(***************************************************************************)

\* Orders whose operation k is behind them.
Past(k) == IF k[1] = "postQuote" THEN {"quoted", "redeemed", "delivered"}
                                 ELSE {"redeemed", "delivered"}

\* An operation the journal does not hold was never signed, or has succeeded
\* and its order is past it: what failed or got lost is never taken off.
Retired ==
    \A k \in Operations : journal.op # k =>
        \/ wire[k] = "none"
        \/ wire[k] = "succeeded" /\ orders[k[2]] \in Past(k)

\* While an entry is pending its order waits for it, and bytes leave the disk
\* only after the attempt was marked.
EntryOK ==
    Busy =>
        /\ orders[journal.op[2]] = Before(journal.op[1])
        /\ journal.disposition = "none" => wire[journal.op] \in {"none", "signed"}
        /\ journal.disposition = "prepared" => wire[journal.op] = "signed"

\* A job of an order names it.
OrderJobs == {j \in Job : j.kind \in Kinds => j.rid \in Requests}

\* What the process is doing agrees with the entry.
StepOK ==
    /\ job \in OrderJobs
    /\ AtStep("executing") => Busy
    /\ AtStep("sending") =>
          Busy /\ journal.disposition = "attempted" /\ wire[journal.op] = "signed"

SupplierInv == SupplierTypeOK /\ Retired /\ EntryOK /\ StepOK /\ StatusFollowsReceipts

-----------------------------------------------------------------------------
\* The entry of an idle journal names no operation.
LEMMA EntryType ==
    ASSUME SupplierTypeOK
    PROVE  /\ <<>> \notin Operations
           /\ ~Busy => journal.op = <<>> /\ journal.disposition = "none"
           /\ Busy => /\ journal = [op |-> journal.op, disposition |-> journal.disposition]
                      /\ journal.op \in Operations
                      /\ journal.disposition \in {"none", "prepared", "attempted"}
                      /\ journal.op[1] \in Kinds /\ journal.op[2] \in Requests
<1>1. <<>> \notin Operations
    BY DEF Operations
<1>2. ~Busy => journal.op = <<>> /\ journal.disposition = "none"
    BY DEF Busy, NoEntry
<1>3. ASSUME Busy
      PROVE  journal \in [op : Operations, disposition : {"none", "prepared", "attempted"}]
    BY <1>3 DEF SupplierTypeOK, Busy
<1> QED
    BY <1>1, <1>2, <1>3 DEF Operations

LEMMA SupplierInit == InitSupplier => SupplierInv
<1> SUFFICES ASSUME InitSupplier PROVE SupplierInv
    OBVIOUS
<1>1. SupplierTypeOK
    BY DEF InitSupplier, SupplierTypeOK, Statuses, WireFates, Job, NoJob
<1>2. ~Busy /\ job.step = "none"
    BY DEF InitSupplier, Busy, NoJob
<1>3. Retired
    BY DEF InitSupplier, Retired
<1>4. EntryOK /\ StepOK
    BY <1>2 DEF InitSupplier, NoJob, Job, Kinds, OrderJobs, EntryOK, StepOK, AtStep
<1>5. StatusFollowsReceipts
    BY DEF InitSupplier, StatusFollowsReceipts
<1> QED
    BY <1>1, <1>3, <1>4, <1>5 DEF SupplierInv

\* Steps that touch only the process keep what journal, bytes and orders are.
LEMMA JobStep ==
    ASSUME SupplierInv, UNCHANGED <<orders, journal, wire>>,
           job' \in OrderJobs, job'.step \notin {"executing", "sending"}
    PROVE  SupplierInv'
<1>1. SupplierTypeOK'
    BY DEF SupplierInv, SupplierTypeOK, OrderJobs
<1>2. Retired' /\ StatusFollowsReceipts'
    BY DEF SupplierInv, Retired, StatusFollowsReceipts
<1>3. EntryOK'
    BY DEF SupplierInv, EntryOK, Busy
<1>4. StepOK'
    BY DEF StepOK, AtStep
<1> QED
    BY <1>1, <1>2, <1>3, <1>4 DEF SupplierInv

\* A record of the entry with another disposition.
LEMMA DispositionStep ==
    ASSUME SupplierInv, Busy, wire[journal.op] = "signed", UNCHANGED <<orders, wire>>,
           NEW d \in {"prepared", "attempted"}, journal' = [journal EXCEPT !.disposition = d],
           job' \in OrderJobs, job'.step = "sending" => d = "attempted"
    PROVE  SupplierInv'
<1> USE EntryType DEF SupplierInv
<1>1. journal' = [op |-> journal.op, disposition |-> d]
    OBVIOUS
<1>2. journal.op \in Operations /\ journal'.op = journal.op /\ journal'.disposition = d /\ Busy'
    BY <1>1 DEF Busy, NoEntry
<1>3. SupplierTypeOK'
    BY <1>1, <1>2 DEF SupplierTypeOK, OrderJobs
<1>4. Retired' /\ StatusFollowsReceipts'
    BY <1>2 DEF Retired, StatusFollowsReceipts
<1>5. EntryOK'
    BY <1>2 DEF EntryOK
<1>6. StepOK'
    BY <1>2 DEF StepOK, AtStep
<1> QED
    BY <1>3, <1>4, <1>5, <1>6

\* New fate of the bytes of the pending entry.
LEMMA WireStep ==
    ASSUME SupplierInv, Busy, UNCHANGED <<orders, journal>>, NEW f \in WireFates \ {"none"},
           wire' = [wire EXCEPT ![journal.op] = f],
           wire[journal.op] # "succeeded",
           journal.disposition = "attempted" \/ f = "signed",
           job' \in OrderJobs, job'.step # "sending"
    PROVE  SupplierInv'
<1> USE EntryType DEF SupplierInv
<1>1. /\ \A k \in Operations : wire'[k] = IF k = journal.op THEN f ELSE wire[k]
      /\ journal.op \in Operations
    BY DEF SupplierTypeOK
<1>2. SupplierTypeOK'
    BY DEF SupplierTypeOK, OrderJobs
<1>3. Retired'
    BY <1>1 DEF Retired
<1>4. EntryOK'
    BY <1>1 DEF EntryOK, Busy
<1>5. StepOK'
    BY DEF StepOK, AtStep, Busy
<1>6. StatusFollowsReceipts'
    <2>1. \A k \in Operations : wire[k] = "succeeded" => wire'[k] = "succeeded"
        BY <1>1
    <2> QED
        BY <2>1 DEF StatusFollowsReceipts, Operations, Kinds
<1> QED
    BY <1>2, <1>3, <1>4, <1>5, <1>6

\* An order that no entry waits for moves on without a transaction.
LEMMA OrderStep ==
    ASSUME SupplierInv, ~Busy, UNCHANGED <<journal, wire, job>>, AtStep("admitted"),
           NEW r \in Requests, NEW s,
           \/ orders[r] = "none" /\ s = "created"
           \/ orders[r] = "redeemed" /\ s = "delivered",
           orders' = [orders EXCEPT ![r] = s]
    PROVE  SupplierInv'
<1> USE EntryType DEF SupplierInv
<1>0. \A q \in Requests : orders'[q] = IF q = r THEN s ELSE orders[q]
    BY DEF SupplierTypeOK
<1>1. SupplierTypeOK'
    BY DEF SupplierTypeOK, Statuses
<1>2. Retired'
    BY <1>0 DEF Retired, Past, Operations
<1>3. EntryOK' /\ StepOK'
    BY DEF EntryOK, StepOK, Busy, AtStep
<1>4. StatusFollowsReceipts'
    BY <1>0 DEF StatusFollowsReceipts
<1> QED
    BY <1>1, <1>2, <1>3, <1>4

\* A new entry names an operation that was never signed: a failed or lost one
\* is still pending, and a successful one has moved its order on.
LEMMA BeginStep == SupplierInv /\ Begin => SupplierInv'
<1> SUFFICES ASSUME SupplierInv, Begin PROVE SupplierInv'
    OBVIOUS
<1> USE EntryType DEF SupplierInv
<1> DEFINE k == <<job.kind, job.rid>>
<1>1. k \in Operations /\ job.kind \in Kinds /\ job.rid \in Requests
    <2>1. job.rid \in Requests
        BY DEF Begin, StepOK, OrderJobs
    <2> QED
        BY <2>1 DEF Begin, Operations
<1>2. journal' = [op |-> k, disposition |-> "none"] /\ Busy'
    BY <1>1 DEF Begin, Busy, NoEntry
<1>3. wire[k] = "none"
    BY <1>1 DEF Begin, Retired, Past, Before, Kinds
<1>4. SupplierTypeOK'
    <2>1. job' \in Job
        BY DEF Begin, SupplierTypeOK, Job
    <2> QED
        BY <1>1, <1>2, <2>1 DEF Begin, SupplierTypeOK
<1>5. Retired' /\ StatusFollowsReceipts'
    BY <1>1 DEF Begin, Retired, StatusFollowsReceipts
<1>6. EntryOK'
    BY <1>1, <1>2, <1>3 DEF Begin, EntryOK
<1>7. StepOK'
    BY <1>2 DEF Begin, StepOK, AtStep, OrderJobs, Job
<1> QED
    BY <1>4, <1>5, <1>6, <1>7

\* An entry without bytes can be taken off the record.
LEMMA ClearEntryStep ==
    ASSUME SupplierInv, Busy, ~Saved, UNCHANGED <<orders, wire>>, journal' = NoEntry,
           job' \in OrderJobs, job'.step \notin {"executing", "sending"}
    PROVE  SupplierInv'
<1> USE EntryType DEF SupplierInv
<1>1. ~Busy' /\ wire[journal.op] = "none"
    BY DEF Busy, Saved
<1>2. SupplierTypeOK'
    BY DEF SupplierTypeOK, OrderJobs
<1>3. Retired' /\ StatusFollowsReceipts'
    BY <1>1 DEF Retired, StatusFollowsReceipts
<1>4. EntryOK' /\ StepOK'
    BY <1>1 DEF EntryOK, StepOK, AtStep
<1> QED
    BY <1>2, <1>3, <1>4

\* The receipt of a success takes the entry off and moves its order past it.
LEMMA ReceiptStep == SupplierInv /\ ReconcileReceipt => SupplierInv'
<1> SUFFICES ASSUME SupplierInv, ReconcileReceipt PROVE SupplierInv'
    OBVIOUS
<1> USE EntryType DEF SupplierInv
<1> DEFINE k == journal.op
<1>1. Busy /\ k \in Operations /\ k[1] \in Kinds /\ k[2] \in Requests /\ k = <<k[1], k[2]>>
    BY DEF ReconcileReceipt, Observing, Operations
<1>2. wire[k] = "succeeded" /\ orders[k[2]] = Before(k[1]) /\ UNCHANGED wire /\ journal' = NoEntry
    BY <1>1 DEF ReconcileReceipt, receiptProves, EntryOK
<1>3. \A r \in Requests : orders'[r] = IF r = k[2] THEN After(k[1]) ELSE orders[r]
    BY DEF ReconcileReceipt, SupplierTypeOK
<1>4. ~Busy' /\ job' \in OrderJobs /\ job'.step = "admitted"
    BY <1>2 DEF ReconcileReceipt, Busy, StepOK, OrderJobs, Job
<1>5. SupplierTypeOK'
    BY <1>2, <1>4 DEF ReconcileReceipt, SupplierTypeOK, After, Statuses, OrderJobs
<1>6. Retired'
    <2> SUFFICES ASSUME NEW l \in Operations
                 PROVE  wire[l] = "none" \/ (wire[l] = "succeeded" /\ orders'[l[2]] \in Past(l))
        BY <1>2 DEF Retired
    <2>1. l[1] \in Kinds /\ l[2] \in Requests
        BY DEF Operations
    <2>2. CASE l = k
        BY <1>2, <1>3, <2>1, <2>2 DEF Past, After, Kinds
    <2>3. CASE l # k
        <3>1. wire[l] = "none" \/ (wire[l] = "succeeded" /\ orders[l[2]] \in Past(l))
            BY <2>3 DEF Retired
        <3>2. orders[l[2]] \in Past(l) => orders'[l[2]] \in Past(l)
            BY <1>1, <1>2, <1>3, <2>1 DEF Past, Before, After, Kinds
        <3> QED
            BY <3>1, <3>2
    <2> QED
        BY <2>2, <2>3
<1>7. EntryOK' /\ StepOK'
    BY <1>4 DEF EntryOK, StepOK, AtStep
<1>8. StatusFollowsReceipts'
    BY <1>1, <1>2, <1>3 DEF StatusFollowsReceipts, Before, After, Kinds
<1> QED
    BY <1>5, <1>6, <1>7, <1>8

\* One step of server, callers and network.
LEMMA SupplierNext == SupplierInv /\ [NextSupplier]_supplierVars => SupplierInv'
<1> SUFFICES ASSUME SupplierInv, [NextSupplier]_supplierVars PROVE SupplierInv'
    OBVIOUS
<1> USE EntryType
<1>0. job \in OrderJobs /\ NoJob \in OrderJobs /\ Recovery \in OrderJobs
    BY DEF SupplierInv, StepOK, OrderJobs, Job, NoJob, Recovery, Kinds
<1>1. CASE UNCHANGED supplierVars
    BY <1>1 DEF supplierVars, SupplierInv, SupplierTypeOK, Retired, EntryOK, StepOK, AtStep,
                Busy, StatusFollowsReceipts, OrderJobs
<1>2. ASSUME NEW kind \in Kinds, NEW r \in Requests, Admit(kind, r) PROVE SupplierInv'
    <2>1. job' \in OrderJobs /\ job'.step = "admitted"
        BY <1>2 DEF Admit, OrderJobs, Job
    <2> QED
        BY <1>2, <2>1, JobStep DEF Admit
<1>3. CASE CreateOrder \/ DeliverService
    <2>1. job.rid \in Requests /\ ~Busy /\ AtStep("admitted") /\ UNCHANGED <<journal, wire, job>>
        BY <1>0, <1>3 DEF CreateOrder, DeliverService, OrderJobs, Kinds
    <2>2. CASE CreateOrder
        BY <2>1, <2>2, OrderStep DEF CreateOrder
    <2>3. CASE DeliverService
        BY <2>1, <2>3, OrderStep DEF DeliverService
    <2> QED
        BY <1>3, <2>2, <2>3
<1>4. CASE Begin
    BY <1>4, BeginStep
<1>5. CASE SaveBytes
    <2>1. Busy /\ wire[journal.op] = "none"
        BY <1>5 DEF SaveBytes, SupplierInv, StepOK, Saved
    <2> QED
        BY <1>0, <1>5, <2>1, WireStep DEF SaveBytes, AtStep, WireFates
<1>6. CASE SaveRecord
    <2>1. Busy /\ wire[journal.op] = "signed"
        BY <1>6 DEF SaveRecord, Saved, SupplierInv, EntryOK
    <2> QED
        BY <1>0, <1>6, <2>1, DispositionStep DEF SaveRecord
<1>7. CASE MarkAttempted
    <2>1. Busy /\ wire[journal.op] = "signed"
        BY <1>7 DEF MarkAttempted, maySubmit, Saved, SupplierInv, EntryOK
    <2>2. job' \in OrderJobs
        BY <1>0, <1>7 DEF MarkAttempted, OrderJobs, Job
    <2> QED
        BY <1>7, <2>1, <2>2, DispositionStep DEF MarkAttempted
<1>8. CASE Post
    <2>1. Busy /\ wire[journal.op] = "signed" /\ journal.disposition = "attempted"
        BY <1>8 DEF Post, SupplierInv, StepOK
    <2>2. job' \in OrderJobs /\ job'.step # "sending"
        BY <1>0, <1>8 DEF Post, OrderJobs, Job, NoJob
    <2> QED
        BY <1>8, <2>1, <2>2, WireStep DEF Post, WireFates
<1>9. CASE ReconcileReceipt
    BY <1>9, ReceiptStep
<1>10. CASE NoReceipt \/ Answer \/ CrashServer
    BY <1>0, <1>10, JobStep DEF NoReceipt, Answer, CrashServer, NoJob, Recovery, OrderJobs
<1>11. CASE ClearUnsigned
    BY <1>0, <1>11, ClearEntryStep DEF ClearUnsigned, AtStep
<1>12. CASE Throw
    <2>1. job' \in OrderJobs /\ job'.step \notin {"executing", "sending"}
        BY <1>0, <1>12 DEF Throw, NoJob
    <2>2. CASE AtStep("executing") /\ ~Saved
        BY <1>12, <2>1, <2>2, ClearEntryStep DEF Throw, SupplierInv, StepOK
    <2>3. CASE ~(AtStep("executing") /\ ~Saved)
        BY <1>12, <2>1, <2>3, JobStep DEF Throw, OrderJobs
    <2> QED
        BY <2>2, <2>3
<1>13. ASSUME NEW k \in Operations, NEW f \in {"succeeded", "failed", "lost"}, Finalize(k, f)
       PROVE  SupplierInv'
    <2>1. k = journal.op /\ Busy /\ journal.disposition = "attempted"
        BY <1>13 DEF Finalize, SupplierInv, Retired, EntryOK, Busy, NoEntry
    <2> QED
        BY <1>0, <1>13, <2>1, WireStep DEF Finalize, WireFates, SupplierInv, StepOK, AtStep
<1> QED
    BY <1>1, <1>2, <1>3, <1>4, <1>5, <1>6, <1>7, <1>8, <1>9, <1>10, <1>11, <1>12, <1>13
       DEF NextSupplier, SupplierStep

\* Bytes that may still be sent or executed are those of the pending entry:
\* a second operation never starts beside them, over any crash (operation,
\* recoverPending).
THEOREM AtMostOneUndecided == SpecSupplier => []UndecidedIsPending
<1>1. SupplierInv => UndecidedIsPending
    BY DEF SupplierInv, Retired, UndecidedIsPending
<1> QED
    BY <1>1, SupplierInit, SupplierNext, PTL DEF SpecSupplier

\* No order is quoted, redeemed or delivered without a finalized success of
\* its own transaction (reconcile, redeemOrder).
THEOREM PaidBeforeDelivered == SpecSupplier => []StatusFollowsReceipts
<1>1. SupplierInv => StatusFollowsReceipts
    BY DEF SupplierInv
<1> QED
    BY <1>1, SupplierInit, SupplierNext, PTL DEF SpecSupplier

\* Bytes once handed to the network are not handed to it again (submitPrepared).
THEOREM SentOnce == SpecSupplier => NeverRebroadcast
<1>1. SupplierInv /\ [NextSupplier]_supplierVars
        => [\A k \in Operations : wire[k] = "lost" => wire'[k] = "lost"]_supplierVars
    <2> SUFFICES ASSUME SupplierInv, [NextSupplier]_supplierVars,
                        NEW k \in Operations, wire[k] = "lost"
                 PROVE  wire'[k] = "lost"
        OBVIOUS
    <2> USE EntryType DEF SupplierInv
    <2>1. wire = [l \in Operations |-> wire[l]]
        BY DEF SupplierTypeOK
    <2>2. CASE SaveBytes
        BY <2>1, <2>2 DEF SaveBytes, Saved, StepOK
    <2>3. CASE Post
        BY <2>1, <2>3 DEF Post, StepOK
    <2>4. ASSUME NEW l \in Operations, NEW f, Finalize(l, f) PROVE wire'[k] = "lost"
        BY <2>1, <2>4 DEF Finalize
    <2>5. CASE UNCHANGED wire
        BY <2>5
    <2> QED
        BY <2>2, <2>3, <2>4, <2>5
           DEF NextSupplier, SupplierStep, supplierVars, Admit, CreateOrder, Begin, SaveRecord,
               MarkAttempted, ReconcileReceipt, NoReceipt, ClearUnsigned, DeliverService, Answer,
               Throw, CrashServer
<1> QED
    BY <1>1, SupplierInit, SupplierNext, PTL DEF SpecSupplier, NeverRebroadcast

-----------------------------------------------------------------------------
(***************************************************************************)
(* One payment at a time, for any number of tabs, requests and operations: *)
(* a transaction of the account that may still execute is the one saved as *)
(* pending, and the record opens the facility's ledger at every moment.    *)
(*                                                                         *)
(* Every change of the account is one of six kinds: an edit, the           *)
(* preparation of an operation, the end of one (committed or forgotten), a *)
(* move of the lock, a delivery, and a step of the ledger.  The lemmas are *)
(* stated for the kinds, and so serve the purchase of a service as well.   *)
(***************************************************************************)

ClaimStates == {"none", "live", "expired", "allocated", "settled", "redeemed"}
Ledger == [book : 0 .. MaxOps, quotes : SUBSET Requests,
           claims : [Requests -> [id : 0 .. MaxOps, state : ClaimStates]]]
Undecided == {"signed", "pooled"}

AccountTypeOK ==
    /\ record \in [snapshot : Snapshot, pending : Pending]
    /\ archived \in SUBSET Ops
    /\ lock \in [tab : Tabs \cup {NoTab}, step : Steps]
    /\ tx \in [Ops -> Call]
    /\ fate \in [Ops -> Fates]
    /\ lapsed \in SUBSET Ops
    /\ ledger \in Ledger
    /\ late \in SUBSET Requests

\* Names are given out in order: NextOp is the first one that signed nothing.
NamesInOrder == \A i \in Ops : fate[i] # "none" <=> i < NextOp

\* What the candidate p.after makes of the snapshot s is what the ledger makes
\* of the claim of the call p.call.
Effect(p, s) ==
    LET c == p.call
        n == s.notes[c.rid]
        rewritten(note) == p.after.notes = [s.notes EXCEPT ![c.rid] = note]
    IN  \/ /\ c.circuit = "draw" /\ c.rid \in Requests
           /\ n.id = 0
           /\ p.after.book = p.id
           /\ rewritten([NoNote EXCEPT !.id = p.id])
        \/ /\ c.circuit = "expire" /\ c.rid \in Requests
           /\ n.id # 0 /\ n.id = c.note /\ n.refund = "none"
           /\ p.after.book = s.book
           /\ rewritten([n EXCEPT !.expiryRecorded = TRUE])
        \/ /\ c.circuit = "compensate" /\ c.rid \in Requests
           /\ n.id # 0 /\ n.id = c.note /\ n.refund = "none"
           /\ p.after.book = p.id
           /\ rewritten([n EXCEPT !.refund = IF c.cash THEN "owed" ELSE "paid"])
        \/ /\ c.circuit = "refund" /\ c.rid \in Requests
           /\ n.id = c.note /\ n.refund = "owed"
           /\ p.after.book = s.book
           /\ rewritten([n EXCEPT !.refund = "paid"])
        \/ /\ c.circuit = "repay"
           /\ p.after.book = p.id
           /\ p.after.notes = s.notes

\* The pending operation: unsigned it bears the next name, signed its saved
\* bytes say its call.
PendingOK ==
    /\ IsPending => Effect(pending, snapshot)
    /\ IsPending /\ ~pending.signed => pending.id = NextOp
    /\ pending.signed => /\ IsPending
                         /\ fate[pending.id] # "none"
                         /\ tx[pending.id] = pending.call

\* The step of the lock's holder agrees with the record.
LockOK ==
    /\ lock.step = "proving" => IsPending /\ ~pending.signed
    /\ lock.step \in {"signed", "waiting"} => pending.signed

\* The ledger is where the snapshot is until the pending operation succeeds,
\* and from then on where its candidate is.
Applied == pending.signed /\ fate[pending.id] = "succeeded"
Opens == IF Applied THEN Matches(pending.after) ELSE Matches(snapshot)

\* Transactions whose intents expired never execute; only such are archived.
Expired == archived \subseteq lapsed /\ \A i \in lapsed : fate[i] \in Undecided

AccountInv ==
    /\ AccountTypeOK /\ NamesInOrder /\ PendingOK /\ LockOK
    /\ NoOrphanTransaction /\ Opens /\ Expired

-----------------------------------------------------------------------------
(***************************************************************************)
(* Names, snapshots and candidates                                         *)
(***************************************************************************)
LEMMA NextOpType ==
    ASSUME AccountTypeOK
    PROVE  NextOp \in 1 .. MaxOps + 1
<1> DEFINE used == {i \in Ops : fate[i] # "none"}
<1>1. IsFiniteSet(Ops) /\ Cardinality(Ops) = MaxOps
    BY AccountAssumption, FS_Interval DEF Ops
<1>2. IsFiniteSet(used) /\ Cardinality(used) <= Cardinality(Ops)
    BY <1>1, FS_Subset
<1>3. Cardinality(used) \in Nat
    BY <1>2, FS_CardinalityType
<1> HIDE DEF used
<1>4. Cardinality(used) <= MaxOps
    BY <1>1, <1>2
<1>5. NextOp = 1 + Cardinality(used)
    BY DEF NextOp, used
<1> QED
    BY <1>3, <1>4, <1>5, AccountAssumption

LEMMA NamesCount ==
    ASSUME NEW f, NEW k \in 0 .. MaxOps, \A i \in Ops : f[i] # "none" <=> i <= k
    PROVE  Cardinality({i \in Ops : f[i] # "none"}) = k
<1>1. {i \in Ops : f[i] # "none"} = 1 .. k
    BY AccountAssumption DEF Ops
<1>2. Cardinality(1 .. k) = k
    BY AccountAssumption, FS_Interval
<1> QED
    BY <1>1, <1>2

\* No name is given out as long as nothing new is signed.
LEMMA SameNames ==
    ASSUME \A i \in Ops : fate'[i] # "none" <=> fate[i] # "none"
    PROVE  NextOp' = NextOp
<1>1. {i \in Ops : fate'[i] # "none"} = {i \in Ops : fate[i] # "none"}
    OBVIOUS
<1> QED
    BY <1>1 DEF NextOp

\* The record and its two halves.
LEMMA RecordType ==
    ASSUME AccountTypeOK
    PROVE  /\ record = [snapshot |-> snapshot, pending |-> pending]
           /\ snapshot \in Snapshot /\ pending \in Pending
           /\ pending = [id |-> pending.id, call |-> pending.call,
                          after |-> pending.after, signed |-> pending.signed]
           /\ pending.after \in Snapshot /\ pending.call \in Call
           /\ pending.id \in 0 .. MaxOps /\ pending.signed \in BOOLEAN
           /\ IsPending => pending.id \in Ops
<1>1. record = [snapshot |-> snapshot, pending |-> pending] /\ snapshot \in Snapshot
        /\ pending \in Pending
    BY DEF AccountTypeOK, snapshot, pending
<1> QED
    BY <1>1, AccountAssumption DEF Pending, IsPending, Ops

LEMMA ConstantTypes ==
    /\ Fresh \in Snapshot /\ NoPending \in Pending /\ NoCall \in Call
    /\ NoPending.id = 0 /\ NoPending.signed = FALSE
    /\ NoNote \in Note
<1>1. NoNote \in Note
    BY AccountAssumption DEF NoNote, Note
<1>2. Fresh \in Snapshot
    BY <1>1, AccountAssumption DEF Fresh, Snapshot, Order, NoOrder, OpenBook
<1>3. NoCall \in Call
    BY AccountAssumption DEF NoCall, Call
<1>4. NoPending \in Pending
    BY <1>2, <1>3, AccountAssumption DEF NoPending, Pending
<1> QED
    BY <1>1, <1>2, <1>3, <1>4 DEF NoPending

-----------------------------------------------------------------------------
(***************************************************************************)
(* The kinds of step                                                       *)
(***************************************************************************)
LEMMA AccountInit == Init => AccountInv
<1> SUFFICES ASSUME Init PROVE AccountInv
    OBVIOUS
<1> USE AccountAssumption, ConstantTypes
<1>1. snapshot = Fresh /\ pending = NoPending
    BY DEF Init, snapshot, pending
<1>2. AccountTypeOK
    BY <1>1 DEF Init, AccountTypeOK, Unlocked, Steps, Fates, Ledger, ClaimStates, OpenBook, Ops
<1>3. NamesInOrder
    <2>1. Cardinality({i \in Ops : fate[i] # "none"}) = 0
        <3>1. \A i \in Ops : fate[i] # "none" <=> i <= 0
            BY DEF Init, Ops
        <3> QED
            BY <3>1, NamesCount
    <2> QED
        BY <2>1 DEF NamesInOrder, NextOp, Init, Ops
<1>4. Matches(snapshot)
    BY <1>1 DEF Matches, Fresh, NoNote, Init, OpenBook
<1> QED
    BY <1>1, <1>2, <1>3, <1>4
       DEF AccountInv, PendingOK, LockOK, NoOrphanTransaction, Opens, Applied, Expired, Init,
           IsPending, Unlocked, Ops

\* An edit leaves a record that opens the ledger.
LEMMA EditStep ==
    ASSUME AccountInv, NEW after \in Snapshot, Edit(after), Matches(after)
    PROVE  AccountInv'
<1> USE ConstantTypes
<1>1. snapshot' = after /\ pending' = NoPending
    BY DEF Edit, snapshot, pending
<1>2. ~IsPending /\ ~pending.signed /\ ~IsPending' /\ ~pending'.signed
    BY <1>1 DEF Edit, AccountInv, PendingOK, IsPending
<1>3. AccountTypeOK'
    BY DEF Edit, AccountInv, AccountTypeOK, chain
<1>4. Matches(snapshot)'
    BY <1>1 DEF Edit, Matches, Claim, chain
<1>5. NextOp' = NextOp
    BY DEF Edit, chain, NextOp
<1> QED
    BY <1>1, <1>2, <1>3, <1>4, <1>5
       DEF Edit, chain, AccountInv, NamesInOrder, PendingOK, LockOK, NoOrphanTransaction, Opens,
           Applied, Expired, Free, Unlocked

\* A candidate is prepared beside the committed snapshot.
LEMMA PrepareStep ==
    ASSUME AccountInv, NEW t \in Tabs, NEW c \in Call, NEW after \in Snapshot,
           Prepare(t, c, after), Effect(Candidate(c, after), snapshot)
    PROVE  AccountInv'
<1> USE ConstantTypes, RecordType DEF AccountInv
<1>1. snapshot' = snapshot /\ pending' = Candidate(c, after)
    BY DEF Prepare, snapshot, pending
<1>2. NextOp' = NextOp /\ NextOp \in Ops /\ NextOp # 0
    BY DEF Prepare, chain, NextOp, Ops
<1>3. ~IsPending /\ ~pending.signed /\ IsPending' /\ ~pending'.signed
    BY <1>1, <1>2 DEF Prepare, PendingOK, IsPending, Candidate
<1>4. Candidate(c, after) \in Pending
    BY <1>2, AccountAssumption DEF Candidate, Pending, Ops
<1>5. AccountTypeOK'
    BY <1>4 DEF Prepare, AccountTypeOK, chain, Steps, snapshot
<1>6. Matches(snapshot)'
    BY <1>1, <1>3 DEF Prepare, Matches, Claim, chain, Opens, Applied
<1>7. Effect(pending, snapshot)' /\ pending'.id = NextOp'
    BY <1>1, <1>2 DEF Effect, Candidate
<1> QED
    BY <1>1, <1>2, <1>3, <1>5, <1>6, <1>7
       DEF Prepare, chain, NamesInOrder, PendingOK, LockOK, NoOrphanTransaction, Opens,
           Applied, Expired

\* The pending operation is forgotten: it was never signed, failed, or expired.
LEMMA ForgetStep ==
    ASSUME AccountInv,
           record' = [record EXCEPT !.pending = NoPending],
           lock' = Unlocked,
           archived' \in {archived, archived \cup {pending.id}},
           archived' # archived => pending.id \in lapsed,
           pending.signed => pending.id \in lapsed \/ fate[pending.id] \in {"failed", "partial"},
           UNCHANGED <<tx, chain>>
    PROVE  AccountInv'
<1> USE ConstantTypes, RecordType DEF AccountInv
<1>1. snapshot' = snapshot /\ pending' = NoPending
    BY DEF snapshot, pending
<1>2. ~IsPending' /\ ~pending'.signed
    BY <1>1 DEF IsPending
<1>3. archived' \subseteq lapsed
    BY DEF Expired
<1>4. AccountTypeOK'
    BY <1>3 DEF AccountTypeOK, chain, Unlocked, Steps, snapshot
<1>5. ~Applied
    BY DEF Applied, Expired, Undecided
<1>6. Matches(snapshot)'
    <2>1. Matches(snapshot)
        BY <1>5 DEF Opens
    <2> QED
        BY ONLY <1>1, <2>1, UNCHANGED chain DEF Matches, Claim, chain
<1>7. NoOrphanTransaction'
    BY DEF NoOrphanTransaction, chain
<1>8. NextOp' = NextOp /\ NamesInOrder'
    BY DEF chain, NextOp, NamesInOrder
<1>9. PendingOK' /\ LockOK'
    BY <1>2 DEF PendingOK, LockOK, Unlocked
<1>10. Opens'
    BY <1>2, <1>6 DEF Opens, Applied
<1>11. Expired'
    BY <1>3 DEF chain, Expired
<1> QED
    BY <1>4, <1>7, <1>8, <1>9, <1>10, <1>11

\* The lock changes hands.
LEMMA LockStep ==
    ASSUME AccountInv, lock' \in [tab : Tabs \cup {NoTab}, step : Steps], LockOK',
           UNCHANGED <<record, archived, tx, chain>>
    PROVE  AccountInv'
<1>1. snapshot' = snapshot /\ pending' = pending
    BY DEF snapshot, pending
<1>2. /\ NextOp' = NextOp /\ IsPending' = IsPending
      /\ UNCHANGED <<archived, tx, fate, lapsed, ledger, late>>
    BY <1>1 DEF chain, NextOp, IsPending
<1>3. AccountTypeOK'
    BY <1>2 DEF AccountInv, AccountTypeOK
<1>4. PendingOK'
    BY <1>1, <1>2 DEF AccountInv, PendingOK, Effect
<1>6. NamesInOrder'
    BY <1>2 DEF AccountInv, NamesInOrder
<1>7. NoOrphanTransaction'
    BY <1>1, <1>2, Zenon DEF AccountInv, NoOrphanTransaction
<1>8. Expired'
    BY <1>2 DEF AccountInv, Expired
<1>5. Opens'
    BY <1>1, <1>2 DEF AccountInv, Opens, Applied, Matches, Claim
<1> QED
    BY <1>3, <1>4, <1>5, <1>6, <1>7, <1>8 DEF AccountInv

\* A successful operation is committed.
LEMMA CommitStep ==
    ASSUME AccountInv, NEW t, Complete(t)
    PROVE  AccountInv'
<1> USE ConstantTypes, RecordType DEF AccountInv
<1>1. snapshot' = pending.after /\ pending' = NoPending
    BY DEF Complete, snapshot, pending
<1>2. ~IsPending' /\ ~pending'.signed
    BY <1>1 DEF IsPending
<1>3. Applied
    BY DEF Complete, Finished, LockOK, Applied
<1>4. AccountTypeOK'
    BY DEF Complete, Finished, AccountTypeOK, chain, Unlocked, Steps
<1>5. Matches(snapshot)'
    BY <1>1, <1>3 DEF Complete, Finished, Matches, Claim, chain, Opens
<1>6. NoOrphanTransaction'
    BY <1>3 DEF NoOrphanTransaction, Complete, Finished, chain, Applied
<1>7. NextOp' = NextOp
    BY DEF Complete, Finished, chain, NextOp
<1> QED
    BY <1>1, <1>2, <1>4, <1>5, <1>6, <1>7
       DEF Complete, Finished, chain, NamesInOrder, PendingOK, LockOK, Opens, Applied, Expired,
           Unlocked

\* The candidate is signed: the next name is used, by bytes that say the call.
LEMMA SignStep ==
    ASSUME AccountInv, NEW t \in Tabs, Submitted(t)
    PROVE  AccountInv'
<1> USE RecordType DEF AccountInv
<1>1. /\ snapshot' = snapshot
      /\ pending' = [pending EXCEPT !.signed = TRUE]
      /\ pending'.id = pending.id /\ pending'.call = pending.call
      /\ pending'.after = pending.after /\ pending'.signed
    BY DEF Submitted, snapshot, pending
<1>2. IsPending /\ ~pending.signed /\ pending.id = NextOp /\ pending.id \in Ops
    BY DEF Submitted, LockOK, PendingOK
<1>3. fate[pending.id] = "none" /\ pending.id \notin lapsed
    BY <1>2, NextOpType DEF NamesInOrder, Expired, Undecided
<1>4. fate' = [fate EXCEPT ![pending.id] = "signed"] /\ fate'[pending.id] = "signed"
    BY <1>2 DEF Submitted, AccountTypeOK
<1>5. NextOp' = NextOp + 1
    <2>1. \A i \in Ops : fate'[i] # "none" <=> i <= pending.id
        BY <1>2, <1>4, NextOpType DEF NamesInOrder, AccountTypeOK, Ops
    <2>2. pending.id \in 0 .. MaxOps
        OBVIOUS
    <2>3. Cardinality({i \in Ops : fate'[i] # "none"}) = pending.id
        BY <2>1, <2>2, NamesCount
    <2>4. NextOp' = 1 + pending.id
        BY <2>3 DEF NextOp
    <2> QED
        BY <1>2, <2>4, NextOpType
<1>6. NamesInOrder'
    BY <1>2, <1>4, <1>5, NextOpType DEF NamesInOrder, AccountTypeOK, Ops
<1>7. AccountTypeOK'
    <2>1. record' \in [snapshot : Snapshot, pending : Pending]
        <3>1. record' = [snapshot |-> snapshot, pending |-> [pending EXCEPT !.signed = TRUE]]
            <4>1. record \in [snapshot : Snapshot, pending : Pending]
                BY DEF AccountTypeOK
            <4>2. record.pending \in Pending
                BY <4>1
            <4> QED
                BY <4>1, <4>2 DEF Submitted, pending, snapshot, Pending
        <3>2. [pending EXCEPT !.signed = TRUE] \in Pending
            BY DEF Pending
        <3> QED
            BY <3>1, <3>2
    <2> QED
        BY <1>2, <2>1 DEF Submitted, AccountTypeOK, Steps, Fates
<1>8. PendingOK'
    BY <1>1, <1>2, <1>4 DEF PendingOK, IsPending, Effect, Submitted, AccountTypeOK
<1>9. NoOrphanTransaction'
    BY <1>1, <1>2, <1>4 DEF NoOrphanTransaction, Submitted, AccountTypeOK
<1>10. Opens'
    <2>1. Matches(snapshot)'
        BY <1>1, <1>2 DEF Opens, Applied, Matches, Claim, Submitted
    <2> QED
        BY <1>1, <1>4, <2>1 DEF Opens, Applied
<1>11. Expired' /\ LockOK'
    BY <1>1, <1>3, <1>4 DEF Expired, LockOK, Submitted, AccountTypeOK
<1> QED
    BY <1>6, <1>7, <1>8, <1>9, <1>10, <1>11

\* The pending bytes are handed to the network, once more or for the first time.
LEMMA DeliverStep ==
    ASSUME AccountInv, NEW t \in Tabs, pending.signed, Deliver(t, pending.id),
           UNCHANGED <<record, archived, tx, lapsed, ledger, late>>
    PROVE  AccountInv'
<1> USE RecordType DEF AccountInv
<1>1. snapshot' = snapshot /\ pending' = pending
    BY DEF snapshot, pending
<1>2. pending.id \in Ops
    BY DEF PendingOK
<1>3. \A i \in Ops :
        /\ fate'[i] = IF i = pending.id /\ fate[i] = "signed" THEN "pooled" ELSE fate[i]
        /\ fate'[i] # "none" <=> fate[i] # "none"
        /\ fate'[i] \in Undecided <=> fate[i] \in Undecided
        /\ fate'[i] = "succeeded" <=> fate[i] = "succeeded"
    BY <1>2 DEF Deliver, AccountTypeOK, Undecided
<1>4. NextOp' = NextOp
    BY <1>3, SameNames
<1>5. AccountTypeOK' /\ LockOK'
    BY <1>1, <1>2 DEF Deliver, AccountTypeOK, LockOK, Fates, Steps, Unlocked
<1>6. PendingOK'
    BY <1>1, <1>2, <1>3, <1>4 DEF PendingOK, IsPending, Effect
<1>7. Opens'
    BY <1>1, <1>2, <1>3 DEF Opens, Applied, Matches, Claim
<1>8. NamesInOrder' /\ NoOrphanTransaction' /\ Expired'
    BY <1>1, <1>3, <1>4 DEF NamesInOrder, NoOrphanTransaction, Expired, Undecided, AccountTypeOK
<1> QED
    BY <1>5, <1>6, <1>7, <1>8

\* When the pending operation executes, the ledger goes where its candidate is.
LEMMA ExecutionOpens ==
    ASSUME AccountInv, IsPending, tx[pending.id] = pending.call,
           Accepts(pending.call), Matches(snapshot),
           ledger' = Executed(pending.id), record' = record
    PROVE  Matches(pending.after)' /\ ledger' \in Ledger
<1> USE RecordType DEF AccountInv
<1> DEFINE c == pending.call
           r == c.rid
           n == snapshot.notes[r]
           m == pending.after.notes[r]
<1>1. snapshot' = snapshot /\ pending' = pending
    BY DEF snapshot, pending
<1>2. /\ ledger \in Ledger /\ pending.id \in 0 .. MaxOps /\ c.note \in 0 .. MaxOps
      /\ c \in Call /\ c.cash \in BOOLEAN
    BY DEF AccountTypeOK, Call
<1>3. /\ \A q \in Requests : snapshot.notes[q] \in Note /\ ledger.claims[q].state \in ClaimStates
      /\ snapshot.notes \in [Requests -> Note]
    BY <1>2 DEF Snapshot, Ledger
<1>4. Effect(pending, snapshot)
    BY DEF PendingOK
<1>5. \A q \in Requests : snapshot.notes[q].id # 0 =>
          LET k == snapshot.notes[q] IN
          /\ Claim(q).id = k.id
          /\ k.expiryRecorded => Claim(q).state \in {"expired", "allocated", "settled"}
          /\ k.redeemed => Claim(q).state = "redeemed"
          /\ k.refund = "none" => Claim(q).state \notin {"allocated", "settled"}
          /\ k.refund = "owed" => Claim(q).state = "allocated"
          /\ k.refund = "paid" => Claim(q).state = "settled"
    BY <1>3 DEF Matches, Note
<1>6. snapshot.book = ledger.book
    BY DEF Matches
<1> DEFINE Moves(b, k, s, note) ==
              /\ r \in Requests /\ b \in 0 .. MaxOps /\ k \in 0 .. MaxOps
              /\ s \in ClaimStates /\ note \in Note
              /\ ledger' = [book |-> b, quotes |-> ledger.quotes,
                            claims |-> [ledger.claims EXCEPT ![r] = [id |-> k, state |-> s]]]
              /\ pending.after.book = b
              /\ pending.after.notes = [snapshot.notes EXCEPT ![r] = note]
              /\ note.id = k
              /\ note.expiryRecorded => s \in {"expired", "allocated", "settled"}
              /\ note.id # 0 /\ note.redeemed => s = "redeemed"
              /\ note.refund = "none" => s \notin {"allocated", "settled"}
              /\ note.refund = "owed" => s = "allocated"
              /\ note.refund = "paid" => s = "settled"
<1>7. ASSUME NEW b, NEW k, NEW s, NEW note, Moves(b, k, s, note)
      PROVE  Matches(pending.after)' /\ ledger' \in Ledger
    <2>1. /\ ledger' \in Ledger /\ ledger'.book = b /\ ledger'.claims[r] = [id |-> k, state |-> s]
          /\ \A q \in Requests \ {r} : ledger'.claims[q] = ledger.claims[q]
        BY <1>2, <1>7 DEF Ledger
    <2>2. /\ pending.after.notes[r] = note
          /\ \A q \in Requests \ {r} : pending.after.notes[q] = snapshot.notes[q]
        BY <1>3, <1>7
    <2>3. ASSUME NEW q \in Requests, pending.after.notes[q].id # 0
          PROVE  LET w == pending.after.notes[q] IN
                 /\ Claim(q)'.id = w.id
                 /\ w.expiryRecorded => Claim(q)'.state \in {"expired", "allocated", "settled"}
                 /\ w.redeemed => Claim(q)'.state = "redeemed"
                 /\ w.refund = "none" => Claim(q)'.state \notin {"allocated", "settled"}
                 /\ w.refund = "owed" => Claim(q)'.state = "allocated"
                 /\ w.refund = "paid" => Claim(q)'.state = "settled"
                 /\ w.refund \in {"none", "owed", "paid"}
        <3>1. CASE q = r
            BY <1>7, <2>1, <2>2, <2>3, <3>1 DEF Claim, Note
        <3>2. CASE q # r
            BY <1>3, <1>5, <2>1, <2>2, <2>3, <3>2 DEF Claim, Note
        <3> QED
            BY <3>1, <3>2
    <2> QED
        BY <1>1, <1>7, <2>1, <2>3 DEF Matches
<1> HIDE DEF Moves
<1>8. CASE c.circuit = "draw"
    <2>1. /\ r \in Requests /\ pending.after.book = pending.id
          /\ pending.after.notes = [snapshot.notes EXCEPT ![r] = [NoNote EXCEPT !.id = pending.id]]
        BY <1>4, <1>8 DEF Effect
    <2>2. ledger' = [book |-> pending.id, quotes |-> ledger.quotes, claims |->
                        [ledger.claims EXCEPT ![r] = [id |-> pending.id, state |-> "live"]]]
        BY <1>2, <1>8 DEF Executed, Ledger
    <2>3. [NoNote EXCEPT !.id = pending.id] \in Note
        BY <1>2 DEF NoNote, Note
    <2>4. Moves(pending.id, pending.id, "live", [NoNote EXCEPT !.id = pending.id])
        BY <1>2, <2>1, <2>2, <2>3 DEF NoNote, ClaimStates, Moves
    <2> QED
        BY <1>7, <2>4
<1>9. CASE c.circuit = "expire"
    <2>1. /\ r \in Requests /\ pending.after.book = ledger.book
          /\ n.id # 0 /\ n.id = c.note /\ n.refund = "none"
          /\ pending.after.notes = [snapshot.notes EXCEPT ![r] = [n EXCEPT !.expiryRecorded = TRUE]]
        BY <1>4, <1>6, <1>9 DEF Effect
    <2>2. ledger' = [book |-> ledger.book, quotes |-> ledger.quotes, claims |->
                        [ledger.claims EXCEPT ![r] = [id |-> c.note, state |-> "expired"]]]
        BY <1>2, <1>9 DEF Executed, Ledger
    <2>3. [n EXCEPT !.expiryRecorded = TRUE] \in Note /\ ledger.book \in 0 .. MaxOps
        <3>1. n \in Note
            BY <1>3, <2>1
        <3>2. [n EXCEPT !.expiryRecorded = TRUE] \in Note
            BY ONLY <3>1 DEF Note
        <3>3. ledger.book \in 0 .. MaxOps
            BY <1>2 DEF Ledger
        <3> QED
            BY <3>2, <3>3
    <2>4. ~n.redeemed
        BY <1>5, <1>9, <2>1 DEF Accepts
    <2>5. Moves(ledger.book, c.note, "expired", [n EXCEPT !.expiryRecorded = TRUE])
        BY <1>2, <1>3, <2>1, <2>2, <2>3, <2>4 DEF Note, ClaimStates, Moves
    <2> QED
        BY <1>7, <2>5
<1>10. CASE c.circuit = "compensate"
    <2> DEFINE s == IF c.cash THEN "allocated" ELSE "settled"
               note == [n EXCEPT !.refund = IF c.cash THEN "owed" ELSE "paid"]
    <2>1. /\ r \in Requests /\ pending.after.book = pending.id
          /\ n.id # 0 /\ n.id = c.note /\ n.refund = "none"
          /\ pending.after.notes = [snapshot.notes EXCEPT ![r] = note]
        BY <1>4, <1>10 DEF Effect
    <2>2. ledger' = [book |-> pending.id, quotes |-> ledger.quotes, claims |->
                        [ledger.claims EXCEPT ![r] = [id |-> c.note, state |-> s]]]
        BY <1>2, <1>10 DEF Executed, Ledger
    <2>3. note \in Note /\ s \in ClaimStates
        BY <1>2, <1>3, <2>1 DEF Note, ClaimStates
    <2>4. ~n.redeemed
        BY <1>5, <1>10, <2>1 DEF Accepts
    <2>5. /\ note.id = n.id /\ note.redeemed = n.redeemed
          /\ note.refund = IF c.cash THEN "owed" ELSE "paid"
        BY <1>3, <2>1 DEF Note
    <2>6. Moves(pending.id, c.note, s, note)
        BY <1>2, <2>1, <2>2, <2>3, <2>4, <2>5 DEF Moves
    <2> QED
        BY <1>7, <2>6
<1>11. CASE c.circuit = "refund"
    <2>1. /\ r \in Requests /\ pending.after.book = ledger.book
          /\ n.id = c.note /\ n.refund = "owed"
          /\ pending.after.notes = [snapshot.notes EXCEPT ![r] = [n EXCEPT !.refund = "paid"]]
        BY <1>4, <1>6, <1>11 DEF Effect
    <2>2. ledger' = [book |-> ledger.book, quotes |-> ledger.quotes, claims |->
                        [ledger.claims EXCEPT ![r] = [id |-> c.note, state |-> "settled"]]]
        BY <1>2, <1>11 DEF Executed, Ledger
    <2>3. [n EXCEPT !.refund = "paid"] \in Note /\ ledger.book \in 0 .. MaxOps
        <3>1. n \in Note
            BY <1>3, <2>1
        <3>2. [n EXCEPT !.refund = "paid"] \in Note
            BY ONLY <3>1 DEF Note
        <3>3. ledger.book \in 0 .. MaxOps
            BY <1>2 DEF Ledger
        <3> QED
            BY <3>2, <3>3
    <2>4. n.id # 0 => ~n.redeemed
        BY <1>5, <1>11, <2>1 DEF Accepts
    <2>5. Moves(ledger.book, c.note, "settled", [n EXCEPT !.refund = "paid"])
        BY <1>2, <1>3, <1>5, <2>1, <2>2, <2>3, <2>4 DEF Note, ClaimStates, Moves
    <2> QED
        BY <1>7, <2>5
<1>12. CASE c.circuit = "repay"
    <2>1. pending.after.book = pending.id /\ pending.after.notes = snapshot.notes
        BY <1>4, <1>12 DEF Effect
    <2>2. ledger' = [book |-> pending.id, quotes |-> ledger.quotes, claims |-> ledger.claims]
        BY <1>2, <1>12 DEF Executed, Ledger
    <2>3. ledger' \in Ledger /\ ledger'.book = pending.id /\ ledger'.claims = ledger.claims
        BY <1>2, <2>2 DEF Ledger
    <2> QED
        BY <1>1, <2>1, <2>3 DEF Matches, Claim
<1> QED
    BY <1>4, <1>8, <1>9, <1>10, <1>11, <1>12 DEF Effect

\* The network decides a transaction: it can only be the pending one.
LEMMA IncludeStep ==
    ASSUME AccountInv, NEW i \in Ops, Include(i)
    PROVE  AccountInv'
<1> USE RecordType DEF AccountInv
<1>1. snapshot' = snapshot /\ pending' = pending
    BY DEF Include, snapshot, pending
<1>2. pending.signed /\ pending.id = i /\ IsPending /\ tx[i] = pending.call
    BY DEF Include, NoOrphanTransaction, PendingOK
<1>3. ~Applied
    BY <1>2 DEF Applied, Include
<1>4. Matches(snapshot)
    BY <1>3 DEF Opens
<1>5. /\ fate'[i] \in {"succeeded", "failed", "partial"}
      /\ \A j \in Ops \ {i} : fate'[j] = fate[j]
      /\ fate' \in [Ops -> Fates]
    BY DEF Include, AccountTypeOK, Fates
<1>6. \A j \in Ops : fate'[j] # "none" <=> fate[j] # "none"
    BY <1>5 DEF Include
<1>7. NextOp' = NextOp
    BY <1>6, SameNames
<1>8. Opens' /\ ledger' \in Ledger
    <2>1. CASE fate'[i] = "succeeded"
        <3>1. Accepts(pending.call) /\ ledger' = Executed(pending.id)
            BY <1>2, <2>1 DEF Include, AccountTypeOK
        <3>2. Matches(pending.after)' /\ ledger' \in Ledger
            BY <1>2, <1>4, <3>1, ExecutionOpens DEF Include
        <3> QED
            BY <1>1, <1>2, <2>1, <3>2 DEF Opens, Applied
    <2>2. CASE fate'[i] # "succeeded"
        <3>1. ledger' = ledger
            BY <2>2 DEF Include, AccountTypeOK
        <3>2. Matches(snapshot)' /\ ~Applied'
            BY <1>1, <1>2, <1>4, <2>2, <3>1 DEF Matches, Claim, Applied
        <3> QED
            BY <3>1, <3>2 DEF Opens, AccountTypeOK
    <2> QED
        BY <2>1, <2>2
<1>9. AccountTypeOK'
    BY <1>5, <1>8 DEF Include, AccountTypeOK
<1>10. PendingOK' /\ LockOK'
    BY <1>1, <1>2, <1>6, <1>7 DEF PendingOK, LockOK, IsPending, Effect, Include
<1>11. NamesInOrder' /\ NoOrphanTransaction' /\ Expired'
    BY <1>1, <1>2, <1>5, <1>6, <1>7
       DEF NamesInOrder, NoOrphanTransaction, Expired, Undecided, Include, AccountTypeOK
<1> QED
    BY <1>8, <1>9, <1>10, <1>11

\* The intents of a transaction expire while it is in no block.
LEMMA LapseStep ==
    ASSUME AccountInv, NEW i \in Ops, Lapse(i)
    PROVE  AccountInv'
<1>1. /\ fate[i] \in Undecided /\ lapsed' = lapsed \cup {i}
      /\ UNCHANGED <<record, archived, lock, tx, fate, ledger, late>>
    BY DEF Lapse, Undecided
<1>2. snapshot' = snapshot /\ pending' = pending
    BY <1>1 DEF snapshot, pending
<1>3. NextOp' = NextOp /\ IsPending' = IsPending
    BY <1>1, <1>2 DEF NextOp, IsPending
<1>4. AccountTypeOK'
    BY <1>1 DEF AccountInv, AccountTypeOK
<1>5. PendingOK' /\ LockOK'
    BY <1>1, <1>2, <1>3 DEF AccountInv, PendingOK, LockOK, Effect
<1>6. NamesInOrder'
    BY <1>1, <1>3 DEF AccountInv, NamesInOrder
<1>7. NoOrphanTransaction'
    BY <1>1, <1>2, Zenon DEF AccountInv, NoOrphanTransaction
<1>8. Opens'
    BY <1>1, <1>2 DEF AccountInv, Opens, Applied, Matches, Claim
<1>9. Expired'
    BY <1>1 DEF AccountInv, Expired, Undecided
<1> QED
    BY <1>4, <1>5, <1>6, <1>7, <1>8, <1>9 DEF AccountInv

\* A step of others on the ledger: quotes and deadlines, and claims that are
\* redeemed while they live.
LEMMA LedgerStep ==
    ASSUME AccountInv, late' \in SUBSET Requests, ledger' \in Ledger,
           ledger'.book = ledger.book,
           \A r \in Requests :
               \/ Claim(r)' = Claim(r)
               \/ Claim(r).state = "live" /\ Claim(r)' = [Claim(r) EXCEPT !.state = "redeemed"],
           UNCHANGED <<record, archived, lock, tx, fate, lapsed>>
    PROVE  AccountInv'
<1> USE RecordType DEF AccountInv
<1>1. snapshot' = snapshot /\ pending' = pending
    BY DEF snapshot, pending
<1>2. ASSUME NEW s \in Snapshot, Matches(s)
      PROVE  /\ s.book = ledger'.book
             /\ \A r \in Requests : LET n == s.notes[r] IN
                  n.id # 0 =>
                     /\ Claim(r)'.id = n.id
                     /\ n.expiryRecorded => Claim(r)'.state \in {"expired", "allocated", "settled"}
                     /\ n.redeemed => Claim(r)'.state = "redeemed"
                     /\ n.refund = "none" => Claim(r)'.state \notin {"allocated", "settled"}
                     /\ n.refund = "owed" => Claim(r)'.state = "allocated"
                     /\ n.refund = "paid" => Claim(r)'.state = "settled"
                     /\ n.refund \in {"none", "owed", "paid"}
    <2> SUFFICES ASSUME NEW r \in Requests, s.notes[r].id # 0
                 PROVE  LET n == s.notes[r] IN
                     /\ Claim(r)'.id = n.id
                     /\ n.expiryRecorded => Claim(r)'.state \in {"expired", "allocated", "settled"}
                     /\ n.redeemed => Claim(r)'.state = "redeemed"
                     /\ n.refund = "none" => Claim(r)'.state \notin {"allocated", "settled"}
                     /\ n.refund = "owed" => Claim(r)'.state = "allocated"
                     /\ n.refund = "paid" => Claim(r)'.state = "settled"
                     /\ n.refund \in {"none", "owed", "paid"}
        BY <1>2 DEF Matches
    <2>1. s.notes[r] \in Note
        BY DEF Snapshot
    <2>2. Claim(r) \in [id : 0 .. MaxOps, state : ClaimStates]
        BY DEF AccountTypeOK, Ledger, Claim
    <2>3. LET n == s.notes[r] IN
              /\ Claim(r).id = n.id
              /\ n.expiryRecorded => Claim(r).state \in {"expired", "allocated", "settled"}
              /\ n.redeemed => Claim(r).state = "redeemed"
              /\ n.refund = "none" => Claim(r).state \notin {"allocated", "settled"}
              /\ n.refund = "owed" => Claim(r).state = "allocated"
              /\ n.refund = "paid" => Claim(r).state = "settled"
              /\ n.refund \in {"none", "owed", "paid"}
        BY <1>2, <2>1 DEF Matches, Note
    <2>4. CASE Claim(r)' = Claim(r)
        BY <2>3, <2>4
    <2>5. CASE Claim(r).state = "live" /\ Claim(r)' = [Claim(r) EXCEPT !.state = "redeemed"]
        <3>1. Claim(r)'.id = Claim(r).id /\ Claim(r)'.state = "redeemed"
            BY <2>2, <2>5
        <3> QED
            BY <2>3, <2>5, <3>1
    <2> QED
        BY <2>4, <2>5
<1>3. ASSUME NEW s \in Snapshot, Matches(s), s' = s
      PROVE  Matches(s)'
    BY <1>2, <1>3 DEF Matches
<1>4. Opens'
    BY <1>1, <1>3 DEF Opens, Applied
<1> QED
    BY <1>4
       DEF AccountTypeOK, NamesInOrder, NextOp, PendingOK, LockOK, NoOrphanTransaction, Expired,
           Effect, snapshot, pending, IsPending

-----------------------------------------------------------------------------
(***************************************************************************)
(* The operations                                                          *)
(***************************************************************************)
\* What the operations read of the committed snapshot.
LEMMA SnapshotType ==
    ASSUME AccountInv
    PROVE  /\ snapshot.notes \in [Requests -> Note]
           /\ \A r \in Requests : snapshot.notes[r] \in Note
           /\ snapshot.outstanding \in 0 .. Limit
           /\ snapshot.book \in 0 .. MaxOps
           /\ snapshot.order \in Order
           /\ snapshot \in Snapshot
<1> QED
    BY RecordType DEF AccountInv, Snapshot

\* A purchase leaves a record whose candidate is the draw's effect, whatever
\* it notes in the saved order besides.
LEMMA DrawStep ==
    ASSUME AccountInv, NEW t \in Tabs, NEW r \in Requests, NEW o \in Order,
           Draw(t, r, [Drawn(snapshot, r) EXCEPT !.order = o])
    PROVE  AccountInv'
<1> DEFINE note == [NoNote EXCEPT !.id = NextOp]
<1>1. PICK drawn : drawn = Drawn(snapshot, r)
    OBVIOUS
<1>2. PICK after : after = [drawn EXCEPT !.order = o]
    OBVIOUS
<1>3. PICK c : c = [NoCall EXCEPT !.circuit = "draw", !.rid = r, !.book = snapshot.book]
    OBVIOUS
<1>4. Prepare(t, c, after) /\ snapshot.notes[r].id = 0 /\ snapshot.outstanding < Limit
    BY <1>1, <1>2, <1>3 DEF Draw
<1>5. NextOp \in 0 .. MaxOps
    BY <1>4, AccountAssumption DEF Prepare, Ops
<1>6. note \in Note
    BY <1>5, AccountAssumption DEF NoNote, Note
<1>7. drawn = [book |-> NextOp, outstanding |-> snapshot.outstanding + 1,
               notes |-> [snapshot.notes EXCEPT ![r] = note], order |-> snapshot.order]
    BY <1>1, SnapshotType DEF Drawn, Snapshot
<1>8. after = [drawn EXCEPT !.order = o] /\ after.book = NextOp
        /\ after.notes = [snapshot.notes EXCEPT ![r] = note]
    BY <1>2, <1>7
<1>9. after \in Snapshot
    BY <1>2, <1>4, <1>5, <1>6, <1>7, SnapshotType, AccountAssumption DEF Snapshot
<1>10. c = [circuit |-> "draw", rid |-> r, note |-> 0, book |-> snapshot.book, cash |-> FALSE]
    BY <1>3 DEF NoCall
<1>11. c \in Call
    BY <1>10, SnapshotType, AccountAssumption DEF Call
<1>12. Effect(Candidate(c, after), snapshot)
    <2>1. PICK p : p = Candidate(c, after)
        OBVIOUS
    <2>2. /\ p.id = NextOp /\ p.after = after /\ p.call.circuit = "draw" /\ p.call.rid = r
          /\ note = [NoNote EXCEPT !.id = p.id]
        BY <1>10, <2>1 DEF Candidate
    <2>3. Effect(p, snapshot)
        BY <1>4, <1>8, <2>2 DEF Effect
    <2> QED
        BY <2>1, <2>3
<1> QED
    BY <1>4, <1>9, <1>11, <1>12, PrepareStep

LEMMA PurchaseStep ==
    ASSUME AccountInv, NEW t \in Tabs, NEW r \in Requests, Purchase(t, r)
    PROVE  AccountInv'
<1>1. PICK drawn : drawn = Drawn(snapshot, r)
    OBVIOUS
<1>2. drawn = [book |-> NextOp, outstanding |-> snapshot.outstanding + 1,
               notes |-> [snapshot.notes EXCEPT ![r] = [NoNote EXCEPT !.id = NextOp]],
               order |-> snapshot.order]
    BY <1>1, SnapshotType DEF Drawn, Snapshot
<1>3. [drawn EXCEPT !.order = snapshot.order] = drawn
    BY <1>2
<1> QED
    BY <1>1, <1>3, DrawStep, SnapshotType DEF Purchase

LEMMA RepayStep ==
    ASSUME AccountInv, NEW t \in Tabs, Repay(t)
    PROVE  AccountInv'
<1>1. PICK after : after = [snapshot EXCEPT !.outstanding = @ - 1, !.book = NextOp]
    OBVIOUS
<1>2. PICK c : c = [NoCall EXCEPT !.circuit = "repay", !.book = snapshot.book]
    OBVIOUS
<1>3. Prepare(t, c, after) /\ snapshot.outstanding > 0
    BY <1>1, <1>2 DEF Repay
<1>4. NextOp \in 1 .. MaxOps
    BY <1>3 DEF Prepare, Ops
<1>5. after = [book |-> NextOp, outstanding |-> snapshot.outstanding - 1,
               notes |-> snapshot.notes, order |-> snapshot.order]
    BY <1>1, SnapshotType DEF Snapshot
<1>6. after \in Snapshot
    BY <1>3, <1>4, <1>5, SnapshotType, AccountAssumption DEF Snapshot
<1>7. c = [circuit |-> "repay", rid |-> 0, note |-> 0, book |-> snapshot.book, cash |-> FALSE]
    BY <1>2 DEF NoCall
<1>8. c \in Call
    BY <1>7, SnapshotType, AccountAssumption DEF Call
<1>9. Effect(Candidate(c, after), snapshot)
    BY <1>5, <1>7 DEF Effect, Candidate
<1> QED
    BY <1>3, <1>6, <1>8, <1>9, PrepareStep

LEMMA RecordExpiryStep ==
    ASSUME AccountInv, NEW t \in Tabs, NEW r \in Requests, RecordExpiry(t, r)
    PROVE  AccountInv'
<1> DEFINE n == snapshot.notes[r]
           note == [n EXCEPT !.expiryRecorded = TRUE]
<1>1. PICK after : after = [snapshot EXCEPT !.notes[r].expiryRecorded = TRUE]
    OBVIOUS
<1>2. PICK c : c = [NoCall EXCEPT !.circuit = "expire", !.rid = r, !.note = n.id]
    OBVIOUS
<1>3. Prepare(t, c, after) /\ n.id # 0 /\ n.refund = "none"
    BY <1>1, <1>2 DEF RecordExpiry
<1>4. n \in Note /\ note \in Note /\ n.id \in 0 .. MaxOps
    BY SnapshotType DEF Note
<1>5. after = [book |-> snapshot.book, outstanding |-> snapshot.outstanding,
               notes |-> [snapshot.notes EXCEPT ![r] = note], order |-> snapshot.order]
    BY <1>1, SnapshotType DEF Snapshot
<1>6. after \in Snapshot
    BY <1>4, <1>5, SnapshotType DEF Snapshot
<1>7. c = [circuit |-> "expire", rid |-> r, note |-> n.id, book |-> 0, cash |-> FALSE]
    BY <1>2 DEF NoCall
<1>8. c \in Call
    BY <1>4, <1>7, AccountAssumption DEF Call
<1>9. Effect(Candidate(c, after), snapshot)
    BY <1>3, <1>5, <1>7 DEF Effect, Candidate
<1> QED
    BY <1>3, <1>6, <1>8, <1>9, PrepareStep

LEMMA CompensateStep ==
    ASSUME AccountInv, NEW t \in Tabs, NEW r \in Requests, Compensate(t, r)
    PROVE  AccountInv'
<1> DEFINE n == snapshot.notes[r]
           credit == IF snapshot.outstanding < 1 THEN snapshot.outstanding ELSE 1
           note == [n EXCEPT !.refund = IF credit = 0 THEN "owed" ELSE "paid"]
<1>1. PICK after : after = [snapshot EXCEPT !.outstanding = @ - credit, !.book = NextOp,
                                            !.notes[r].refund = refundAfter(credit)]
    OBVIOUS
<1>2. PICK c : c = [circuit |-> "compensate", rid |-> r, note |-> n.id,
                    book |-> snapshot.book, cash |-> credit = 0]
    OBVIOUS
<1>3. Prepare(t, c, after) /\ n.id # 0 /\ n.refund = "none"
    BY <1>1, <1>2 DEF Compensate
<1>4. NextOp \in 1 .. MaxOps
    BY <1>3 DEF Prepare, Ops
<1>5. n \in Note /\ note \in Note /\ n.id \in 0 .. MaxOps
    BY SnapshotType DEF Note
<1>6. credit \in {0, 1} /\ snapshot.outstanding - credit \in 0 .. Limit
    BY SnapshotType, AccountAssumption
<1>7. refundAfter(credit) = IF credit = 0 THEN "owed" ELSE "paid"
    BY <1>6 DEF refundAfter
<1> HIDE DEF credit
<1>8. after = [book |-> NextOp, outstanding |-> snapshot.outstanding - credit,
               notes |-> [snapshot.notes EXCEPT ![r] = note], order |-> snapshot.order]
    BY <1>1, <1>7, SnapshotType DEF Snapshot
<1>9. after \in Snapshot
    BY <1>4, <1>5, <1>6, <1>8, SnapshotType, AccountAssumption DEF Snapshot
<1>10. c \in Call
    BY <1>2, <1>5, SnapshotType DEF Call
<1>11. Effect(Candidate(c, after), snapshot)
    BY <1>2, <1>3, <1>8 DEF Effect, Candidate
<1> QED
    BY <1>3, <1>9, <1>10, <1>11, PrepareStep

LEMMA RefundStep ==
    ASSUME AccountInv, NEW t \in Tabs, NEW r \in Requests, Refund(t, r)
    PROVE  AccountInv'
<1> DEFINE n == snapshot.notes[r]
           note == [n EXCEPT !.refund = "paid"]
<1>1. PICK after : after = [snapshot EXCEPT !.notes[r].refund = "paid"]
    OBVIOUS
<1>2. PICK c : c = [NoCall EXCEPT !.circuit = "refund", !.rid = r, !.note = n.id]
    OBVIOUS
<1>3. Prepare(t, c, after) /\ n.refund = "owed"
    BY <1>1, <1>2 DEF Refund
<1>4. n \in Note /\ note \in Note /\ n.id \in 0 .. MaxOps
    BY SnapshotType DEF Note
<1>5. after = [book |-> snapshot.book, outstanding |-> snapshot.outstanding,
               notes |-> [snapshot.notes EXCEPT ![r] = note], order |-> snapshot.order]
    BY <1>1, SnapshotType DEF Snapshot
<1>6. after \in Snapshot
    BY <1>4, <1>5, SnapshotType DEF Snapshot
<1>7. c = [circuit |-> "refund", rid |-> r, note |-> n.id, book |-> 0, cash |-> FALSE]
    BY <1>2 DEF NoCall
<1>8. c \in Call
    BY <1>4, <1>7, AccountAssumption DEF Call
<1>9. Effect(Candidate(c, after), snapshot)
    BY <1>3, <1>5, <1>7 DEF Effect, Candidate
<1> QED
    BY <1>3, <1>6, <1>8, <1>9, PrepareStep

\* The steps of a tab once an operation is prepared.
LEMMA ProgressStep ==
    ASSUME AccountInv, NEW t \in Tabs, Progress(t)
    PROVE  AccountInv'
<1> USE RecordType DEF AccountInv
<1>1. CASE Refused(t)
    BY <1>1, ForgetStep DEF Refused, LockOK
<1>2. CASE Submitted(t)
    BY <1>2, SignStep
<1>3. CASE Send(t)
    BY <1>3, DeliverStep DEF Send, LockOK
<1>4. CASE Unsent(t) \/ GiveUp(t) \/ RetainPartial(t)
    BY <1>4, LockStep DEF Unsent, GiveUp, RetainPartial, Finished, LockOK, Unlocked, Steps
<1>5. CASE Complete(t)
    BY <1>5, CommitStep
<1>6. CASE RejectFinalized(t)
    BY <1>6, ForgetStep DEF RejectFinalized, Finished
<1> QED
    BY <1>1, <1>2, <1>3, <1>4, <1>5, <1>6 DEF Progress

LEMMA RecoverStep ==
    ASSUME AccountInv, NEW t \in Tabs, Recover(t)
    PROVE  AccountInv'
<1> USE RecordType DEF AccountInv
<1>1. CASE Reconcile(t)
    <2>1. CASE mayDiscard(pending)
        BY <1>1, <2>1, ForgetStep DEF Reconcile, mayDiscard, Free
    <2>2. CASE ~mayDiscard(pending)
        <3>1. lock' = [tab |-> t, step |-> "waiting"] /\ record' = record
            BY <1>1, <2>2 DEF Reconcile
        <3>2. LockOK'
            BY <2>2, <3>1 DEF LockOK, mayDiscard, pending
        <3> QED
            BY <1>1, <3>1, <3>2, LockStep DEF Reconcile, Steps
    <2> QED
        BY <2>1, <2>2
<1>2. CASE Resubmit(t)
    BY <1>2, DeliverStep DEF Resubmit
<1>3. CASE ArchiveExpired(t)
    BY <1>3, ForgetStep DEF ArchiveExpired, provesNotApplied, Free
<1>4. CASE CrashHolding(t)
    BY <1>4, LockStep DEF CrashHolding, LockOK, Unlocked, Steps
<1> QED
    BY <1>1, <1>2, <1>3, <1>4 DEF Recover

LEMMA ExpireStep ==
    ASSUME AccountInv, NEW r \in Requests, Expire(r)
    PROVE  AccountInv'
<1> QED
    BY LedgerStep DEF Expire, Claim, AccountInv, AccountTypeOK

LEMMA AccountNext == AccountInv /\ [Next]_vars => AccountInv'
<1> SUFFICES ASSUME AccountInv, [Next]_vars PROVE AccountInv'
    OBVIOUS
<1>1. CASE UNCHANGED vars
    BY <1>1, LockStep DEF vars, chain, AccountInv, AccountTypeOK, LockOK, pending, IsPending
<1>2. ASSUME NEW t \in Tabs, ClaimRecovery(t)
      PROVE  AccountInv'
    BY <1>2, RepayStep, RecordExpiryStep, CompensateStep, RefundStep DEF ClaimRecovery
<1>3. ASSUME NEW r \in Requests, MerchantPosts(r)
      PROVE  AccountInv'
    <2>1. ledger' \in Ledger /\ ledger'.book = ledger.book /\ ledger'.claims = ledger.claims
        BY <1>3 DEF MerchantPosts, AccountInv, AccountTypeOK, Ledger
    <2> QED
        BY <1>3, <2>1, LedgerStep DEF MerchantPosts, Claim, AccountInv, AccountTypeOK
<1>4. ASSUME NEW r \in Requests, MerchantRedeems(r)
      PROVE  AccountInv'
    <2>1. /\ ledger' \in Ledger /\ ledger'.book = ledger.book
          /\ \A q \in Requests \ {r} : ledger'.claims[q] = ledger.claims[q]
          /\ ledger'.claims[r] = [ledger.claims[r] EXCEPT !.state = "redeemed"]
        <3>1. ledger \in Ledger
            BY DEF AccountInv, AccountTypeOK
        <3> QED
            BY <1>4, <3>1 DEF MerchantRedeems, Ledger, ClaimStates
    <2> QED
        BY <1>4, <2>1, LedgerStep DEF MerchantRedeems, Claim, AccountInv, AccountTypeOK
<1> QED
    BY <1>1, <1>2, <1>3, <1>4, ProgressStep, RecoverStep, PurchaseStep, IncludeStep, LapseStep,
       ExpireStep DEF Next, Network

-----------------------------------------------------------------------------
(***************************************************************************)
(* The properties of the account                                           *)
(***************************************************************************)
LEMMA AccountSafety == Spec => []AccountInv
<1> QED
    BY AccountInit, AccountNext, PTL DEF Spec

\* No payment can be prepared beside a transaction that may still execute
\* (network.ts operation, reconcile, resubmitOriginal; recovery.ts).
THEOREM OnePaymentAtATime == Spec => []NoOrphanTransaction
<1>1. AccountInv => NoOrphanTransaction
    BY DEF AccountInv
<1> QED
    BY <1>1, AccountSafety, PTL

\* The record opens the ledger at every moment, by its snapshot or by the
\* candidate saved before the proof (account.ts, recovery.ts).
THEOREM RecordOpensLedger == Spec => []BackupRestorable
<1>1. AccountInv => BackupRestorable
    BY DEF AccountInv, BackupRestorable, Opens, Applied, PendingOK
<1> QED
    BY <1>1, AccountSafety, PTL

\* An operation archived as expired never executes afterwards
\* (finality.ts, recoverExpiredCompensation).
THEOREM ArchivedStaysUnapplied == Spec => []ArchivedNeverApplied
<1>1. AccountInv => ArchivedNeverApplied
    BY DEF AccountInv, Expired, Undecided, ArchivedNeverApplied
<1> QED
    BY <1>1, AccountSafety, PTL

-----------------------------------------------------------------------------
(***************************************************************************)
(* The purchase. Its steps are those of the two journals and those of the  *)
(* tabs between two waits; each of the two invariants is kept by the steps *)
(* of the other part, which leave its state alone.                         *)
(***************************************************************************)

\* A tab between two waits works for a request; evidence it captured still holds.
ClientOK ==
    /\ client \in [Tabs -> Client]
    /\ \A t \in Tabs :
          /\ client[t].pc # "idle" => Rid(t) \in Requests
          /\ client[t].settled => Rid(t) \in Requests /\ Claim(Rid(t)).state = "settled"

\* The snapshot that opens the ledger.
Present == IF Applied THEN pending.after ELSE snapshot

\* Every claim on the ledger is known to the record.
ClaimsKnown ==
    \A r \in Requests :
        /\ Claim(r).id = 0 <=> Claim(r).state = "none"
        /\ Claim(r).id # 0 => Present.notes[r].id = Claim(r).id

Attempt(o) == <<o.state, o.rid, o.quoted>>

\* A pending operation leaves the attempt alone, and a draw belongs to it.
OrderOK ==
    /\ order.rid \in Requests <=> order.state # "none"
    /\ IsPending => Attempt(pending.after.order) = Attempt(order)
    /\ IsPending /\ pending.call.circuit = "draw" =>
          order.state = "open" /\ order.rid = pending.call.rid /\ order.quoted

\* What the ledger still charges is the claim of the quoted attempt.
ChargesAttempt ==
    \A r \in Charged : order.rid = r /\ order.state # "cancelled" /\ order.quoted

\* A finalized redemption shows on the ledger.
PaidOut ==
    \A r \in Requests : wire[<<"redeemDraw", r>>] = "succeeded" => Claim(r).state = "redeemed"

ServiceInv ==
    /\ AccountInv /\ SupplierInv /\ ClientOK /\ ClaimsKnown /\ OrderOK
    /\ ChargesAttempt /\ PaidOut /\ DeliveredIsPaid

-----------------------------------------------------------------------------
LEMMA ServiceInit == InitService => ServiceInv
<1> SUFFICES ASSUME InitService PROVE ServiceInv
    OBVIOUS
<1>1. AccountInv /\ SupplierInv
    BY AccountInit, SupplierInit DEF InitService
<1>2. /\ snapshot = Fresh /\ pending = NoPending /\ order = NoOrder
      /\ client = [t \in Tabs |-> Idle]
      /\ \A r \in Requests : Claim(r) = [id |-> 0, state |-> "none"]
    BY DEF InitService, Init, snapshot, pending, order, Fresh, Claim
<1>3. ClientOK
    BY <1>2 DEF ClientOK, Client, Idle, Rid
<1>4. ~IsPending /\ order.state = "none" /\ order.rid = 0
    BY <1>2 DEF NoPending, IsPending, NoOrder
<1>5. ClaimsKnown /\ OrderOK /\ Charged = {}
    <2>1. 0 \notin Requests
        BY RequestsAssumption
    <2>2. OrderOK
        BY <1>4, <2>1 DEF OrderOK
    <2> QED
        BY <1>2, <2>2 DEF ClaimsKnown, Charged
<1>6. PaidOut /\ DeliveredIsPaid
    BY <1>4 DEF PaidOut, DeliveredIsPaid, InitService, InitSupplier, Operations, Kinds
<1> QED
    BY <1>1, <1>3, <1>5, <1>6 DEF ServiceInv, ChargesAttempt

\* Nothing of the account changes.
LEMMA SameAccount ==
    ASSUME AccountInv, UNCHANGED vars
    PROVE  AccountInv'
<1> QED
    BY AccountNext

\* While nothing is pending the snapshot opens the ledger.
LEMMA SnapshotOpens ==
    ASSUME AccountInv, ~IsPending
    PROVE  ~pending.signed /\ ~Applied /\ Matches(snapshot) /\ Present = snapshot
<1> QED
    BY DEF AccountInv, PendingOK, Opens, Applied, Present

\* An edit of the saved order alone.
LEMMA OrderEdit ==
    ASSUME AccountInv, NEW o \in Order, EditOrder(o)
    PROVE  /\ AccountInv' /\ order' = o /\ snapshot'.notes = snapshot.notes
           /\ ~IsPending /\ ~IsPending' /\ ~Applied /\ ~Applied' /\ ledger' = ledger
<1>1. PICK after : after = [snapshot EXCEPT !.order = o]
    OBVIOUS
<1>2. Edit(after) /\ ~IsPending
    BY <1>1 DEF EditOrder, Edit
<1>3. /\ after \in Snapshot /\ after.order = o /\ after.notes = snapshot.notes
      /\ after.book = snapshot.book
    BY <1>1, SnapshotType DEF Snapshot
<1>4. Matches(after)
    BY <1>2, <1>3, SnapshotOpens DEF Matches
<1>5. AccountInv'
    BY <1>2, <1>3, <1>4, EditStep
<1>6. snapshot' = after /\ pending' = NoPending /\ ledger' = ledger
    BY <1>2 DEF Edit, snapshot, pending, chain
<1>7. ~IsPending' /\ ~Applied /\ ~Applied'
    BY <1>2, <1>6, SnapshotOpens, ConstantTypes DEF IsPending, Applied
<1> QED
    BY <1>2, <1>3, <1>5, <1>6, <1>7 DEF order

-----------------------------------------------------------------------------
\* A tab takes its next step.
LEMMA ClientMoves ==
    ASSUME ClientOK, NEW t \in Tabs, NEW c \in Client, client' = [client EXCEPT ![t] = c],
           c.pc # "idle" => c.rid \in Requests,
           c.settled => c.rid \in Requests /\ Claim(c.rid).state = "settled",
           ledger' = ledger
    PROVE  ClientOK'
<1>1. client' \in [Tabs -> Client] /\ client'[t] = c
    BY DEF ClientOK
<1>2. \A u \in Tabs : u # t => client'[u] = client[u]
    BY DEF ClientOK
<1> QED
    BY <1>1, <1>2 DEF ClientOK, Rid, Claim

LEMMA ClientStays ==
    ASSUME ClientOK, UNCHANGED <<client, ledger>>
    PROVE  ClientOK'
<1> QED
    BY DEF ClientOK, Rid, Claim

LEMMA ClientStops ==
    ASSUME ClientOK, NEW t \in Tabs, Stop(t), ledger' = ledger
    PROVE  ClientOK'
<1>1. Idle \in Client /\ Idle.pc = "idle" /\ ~Idle.settled
    BY DEF Idle, Client
<1> QED
    BY <1>1, ClientMoves DEF Stop

LEMMA ClientGoes ==
    ASSUME ClientOK, NEW t \in Tabs, client[t].pc # "idle",
           NEW pc \in {"quote", "buy", "link", "claim", "payout"}, Goto(t, pc), ledger' = ledger
    PROVE  ClientOK'
<1>1. PICK c : c = [client[t] EXCEPT !.pc = pc]
    OBVIOUS
<1>2. client[t] \in Client /\ client[t].rid \in Requests
    BY DEF ClientOK, Rid
<1>3. c \in Client /\ c.rid = client[t].rid /\ c.settled = client[t].settled
    BY <1>1, <1>2 DEF Client
<1>4. client' = [client EXCEPT ![t] = c]
    BY <1>1 DEF Goto
<1>5. c.settled => Claim(c.rid).state = "settled"
    BY <1>3 DEF ClientOK, Rid
<1> QED
    BY <1>2, <1>3, <1>4, <1>5, ClientMoves

LEMMA ClientAsks ==
    ASSUME ClientOK, NEW t \in Tabs, NEW r \in Requests,
           client' = [client EXCEPT ![t] = [Idle EXCEPT !.pc = "ask", !.rid = r]],
           ledger' = ledger
    PROVE  ClientOK'
<1>1. PICK c : c = [Idle EXCEPT !.pc = "ask", !.rid = r]
    OBVIOUS
<1>2. c = [pc |-> "ask", rid |-> r, settled |-> FALSE, known |-> FALSE]
    BY <1>1 DEF Idle
<1>3. c \in Client /\ c.rid = r /\ ~c.settled
    BY <1>2 DEF Client
<1>4. client' = [client EXCEPT ![t] = c]
    BY <1>1
<1> QED
    BY <1>3, <1>4, ClientMoves

-----------------------------------------------------------------------------
\* The supplier's server and its network see no other steps than their own.
LEMMA ServiceIsSupplier ==
    ASSUME ClientOK, [NextService]_serviceVars
    PROVE  [NextSupplier]_supplierVars
<1>1. CASE UNCHANGED serviceVars
    BY <1>1 DEF serviceVars, supplierVars
<1>2. ASSUME NEW t \in Tabs, TabStep(t)
      PROVE  [NextSupplier]_supplierVars
    <2>1. CASE AskQuote(t) \/ SubmitClaim(t)
        <3>1. PICK kind \in Kinds : Admit(kind, Rid(t))
            BY <2>1 DEF AskQuote, SubmitClaim, Kinds
        <3>2. Rid(t) \in Requests
            BY <2>1 DEF AskQuote, SubmitClaim, At, ClientOK
        <3> QED
            BY <3>1, <3>2 DEF NextSupplier
    <2>2. CASE UNCHANGED supplierVars
        BY <2>2
    <2> QED
        BY <1>2, <2>1, <2>2 DEF TabStep, SaveOrder, Continue, SaveQuote, Buy, BuyCompleted,
           LinkClaim, SaveDelivery, GatherEvidence, CancelService, RequoteService, Abandon,
           AccountStep
<1>3. ASSUME NEW k \in Operations, SupplierExecutes(k) \/ SupplierMiscarries(k)
      PROVE  [NextSupplier]_supplierVars
    BY <1>3 DEF SupplierExecutes, SupplierMiscarries, NextSupplier
<1>4. ASSUME NEW i \in Ops, (Include(i) \/ Lapse(i)) /\ UNCHANGED <<client, supplierVars>>
      PROVE  [NextSupplier]_supplierVars
    BY <1>4
<1>5. ASSUME NEW r \in Requests, ExpireQuote(r)
      PROVE  [NextSupplier]_supplierVars
    BY <1>5 DEF ExpireQuote
<1> QED
    BY <1>1, <1>2, <1>3, <1>4, <1>5 DEF NextService, NextSupplier

\* Only a finalized redemption pays out, and a delivered order stays one.
LEMMA SupplierKeeps ==
    ASSUME SupplierInv,
           \/ SupplierStep
           \/ \E kind \in Kinds, r \in Requests : Admit(kind, r)
           \/ \E k \in Operations, f \in {"failed", "lost"} : Finalize(k, f)
           \/ UNCHANGED supplierVars
    PROVE  \A r \in Requests :
              /\ wire'[<<"redeemDraw", r>>] = "succeeded" => wire[<<"redeemDraw", r>>] = "succeeded"
              /\ orders[r] = "delivered" => orders'[r] = "delivered"
<1> SUFFICES ASSUME NEW r \in Requests
             PROVE  /\ wire'[<<"redeemDraw", r>>] = "succeeded"
                          => wire[<<"redeemDraw", r>>] = "succeeded"
                    /\ orders[r] = "delivered" => orders'[r] = "delivered"
    OBVIOUS
<1> DEFINE k == <<"redeemDraw", r>>
<1>1. /\ k \in Operations /\ wire \in [Operations -> WireFates]
      /\ orders \in [Requests -> Statuses] /\ EntryOK
    BY DEF Operations, Kinds, SupplierInv, SupplierTypeOK
<1> HIDE DEF k
<1>2. \A l, f : f # "succeeded" /\ wire' = [wire EXCEPT ![l] = f] =>
              (wire'[k] = "succeeded" => wire[k] = "succeeded")
    BY <1>1
<1>3. wire'[k] = "succeeded" => wire[k] = "succeeded"
    BY <1>2 DEF SupplierStep, CreateOrder, Begin, SaveBytes, SaveRecord, MarkAttempted, Post,
       ReconcileReceipt, NoReceipt, ClearUnsigned, DeliverService, Answer, Throw, CrashServer,
       Admit, Finalize, supplierVars
<1>4. \A q, s : /\ orders[q] # "delivered" \/ s = "delivered"
                /\ orders' = [orders EXCEPT ![q] = s]
              => (orders[r] = "delivered" => orders'[r] = "delivered")
    BY <1>1
<1>5. orders[r] = "delivered" => orders'[r] = "delivered"
    <2>1. CASE ReconcileReceipt
        <3>1. orders[journal.op[2]] = Before(journal.op[1])
            BY <1>1, <2>1 DEF ReconcileReceipt, Observing, EntryOK
        <3>2. orders[journal.op[2]] # "delivered"
            BY <3>1 DEF Before
        <3> QED
            BY <1>4, <2>1, <3>2 DEF ReconcileReceipt
    <2>2. CASE CreateOrder \/ DeliverService
        BY <1>4, <2>2 DEF CreateOrder, DeliverService
    <2> QED
        BY <2>1, <2>2 DEF SupplierStep, Begin, SaveBytes, SaveRecord, MarkAttempted, Post,
           NoReceipt, ClearUnsigned, Answer, Throw, CrashServer, Admit, Finalize, supplierVars
<1> QED
    BY <1>3, <1>5 DEF k

-----------------------------------------------------------------------------
\* No redemption is finalized and no delivered order is touched.
SupplierQuiet ==
    \A r \in Requests :
        /\ wire'[<<"redeemDraw", r>>] = "succeeded" => wire[<<"redeemDraw", r>>] = "succeeded"
        /\ orders[r] = "delivered" => orders'[r] = "delivered"

\* The ledger, the claims the record knows and the attempt stay, and an
\* operation that begins leaves them alone.
AttemptStays ==
    /\ ledger' = ledger
    /\ \A r \in Requests : (Present.notes[r].id)' = Present.notes[r].id
    /\ Attempt(order)' = Attempt(order)
    /\ IsPending' =>
          \/ /\ pending'.call = pending.call /\ pending'.id = pending.id
             /\ pending'.after = pending.after
          \/ /\ Attempt(pending.after.order)' = Attempt(order)
             /\ pending'.call.circuit = "draw" =>
                   order.state = "open" /\ order.rid = pending'.call.rid /\ order.quoted

\* A step that leaves the ledger alone: the record knows the same claims, and
\* whatever is still charged belongs to the attempt as it is now.
LEMMA SameLedger ==
    ASSUME ServiceInv, AccountInv', SupplierInv', ClientOK', OrderOK', ledger' = ledger,
           \A r \in Requests : (Present.notes[r].id)' = Present.notes[r].id,
           SupplierQuiet, ChargesAttempt',
           order'.state = "delivered" =>
              \/ order.state = "delivered" /\ order'.rid = order.rid
              \/ /\ order'.rid \in Requests /\ Claim(order'.rid).state = "redeemed"
                 /\ orders[order'.rid] = "delivered"
    PROVE  ServiceInv'
<1>1. \A r \in Requests : Claim(r)' = Claim(r)
    BY DEF Claim
<1>2. ClaimsKnown'
    BY <1>1 DEF ServiceInv, ClaimsKnown
<1>3. PaidOut'
    BY <1>1 DEF ServiceInv, PaidOut, SupplierQuiet
<1>4. \A r \in Requests : orders'[r] = "delivered" => Claim(r)'.state = "redeemed"
    BY <1>3 DEF SupplierInv, StatusFollowsReceipts, PaidOut
<1>5. order'.state = "delivered" =>
          ledger'.claims[order'.rid].state = "redeemed" /\ orders'[order'.rid] = "delivered"
    BY DEF ServiceInv, DeliveredIsPaid, OrderOK, Claim, SupplierQuiet
<1>6. DeliveredIsPaid'
    BY <1>4, <1>5 DEF DeliveredIsPaid, Claim
<1> QED
    BY <1>2, <1>3, <1>6 DEF ServiceInv

\* ... and the attempt as well.
LEMMA SameAttempt ==
    ASSUME ServiceInv, AccountInv', SupplierInv', ClientOK', AttemptStays, SupplierQuiet
    PROVE  ServiceInv'
<1>1. order'.state = order.state /\ order'.rid = order.rid /\ order'.quoted = order.quoted
    BY DEF Attempt, AttemptStays
<1>2. OrderOK'
    BY <1>1 DEF ServiceInv, OrderOK, IsPending, Attempt, AttemptStays
<1>3. Charged' = Charged
    BY DEF Charged, Claim, AttemptStays
<1>4. ChargesAttempt'
    BY <1>1, <1>3 DEF ServiceInv, ChargesAttempt
<1> QED
    BY <1>1, <1>2, <1>4, SameLedger DEF AttemptStays

\* The record stays, and its operation does not succeed meanwhile.
LEMMA KeepRecord ==
    ASSUME UNCHANGED <<record, ledger>>,
           fate'[pending.id] = "succeeded" <=> fate[pending.id] = "succeeded"
    PROVE  AttemptStays
<1>1. snapshot' = snapshot /\ pending' = pending /\ order' = order
    BY DEF snapshot, pending, order
<1> QED
    BY <1>1 DEF AttemptStays, Present, Applied, Attempt

\* The pending operation is dropped; it was not applied.
LEMMA ForgetRecord ==
    ASSUME AccountInv, record' = [record EXCEPT !.pending = NoPending], ledger' = ledger,
           ~Applied
    PROVE  AttemptStays
<1>1. snapshot' = snapshot /\ pending' = NoPending /\ order' = order
    BY RecordType DEF AccountInv, snapshot, pending, order
<1>2. ~Applied' /\ ~IsPending'
    BY <1>1, ConstantTypes DEF Applied, IsPending
<1> QED
    BY <1>1, <1>2 DEF AttemptStays, Present, Attempt

\* The operation that succeeded is committed.
LEMMA CommitRecord ==
    ASSUME ServiceInv, NEW t, Complete(t)
    PROVE  AttemptStays
<1>1. /\ snapshot' = pending.after /\ pending' = NoPending /\ order' = pending.after.order
      /\ ledger' = ledger
    BY DEF Complete, Finished, snapshot, pending, order, chain
<1>2. Applied /\ IsPending
    BY DEF Complete, Finished, Applied, ServiceInv, AccountInv, LockOK, PendingOK
<1>3. ~Applied' /\ ~IsPending'
    BY <1>1, ConstantTypes DEF Applied, IsPending
<1> QED
    BY <1>1, <1>2, <1>3 DEF AttemptStays, Present, Attempt, ServiceInv, OrderOK

\* The operation is signed.
LEMMA SignRecord ==
    ASSUME AccountInv, NEW t, Submitted(t)
    PROVE  AttemptStays
<1>1. /\ snapshot' = snapshot /\ order' = order /\ ledger' = ledger
      /\ pending' = [pending EXCEPT !.signed = TRUE]
    BY RecordType DEF AccountInv, Submitted, snapshot, pending, order
<1>2. /\ pending'.id = pending.id /\ pending'.call = pending.call
      /\ pending'.after = pending.after
    BY <1>1, RecordType DEF AccountInv
<1>3. ~pending.signed /\ pending.id \in Ops /\ fate \in [Ops -> Fates]
    BY RecordType DEF Submitted, AccountInv, LockOK, AccountTypeOK
<1>4. fate'[pending.id] = "signed"
    BY <1>3 DEF Submitted
<1>5. ~Applied /\ ~Applied'
    BY <1>2, <1>3, <1>4 DEF Applied
<1> QED
    BY <1>1, <1>2, <1>5 DEF AttemptStays, Present, Attempt

\* An operation is prepared; a draw belongs to the attempt.
LEMMA PrepareRecord ==
    ASSUME AccountInv, NEW t, NEW c, NEW after, Prepare(t, c, after),
           Attempt(after.order) = Attempt(order),
           c.circuit = "draw" => order.state = "open" /\ order.rid = c.rid /\ order.quoted
    PROVE  AttemptStays
<1>1. /\ snapshot' = snapshot /\ order' = order /\ ledger' = ledger /\ ~IsPending
      /\ pending' = Candidate(c, after)
    BY RecordType DEF AccountInv, Prepare, snapshot, pending, order, chain
<1>2. pending'.call = c /\ pending'.after = after /\ ~pending'.signed
    BY <1>1 DEF Candidate
<1>3. ~Applied /\ ~Applied'
    BY <1>1, <1>2, SnapshotOpens DEF Applied
<1> QED
    BY <1>1, <1>2, <1>3 DEF AttemptStays, Present, Attempt

-----------------------------------------------------------------------------
\* Claim recovery and repayment prepare operations that are no draws.
LEMMA ClaimRecoveryKeeps ==
    ASSUME AccountInv, NEW t \in Tabs, ClaimRecovery(t)
    PROVE  AccountInv' /\ AttemptStays
<1>1. AccountInv'
    BY RepayStep, RecordExpiryStep, CompensateStep, RefundStep DEF ClaimRecovery
<1>2. ASSUME NEW c, NEW after, Prepare(t, c, after), c.circuit # "draw",
             after.order = snapshot.order
      PROVE  AttemptStays
    BY <1>2, PrepareRecord DEF order
<1>3. CASE Repay(t)
    <2>1. PICK after : after = [snapshot EXCEPT !.outstanding = @ - 1, !.book = NextOp]
        OBVIOUS
    <2>2. PICK c : c = [NoCall EXCEPT !.circuit = "repay", !.book = snapshot.book]
        OBVIOUS
    <2>3. Prepare(t, c, after)
        BY <1>3, <2>1, <2>2 DEF Repay
    <2>4. c.circuit = "repay" /\ after.order = snapshot.order
        BY <2>1, <2>2, SnapshotType DEF NoCall, Snapshot
    <2> QED
        BY <1>1, <1>2, <2>3, <2>4
<1>4. ASSUME NEW r \in Requests, RecordExpiry(t, r)
      PROVE  AttemptStays
    <2>1. PICK after : after = [snapshot EXCEPT !.notes[r].expiryRecorded = TRUE]
        OBVIOUS
    <2>2. PICK c : c = [NoCall EXCEPT !.circuit = "expire", !.rid = r,
                                      !.note = snapshot.notes[r].id]
        OBVIOUS
    <2>3. Prepare(t, c, after)
        BY <1>4, <2>1, <2>2 DEF RecordExpiry
    <2>4. c.circuit = "expire" /\ after.order = snapshot.order
        BY <2>1, <2>2, SnapshotType DEF NoCall, Snapshot
    <2> QED
        BY <1>2, <2>3, <2>4
<1>5. ASSUME NEW r \in Requests, Compensate(t, r)
      PROVE  AttemptStays
    <2> DEFINE credit == IF snapshot.outstanding < 1 THEN snapshot.outstanding ELSE 1
    <2>1. PICK after : after = [snapshot EXCEPT !.outstanding = @ - credit, !.book = NextOp,
                                                !.notes[r].refund = refundAfter(credit)]
        OBVIOUS
    <2>2. PICK c : c = [circuit |-> "compensate", rid |-> r, note |-> snapshot.notes[r].id,
                        book |-> snapshot.book, cash |-> credit = 0]
        OBVIOUS
    <2>3. Prepare(t, c, after)
        BY <1>5, <2>1, <2>2 DEF Compensate
    <2>4. c.circuit = "compensate" /\ after.order = snapshot.order
        BY <2>1, <2>2, SnapshotType DEF Snapshot
    <2> QED
        BY <1>2, <2>3, <2>4
<1>6. ASSUME NEW r \in Requests, Refund(t, r)
      PROVE  AttemptStays
    <2>1. PICK after : after = [snapshot EXCEPT !.notes[r].refund = "paid"]
        OBVIOUS
    <2>2. PICK c : c = [NoCall EXCEPT !.circuit = "refund", !.rid = r,
                                      !.note = snapshot.notes[r].id]
        OBVIOUS
    <2>3. Prepare(t, c, after)
        BY <1>6, <2>1, <2>2 DEF Refund
    <2>4. c.circuit = "refund" /\ after.order = snapshot.order
        BY <2>1, <2>2, SnapshotType DEF NoCall, Snapshot
    <2> QED
        BY <1>2, <2>3, <2>4
<1> QED
    BY <1>1, <1>3, <1>4, <1>5, <1>6 DEF ClaimRecovery

\* What a tab does for the pending operation leaves the attempt alone.
LEMMA SectionKeeps ==
    ASSUME AccountInv, NEW t \in Tabs,
           \/ Submitted(t) \/ Send(t) \/ Refused(t) \/ Unsent(t) \/ RejectFinalized(t)
           \/ RetainPartial(t) \/ GiveUp(t) \/ CrashHolding(t)
           \/ Reconcile(t) \/ Resubmit(t) \/ ArchiveExpired(t)
    PROVE  AccountInv' /\ AttemptStays
<1>1. AccountInv'
    BY ProgressStep, RecoverStep DEF Progress, Recover
<1>2. CASE Submitted(t)
    BY <1>1, <1>2, SignRecord
<1>3. CASE Send(t) \/ Resubmit(t)
    <2>1. /\ record' = record /\ ledger' = ledger
          /\ fate' = [fate EXCEPT ![pending.id] = IF @ = "signed" THEN "pooled" ELSE @]
        BY <1>3 DEF Send, Resubmit, Deliver
    <2>2. fate'[pending.id] = "succeeded" <=> fate[pending.id] = "succeeded"
        BY <2>1 DEF AccountInv, AccountTypeOK
    <2> QED
        BY <1>1, <2>1, <2>2, KeepRecord
<1>4. CASE Unsent(t) \/ GiveUp(t) \/ RetainPartial(t) \/ CrashHolding(t)
    BY <1>1, <1>4, KeepRecord DEF Unsent, GiveUp, RetainPartial, Finished, CrashHolding, chain
<1>5. CASE Refused(t) \/ RejectFinalized(t)
    <2>1. ~Applied
        BY <1>5 DEF Refused, RejectFinalized, Finished, Applied, AccountInv, LockOK
    <2> QED
        BY <1>1, <1>5, <2>1, ForgetRecord DEF Refused, RejectFinalized, Finished, chain
<1>6. CASE Reconcile(t)
    <2>1. CASE mayDiscard(pending)
        <3>1. ~Applied
            BY <2>1 DEF mayDiscard, Applied
        <3> QED
            BY <1>1, <1>6, <2>1, <3>1, ForgetRecord DEF Reconcile, chain
    <2>2. CASE ~mayDiscard(pending)
        BY <1>1, <1>6, <2>2, KeepRecord DEF Reconcile, chain
    <2> QED
        BY <2>1, <2>2
<1>7. CASE ArchiveExpired(t)
    <2>1. ~Applied
        BY <1>7 DEF ArchiveExpired, provesNotApplied, Applied, AccountInv, Expired, Undecided
    <2> QED
        BY <1>1, <1>7, <2>1, ForgetRecord DEF ArchiveExpired, chain
<1> QED
    BY <1>2, <1>3, <1>4, <1>5, <1>6, <1>7

LEMMA AccountSections ==
    ASSUME ServiceInv, SupplierInv', NEW t \in Tabs, AccountStep(t)
    PROVE  ServiceInv'
<1>1. AccountInv' /\ AttemptStays /\ UNCHANGED supplierVars
    BY SectionKeeps, ClaimRecoveryKeeps DEF AccountStep, ServiceInv
<1>2. SupplierQuiet /\ ledger' = ledger
    BY <1>1 DEF SupplierQuiet, supplierVars, AttemptStays
<1>3. client' = client \/ Stop(t)
    <2>1. client \in [Tabs -> Client]
        BY DEF ServiceInv, ClientOK
    <2>2. client = [client EXCEPT ![t] = client[t]]
        BY <2>1
    <2> QED
        BY <2>2 DEF AccountStep, Stop
<1>4. ClientOK'
    BY <1>2, <1>3, ClientStays, ClientStops DEF ServiceInv
<1> QED
    BY <1>1, <1>2, <1>4, SameAttempt

\* The draw of a purchase, or another operation, is committed.
LEMMA BuyCompletedStep ==
    ASSUME ServiceInv, SupplierInv', NEW t \in Tabs, BuyCompleted(t)
    PROVE  ServiceInv'
<1>1. Complete(t) /\ UNCHANGED supplierVars
      /\ (Stop(t) \/ (client[t].pc # "idle" /\ Goto(t, "link")))
    BY DEF BuyCompleted, At
<1>2. AccountInv' /\ AttemptStays
    BY <1>1, CommitStep, CommitRecord DEF ServiceInv
<1>3. SupplierQuiet /\ ledger' = ledger
    BY <1>1, <1>2 DEF SupplierQuiet, supplierVars, AttemptStays
<1>4. ClientOK'
    BY <1>1, <1>3, ClientStops, ClientGoes DEF ServiceInv
<1> QED
    BY <1>2, <1>3, <1>4, SameAttempt

\* A purchase draws for the attempt it is bound to, or goes on with its claim.
LEMMA BuyStep ==
    ASSUME ServiceInv, SupplierInv', NEW t \in Tabs, Buy(t)
    PROVE  ServiceInv'
<1>1. /\ client[t].pc # "idle" /\ Rid(t) \in Requests /\ UNCHANGED supplierVars
      /\ order.state = "open" /\ order.rid = Rid(t) /\ order.quoted
    BY DEF Buy, At, Active, ServiceInv, ClientOK
<1>2. SupplierQuiet
    BY <1>1 DEF SupplierQuiet, supplierVars
<1>3. CASE Goto(t, "link") /\ UNCHANGED vars
    <2>1. AccountInv' /\ AttemptStays /\ ledger' = ledger
        BY <1>3, SameAccount, KeepRecord DEF ServiceInv, vars
    <2>2. ClientOK'
        BY <1>1, <1>3, <2>1, ClientGoes DEF ServiceInv
    <2> QED
        BY <1>2, <2>1, <2>2, SameAttempt
<1>4. CASE /\ Draw(t, Rid(t), [Drawn(snapshot, Rid(t)) EXCEPT !.order.note = NextOp])
           /\ UNCHANGED client
    <2>1. PICK o : o = [order EXCEPT !.note = NextOp]
        OBVIOUS
    <2>2. PICK drawn : drawn = Drawn(snapshot, Rid(t))
        OBVIOUS
    <2>3. drawn.order = order
        BY <2>2, SnapshotType DEF Drawn, Snapshot, order, ServiceInv
    <2>4. PICK after : after = [drawn EXCEPT !.order.note = NextOp]
        OBVIOUS
    <2>5. after = [drawn EXCEPT !.order = o]
        BY <2>1, <2>3, <2>4
    <2>6. Draw(t, Rid(t), [Drawn(snapshot, Rid(t)) EXCEPT !.order = o])
        BY <1>4, <2>2, <2>4, <2>5
    <2>7. NextOp \in 0 .. MaxOps /\ order \in Order
        BY <1>4, AccountAssumption, SnapshotType DEF Draw, Prepare, Ops, order, ServiceInv
    <2>8. o \in Order /\ o.state = order.state /\ o.rid = order.rid /\ o.quoted = order.quoted
        BY <2>1, <2>7 DEF Order
    <2>9. AccountInv'
        BY <1>1, <2>6, <2>8, DrawStep DEF ServiceInv
    <2>10. PICK c : c = [NoCall EXCEPT !.circuit = "draw", !.rid = Rid(t), !.book = snapshot.book]
        OBVIOUS
    <2>11. c.rid = Rid(t)
        BY <2>10 DEF NoCall
    <2>12. Prepare(t, c, after)
        BY <1>4, <2>2, <2>4, <2>10 DEF Draw
    <2>13. after.order = o
        BY <2>2, <2>5, SnapshotType DEF Drawn, Snapshot, ServiceInv
    <2>14. AttemptStays
        BY <1>1, <2>8, <2>11, <2>12, <2>13, PrepareRecord DEF Attempt, ServiceInv
    <2>15. ClientOK'
        BY <1>4, <2>14, ClientStays DEF AttemptStays, ServiceInv
    <2> QED
        BY <1>2, <2>9, <2>14, <2>15, SameAttempt
<1> QED
    BY <1>3, <1>4 DEF Buy

-----------------------------------------------------------------------------
\* A tab reads, asks or gives up: the account stays as it is.
LEMMA WaitingStep ==
    ASSUME ServiceInv, SupplierInv', NEW t \in Tabs,
           Continue(t) \/ AskQuote(t) \/ SubmitClaim(t) \/ GatherEvidence(t) \/ Abandon(t)
    PROVE  ServiceInv'
<1>1. UNCHANGED vars
    BY DEF Continue, AskQuote, SubmitClaim, GatherEvidence, Abandon
<1>2. AccountInv' /\ AttemptStays /\ ledger' = ledger
    BY <1>1, SameAccount, KeepRecord DEF ServiceInv, vars
<1>3. CASE Continue(t)
    <2>1. order.rid \in Requests /\ SupplierQuiet
        BY <1>3 DEF Continue, ServiceInv, OrderOK, SupplierQuiet, supplierVars
    <2>2. ClientOK'
        BY <1>2, <1>3, <2>1, ClientAsks DEF Continue, ServiceInv
    <2> QED
        BY <1>2, <2>1, <2>2, SameAttempt
<1>4. CASE AskQuote(t) \/ SubmitClaim(t)
    <2>1. /\ client[t].pc # "idle"
          /\ Goto(t, "quote") \/ Goto(t, "payout") \/ Stop(t)
        BY <1>4 DEF AskQuote, SubmitClaim, At
    <2>2. \E kind \in Kinds, r \in Requests : Admit(kind, r)
        BY <1>4, <2>1 DEF AskQuote, SubmitClaim, Kinds, ServiceInv, ClientOK
    <2>3. SupplierQuiet
        BY <2>2, SupplierKeeps DEF SupplierQuiet, ServiceInv
    <2>4. ClientOK'
        BY <1>2, <2>1, ClientGoes, ClientStops DEF ServiceInv
    <2> QED
        BY <1>2, <2>3, <2>4, SameAttempt
<1>5. CASE GatherEvidence(t)
    <2>1. SupplierQuiet
        BY <1>5 DEF GatherEvidence, SupplierQuiet, supplierVars
    <2>2. PICK known \in BOOLEAN :
              client' = [client EXCEPT ![t] =
                [pc |-> "replace", rid |-> order.rid, known |-> known,
                 settled |-> OrderNote(known) # 0 /\ Settled(order.rid)]]
        BY <1>5 DEF GatherEvidence
    <2>3. PICK settled \in BOOLEAN : settled <=> (OrderNote(known) # 0 /\ Settled(order.rid))
        OBVIOUS
    <2>4. PICK c : c = [pc |-> "replace", rid |-> order.rid, known |-> known,
                        settled |-> settled]
        OBVIOUS
    <2>5. client' = [client EXCEPT ![t] = c]
        BY <2>2, <2>3, <2>4
    <2>6. order.rid \in Requests
        BY <1>5 DEF GatherEvidence, ServiceInv, OrderOK
    <2>7. c \in Client /\ c.rid = order.rid /\ c.settled = settled
        BY <2>4, <2>6 DEF Client
    <2>8. c.settled => Claim(c.rid).state = "settled"
        BY <2>3, <2>7 DEF Settled
    <2>9. ClientOK'
        BY <1>2, <2>5, <2>6, <2>7, <2>8, ClientMoves DEF ServiceInv
    <2> QED
        BY <1>2, <2>1, <2>9, SameAttempt
<1>6. CASE Abandon(t)
    <2>1. SupplierQuiet
        BY <1>6 DEF Abandon, SupplierQuiet, supplierVars
    <2>2. ClientOK'
        BY <1>2, <1>6, ClientStops DEF Abandon, ServiceInv
    <2> QED
        BY <1>2, <2>1, <2>2, SameAttempt
<1> QED
    BY <1>3, <1>4, <1>5, <1>6

\* An edit of the order, as long as what is charged remains its claim.
LEMMA OrderEdited ==
    ASSUME ServiceInv, SupplierInv', ClientOK', NEW o \in Order, EditOrder(o),
           UNCHANGED supplierVars, o.rid \in Requests, o.state \in {"open", "cancelled"},
           \A r \in Charged : o.rid = r /\ o.state # "cancelled" /\ o.quoted
    PROVE  ServiceInv'
<1>1. /\ AccountInv' /\ order' = o /\ snapshot'.notes = snapshot.notes
      /\ ~IsPending /\ ~IsPending' /\ ~Applied /\ ~Applied' /\ ledger' = ledger
    BY OrderEdit DEF ServiceInv
<1>2. OrderOK'
    BY <1>1 DEF OrderOK
<1>3. \A r \in Requests : (Present.notes[r].id)' = Present.notes[r].id
    BY <1>1 DEF Present
<1>4. SupplierQuiet
    BY DEF SupplierQuiet, supplierVars
<1>5. ChargesAttempt'
    <2>1. Charged' = Charged
        BY <1>1 DEF Charged, Claim
    <2> QED
        BY <1>1, <2>1 DEF ChargesAttempt
<1> QED
    BY <1>1, <1>2, <1>3, <1>4, <1>5, SameLedger

\* Evidence that allows a replacement: nothing of the attempt is charged.
LEMMA NothingCharged ==
    ASSUME ServiceInv, NEW t \in Tabs, MayReplace(t), ~IsPending
    PROVE  Charged = {}
<1> SUFFICES ASSUME NEW r \in Charged PROVE FALSE
    OBVIOUS
<1>1. /\ r \in Requests /\ Claim(r).id # 0 /\ Claim(r).state # "settled"
      /\ order.rid = r /\ order.quoted
    BY DEF Charged, ServiceInv, ChargesAttempt
<1>2. snapshot.notes[r].id # 0
    BY <1>1, SnapshotOpens DEF ServiceInv, ClaimsKnown
<1>3. \A known : OrderNote(known) # 0
    BY <1>1, <1>2, RequestsAssumption DEF OrderNote
<1>4. client[t].settled /\ Rid(t) = r
    BY <1>1, <1>3 DEF MayReplace, Replaceable, Active
<1> QED
    BY <1>1, <1>4 DEF ServiceInv, ClientOK

\* The request is saved before the supplier is asked.
LEMMA SaveOrderStep ==
    ASSUME ServiceInv, SupplierInv', NEW t \in Tabs, SaveOrder(t)
    PROVE  ServiceInv'
<1>1. PICK r \in Requests :
          /\ EditOrder([NoOrder EXCEPT !.state = "open", !.rid = r])
          /\ client' = [client EXCEPT ![t] = [Idle EXCEPT !.pc = "ask", !.rid = r]]
    BY DEF SaveOrder
<1>2. order.state = "none" /\ UNCHANGED supplierVars
    BY DEF SaveOrder
<1>3. PICK o : o = [NoOrder EXCEPT !.state = "open", !.rid = r]
    OBVIOUS
<1>4. o = [state |-> "open", rid |-> r, quoted |-> FALSE, note |-> 0]
    BY <1>3 DEF NoOrder
<1>5. o \in Order /\ o.rid = r /\ o.state = "open"
    BY <1>4, AccountAssumption DEF Order
<1>6. EditOrder(o)
    BY <1>1, <1>3
<1>7. Charged = {}
    BY <1>2 DEF ServiceInv, ChargesAttempt, OrderOK, Charged
<1>8. ledger' = ledger
    BY <1>5, <1>6, OrderEdit DEF ServiceInv
<1>9. ClientOK'
    BY <1>1, <1>8, ClientAsks DEF ServiceInv
<1> QED
    BY <1>2, <1>5, <1>6, <1>7, <1>9, OrderEdited

\* Quote and claim are bound to the order the tab works for.
LEMMA BindStep ==
    ASSUME ServiceInv, SupplierInv', NEW t \in Tabs, SaveQuote(t) \/ LinkClaim(t)
    PROVE  ServiceInv'
<1>1. /\ client[t].pc # "idle" /\ order.state = "open" /\ order.rid = Rid(t)
      /\ Rid(t) \in Requests /\ UNCHANGED supplierVars
      /\ Goto(t, "buy") \/ Goto(t, "link") \/ Goto(t, "claim")
    BY DEF SaveQuote, LinkClaim, At, Active, ServiceInv, ClientOK
<1>2. order \in Order /\ snapshot.notes[Rid(t)].id \in 0 .. MaxOps
    BY <1>1, SnapshotType DEF ServiceInv, order, Note
<1>3. PICK o : /\ EditOrder(o)
              /\ \/ o = [order EXCEPT !.quoted = TRUE]
                 \/ o = [order EXCEPT !.note = snapshot.notes[Rid(t)].id]
    BY DEF SaveQuote, LinkClaim
<1>4. /\ o \in Order /\ o.rid = order.rid /\ o.state = order.state
      /\ order.quoted => o.quoted
    BY <1>2, <1>3 DEF Order
<1>5. ledger' = ledger
    BY <1>3, <1>4, OrderEdit DEF ServiceInv
<1>6. ClientOK'
    BY <1>1, <1>5, ClientGoes DEF ServiceInv
<1>7. \A r \in Charged : o.rid = r /\ o.state # "cancelled" /\ o.quoted
    BY <1>1, <1>4 DEF ServiceInv, ChargesAttempt
<1> QED
    BY <1>1, <1>3, <1>4, <1>6, <1>7, OrderEdited

\* An attempt is retired: cancelled, or replaced by a fresh request.
LEMMA ReplaceStep ==
    ASSUME ServiceInv, SupplierInv', NEW t \in Tabs, CancelService(t) \/ RequoteService(t)
    PROVE  ServiceInv'
<1>1. UNCHANGED supplierVars /\ MayReplace(t)
    BY DEF CancelService, RequoteService
<1>2. ~IsPending
    BY DEF CancelService, RequoteService, EditOrder, Edit
<1>3. Charged = {}
    BY <1>1, <1>2, NothingCharged
<1>4. order \in Order /\ order.state = "open" /\ order.rid \in Requests
    BY <1>1, SnapshotType DEF MayReplace, Active, ServiceInv, OrderOK, order
<1>5. CASE CancelService(t)
    <2>1. PICK o : o = [order EXCEPT !.state = "cancelled"]
        OBVIOUS
    <2>2. o \in Order /\ o.rid = order.rid /\ o.state = "cancelled"
        BY <1>4, <2>1 DEF Order
    <2>3. EditOrder(o) /\ Stop(t)
        BY <1>5, <2>1 DEF CancelService
    <2>4. ledger' = ledger
        BY <2>2, <2>3, OrderEdit DEF ServiceInv
    <2>5. ClientOK'
        BY <2>3, <2>4, ClientStops DEF ServiceInv
    <2> QED
        BY <1>1, <1>3, <1>4, <2>2, <2>3, <2>5, OrderEdited
<1>6. CASE RequoteService(t)
    <2>1. PICK r : r = order.rid + 1
        OBVIOUS
    <2>2. PICK o : o = [NoOrder EXCEPT !.state = "open", !.rid = r]
        OBVIOUS
    <2>3. o = [state |-> "open", rid |-> r, quoted |-> FALSE, note |-> 0] /\ r \in Requests
        BY <1>6, <2>1, <2>2 DEF NoOrder, RequoteService
    <2>4. o \in Order /\ o.rid = r /\ o.state = "open"
        BY <2>3, AccountAssumption DEF Order
    <2>5. EditOrder(o) /\ client' = [client EXCEPT ![t] = [Idle EXCEPT !.pc = "ask", !.rid = r]]
        BY <1>6, <2>1, <2>2 DEF RequoteService
    <2>6. ledger' = ledger
        BY <2>4, <2>5, OrderEdit DEF ServiceInv
    <2>7. ClientOK'
        BY <2>3, <2>5, <2>6, ClientAsks DEF ServiceInv
    <2> QED
        BY <1>1, <1>3, <2>3, <2>4, <2>5, <2>7, OrderEdited
<1> QED
    BY <1>5, <1>6

\* The delivery is saved after the payout.
LEMMA SaveDeliveryStep ==
    ASSUME ServiceInv, SupplierInv', NEW t \in Tabs, SaveDelivery(t)
    PROVE  ServiceInv'
<1> DEFINE q == Rid(t)
<1>1. /\ q \in Requests /\ orders[q] = "delivered" /\ Claim(q).state = "redeemed"
      /\ order.state = "open" /\ order.rid = q /\ Stop(t) /\ UNCHANGED supplierVars
    BY DEF SaveDelivery, At, Active, ServiceInv, ClientOK
<1>2. PICK s : s = snapshot
    OBVIOUS
<1>3. s = [book |-> s.book, outstanding |-> s.outstanding, notes |-> s.notes, order |-> s.order]
      /\ s \in Snapshot /\ s.notes \in [Requests -> Note] /\ s.order \in Order
    BY <1>2, SnapshotType DEF Snapshot, ServiceInv
<1>4. PICK after : after = [snapshot EXCEPT !.order.state = "delivered", !.notes[q].redeemed = TRUE]
    OBVIOUS
<1>5. PICK o, n, notes : /\ o = [s.order EXCEPT !.state = "delivered"]
                         /\ n = [s.notes[q] EXCEPT !.redeemed = TRUE]
                         /\ notes = [s.notes EXCEPT ![q] = n]
    OBVIOUS
<1>6. after = [book |-> s.book, outstanding |-> s.outstanding, notes |-> notes, order |-> o]
    BY <1>2, <1>3, <1>4, <1>5
<1>7. /\ o \in Order /\ o.state = "delivered" /\ o.rid = order.rid /\ o.quoted = order.quoted
      /\ n \in Note /\ n.id = s.notes[q].id /\ n.redeemed /\ n.refund = s.notes[q].refund
      /\ n.expiryRecorded = s.notes[q].expiryRecorded
    BY <1>1, <1>2, <1>3, <1>5 DEF Order, Note, order
<1>8. /\ notes \in [Requests -> Note] /\ notes[q] = n
      /\ \A r \in Requests : r # q => notes[r] = s.notes[r]
    BY <1>1, <1>3, <1>5, <1>7
<1>9. after \in Snapshot /\ after.notes = notes /\ after.order = o /\ after.book = s.book
    BY <1>3, <1>6, <1>7, <1>8 DEF Snapshot
<1>10. Edit(after) /\ ~IsPending
    BY <1>4 DEF SaveDelivery, Edit
<1>11. Matches(after)
    <2>1. Matches(s)
        BY <1>2, <1>10, SnapshotOpens DEF ServiceInv
    <2>2. s.book = ledger.book
        BY <2>1 DEF Matches
    <2> DEFINE Fits(m, k) ==
            m.id # 0 =>
               /\ Claim(k).id = m.id
               /\ m.expiryRecorded => Claim(k).state \in {"expired", "allocated", "settled"}
               /\ m.redeemed => Claim(k).state = "redeemed"
               /\ CASE m.refund = "none" -> Claim(k).state \notin {"allocated", "settled"}
                    [] m.refund = "owed" -> Claim(k).state = "allocated"
                    [] m.refund = "paid" -> Claim(k).state = "settled"
    <2>3. \A r \in Requests : Fits(s.notes[r], r)
        BY <2>1 DEF Matches
    <2>4. Fits(n, q)
        BY <1>1, <1>7, <2>3
    <2>5. \A r \in Requests : Fits(notes[r], r)
        <3> HIDE DEF Fits
        <3> QED
            BY <1>8, <2>3, <2>4
    <2> QED
        BY <1>9, <2>2, <2>5 DEF Matches
<1>12. AccountInv'
    BY <1>9, <1>10, <1>11, EditStep DEF ServiceInv
<1>13. /\ snapshot' = after /\ pending' = NoPending /\ ledger' = ledger /\ order' = o
    BY <1>9, <1>10 DEF Edit, snapshot, pending, chain, order
<1>14. ~IsPending' /\ ~Applied /\ ~Applied'
    BY <1>10, <1>13, SnapshotOpens, ConstantTypes DEF IsPending, Applied, ServiceInv
<1>15. \A r \in Requests : (Present.notes[r].id)' = Present.notes[r].id
    BY <1>2, <1>7, <1>8, <1>9, <1>13, <1>14 DEF Present
<1>16. SupplierQuiet
    BY <1>1 DEF SupplierQuiet, supplierVars
<1>17. OrderOK'
    BY <1>1, <1>7, <1>13, <1>14 DEF OrderOK
<1>18. ChargesAttempt'
    <2>1. Charged' = Charged
        BY <1>13 DEF Charged, Claim
    <2> QED
        BY <1>7, <1>13, <2>1 DEF ChargesAttempt, ServiceInv
<1>19. ClientOK'
    BY <1>1, <1>13, ClientStops DEF ServiceInv
<1> QED
    BY <1>1, <1>7, <1>12, <1>13, <1>15, <1>16, <1>17, <1>18, <1>19, SameLedger

-----------------------------------------------------------------------------
\* A step of the ledger: redeemed and settled claims stay so.
LEMMA LedgerMoves ==
    ASSUME ServiceInv, AccountInv', SupplierInv', UNCHANGED <<record, client>>,
           ClaimsKnown', ChargesAttempt', PaidOut',
           \A r \in Requests :
              /\ Claim(r).state \in {"redeemed", "settled"} => Claim(r)'.state = Claim(r).state
              /\ orders[r] = "delivered" => orders'[r] = "delivered"
    PROVE  ServiceInv'
<1>1. snapshot' = snapshot /\ pending' = pending /\ order' = order
    BY DEF snapshot, pending, order
<1>2. OrderOK'
    BY <1>1 DEF ServiceInv, OrderOK, IsPending, Attempt
<1>3. ClientOK'
    BY DEF ServiceInv, ClientOK, Rid, Claim
<1>4. \A r \in Requests : orders'[r] = "delivered" => Claim(r)'.state = "redeemed"
    BY DEF SupplierInv, StatusFollowsReceipts, PaidOut
<1>5. order'.state = "delivered" =>
          ledger'.claims[order'.rid].state = "redeemed" /\ orders'[order'.rid] = "delivered"
    BY <1>1 DEF ServiceInv, DeliveredIsPaid, OrderOK, Claim
<1>6. DeliveredIsPaid'
    BY <1>4, <1>5 DEF DeliveredIsPaid, Claim
<1> QED
    BY <1>2, <1>3, <1>6 DEF ServiceInv

\* What a transaction does to a claim, and what its candidate knows of it.
LEMMA ExecutedClaims ==
    ASSUME ServiceInv, NEW i, i = pending.id, IsPending, tx[i] = pending.call,
           Accepts(pending.call), ledger' = Executed(i), NEW r \in Requests
    PROVE  \/ /\ Claim(r)' = Claim(r)
              /\ pending.after.notes[r].id = snapshot.notes[r].id
           \/ /\ pending.call.circuit = "draw" /\ pending.call.rid = r
              /\ Claim(r).id = 0 /\ Claim(r)' = [id |-> i, state |-> "live"]
              /\ pending.after.notes[r].id = i
           \/ /\ Claim(r).state \in {"live", "expired", "allocated"}
              /\ Claim(r)'.state \in {"expired", "allocated", "settled"}
              /\ Claim(r)'.id = Claim(r).id
              /\ pending.after.notes[r].id = snapshot.notes[r].id
<1> DEFINE c == pending.call
<1>1. /\ Effect(pending, snapshot) /\ snapshot.notes \in [Requests -> Note]
      /\ ledger \in Ledger /\ ledger.claims \in [Requests -> [id : 0 .. MaxOps, state : ClaimStates]]
    BY SnapshotType DEF ServiceInv, AccountInv, PendingOK, AccountTypeOK, Ledger
<1>2. ledger'.claims = CASE c.circuit = "draw" ->
                               [ledger.claims EXCEPT ![c.rid] = [id |-> i, state |-> "live"]]
                         [] c.circuit = "expire" ->
                               [ledger.claims EXCEPT ![c.rid] = [id |-> c.note, state |-> "expired"]]
                         [] c.circuit = "compensate" ->
                               [ledger.claims EXCEPT ![c.rid] =
                                  [id |-> c.note, state |-> IF c.cash THEN "allocated" ELSE "settled"]]
                         [] c.circuit = "refund" ->
                               [ledger.claims EXCEPT ![c.rid] = [id |-> c.note, state |-> "settled"]]
                         [] OTHER -> ledger.claims
    BY <1>1 DEF Executed, Ledger
<1>3. snapshot.notes[r] \in Note
    BY <1>1
<1>4. CASE c.circuit = "draw"
    <2>1. /\ c.rid \in Requests /\ Claim(c.rid).id = 0
          /\ pending.after.notes = [snapshot.notes EXCEPT ![c.rid] = [NoNote EXCEPT !.id = i]]
        BY <1>1, <1>4 DEF Effect, Accepts
    <2>2. PICK note : note = [NoNote EXCEPT !.id = i]
        OBVIOUS
    <2>3. note.id = i
        BY <2>2 DEF NoNote
    <2>4. pending.after.notes = [snapshot.notes EXCEPT ![c.rid] = note]
        BY <2>1, <2>2
    <2>5. ledger'.claims = [ledger.claims EXCEPT ![c.rid] = [id |-> i, state |-> "live"]]
        BY <1>2, <1>4
    <2> QED
        BY <1>1, <1>4, <2>1, <2>3, <2>4, <2>5 DEF Claim
<1>5. CASE c.circuit = "repay"
    <2>1. ledger'.claims = ledger.claims /\ pending.after.notes = snapshot.notes
        BY <1>1, <1>2, <1>5 DEF Effect
    <2> QED
        BY <2>1 DEF Claim
<1>6. CASE c.circuit \in {"expire", "compensate", "refund"}
    <2>1. PICK note : /\ c.rid \in Requests /\ note.id = snapshot.notes[c.rid].id
                      /\ pending.after.notes = [snapshot.notes EXCEPT ![c.rid] = note]
        <3>1. CASE c.circuit = "expire"
            BY <1>1, <1>6, <3>1 DEF Effect, Note
        <3>2. CASE c.circuit = "compensate"
            BY <1>1, <1>6, <3>2 DEF Effect, Note
        <3>3. CASE c.circuit = "refund"
            BY <1>1, <1>6, <3>3, ZenonT(40) DEF Effect, Note
        <3> QED
            BY <1>6, <3>1, <3>2, <3>3
    <2>2. /\ Claim(c.rid).id = c.note
          /\ Claim(c.rid).state \in {"live", "expired", "allocated"}
        BY <1>6 DEF Accepts
    <2>3. PICK s \in {"expired", "allocated", "settled"} :
              ledger'.claims = [ledger.claims EXCEPT ![c.rid] = [id |-> c.note, state |-> s]]
        BY <1>2, <1>6
    <2> QED
        BY <1>1, <2>1, <2>2, <2>3 DEF Claim
<1> QED
    BY <1>1, <1>4, <1>5, <1>6 DEF Effect

\* A transaction of the account is finalized.
LEMMA ServiceIncludeStep ==
    ASSUME ServiceInv, SupplierInv', NEW i \in Ops, Include(i), UNCHANGED <<client, supplierVars>>
    PROVE  ServiceInv'
<1>1. AccountInv'
    BY IncludeStep DEF ServiceInv
<1>2. /\ fate[i] = "pooled" /\ record' = record /\ fate \in [Ops -> Fates]
      /\ pending.signed /\ pending.id = i /\ IsPending /\ tx[i] = pending.call
      /\ ~Applied
    BY DEF Include, ServiceInv, AccountInv, AccountTypeOK, NoOrphanTransaction, PendingOK, Applied
<1>3. CASE fate' \in {[fate EXCEPT ![i] = "failed"], [fate EXCEPT ![i] = "partial"]}
           /\ UNCHANGED ledger
    <2>1. fate'[i] \in {"failed", "partial"}
        BY <1>2, <1>3
    <2>2. AttemptStays
        BY <1>2, <1>3, <2>1, KeepRecord
    <2>3. SupplierQuiet /\ ClientOK'
        BY <1>3, ClientStays DEF SupplierQuiet, supplierVars, ServiceInv
    <2> QED
        BY <1>1, <2>2, <2>3, SameAttempt
<1>4. CASE /\ Accepts(tx[i]) /\ fate' = [fate EXCEPT ![i] = "succeeded"]
           /\ ledger' = Executed(i)
    <2>1. snapshot' = snapshot /\ pending' = pending /\ order' = order /\ IsPending'
        BY <1>2 DEF snapshot, pending, order, IsPending
    <2>2. Applied' /\ Present = snapshot /\ Present' = pending.after
        BY <1>2, <1>4, <2>1 DEF Applied, Present
    <2>3. ASSUME NEW r \in Requests
          PROVE  \/ /\ Claim(r)' = Claim(r)
                    /\ pending.after.notes[r].id = snapshot.notes[r].id
                 \/ /\ pending.call.circuit = "draw" /\ pending.call.rid = r
                    /\ Claim(r).id = 0 /\ Claim(r)' = [id |-> i, state |-> "live"]
                    /\ pending.after.notes[r].id = i
                 \/ /\ Claim(r).state \in {"live", "expired", "allocated"}
                    /\ Claim(r)'.state \in {"expired", "allocated", "settled"}
                    /\ Claim(r)'.id = Claim(r).id
                    /\ pending.after.notes[r].id = snapshot.notes[r].id
        BY <1>2, <1>4, ExecutedClaims
    <2>4. i # 0
        BY <1>2 DEF IsPending
    <2>5. \A r \in Requests : /\ Claim(r).id = 0 <=> Claim(r).state = "none"
                              /\ Claim(r).id # 0 => snapshot.notes[r].id = Claim(r).id
        BY <2>2 DEF ServiceInv, ClaimsKnown
    <2>6. \A r \in Requests : /\ Claim(r)'.id = 0 <=> Claim(r)'.state = "none"
                              /\ Claim(r)'.id # 0 => pending.after.notes[r].id = Claim(r)'.id
        BY <2>3, <2>4, <2>5
    <2>7. ClaimsKnown'
        BY <2>2, <2>6 DEF ClaimsKnown
    <2>8. ASSUME NEW r \in Requests, Claim(r)'.id # 0, Claim(r)'.state # "settled"
          PROVE  order.rid = r /\ order.state # "cancelled" /\ order.quoted
        <3>1. \/ Claim(r).id # 0 /\ Claim(r).state # "settled"
              \/ pending.call.circuit = "draw" /\ pending.call.rid = r
            BY <2>3, <2>8
        <3> QED
            BY <1>2, <3>1 DEF ServiceInv, OrderOK, ChargesAttempt, Charged
    <2>9. ChargesAttempt'
        BY <2>1, <2>8 DEF ChargesAttempt, Charged
    <2>10. \A r \in Requests : Claim(r).state \in {"redeemed", "settled"} =>
                                  Claim(r)'.state = Claim(r).state
        BY <2>3, <2>5
    <2>11. PaidOut'
        BY <2>10 DEF ServiceInv, PaidOut, supplierVars
    <2> QED
        BY <1>1, <1>2, <2>7, <2>9, <2>10, <2>11, LedgerMoves DEF supplierVars
<1> QED
    BY <1>3, <1>4 DEF Include

\* A transaction of the supplier is finalized: a quote, or the payout of a claim.
LEMMA SupplierExecutesStep ==
    ASSUME ServiceInv, SupplierInv', NEW k \in Operations, SupplierExecutes(k)
    PROVE  ServiceInv'
<1>1. /\ record' = record /\ fate' = fate /\ client' = client /\ orders' = orders
      /\ UNCHANGED <<record, archived, lock, tx, fate, lapsed, late>>
      /\ wire' = [wire EXCEPT ![k] = "succeeded"]
      /\ ledger' = IF k[1] = "postQuote"
                   THEN [ledger EXCEPT !.quotes = @ \cup {k[2]}]
                   ELSE [ledger EXCEPT !.claims[k[2]].state = "redeemed"]
    BY DEF SupplierExecutes, Finalize, account
<1>2. /\ k[1] \in Kinds /\ k[2] \in Requests /\ k = <<k[1], k[2]>>
      /\ wire \in [Operations -> WireFates] /\ ledger \in Ledger /\ late \in SUBSET Requests
    BY DEF Operations, ServiceInv, SupplierInv, SupplierTypeOK, AccountInv, AccountTypeOK
<1>3. /\ ledger' \in Ledger /\ ledger'.book = ledger.book
      /\ \A r \in Requests :
            \/ Claim(r)' = Claim(r)
            \/ /\ k[1] # "postQuote" /\ r = k[2] /\ Claim(r).state = "live"
               /\ Claim(r)' = [Claim(r) EXCEPT !.state = "redeemed"]
      /\ k[1] # "postQuote" => Claim(k[2])' = [Claim(k[2]) EXCEPT !.state = "redeemed"]
    <2>1. CASE k[1] = "postQuote"
        <3>1. ledger' = [ledger EXCEPT !.quotes = @ \cup {k[2]}]
            BY <1>1, <2>1
        <3> QED
            BY <1>2, <2>1, <3>1 DEF Ledger, Claim
    <2>2. CASE k[1] # "postQuote"
        <3>1. ledger' = [ledger EXCEPT !.claims[k[2]].state = "redeemed"]
              /\ Claim(k[2]).state = "live"
            BY <1>1, <2>2 DEF SupplierExecutes, ledgerAccepts
        <3>2. PICK claim : claim = [ledger.claims[k[2]] EXCEPT !.state = "redeemed"]
            OBVIOUS
        <3>3. PICK claims : claims = [ledger.claims EXCEPT ![k[2]] = claim]
            OBVIOUS
        <3>4. ledger' = [ledger EXCEPT !.claims = claims]
            BY <3>1, <3>2, <3>3
        <3>5. claim \in [id : 0 .. MaxOps, state : ClaimStates]
            BY <1>2, <3>2 DEF Ledger, ClaimStates
        <3>6. /\ claims \in [Requests -> [id : 0 .. MaxOps, state : ClaimStates]]
              /\ claims[k[2]] = claim /\ \A r \in Requests : r # k[2] => claims[r] = ledger.claims[r]
            BY <1>2, <3>3, <3>5 DEF Ledger
        <3>7. ledger' \in Ledger /\ ledger'.book = ledger.book /\ ledger'.claims = claims
            BY <1>2, <3>4, <3>6 DEF Ledger
        <3> QED
            BY <2>2, <3>1, <3>2, <3>6, <3>7 DEF Claim
    <2> QED
        BY <2>1, <2>2
<1>4. AccountInv'
    BY <1>1, <1>2, <1>3, LedgerStep DEF ServiceInv
<1>5. ASSUME NEW r \in Requests
      PROVE  /\ Claim(r)'.id = Claim(r).id
             /\ Claim(r)'.state \in {Claim(r).state, "redeemed"}
             /\ Claim(r)'.state # Claim(r).state => Claim(r).state = "live"
    <2>1. ledger.claims[r] \in [id : 0 .. MaxOps, state : ClaimStates]
        BY <1>2 DEF Ledger
    <2> QED
        BY <1>3, <2>1 DEF Claim
<1>6. snapshot' = snapshot /\ pending' = pending /\ order' = order /\ Present' = Present
    BY <1>1 DEF snapshot, pending, order, Present, Applied
<1>7. ClaimsKnown'
    BY <1>5, <1>6 DEF ServiceInv, ClaimsKnown
<1>8. ChargesAttempt'
    <2>1. Charged' \subseteq Charged
        BY <1>5 DEF Charged
    <2> QED
        BY <1>6, <2>1 DEF ServiceInv, ChargesAttempt
<1>9. PaidOut'
    <2> SUFFICES ASSUME NEW r \in Requests, wire'[<<"redeemDraw", r>>] = "succeeded"
                 PROVE  Claim(r)'.state = "redeemed"
        BY DEF PaidOut
    <2>1. CASE k = <<"redeemDraw", r>>
        <3>1. k[1] = "redeemDraw" /\ k[2] = r
            BY <2>1
        <3>2. ledger.claims[r] \in [id : 0 .. MaxOps, state : ClaimStates]
            BY <1>2 DEF Ledger
        <3> QED
            BY <1>3, <3>1, <3>2 DEF Claim
    <2>2. CASE k # <<"redeemDraw", r>>
        <3>1. wire[<<"redeemDraw", r>>] = "succeeded"
            BY <1>1, <1>2, <2>2 DEF Operations, Kinds
        <3> QED
            BY <1>5, <3>1 DEF ServiceInv, PaidOut
    <2> QED
        BY <2>1, <2>2
<1> QED
    BY <1>1, <1>4, <1>5, <1>7, <1>8, <1>9, LedgerMoves

-----------------------------------------------------------------------------
LEMMA ServiceNext == ServiceInv /\ [NextService]_serviceVars => ServiceInv'
<1> SUFFICES ASSUME ServiceInv, [NextService]_serviceVars PROVE ServiceInv'
    OBVIOUS
<1>1. SupplierInv'
    BY ServiceIsSupplier, SupplierNext DEF ServiceInv
<1>2. ASSUME NEW t \in Tabs, TabStep(t)
      PROVE  ServiceInv'
    BY <1>1, <1>2, AccountSections, BuyCompletedStep, BuyStep, WaitingStep, SaveOrderStep,
       BindStep, ReplaceStep, SaveDeliveryStep DEF TabStep
<1>3. ASSUME AccountInv', UNCHANGED <<record, ledger, client>>, SupplierQuiet,
             fate'[pending.id] = "succeeded" <=> fate[pending.id] = "succeeded"
      PROVE  ServiceInv'
    BY <1>1, <1>3, KeepRecord, ClientStays, SameAttempt DEF ServiceInv
<1>4. CASE UNCHANGED vars /\ UNCHANGED client /\ SupplierQuiet
    <2>1. AccountInv'
        BY <1>4, SameAccount DEF ServiceInv
    <2> QED
        BY <1>3, <1>4, <2>1 DEF vars
<1>5. CASE SupplierStep /\ UNCHANGED <<vars, client>>
    <2>1. SupplierQuiet
        BY <1>5, SupplierKeeps DEF SupplierQuiet, ServiceInv
    <2> QED
        BY <1>4, <1>5, <2>1
<1>6. CASE UNCHANGED serviceVars
    BY <1>4, <1>6 DEF serviceVars, SupplierQuiet, supplierVars
<1>7. ASSUME NEW k \in Operations, SupplierMiscarries(k)
      PROVE  ServiceInv'
    <2>1. SupplierQuiet
        BY <1>7, SupplierKeeps DEF SupplierMiscarries, SupplierQuiet, ServiceInv
    <2> QED
        BY <1>4, <1>7, <2>1 DEF SupplierMiscarries
<1>8. ASSUME NEW i \in Ops, Lapse(i), UNCHANGED <<client, supplierVars>>
      PROVE  ServiceInv'
    BY <1>3, <1>8, LapseStep DEF ServiceInv, Lapse, SupplierQuiet, supplierVars
<1>9. ASSUME NEW r \in Requests, ExpireQuote(r)
      PROVE  ServiceInv'
    BY <1>3, <1>9, ExpireStep DEF ServiceInv, ExpireQuote, Expire, SupplierQuiet, supplierVars
<1> QED
    BY <1>1, <1>2, <1>5, <1>6, <1>7, <1>8, <1>9, ServiceIncludeStep, SupplierExecutesStep
       DEF NextService

LEMMA ServiceSafety == SpecService => []ServiceInv
<1> QED
    BY ServiceInit, ServiceNext, PTL DEF SpecService

\* One saved purchase is charged at most once, and a cancelled one never,
\* through every retry, requote, lost answer and second tab
\* (requireReplaceableOrder, activeServiceOrder).
THEOREM OneCharge == SpecService => []ChargedOnce
<1>1. ServiceInv => ChargedOnce
    <2> SUFFICES ASSUME ServiceInv, NEW r \in Charged \cup Drawing
                 PROVE  r = order.rid /\ order.state # "cancelled"
        BY DEF ChargedOnce
    <2> QED
        BY DEF ServiceInv, ChargesAttempt, OrderOK, Drawing
<1> QED
    BY <1>1, ServiceSafety, PTL

\* A service counts as delivered, with the organization and with the supplier,
\* only after its payout (continueService, redeemOrder).
THEOREM DeliveryIsPaid == SpecService => []DeliveredIsPaid
<1>1. ServiceInv => DeliveredIsPaid
    BY DEF ServiceInv
<1> QED
    BY <1>1, ServiceSafety, PTL

\* The supplier of a purchase behaves as a supplier on its own does: its server,
\* and the network for it, take no step that SpecSupplier does not allow.
THEOREM SupplierOfAPurchase == SpecService => SpecSupplier
<1>1. InitService => InitSupplier
    BY DEF InitService
<1>2. ServiceInv /\ [NextService]_serviceVars => [NextSupplier]_supplierVars
    BY ServiceIsSupplier DEF ServiceInv
<1> QED
    BY <1>1, <1>2, ServiceSafety, PTL DEF SpecService, SpecSupplier

\* The account of a purchase keeps what an account on its own keeps, although
\* its edits and its supplier are others: one payment at a time, a record that
\* opens the ledger, nothing archived that could still execute.
THEOREM AccountOfAPurchase ==
    SpecService => [](NoOrphanTransaction /\ BackupRestorable /\ ArchivedNeverApplied)
<1>1. ServiceInv => NoOrphanTransaction /\ BackupRestorable /\ ArchivedNeverApplied
    BY DEF ServiceInv, AccountInv, BackupRestorable, Opens, Applied, PendingOK, Expired,
           Undecided, ArchivedNeverApplied
<1> QED
    BY <1>1, ServiceSafety, PTL

\* The journal of the supplier of a purchase: nothing undecided beside the
\* pending entry, no order without its receipt, no bytes sent twice.
THEOREM SupplierKeepsItsWord ==
    SpecService => [](UndecidedIsPending /\ StatusFollowsReceipts) /\ NeverRebroadcast
<1> QED
    BY SupplierOfAPurchase, AtMostOneUndecided, PaidBeforeDelivered, SentOnce, PTL

=============================================================================
