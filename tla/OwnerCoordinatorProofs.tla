----------------------- MODULE OwnerCoordinatorProofs -----------------------
(***************************************************************************)
(* The checkpoint lease and the coordinator that runs under it, for any    *)
(* number of workers and operations: one process at a time owns the        *)
(* directory, no approval is stranded, and the journal opens the public    *)
(* ledger.                                                                 *)
(***************************************************************************)
EXTENDS OwnerCoordinator, TLAPS

-----------------------------------------------------------------------------
(***************************************************************************)
(* Mutual exclusion of the checkpoint lease, for any set of processes.     *)
(***************************************************************************)

\* A process that has created the file is the one its name leads to.
Holders == \A p \in Processes : pc[p] \in {"writing", "owner"} => lease.by = p
\* Recoveries run one at a time.
Guarded == \A p \in Processes :
    pc[p] \in {"reading", "probed", "checked", "cleared"} => guard = p
\* A lease that was probed, and the lease that is about to be removed, belongs
\* to a process that is gone for good.
Probed == \A p \in Processes :
    /\ pc[p] = "probed" =>
        seen[p].written /\ seen[p].by \in Processes /\ pc[seen[p].by] = "dead"
    /\ pc[p] = "checked" =>
        lease.written /\ lease.by \in Processes /\ pc[lease.by] = "dead"
\* Only a created file has been written.
WrittenBySome == lease.written => lease.by \in Processes

LeaseInv == LeaseTypeOK /\ Holders /\ Guarded /\ Probed /\ WrittenBySome

\* Nobody holds the directory before the first process opens it.
LEMMA LeaseInit == Init => LeaseInv
<1>1. NoLease \in Lease
    BY DEF NoLease, Lease
<1>2. ~NoLease.written
    BY DEF NoLease
<1> QED
    BY <1>1, <1>2 DEF Init, LeaseInv, LeaseTypeOK, Holders, Guarded, Probed, WrittenBySome, Steps

\* The file operations one by one.
LEMMA LeaseStep == LeaseInv /\ [Next]_vars => LeaseInv'
<1> SUFFICES ASSUME LeaseInv, [Next]_vars PROVE LeaseInv'
    OBVIOUS
<1> USE LeaseAssumption DEF LeaseInv, Go
<1>0. CASE UNCHANGED vars
    BY <1>0 DEF vars, LeaseTypeOK, Holders, Guarded, Probed, WrittenBySome
<1>1. ASSUME NEW p \in Processes, CreateLease(p) PROVE LeaseInv'
    <2>1. LeaseTypeOK'
        BY <1>1 DEF CreateLease, LeaseTypeOK, Lease, Steps
    <2>2. Holders' /\ Probed' /\ WrittenBySome'
        BY <1>1 DEF CreateLease, LeaseTypeOK, Lease, NoLease, Holders, Probed, WrittenBySome
    <2>3. Guarded'
        BY <1>1 DEF CreateLease, LeaseTypeOK, Guarded
    <2> QED BY <2>1, <2>2, <2>3
<1>2. ASSUME NEW p \in Processes, LeaseExists(p) PROVE LeaseInv'
    BY <1>2 DEF LeaseExists, LeaseTypeOK, Steps, Holders, Guarded, Probed, WrittenBySome
<1>3. ASSUME NEW p \in Processes, WriteLease(p) PROVE LeaseInv'
    <2>1. lease' = [by |-> p, written |-> TRUE]
        BY <1>3 DEF WriteLease, Written, Holders, LeaseTypeOK, Lease
    <2>2. LeaseTypeOK'
        BY <1>3, <2>1 DEF WriteLease, LeaseTypeOK, Lease, Steps
    <2>3. Holders' /\ Probed' /\ WrittenBySome'
        BY <1>3, <2>1 DEF WriteLease, LeaseTypeOK, Holders, Probed, WrittenBySome
    <2>4. Guarded'
        BY <1>3 DEF WriteLease, LeaseTypeOK, Guarded
    <2> QED BY <2>2, <2>3, <2>4
<1>4. ASSUME NEW p \in Processes, MakeGuard(p) PROVE LeaseInv'
    BY <1>4 DEF MakeGuard, mayRecover, LeaseTypeOK, Steps, Holders, Guarded, Probed, WrittenBySome
<1>5. ASSUME NEW p \in Processes, ReadLease(p) PROVE LeaseInv'
    BY <1>5 DEF ReadLease, Stale, LeaseTypeOK, Steps, Holders, Guarded, Probed, WrittenBySome
<1>6. ASSUME NEW p \in Processes, RereadLease(p) PROVE LeaseInv'
    BY <1>6 DEF RereadLease, LeaseTypeOK, Steps, Holders, Guarded, Probed, WrittenBySome
<1>7. ASSUME NEW p \in Processes, RemoveLease(p) PROVE LeaseInv'
    <2>1. \A q \in Processes : pc[q] \notin {"writing", "owner"}
        BY <1>7 DEF RemoveLease, Probed, Holders
    <2>2. \A q \in Processes : pc[q] = "checked" => q = p
        BY <1>7 DEF RemoveLease, Guarded
    <2>3. LeaseTypeOK' /\ WrittenBySome'
        BY <1>7 DEF RemoveLease, LeaseTypeOK, Lease, NoLease, Steps, WrittenBySome
    <2>4. Holders' /\ Guarded'
        BY <1>7, <2>1 DEF RemoveLease, LeaseTypeOK, Holders, Guarded
    <2>5. Probed'
        BY <1>7, <2>2 DEF RemoveLease, LeaseTypeOK, Probed
    <2> QED BY <2>3, <2>4, <2>5
<1>8. ASSUME NEW p \in Processes, Refused(p) PROVE LeaseInv'
    BY <1>8 DEF Refused, LeaseTypeOK, Steps, Holders, Guarded, Probed, WrittenBySome
<1>9. ASSUME NEW p \in Processes, Close(p) PROVE LeaseInv'
    <2>1. \A q \in Processes : q # p => pc[q] \notin {"writing", "owner"}
        BY <1>9 DEF Close, Holders
    <2>2. \A q \in Processes : pc[q] # "checked"
        BY <1>9 DEF Close, Probed
    <2>3. LeaseTypeOK' /\ WrittenBySome'
        BY <1>9 DEF Close, LeaseTypeOK, Lease, NoLease, Steps, WrittenBySome
    <2>4. Holders' /\ Guarded' /\ Probed'
        BY <1>9, <2>1, <2>2 DEF Close, LeaseTypeOK, Holders, Guarded, Probed
    <2> QED BY <2>3, <2>4
<1>10. ASSUME NEW p \in Processes, Die(p) PROVE LeaseInv'
    BY <1>10 DEF Die, LeaseTypeOK, Steps, Holders, Guarded, Probed, WrittenBySome
<1> QED
    BY <1>0, <1>1, <1>2, <1>3, <1>4, <1>5, <1>6, <1>7, <1>8, <1>9, <1>10 DEF Next

\* Whatever processes start, die and take over from each other, at most one
\* live process owns the checkpoint directory (acquire).
THEOREM SingleOwner == Spec => []LeaseExclusive
<1>1. LeaseInv => LeaseExclusive
    BY DEF LeaseInv, Holders, LeaseExclusive
<1> QED
    BY <1>1, LeaseInit, LeaseStep, PTL DEF Spec

-----------------------------------------------------------------------------
(***************************************************************************)
(* The coordinator's journal, for any number of workers and operations:    *)
(* no approval is stranded, and the journal opens the public ledger.       *)
(***************************************************************************)

Ids == Operations \cup {NoOperation}
Workers == Processes \cup {Nobody}
Intent == [op : Ids, salt : Workers, clock : Nat]
Call == [op : Ids, salt : Workers, nonce : Workers]
File == [made : BOOLEAN, ready : BOOLEAN, state : SUBSET Call, clock : Nat,
         intent : Intent, pending : Call]
Work == [cmd : Commands \cup {"none"}, op : Ids,
         step : {"none", "opened", "staged", "asking", "approved", "done"},
         held : File, nonce : Workers, observed : SUBSET Call]

Types ==
    /\ file \in File
    /\ worker \in [Processes -> Work]
    /\ asked \subseteq [by : Processes, intent : Intent]
    /\ DOMAIN approvals \subseteq Operations
    /\ \A op \in DOMAIN approvals : approvals[op] \in [intent : Intent, nonce : Processes]
    /\ proven \subseteq [before : SUBSET Call, call : Call]
    /\ public \subseteq Call

\* Only a worker that owns the journal is at work.
Owning == \A p \in Processes : worker[p].step # "none" => pc[p] = "owner"

\* A worker that asks works on the intent it holds, for its own operation ...
Asking == \A p \in Processes :
    /\ worker[p].cmd \in Preparing \cup {"prove", "confirm"} => Op(p) \in Operations
    /\ worker[p].step \in {"staged", "asking", "approved"} =>
          worker[p].cmd \in Preparing /\ Held(p).intent.op = Op(p)
\* ... and what it was answered is what the owner saved.
Answered == \A p \in Processes :
    worker[p].step = "approved" =>
        /\ Op(p) \in DOMAIN approvals
        /\ approvals[Op(p)] = [intent |-> Held(p).intent, nonce |-> worker[p].nonce]

\* A request on its way is the intent of the journal, or signed before.
Requested == \A m \in asked :
    /\ m.intent.op \in Operations
    /\ m.intent = file.intent \/ m.intent.op \in DOMAIN approvals

\* A worker asks once, for the intent it holds, and then waits for the answer.
AskedOnce == \A m \in asked :
    /\ pc[m.by] \in {"owner", "closed", "dead"}
    /\ pc[m.by] = "owner" => worker[m.by].step \in {"asking", "approved", "done"}
    /\ worker[m.by].step = "asking" => m.intent = Held(m.by).intent

\* Saved answers belong to their operation and are usable.
Signed == \A op \in DOMAIN approvals :
    approvals[op].intent.op = op /\ Usable(approvals[op])

\* The record itself.
Resolved ==
    /\ JournalReopens
    /\ file.intent # NoIntent => file.intent.op \in Operations
    /\ file.pending # NoCall => file.pending.op \in Operations \ completed(file.state)
    /\ \A c \in file.state : c.op \in Operations
    /\ \A c, d \in file.state : c.op = d.op => c = d

\* The public ledger is never behind what was seen of it, nor ahead of the
\* journal's candidate.
Observed == \A p \in Processes : worker[p].observed \subseteq public
Opened == public = file.state \/ (file.pending # NoCall /\ public = file.state \cup {file.pending})
Proven == \A t \in proven :
    /\ t.before \subseteq file.state
    /\ t.before = file.state => file.pending # NoCall /\ t.call = file.pending

CoordinatorInv ==
    /\ LeaseInv /\ Types /\ Owning /\ HolderIsCurrent /\ Asking /\ Answered
    /\ Requested /\ AskedOnce /\ Signed /\ Resolved /\ Observed /\ Opened /\ Proven

-----------------------------------------------------------------------------
\* The journal is empty, or initialized, and nobody works.
LEMMA CoordinatorStart == CoordinatorInit => CoordinatorInv
<1> SUFFICES ASSUME CoordinatorInit PROVE CoordinatorInv
    OBVIOUS
<1> USE CoordinatorAssumption, LeaseAssumption DEF CoordinatorInit
<1>1. NoIntent \in Intent /\ NoCall \in Call
    BY DEF NoIntent, NoCall, Intent, Call, Ids, Workers
<1>2. NoFile \in File /\ file \in File
    <2>1. 0 \in Nat
        OBVIOUS
    <2>2. ASSUME NEW made \in BOOLEAN, NEW ready \in BOOLEAN
          PROVE  emptyRecord(made, ready) \in File
        BY <1>1, <2>1, Zenon DEF emptyRecord, File
    <2> QED
        BY <2>2, Zenon DEF NoFile
<1>3. NoWorker \in Work /\ NoWorker.step = "none" /\ NoWorker.cmd = "none" /\ NoWorker.observed = {}
    BY <1>2 DEF NoWorker, Work, Ids, Workers
<1>4. Types
    BY <1>2, <1>3 DEF Types
<1>5. file.state = {} /\ file.intent = NoIntent /\ file.pending = NoCall
    BY DEF NoFile, emptyRecord
<1>6. LeaseInv
    BY LeaseInit
<1>7. Owning /\ HolderIsCurrent /\ Asking /\ Answered /\ Observed
    BY <1>3 DEF Owning, HolderIsCurrent, Asking, Preparing, Answered, Observed
<1>8. Requested /\ AskedOnce /\ Signed /\ Proven /\ Opened
    BY <1>5 DEF Requested, AskedOnce, Signed, Proven, Opened
<1>9. Resolved
    BY <1>5 DEF Resolved, JournalReopens
<1> QED
    BY <1>4, <1>6, <1>7, <1>8, <1>9 DEF CoordinatorInv

\* The steps of the lease concern no worker at work and nothing recorded.
LEMMA LeaseKeeps ==
    ASSUME CoordinatorInv, NEW p \in Processes, takeLease(p)
    PROVE  CoordinatorInv'
<1> USE DEF CoordinatorInv
<1>1. LeaseInv'
    BY LeaseStep DEF takeLease, Next
<1>2. \A q \in Processes : pc[q] \in {"owner", "closed", "dead"} => pc'[q] = pc[q]
    BY DEF takeLease, CreateLease, LeaseExists, WriteLease, MakeGuard, ReadLease,
           RereadLease, RemoveLease, Refused, Go, LeaseInv, LeaseTypeOK
<1>3. UNCHANGED records
    BY DEF takeLease
<1>4. Types' /\ Asking' /\ Answered' /\ Signed' /\ Resolved' /\ Observed' /\ Opened' /\ Proven'
    BY <1>3 DEF records, Types, Asking, Answered, Signed, Usable, Resolved, JournalReopens,
                Observed, Opened, Proven, Held, Op
<1>5. Owning'
    BY <1>2, <1>3 DEF records, Owning
<1>6. HolderIsCurrent'
    BY <1>2, <1>3 DEF records, Owning, HolderIsCurrent, Held
<1>7. Requested' /\ AskedOnce'
    BY <1>2, <1>3 DEF records, Types, Requested, AskedOnce, Held
<1> QED
    BY <1>1, <1>4, <1>5, <1>6, <1>7

\* A worker that ends keeps nothing; what it asked for may still be signed.
LEMMA EndKeeps ==
    ASSUME CoordinatorInv, NEW p \in Processes, closeJournal(p) \/ killWorker(p)
    PROVE  CoordinatorInv'
<1> USE DEF CoordinatorInv
<1>1. LeaseInv'
    BY LeaseStep DEF closeJournal, killWorker, Next
<1>2. /\ pc' \in [Processes -> Steps]
      /\ pc'[p] \in {"closed", "dead"}
      /\ \A q \in Processes : q # p => pc'[q] = pc[q]
    BY <1>1 DEF closeJournal, killWorker, Close, Die, Go, LeaseInv, LeaseTypeOK
<1>3. /\ worker' = [worker EXCEPT ![p] = NoWorker]
      /\ UNCHANGED <<file, asked, approvals, proven, public>>
    BY DEF closeJournal, killWorker
<1>4. NoWorker \in Work /\ NoWorker.step = "none" /\ NoWorker.cmd = "none" /\ NoWorker.observed = {}
    BY CoordinatorAssumption, LeaseAssumption
       DEF NoWorker, NoFile, emptyRecord, NoIntent, NoCall, Work, File, Intent, Call, Ids, Workers
<1>5. /\ worker'[p] = NoWorker
      /\ \A q \in Processes : q # p => worker'[q] = worker[q]
    BY <1>3 DEF Types
<1>6. Types'
    BY <1>3, <1>4 DEF Types
<1>7. Asking' /\ Answered' /\ Observed'
    BY <1>3, <1>4, <1>5 DEF Asking, Preparing, Answered, Observed, Held, Op
<1>8. Owning' /\ HolderIsCurrent'
    BY <1>2, <1>3, <1>4, <1>5 DEF Owning, HolderIsCurrent, Held
<1>9. Signed' /\ Resolved' /\ Opened' /\ Proven'
    BY <1>3 DEF Signed, Usable, Resolved, JournalReopens, Opened, Proven
<1>10. Requested' /\ AskedOnce'
    BY <1>2, <1>3, <1>4, <1>5 DEF Types, Requested, AskedOnce, Held
<1> QED
    BY <1>1, <1>6, <1>7, <1>8, <1>9, <1>10

-----------------------------------------------------------------------------
\* What a publication changes: the record, and the worker's view of it.
LEMMA Publication ==
    ASSUME CoordinatorInv,
           NEW p \in Processes, pc[p] = "owner", worker[p].step \notin {"none", "done"},
           NEW next \in File, NEW step \in {"opened", "staged", "done"},
           publish(p, next, step),
           worker[p].step = "opened" \/ step = "done",
           step = "staged" => worker[p].cmd \in Preparing /\ next.intent.op = Op(p)
    PROVE  /\ LeaseInv' /\ Types' /\ Owning' /\ HolderIsCurrent' /\ Asking' /\ Answered'
           /\ AskedOnce' /\ Observed'
           /\ file' \in {file, next} /\ UNCHANGED <<asked, approvals, proven, public>>
<1> USE DEF CoordinatorInv
<1>1. /\ file' \in {file, next}
      /\ UNCHANGED <<vars, asked, approvals, proven, public>>
    BY DEF publish
<1>2. worker' = [worker EXCEPT ![p] = worker'[p]] /\ worker'[p] \in Work
    BY DEF publish, GoOn, Types, Work
<1>3. \A q \in Processes : q # p => worker'[q] = worker[q]
    BY <1>2 DEF Types
<1>4. /\ worker'[p].cmd = worker[p].cmd /\ worker'[p].op = worker[p].op
      /\ worker'[p].observed = worker[p].observed
    BY DEF publish, GoOn, Types, Work
<1>5. \/ worker'[p].step = "done"
      \/ worker'[p].step = step /\ worker'[p].held = next /\ file' = next
    BY DEF publish, GoOn, Types, Work
<1>6. LeaseInv' /\ pc' = pc
    BY <1>1, LeaseStep DEF vars
<1>7. Types'
    BY <1>1, <1>2 DEF Types
<1>8. Owning' /\ Asking' /\ Answered' /\ Observed'
    BY <1>1, <1>3, <1>4, <1>5, <1>6 DEF Owning, Asking, Answered, Observed, Held, Op
<1>9. AskedOnce'
    BY <1>1, <1>3, <1>5, <1>6 DEF Types, AskedOnce, Held
<1>10. HolderIsCurrent'
    <2>1. \A q \in Processes : pc[q] = "owner" => q = p
        BY DEF LeaseInv, Holders
    <2> QED
        BY <1>5, <1>6, <2>1 DEF HolderIsCurrent, Held
<1> QED
    BY <1>1, <1>6, <1>7, <1>8, <1>9, <1>10

\* A record that did not change still says the same.
LEMMA RecordKeeps ==
    ASSUME CoordinatorInv, UNCHANGED <<file, asked, approvals, proven, public>>
    PROVE  Requested' /\ Signed' /\ Resolved' /\ Opened' /\ Proven'
BY DEF CoordinatorInv, Requested, Signed, Usable, Resolved, JournalReopens, Opened, Proven

\* Nor does a record whose checkpoint, intent and candidate are the same.
LEMMA SameWork ==
    ASSUME CoordinatorInv, NEW next \in File, file' \in {file, next},
           next.state = file.state, next.intent = file.intent, next.pending = file.pending,
           next.clock = file.clock \/ file.intent = NoIntent,
           UNCHANGED <<asked, approvals, proven, public>>
    PROVE  Requested' /\ Signed' /\ Resolved' /\ Opened' /\ Proven'
BY DEF CoordinatorInv, Requested, Signed, Usable, Resolved, JournalReopens, Opened, Proven

-----------------------------------------------------------------------------
\* The actions of a worker, one by one.
LEMMA OpenKeeps ==
    ASSUME CoordinatorInv, NEW p \in Processes, NEW cmd \in Commands, NEW op \in Ids,
           openJournal(p, cmd, op)
    PROVE  CoordinatorInv'
<1> USE DEF CoordinatorInv
<1> DEFINE w == [cmd |-> cmd, op |-> op, step |-> "opened", held |-> file, nonce |-> Nobody,
                 observed |-> IF cmd \in {"prove", "confirm"} THEN public ELSE {}]
<1>1. worker' = [worker EXCEPT ![p] = w] /\ UNCHANGED <<vars, file, asked, approvals, proven, public>>
    BY DEF openJournal
<1>2. w \in Work /\ w.observed \subseteq public
    BY DEF Work, Workers, Types
<1> HIDE DEF w
<1>3. /\ worker'[p] = w
      /\ \A q \in Processes : q # p => worker'[q] = worker[q]
    BY <1>1 DEF Types
<1>4. w.cmd = cmd /\ w.op = op /\ w.step = "opened" /\ w.held = file
    BY DEF w
<1>5. cmd \in Preparing \cup {"prove", "confirm"} => op \in Operations
    BY DEF openJournal, Ids, Preparing
<1>6. pc[p] = "owner" /\ worker[p].step = "none"
    BY DEF openJournal, Idle
<1>7. LeaseInv' /\ pc' = pc
    BY <1>1, LeaseStep DEF vars
<1>8. Types'
    BY <1>1, <1>2 DEF Types
<1>9. Owning' /\ HolderIsCurrent' /\ Asking' /\ Answered' /\ Observed'
    BY <1>1, <1>2, <1>3, <1>4, <1>5, <1>6, <1>7
       DEF Owning, HolderIsCurrent, Asking, Answered, Observed, Held, Op
<1>10. AskedOnce'
    BY <1>1, <1>3, <1>4, <1>6, <1>7 DEF Types, AskedOnce, Held
<1> QED
    BY <1>1, <1>7, <1>8, <1>9, <1>10, RecordKeeps

LEMMA RecordsKeep ==
    ASSUME CoordinatorInv, NEW p \in Processes,
           createRecord(p) \/ initialize(p) \/ advanceSyntheticTime(p)
    PROVE  CoordinatorInv'
<1> USE DEF CoordinatorInv
<1>1. pc[p] = "owner" /\ worker[p].step = "opened" /\ Held(p) = file /\ file \in File
    BY DEF createRecord, initialize, advanceSyntheticTime, AtStep, HolderIsCurrent, Types
<1>2. CASE createRecord(p)
    <2> DEFINE next == [file EXCEPT !.made = TRUE]
    <2>1. publish(p, next, "opened")
        BY <1>1, <1>2 DEF createRecord
    <2>2. /\ next \in File /\ next.state = file.state /\ next.intent = file.intent
          /\ next.pending = file.pending /\ next.clock = file.clock
        BY <1>1 DEF File
    <2> HIDE DEF next
    <2> QED
        BY <1>1, <2>1, <2>2, Publication, SameWork
<1>3. CASE initialize(p)
    <2> DEFINE next == [file EXCEPT !.ready = TRUE]
    <2>1. publish(p, next, "done")
        BY <1>1, <1>3 DEF initialize
    <2>2. /\ next \in File /\ next.state = file.state /\ next.intent = file.intent
          /\ next.pending = file.pending /\ next.clock = file.clock
        BY <1>1 DEF File
    <2> HIDE DEF next
    <2> QED
        BY <1>1, <2>1, <2>2, Publication, SameWork
<1>4. CASE advanceSyntheticTime(p)
    <2> DEFINE next == [file EXCEPT !.clock = @ + 1]
    <2>1. publish(p, next, "done") /\ file.intent = NoIntent
        BY <1>1, <1>4 DEF advanceSyntheticTime, mayAdvance
    <2>2. /\ next \in File /\ next.state = file.state /\ next.intent = file.intent
          /\ next.pending = file.pending
        BY <1>1 DEF File
    <2> HIDE DEF next
    <2> QED
        BY <1>1, <2>1, <2>2, Publication, SameWork
<1> QED
    BY <1>2, <1>3, <1>4

\* An intent is saved before the owner sees it.
LEMMA StageKeeps ==
    ASSUME CoordinatorInv, NEW p \in Processes, stageAuthorization(p)
    PROVE  CoordinatorInv'
<1> USE CoordinatorAssumption DEF CoordinatorInv
<1>1. /\ pc[p] = "owner" /\ worker[p].step = "opened" /\ Held(p) = file /\ file \in File
      /\ worker[p].cmd \in Preparing /\ Op(p) \in Operations
      /\ file.pending = NoCall /\ Op(p) \notin completed(file.state) /\ file.intent = NoIntent
    BY DEF stageAuthorization, AtStep, HolderIsCurrent, Types, Asking, Preparing, mayAuthorize
<1> DEFINE i == [op |-> Op(p), salt |-> p, clock |-> file.clock]
           next == [file EXCEPT !.intent = i]
<1>2. publish(p, next, "staged")
    BY <1>1 DEF stageAuthorization, Intended
<1>3. i \in Intent /\ i.op = Op(p) /\ i.clock = file.clock
    BY <1>1 DEF Intent, Ids, Workers, File
<1> HIDE DEF i
<1>4. /\ next \in File /\ next.state = file.state /\ next.intent = i
      /\ next.pending = file.pending /\ next.clock = file.clock
    BY <1>1, <1>3 DEF File
<1> HIDE DEF next
<1>5. /\ LeaseInv' /\ Types' /\ Owning' /\ HolderIsCurrent' /\ Asking' /\ Answered'
      /\ AskedOnce' /\ Observed'
      /\ file' \in {file, next} /\ UNCHANGED <<asked, approvals, proven, public>>
    BY <1>1, <1>2, <1>3, <1>4, Publication
<1>6. Requested'
    BY <1>1, <1>5 DEF Requested, NoIntent
<1>7. Signed'
    BY <1>1, <1>4, <1>5 DEF Signed, Usable, Types, NoIntent
<1>8. Resolved'
    BY <1>1, <1>3, <1>4, <1>5 DEF Resolved, JournalReopens
<1>9. Opened' /\ Proven'
    BY <1>4, <1>5 DEF Opened, Proven
<1> QED
    BY <1>5, <1>6, <1>7, <1>8, <1>9

\* A saved intent is asked for once by a worker.
LEMMA AskKeeps ==
    ASSUME CoordinatorInv, NEW p \in Processes, resumeAuthorization(p) \/ askOwner(p)
    PROVE  CoordinatorInv'
<1> USE DEF CoordinatorInv
<1>1. /\ pc[p] = "owner" /\ worker[p].step \in {"opened", "staged"}
      /\ worker[p].cmd \in Preparing /\ Op(p) \in Operations
      /\ Held(p) = file /\ file.intent.op = Op(p) /\ file.intent \in Intent
    BY DEF resumeAuthorization, askOwner, AtStep, HolderIsCurrent, Asking, Types, File
<1>2. PICK step \in {"staged", "asking"} :
        /\ worker' = [worker EXCEPT ![p].step = step]
        /\ step = "staged" => asked' = asked
        /\ step = "asking" => /\ worker[p].step = "staged"
                              /\ asked' = asked \cup {[by |-> p, intent |-> file.intent]}
    BY <1>1 DEF resumeAuthorization, askOwner, GoOn, AtStep
<1>3. UNCHANGED <<vars, file, approvals, proven, public>>
    BY DEF resumeAuthorization, askOwner
<1>4. /\ worker' \in [Processes -> Work]
      /\ \A q \in Processes : q # p => worker'[q] = worker[q]
      /\ worker'[p].step = step
      /\ worker'[p].cmd = worker[p].cmd /\ worker'[p].op = worker[p].op
      /\ worker'[p].held = worker[p].held /\ worker'[p].observed = worker[p].observed
    BY <1>2 DEF Types, Work
<1>5. LeaseInv' /\ pc' = pc
    BY <1>3, LeaseStep DEF vars
<1>6. asked' \subseteq [by : Processes, intent : Intent]
    BY <1>1, <1>2 DEF Types
<1>7. Types'
    BY <1>3, <1>4, <1>6 DEF Types
<1>8. Owning' /\ HolderIsCurrent' /\ Asking' /\ Answered' /\ Observed'
    BY <1>1, <1>2, <1>3, <1>4, <1>5
       DEF Owning, HolderIsCurrent, Asking, Answered, Observed, Held, Op
<1>9. Requested'
    BY <1>1, <1>2, <1>3 DEF Requested
<1>10. AskedOnce'
    <2> SUFFICES ASSUME NEW m \in asked'
                 PROVE  /\ pc'[m.by] \in {"owner", "closed", "dead"}
                        /\ pc'[m.by] = "owner" => worker'[m.by].step \in {"asking", "approved", "done"}
                        /\ worker'[m.by].step = "asking" => m.intent = worker'[m.by].held.intent
        BY DEF AskedOnce, Held
    <2>1. CASE m \in asked
        BY <1>1, <1>4, <1>5, <2>1 DEF AskedOnce, Types, Held
    <2>2. CASE m \notin asked
        <3>1. m.by = p /\ m.intent = file.intent /\ step = "asking"
            BY <1>2, <2>2
        <3> QED
            BY <1>1, <1>4, <1>5, <3>1 DEF Held
    <2> QED
        BY <2>1, <2>2
<1>11. Signed' /\ Resolved' /\ Opened' /\ Proven'
    BY <1>3 DEF Signed, Usable, Resolved, JournalReopens, Opened, Proven
<1> QED
    BY <1>5, <1>7, <1>8, <1>9, <1>10, <1>11

\* A candidate takes the place of the intent that the owner signed.
LEMMA PrepareKeeps ==
    ASSUME CoordinatorInv, NEW p \in Processes, prepareCandidate(p)
    PROVE  CoordinatorInv'
<1> USE CoordinatorAssumption DEF CoordinatorInv
<1>1. /\ pc[p] = "owner" /\ worker[p].step = "approved" /\ Held(p) = file /\ file \in File
      /\ Op(p) \in Operations /\ file.intent.op = Op(p) /\ worker[p].nonce \in Workers
      /\ Op(p) \in DOMAIN approvals
      /\ approvals[Op(p)] = [intent |-> file.intent, nonce |-> worker[p].nonce]
    BY DEF prepareCandidate, AtStep, HolderIsCurrent, Types, Asking, Answered, Preparing, Work
<1>2. file.pending = NoCall /\ Op(p) \notin completed(file.state)
    BY <1>1 DEF Resolved, JournalReopens, NoIntent
<1> DEFINE call == [op |-> Op(p), salt |-> file.intent.salt, nonce |-> worker[p].nonce]
           next == [file EXCEPT !.intent = NoIntent, !.pending = call]
<1>3. publish(p, next, "done")
    BY <1>1 DEF prepareCandidate
<1>4. call \in Call /\ call.op = Op(p) /\ call # NoCall /\ NoIntent \in Intent
    BY <1>1 DEF Call, Ids, Workers, File, Intent, NoCall, NoIntent
<1>5. call = [op |-> approvals[Op(p)].intent.op, salt |-> approvals[Op(p)].intent.salt,
              nonce |-> approvals[Op(p)].nonce]
    BY <1>1
<1> HIDE DEF call
<1>6. /\ next \in File /\ next.state = file.state /\ next.intent = NoIntent
      /\ next.pending = call /\ next.clock = file.clock
    BY <1>1, <1>4 DEF File
<1> HIDE DEF next
<1>7. /\ LeaseInv' /\ Types' /\ Owning' /\ HolderIsCurrent' /\ Asking' /\ Answered'
      /\ AskedOnce' /\ Observed'
      /\ file' \in {file, next} /\ UNCHANGED <<asked, approvals, proven, public>>
    BY <1>1, <1>3, <1>6, Publication
<1>8. Requested'
    BY <1>1, <1>7 DEF Requested
<1>9. Signed'
    <2> SUFFICES ASSUME NEW op \in DOMAIN approvals, file' = next
                 PROVE  approvals[op].intent.op = op /\ Usable(approvals[op])'
        BY <1>7 DEF Signed, Usable
    <2>1. approvals[op].intent.op = op /\ Usable(approvals[op]) /\ op \in Operations
        BY DEF Signed, Types
    <2>2. CASE op = Op(p)
        BY <1>5, <1>6, <1>7, <2>1, <2>2 DEF Usable
    <2>3. CASE op # Op(p)
        BY <1>1, <1>2, <1>6, <1>7, <2>1, <2>3 DEF Usable, NoCall
    <2> QED
        BY <2>2, <2>3
<1>10. Resolved'
    BY <1>1, <1>2, <1>4, <1>6, <1>7 DEF Resolved, JournalReopens
<1>11. Opened' /\ Proven'
    BY <1>2, <1>6, <1>7 DEF Opened, Proven
<1> QED
    BY <1>7, <1>8, <1>9, <1>10, <1>11

\* Only the candidate is proved, from the state it starts from.
LEMMA ProveKeeps ==
    ASSUME CoordinatorInv, NEW p \in Processes, proveRestored(p)
    PROVE  CoordinatorInv'
<1> USE CoordinatorAssumption DEF CoordinatorInv
<1>1. /\ pc[p] = "owner" /\ Held(p) = file /\ file \in File /\ worker[p].step = "opened"
      /\ Op(p) \in Operations /\ file.pending.op = Op(p)
    BY DEF proveRestored, AtStep, HolderIsCurrent, Types, Asking, Preparing
<1>2. /\ worker' = [worker EXCEPT ![p].step = "done"]
      /\ proven' = proven \cup {[before |-> file.state, call |-> file.pending]}
      /\ UNCHANGED <<vars, file, asked, approvals, public>>
    BY <1>1 DEF proveRestored, GoOn
<1>3. /\ worker' \in [Processes -> Work]
      /\ \A q \in Processes : q # p => worker'[q] = worker[q]
      /\ worker'[p].step = "done"
      /\ worker'[p].cmd = worker[p].cmd /\ worker'[p].op = worker[p].op
      /\ worker'[p].observed = worker[p].observed
    BY <1>2 DEF Types, Work
<1>4. LeaseInv' /\ pc' = pc
    BY <1>2, LeaseStep DEF vars
<1>5. Types'
    BY <1>1, <1>2, <1>3 DEF Types, File
<1>6. Owning' /\ HolderIsCurrent' /\ Asking' /\ Answered' /\ Observed'
    BY <1>1, <1>2, <1>3, <1>4
       DEF Owning, HolderIsCurrent, Asking, Answered, Observed, Held, Op
<1>7. AskedOnce'
    BY <1>2, <1>3, <1>4 DEF Types, AskedOnce, Held
<1>8. Requested' /\ Signed' /\ Resolved' /\ Opened'
    BY <1>2 DEF Requested, Signed, Usable, Resolved, JournalReopens, Opened
<1>9. Proven'
    BY <1>1, <1>2 DEF Proven, NoCall
<1> QED
    BY <1>4, <1>5, <1>6, <1>7, <1>8, <1>9

\* What is confirmed is the candidate, as the ledger shows it.
LEMMA ConfirmKeeps ==
    ASSUME CoordinatorInv, NEW p \in Processes, confirm(p)
    PROVE  CoordinatorInv'
<1> USE CoordinatorAssumption DEF CoordinatorInv
<1>1. /\ pc[p] = "owner" /\ Held(p) = file /\ file \in File /\ worker[p].step = "opened"
      /\ Op(p) \in Operations /\ file.pending.op = Op(p)
      /\ worker[p].observed = file.state \cup {file.pending}
    BY DEF confirm, Confirmable, AtStep, HolderIsCurrent, Types, Asking, Preparing
<1>2. file.pending # NoCall
    BY <1>1 DEF NoCall
<1>3. /\ public = file.state \cup {file.pending}
      /\ Op(p) \notin completed(file.state) /\ file.intent = NoIntent
    BY <1>1, <1>2 DEF Opened, Observed, Resolved, JournalReopens, completed
<1>4. file.pending \notin file.state
    BY <1>1, <1>3 DEF completed
<1> DEFINE next == [file EXCEPT !.state = public, !.pending = NoCall]
<1>5. publish(p, next, "done")
    BY <1>1, <1>3 DEF confirm
<1>6. NoCall \in Call
    BY DEF NoCall, Call, Ids, Workers
<1>7. /\ next \in File /\ next.state = public /\ next.intent = file.intent
      /\ next.pending = NoCall /\ next.clock = file.clock
    BY <1>1, <1>6 DEF File, Types
<1> HIDE DEF next
<1>8. /\ LeaseInv' /\ Types' /\ Owning' /\ HolderIsCurrent' /\ Asking' /\ Answered'
      /\ AskedOnce' /\ Observed'
      /\ file' \in {file, next} /\ UNCHANGED <<asked, approvals, proven, public>>
    BY <1>1, <1>5, <1>7, Publication
<1>9. Requested'
    BY <1>7, <1>8 DEF Requested
<1>10. Signed'
    <2> SUFFICES ASSUME NEW op \in DOMAIN approvals, file' = next
                 PROVE  approvals[op].intent.op = op /\ Usable(approvals[op])'
        BY <1>8 DEF Signed, Usable
    <2>1. approvals[op].intent.op = op /\ Usable(approvals[op])
        BY DEF Signed
    <2> QED
        BY <1>3, <1>7, <1>8, <2>1 DEF Usable
<1>11. Resolved'
    BY <1>1, <1>3, <1>7, <1>8 DEF Resolved, JournalReopens, completed
<1>12. Opened'
    BY <1>2, <1>3, <1>7, <1>8 DEF Opened
<1>13. Proven'
    BY <1>2, <1>3, <1>4, <1>7, <1>8 DEF Proven
<1> QED
    BY <1>8, <1>9, <1>10, <1>11, <1>12, <1>13

-----------------------------------------------------------------------------
\* The first signature of an operation is for the intent of the journal.
LEMMA ApproveKeeps ==
    ASSUME CoordinatorInv, NEW m \in asked, approve(m)
    PROVE  CoordinatorInv'
<1> USE CoordinatorAssumption DEF CoordinatorInv
<1> DEFINE o == m.intent.op
           p == m.by
<1>1. m \in [by : Processes, intent : Intent] /\ o \in Operations /\ p \in Processes
    BY DEF Types, Requested
<1>2. /\ approvals' = signed(m) /\ asked' = asked \ {m} /\ signs(m.intent)
      /\ UNCHANGED <<vars, file, proven, public>>
    BY DEF approve
<1>3. /\ DOMAIN approvals' = DOMAIN approvals \cup {o}
      /\ \A op \in DOMAIN approvals : approvals'[op] = approvals[op]
      /\ approvals'[o].intent = m.intent
      /\ approvals'[o] \in [intent : Intent, nonce : Processes]
      /\ o \notin DOMAIN approvals => m.intent = file.intent
    BY <1>1, <1>2 DEF signed, signs, Types, Requested
<1>4. /\ worker' \in [Processes -> Work]
      /\ \A q \in Processes : q # p => worker'[q] = worker[q]
      /\ \/ worker'[p] = worker[p]
         \/ /\ pc[p] = "owner" /\ worker[p].cmd \in Preparing
            /\ worker[p].step = "asking" /\ worker'[p].step = "approved"
            /\ worker'[p].nonce = approvals'[o].nonce
            /\ worker'[p].cmd = worker[p].cmd /\ worker'[p].op = worker[p].op
            /\ worker'[p].held = worker[p].held
            /\ worker'[p].observed = worker[p].observed
    <2>1. approvals'[o].nonce \in Workers
        BY <1>3 DEF Workers
    <2>2. CASE worker' = worker
        BY <2>2 DEF Types
    <2>3. CASE worker' # worker
        <3>1. /\ AtStep(p, Preparing, "asking")
              /\ worker' = [worker EXCEPT ![p].step = "approved", ![p].nonce = approvals'[o].nonce]
            BY <2>3 DEF approve
        <3> QED
            BY <1>1, <2>1, <3>1 DEF Types, Work, AtStep
    <2> QED
        BY <2>2, <2>3
<1>5. LeaseInv' /\ pc' = pc
    BY <1>2, LeaseStep DEF vars
<1>6. Types'
    <2>1. asked' \subseteq asked
        BY <1>2
    <2>2. DOMAIN approvals' \subseteq Operations
        BY <1>1, <1>3 DEF Types
    <2>3. \A op \in DOMAIN approvals' : approvals'[op] \in [intent : Intent, nonce : Processes]
        BY <1>3 DEF Types
    <2> QED
        BY <1>2, <1>4, <2>1, <2>2, <2>3 DEF Types
<1>7. Owning' /\ HolderIsCurrent' /\ Asking' /\ Observed'
    BY <1>1, <1>2, <1>4, <1>5 DEF Owning, HolderIsCurrent, Asking, Observed, Held, Op
<1>8. Answered'
    <2> SUFFICES ASSUME NEW q \in Processes, worker'[q].step = "approved"
                 PROVE  /\ worker'[q].op \in DOMAIN approvals'
                        /\ approvals'[worker'[q].op] =
                              [intent |-> worker'[q].held.intent, nonce |-> worker'[q].nonce]
        BY DEF Answered, Held, Op
    <2>1. CASE worker'[q] = worker[q]
        BY <1>3, <2>1 DEF Answered, Held, Op
    <2>2. CASE worker'[q] # worker[q]
        <3>1. /\ q = p /\ worker[p].step = "asking" /\ worker'[p].nonce = approvals'[o].nonce
              /\ worker'[p].op = worker[p].op /\ worker'[p].held = worker[p].held
            BY <1>4, <2>2
        <3>2. m.intent = worker[p].held.intent /\ worker[p].op = o
            BY <1>1, <3>1 DEF AskedOnce, Asking, Held, Op
        <3>3. approvals'[o] = [intent |-> m.intent, nonce |-> approvals'[o].nonce]
            BY <1>3
        <3> QED
            BY <1>3, <3>1, <3>2, <3>3
    <2> QED
        BY <2>1, <2>2
<1>9. Requested'
    BY <1>2, <1>3 DEF Requested
<1>10. AskedOnce'
    BY <1>1, <1>2, <1>4, <1>5 DEF AskedOnce, Types, Held
<1>11. Signed'
    <2> SUFFICES ASSUME NEW op \in DOMAIN approvals'
                 PROVE  approvals'[op].intent.op = op /\ Usable(approvals[op])'
        BY DEF Signed
    <2>1. CASE op \in DOMAIN approvals
        BY <1>2, <1>3, <2>1 DEF Signed, Usable
    <2>2. CASE op \notin DOMAIN approvals
        BY <1>2, <1>3, <2>2 DEF Usable
    <2> QED
        BY <2>1, <2>2
<1>12. Resolved' /\ Opened' /\ Proven'
    BY <1>2 DEF Resolved, JournalReopens, Opened, Proven
<1> QED
    BY <1>5, <1>6, <1>7, <1>8, <1>9, <1>10, <1>11, <1>12

\* A request that is refused or lost leaves the intent where it is.
LEMMA DenyKeeps ==
    ASSUME CoordinatorInv, NEW m \in asked, deny(m)
    PROVE  CoordinatorInv'
<1> USE DEF CoordinatorInv
<1>1. asked' = asked \ {m} /\ UNCHANGED <<vars, file, worker, approvals, proven, public>>
    BY DEF deny
<1>2. LeaseInv' /\ pc' = pc
    BY <1>1, LeaseStep DEF vars
<1>3. Types' /\ Requested' /\ AskedOnce'
    BY <1>1, <1>2 DEF Types, Requested, AskedOnce, Held
<1>4. Owning' /\ HolderIsCurrent' /\ Asking' /\ Answered' /\ Observed'
    BY <1>1, <1>2 DEF Owning, HolderIsCurrent, Asking, Answered, Observed, Held, Op
<1>5. Signed' /\ Resolved' /\ Opened' /\ Proven'
    BY <1>1 DEF Signed, Usable, Resolved, JournalReopens, Opened, Proven
<1> QED
    BY <1>2, <1>3, <1>4, <1>5

\* The ledger takes the candidate, or nothing: a transaction that was proved for
\* an older state does not apply.
LEMMA ApplyKeeps ==
    ASSUME CoordinatorInv, NEW t \in proven, applyTransaction(t)
    PROVE  CoordinatorInv'
<1> USE DEF CoordinatorInv
<1>1. /\ public = t.before /\ public' = public \cup {t.call}
      /\ UNCHANGED <<vars, file, worker, asked, approvals, proven>>
    BY DEF applyTransaction
<1>2. public = file.state /\ file.pending # NoCall /\ t.call = file.pending
    BY <1>1 DEF Opened, Proven, Resolved, completed
<1>3. LeaseInv' /\ pc' = pc
    BY <1>1, LeaseStep DEF vars
<1>4. Types'
    BY <1>1 DEF Types
<1>5. Owning' /\ HolderIsCurrent' /\ Asking' /\ Answered' /\ AskedOnce'
    BY <1>1, <1>3 DEF Owning, HolderIsCurrent, Asking, Answered, AskedOnce, Held, Op
<1>6. Requested' /\ Signed' /\ Resolved' /\ Proven'
    BY <1>1 DEF Requested, Signed, Usable, Resolved, JournalReopens, Proven
<1>7. Opened'
    BY <1>1, <1>2 DEF Opened
<1>8. Observed'
    BY <1>1 DEF Observed
<1> QED
    BY <1>3, <1>4, <1>5, <1>6, <1>7, <1>8

-----------------------------------------------------------------------------
\* Every step keeps the invariant.
LEMMA CoordinatorStep ==
    CoordinatorInv /\ [CoordinatorNext]_coordinatorVars => CoordinatorInv'
<1> SUFFICES ASSUME CoordinatorInv, [CoordinatorNext]_coordinatorVars PROVE CoordinatorInv'
    OBVIOUS
<1>1. ASSUME NEW p \in Processes, takeLease(p) \/ closeJournal(p) \/ killWorker(p)
      PROVE  CoordinatorInv'
    BY <1>1, LeaseKeeps, EndKeeps
<1>2. ASSUME NEW p \in Processes, WorkerStep(p)
      PROVE  CoordinatorInv'
    BY <1>2, OpenKeeps, RecordsKeep, StageKeeps, AskKeeps, PrepareKeeps, ProveKeeps, ConfirmKeeps
       DEF WorkerStep, Ids
<1>3. ASSUME NEW m \in asked, approve(m) \/ deny(m)
      PROVE  CoordinatorInv'
    BY <1>3, ApproveKeeps, DenyKeeps
<1>4. ASSUME NEW t \in proven, applyTransaction(t)
      PROVE  CoordinatorInv'
    BY <1>4, ApplyKeeps
<1>5. ASSUME UNCHANGED coordinatorVars
      PROVE  CoordinatorInv'
    <2>1. LeaseInv' /\ pc' = pc
        BY <1>5, LeaseStep DEF coordinatorVars, vars, CoordinatorInv
    <2> QED
        BY <1>5, <2>1
           DEF coordinatorVars, records, CoordinatorInv, Types, Owning, HolderIsCurrent, Asking,
               Answered, Requested, AskedOnce, Signed, Usable, Resolved, JournalReopens, Observed,
               Opened, Proven, Held, Op
<1> QED
    BY <1>1, <1>2, <1>3, <1>4, <1>5 DEF CoordinatorNext

\* Every approval that the owner saved is for a request that the journal still
\* holds, prepared or executed (stageAuthorization before the owner is asked),
\* whatever workers were killed and whatever requests were signed late.
THEOREM SpecApprovalRecoverable == CoordinatorSpec => []ApprovalRecoverable
<1>1. CoordinatorInv => ApprovalRecoverable
    BY DEF CoordinatorInv, Signed, ApprovalRecoverable
<1> QED
    BY CoordinatorStart, CoordinatorStep, <1>1, PTL DEF CoordinatorSpec

\* The journal always opens the public ledger, and the ledger holds no operation
\* twice: confirm takes only the candidate, and prove only its predecessor.
THEOREM SpecPublicOpened == CoordinatorSpec => []PublicOpened
<1>1. CoordinatorInv => PublicOpened
    <2> SUFFICES ASSUME CoordinatorInv PROVE PublicOpened
        OBVIOUS
    <2> QED
        BY DEF CoordinatorInv, Resolved, completed, Opened, PublicOpened
<1> QED
    BY CoordinatorStart, CoordinatorStep, <1>1, PTL DEF CoordinatorSpec

\* A worker that goes on holds the record of the file: the lease that open takes
\* keeps every other publication out.
THEOREM SpecHolderIsCurrent == CoordinatorSpec => []HolderIsCurrent
<1>1. CoordinatorInv => HolderIsCurrent
    BY DEF CoordinatorInv
<1> QED
    BY CoordinatorStart, CoordinatorStep, <1>1, PTL DEF CoordinatorSpec

\* No publication leaves a record that open refuses: an intent keeps the clock,
\* excludes a candidate and is not completed.
THEOREM SpecJournalReopens == CoordinatorSpec => []JournalReopens
<1>1. CoordinatorInv => JournalReopens
    BY DEF CoordinatorInv, Resolved
<1> QED
    BY CoordinatorStart, CoordinatorStep, <1>1, PTL DEF CoordinatorSpec

\* At most one live worker owns the journal directory, also when several take
\* over from a dead one (openBound).
THEOREM CoordinatorLeaseExclusive == CoordinatorSpec => []LeaseExclusive
<1>1. CoordinatorInv => LeaseExclusive
    BY DEF CoordinatorInv, LeaseInv, Holders, LeaseExclusive
<1> QED
    BY CoordinatorStart, CoordinatorStep, <1>1, PTL DEF CoordinatorSpec

=============================================================================
