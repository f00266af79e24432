-------------------------- MODULE OwnerCoordinator --------------------------
(***************************************************************************)
(* The coordinator of a privately financed facility                        *)
(* (private-owner-coordinator.mjs): every command runs in a worker process *)
(* of its own, which takes the lease of the journal directory, reads the   *)
(* encrypted journal (private-finance-journal.mjs), and is killed when it  *)
(* takes too long.  The owner of the acting role signs in another process  *)
(* (approval-owner-service.mjs, durable-approval-signer.mjs).              *)
(*                                                                         *)
(* A financial state is the set of calls that led to it.  A call is named  *)
(* by its operation ID, by the worker that drew its salts and by the       *)
(* request that the owner signed first (the nonce of the approval).        *)
(***************************************************************************)
EXTENDS CheckoutLease, FiniteSets

CONSTANTS
    Operations, NoOperation,  \* operation IDs; each stands for one request
    MaxApprovals,             \* the owner's cost cap, one unit an operation
    MaxClock                  \* bound: synthetic time

ASSUME CoordinatorAssumption ==
    /\ NoOperation \notin Operations
    /\ MaxApprovals \in Nat /\ MaxClock \in Nat

VARIABLES
    file,       \* the journal's encrypted record
    worker,     \* per process: its command and how far it got
    asked,      \* approval requests on their way to the owner
    approvals,  \* the signer's saved answers, by operation
    proven,     \* transactions handed to the operator
    public      \* the public ledger: the state its commitments open to

records == <<file, worker, asked, approvals, proven, public>>
coordinatorVars == <<vars, records>>

Commands == {"initialize", "prepare", "restore", "prove", "confirm",
             "advanceSyntheticTime"}
NoIntent == [op |-> NoOperation, salt |-> Nobody, clock |-> 0]
NoCall == [op |-> NoOperation, salt |-> Nobody, nonce |-> Nobody]
\* made: the file exists; ready: its confirmed checkpoint is not null.
emptyRecord(made, ready) ==
    [made |-> made, ready |-> ready, state |-> {}, clock |-> 0,
     intent |-> NoIntent, pending |-> NoCall]
NoFile == emptyRecord(FALSE, FALSE)
NoWorker == [cmd |-> "none", op |-> NoOperation, step |-> "none", held |-> NoFile,
             nonce |-> Nobody, observed |-> {}]

CoordinatorInit ==
    /\ Init
    /\ file \in {NoFile, emptyRecord(TRUE, TRUE)}
    /\ worker = [p \in Processes |-> NoWorker]
    /\ asked = {}
    /\ approvals = [op \in {} |-> NoCall]
    /\ proven = {}
    /\ public = {}

Idle(p) == pc[p] = "owner" /\ worker[p].step = "none"
AtStep(p, cmds, step) ==
    pc[p] = "owner" /\ worker[p].cmd \in cmds /\ worker[p].step = step
Held(p) == worker[p].held
Op(p) == worker[p].op
GoOn(p, step) == worker' = [worker EXCEPT ![p].step = step]

\* The operations of a financial state (record.completed).
completed(state) == {call.op : call \in state}

-----------------------------------------------------------------------------
(* The journal *)

\* PrivateFinanceJournal.open.  The operator's command names an operation and
\* comes with the public state that the operator last saw.
openJournal(p, cmd, op) ==
    /\ Idle(p)
    /\ (cmd = "initialize") <=> ~file.made
    /\ (op = NoOperation) <=> (cmd \in {"initialize", "advanceSyntheticTime"})
    /\ worker' = [worker EXCEPT ![p] =
          [cmd |-> cmd, op |-> op, step |-> "opened", held |-> file, nonce |-> Nobody,
           observed |-> IF cmd \in {"prove", "confirm"} THEN public ELSE {}]]
    /\ UNCHANGED <<vars, file, asked, approvals, proven, public>>

\* #publish: the new record replaces the file, or the publication is uncertain
\* and the journal unavailable.
publish(p, next, step) ==
    /\ \/ /\ file' = next
          /\ worker' = [worker EXCEPT ![p].held = next, ![p].step = step]
       \/ file' \in {file, next} /\ GoOn(p, "done")
    /\ UNCHANGED <<vars, asked, approvals, proven, public>>

\* initialize: an empty record, then its first checkpoint.
createRecord(p) ==
    /\ AtStep(p, {"initialize"}, "opened") /\ ~Held(p).made
    /\ publish(p, [Held(p) EXCEPT !.made = TRUE], "opened")
initialize(p) ==
    /\ AtStep(p, {"initialize"}, "opened") /\ Held(p).made
    /\ publish(p, [Held(p) EXCEPT !.ready = TRUE], "done")

\* Mutant of mayAdvance: an authorization intent does not block the clock.
advancesUnderIntent(record) == record.ready /\ record.pending = NoCall

mayAdvance(record) ==
    record.ready /\ record.pending = NoCall /\ record.intent = NoIntent
advanceSyntheticTime(p) ==
    /\ AtStep(p, {"advanceSyntheticTime"}, "opened")
    /\ mayAdvance(Held(p)) /\ Held(p).clock < MaxClock
    /\ publish(p, [Held(p) EXCEPT !.clock = @ + 1], "done")

-----------------------------------------------------------------------------
(* A worker that prepares an operation, or restores it *)

Preparing == {"prepare", "restore"}

\* Unresolved work of another operation blocks this one; a completed operation
\* is answered without doing anything.
mayAuthorize(record, op) ==
    /\ record.ready /\ record.pending = NoCall
    /\ op \notin completed(record.state)

Intended(p) == [Held(p) EXCEPT !.intent =
                    [op |-> Op(p), salt |-> p, clock |-> Held(p).clock]]

\* Mutant of stageAuthorization: the owner is asked before the request is saved.
stagesInMemory(p) ==
    /\ AtStep(p, {"prepare"}, "opened")
    /\ mayAuthorize(Held(p), Op(p)) /\ Held(p).intent = NoIntent
    /\ worker' = [worker EXCEPT ![p].held = Intended(p), ![p].step = "staged"]
    /\ UNCHANGED <<vars, file, asked, approvals, proven, public>>

\* stageAuthorization: fresh salts, saved before the owner is asked ...
stageAuthorization(p) ==
    /\ AtStep(p, {"prepare"}, "opened")
    /\ mayAuthorize(Held(p), Op(p)) /\ Held(p).intent = NoIntent
    /\ publish(p, Intended(p), "staged")
\* ... or those that are saved already.
resumeAuthorization(p) ==
    /\ AtStep(p, Preparing, "opened")
    /\ mayAuthorize(Held(p), Op(p)) /\ Held(p).intent.op = Op(p)
    /\ GoOn(p, "staged")
    /\ UNCHANGED <<vars, file, asked, approvals, proven, public>>

\* approvalOwnerClient.approve
askOwner(p) ==
    /\ AtStep(p, Preparing, "staged")
    /\ asked' = asked \cup {[by |-> p, intent |-> Held(p).intent]}
    /\ GoOn(p, "asking")
    /\ UNCHANGED <<vars, file, approvals, proven, public>>

\* prepare: execution against the checkpoint gives the candidate, which is saved
\* in place of the intent.
prepareCandidate(p) ==
    /\ AtStep(p, Preparing, "approved")
    /\ publish(p, [Held(p) EXCEPT !.intent = NoIntent,
                     !.pending = [op |-> Op(p), salt |-> Held(p).intent.salt,
                                  nonce |-> worker[p].nonce]], "done")

\* prove: the saved candidate's transaction, for the public state it starts from.
proveRestored(p) ==
    /\ AtStep(p, {"prove"}, "opened")
    /\ Held(p).pending.op = Op(p)
    /\ worker[p].observed = Held(p).state
    /\ proven' = proven \cup {[before |-> Held(p).state, call |-> Held(p).pending]}
    /\ GoOn(p, "done")
    /\ UNCHANGED <<vars, file, asked, approvals, public>>

\* Mutant of Confirmable: the observed state is taken as it is.
confirmsAnyState(record, op, observed) == record.pending.op = op

\* confirm: only the candidate itself, as observed in public.
Confirmable(record, op, observed) ==
    record.pending.op = op /\ observed = record.state \cup {record.pending}
confirm(p) ==
    /\ AtStep(p, {"confirm"}, "opened")
    /\ Confirmable(Held(p), Op(p), worker[p].observed)
    /\ publish(p, [Held(p) EXCEPT !.state = worker[p].observed, !.pending = NoCall], "done")

-----------------------------------------------------------------------------
(* The owner: signs each operation once, and saves before it answers *)

signs(intent) ==
    IF intent.op \in DOMAIN approvals THEN approvals[intent.op].intent = intent
    ELSE Cardinality(DOMAIN approvals) < MaxApprovals

\* Mutant of signed: a retry is signed again, with a new nonce.
signedAgain(m) ==
    [op \in DOMAIN approvals \cup {m.intent.op} |->
        IF op = m.intent.op THEN [intent |-> m.intent, nonce |-> m.by] ELSE approvals[op]]

\* The answers after request m, whose operation keeps the first one.
signed(m) ==
    [op \in DOMAIN approvals \cup {m.intent.op} |->
        IF op \in DOMAIN approvals THEN approvals[op]
        ELSE [intent |-> m.intent, nonce |-> m.by]]

\* DurableApprovalSigner.approve.  The worker may be dead or have given up.
approve(m) ==
    /\ m \in asked /\ signs(m.intent)
    /\ approvals' = signed(m)
    /\ asked' = asked \ {m}
    /\ \/ UNCHANGED worker
       \/ /\ AtStep(m.by, Preparing, "asking")
          /\ worker' = [worker EXCEPT ![m.by].step = "approved",
                                      ![m.by].nonce = approvals'[m.intent.op].nonce]
    /\ UNCHANGED <<vars, file, proven, public>>

\* The policy refuses, also what it signed before, or the request is lost.
deny(m) ==
    /\ m \in asked
    /\ asked' = asked \ {m}
    /\ UNCHANGED <<vars, file, worker, approvals, proven, public>>

\* The operator applies a transaction; its predecessor must be the ledger's.
applyTransaction(t) ==
    /\ t \in proven /\ public = t.before
    /\ public' = public \cup {t.call}
    /\ UNCHANGED <<vars, file, worker, asked, approvals, proven>>

-----------------------------------------------------------------------------
\* The lease, by the same steps as for the checkout checkpoints.
takeLease(p) ==
    /\ \/ CreateLease(p) \/ LeaseExists(p) \/ WriteLease(p) \/ MakeGuard(p)
       \/ ReadLease(p) \/ RereadLease(p) \/ RemoveLease(p) \/ Refused(p)
    /\ UNCHANGED records

\* The command is answered, or anything in it throws: the journal is closed.
closeJournal(p) ==
    /\ Close(p)
    /\ worker' = [worker EXCEPT ![p] = NoWorker]
    /\ UNCHANGED <<file, asked, approvals, proven, public>>

\* coordinatorCommand's timer kills the worker, or it crashes.
killWorker(p) ==
    /\ Die(p)
    /\ worker' = [worker EXCEPT ![p] = NoWorker]
    /\ UNCHANGED <<file, asked, approvals, proven, public>>

WorkerStep(p) ==
    \/ \E cmd \in Commands, op \in Operations \cup {NoOperation} :
             openJournal(p, cmd, op)
    \/ createRecord(p) \/ initialize(p) \/ advanceSyntheticTime(p)
    \/ stageAuthorization(p) \/ resumeAuthorization(p) \/ askOwner(p)
    \/ prepareCandidate(p) \/ proveRestored(p) \/ confirm(p)

CoordinatorNext ==
    \/ \E p \in Processes :
          takeLease(p) \/ closeJournal(p) \/ killWorker(p) \/ WorkerStep(p)
    \/ \E m \in asked : approve(m) \/ deny(m)
    \/ \E t \in proven : applyTransaction(t)

CoordinatorSpec == CoordinatorInit /\ [][CoordinatorNext]_coordinatorVars

(***************************************************************************)
(* Properties                                                              *)
(***************************************************************************)
\* A worker that goes on works from the record in the file: nothing was
\* published between its read and its own publication, which would be lost.
HolderIsCurrent ==
    \A p \in Processes :
        pc[p] = "owner" /\ worker[p].step \notin {"none", "done"} => Held(p) = file

\* What the journal says of an operation's saved answer: executed, prepared
\* with exactly this answer, or still intended with exactly this request.
Usable(answer) ==
    LET call == [op |-> answer.intent.op, salt |-> answer.intent.salt,
                 nonce |-> answer.nonce]
    IN  \/ call \in file.state \cup {file.pending}
        \/ file.intent = answer.intent

\* An approval that counts against the owner's cap is never stranded: whenever a
\* worker is killed, and whenever its late request is signed after all, the
\* journal still holds the request the owner signed, so restore gets the same
\* answer (stageAuthorization before approve, "retry only the identical
\* operation").
ApprovalRecoverable == \A op \in DOMAIN approvals : Usable(approvals[op])

\* The journal opens the public ledger, by its checkpoint or by its pending
\* candidate ("retain the pending opening and reconcile"), and no operation is
\* executed twice, through every killed, repeated or late command.
PublicOpened ==
    /\ public \in {file.state, file.state \cup {file.pending}}
    /\ \A c, d \in public : c.op = d.op => c = d

\* open accepts the record it finds: an intent starts from the checkpoint, has
\* no candidate beside it, and is not completed.
JournalReopens ==
    file.intent # NoIntent =>
        /\ file.intent.clock = file.clock
        /\ file.pending = NoCall
        /\ file.intent.op \notin completed(file.state)
=============================================================================
