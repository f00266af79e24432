-------------------------- MODULE ConsoleJournal --------------------------
(***************************************************************************)
(* The console's durable operation journal: browser tabs that prepare,     *)
(* submit and settle contract operations through an encrypted record they  *)
(* share (operation-journal.ts), the recovery that reads the chain before  *)
(* another intent may start (reconcile-console.ts), the mutation wrapper   *)
(* and the unlock of the store (store.ts), and the submission hook of the  *)
(* network runtime.                                                        *)
(*                                                                         *)
(* A private state is abstracted to the book it opens.  Book i is the      *)
(* candidate of operation i (a fresh salt makes every candidate new), 0 is *)
(* "no line", and Foreign a book written from another device.              *)
(*                                                                         *)
(* The twelve circuits fall in three kinds, by the evidence that can later *)
(* tell whether they happened: a bookTransition moves the line commitment, *)
(* expireNote leaves a public effect that anyone else may also produce,    *)
(* and an aggregate call can be identified by its receipt only.            *)
(***************************************************************************)
EXTENDS Integers, Sequences, FiniteSets

CONSTANTS Tabs, NoTab, MAX_JOURNAL_OPERATIONS

ASSUME JournalAssumption ==
    /\ NoTab \notin Tabs
    /\ MAX_JOURNAL_OPERATIONS \in Nat \ {0}

Ids == 1 .. MAX_JOURNAL_OPERATIONS
Foreign == MAX_JOURNAL_OPERATIONS + 1
Books == 0 .. Foreign
Kinds == {"bookTransition", "expireNote", "aggregate"}

VARIABLES
    ops,         \* the encrypted journal: the sequence of its operations
    mirror,      \* the book of the legacy `agent-line` record of the vault
    lease,       \* the tab that owns the Web Lock of the journal, or NoTab
    tab,         \* the volatile state of every tab: [Tabs -> Tab]
    lineCommit,  \* the line commitment on the ledger
    cancelled,   \* whether the note is cancelled on the ledger
    tx           \* what became of the transaction of every operation

vars == <<ops, mirror, lease, tab, lineCommit, cancelled, tx>>
chain == <<lineCommit, cancelled, tx>>

Operation == [kind : Kinds,
              status : {"prepared", "submitting", "uncertain", "confirmed", "rejected"},
              acknowledged : BOOLEAN,
              transactionId : BOOLEAN,     \* TRUE once the journal holds the ID
              witness : Books,             \* the book the call was proved with
              snapshot : SUBSET Books]     \* its candidate; {} once compacted

Tab == [pc : {"idle", "waitLock", "reconcile", "settle", "restored", "loadMirror",
              "ready", "prepared", "marked", "proved", "recorded", "submitted",
              "confirmed", "mirrored"},
        unlocked : BOOLEAN,                \* the vault session of the tab
        revoked : BOOLEAN,                 \* it changed since the action began
        memory : Books,                    \* the book of the in-memory store
        goal : Kinds \cup {"unlock"},
        finding : {"none", "receiptSuccess", "receiptFailure", "observed"}]

Locked == [pc |-> "idle", unlocked |-> FALSE, revoked |-> FALSE, memory |-> 0,
           goal |-> "unlock", finding |-> "none"]

Init ==
    /\ ops = <<>>
    /\ mirror = 0
    /\ lease = NoTab
    /\ tab = [t \in Tabs |-> Locked]
    /\ lineCommit = 0
    /\ cancelled = FALSE
    /\ tx = [i \in Ids |-> "none"]

-----------------------------------------------------------------------------
(* The journal record *)

Unresolved(op) == op.status \in {"submitting", "uncertain"}
Settled(op) == op.status = "rejected" \/ (op.status = "confirmed" /\ op.acknowledged)

Pending(record) == {i \in DOMAIN record : record[i].status = "prepared" \/ Unresolved(record[i])}

confirmedIds(record) == {i \in DOMAIN record : record[i].status = "confirmed"}

latestConfirmedOperation(record) ==
    {i \in confirmedIds(record) : \A j \in confirmedIds(record) : j <= i}

compactsLatest(record, i) == Settled(record[i])
compactable(record, i) ==
    i \notin latestConfirmedOperation(record) /\ Settled(record[i])

\* Every write drops the snapshots of the settled operations but the latest
\* confirmed one.
write(record) ==
    ops' = [i \in DOMAIN record |->
              IF compactable(record, i) THEN [record[i] EXCEPT !.snapshot = {}]
              ELSE record[i]]

current == Len(ops)

mayPrepare ==
    /\ \A i \in DOMAIN ops : Settled(ops[i])
    /\ Len(ops) < MAX_JOURNAL_OPERATIONS

-----------------------------------------------------------------------------
(* Tabs *)

Holds(t, pc) == lease = t /\ tab[t].pc = pc
\* assertCurrent: the session is the one the action began with.
assertCurrent(t) == ~tab[t].revoked
GoTo(t, pc) == tab' = [tab EXCEPT ![t].pc = pc]

AtRest(volatile) == [volatile EXCEPT !.pc = "idle", !.revoked = FALSE, !.goal = "unlock",
                                     !.finding = "none"]
Release(t) == lease' = IF lease = t THEN NoTab ELSE lease

\* The callback of withExclusive returned or threw: the lease is released.
Leave(t, volatile) == tab' = [tab EXCEPT ![t] = AtRest(volatile)] /\ Release(t)

\* unlockVault: the session is opened before anything is recovered.
BeginUnlock(t) ==
    /\ tab[t].pc = "idle" /\ ~tab[t].unlocked
    /\ tab' = [tab EXCEPT ![t] = [Locked EXCEPT !.pc = "waitLock", !.unlocked = TRUE]]
    /\ UNCHANGED <<ops, mirror, lease, chain>>

\* One of the thirteen do* actions is called.
BeginMutation(t, kind) ==
    /\ tab[t].pc = "idle" /\ tab[t].unlocked
    /\ tab' = [tab EXCEPT ![t].pc = "waitLock", ![t].goal = kind, ![t].revoked = FALSE]
    /\ UNCHANGED <<ops, mirror, lease, chain>>

AcquireLease(t) ==
    /\ tab[t].pc = "waitLock" /\ lease = NoTab /\ assertCurrent(t)
    /\ lease' = t
    /\ GoTo(t, "reconcile")
    /\ UNCHANGED <<ops, mirror, chain>>

\* The session is locked by the user, by its timer or by a disconnect: the
\* private state is wiped, and an action under way becomes stale.
LockVault(t) ==
    /\ tab[t].unlocked
    /\ tab' = [tab EXCEPT ![t].unlocked = FALSE, ![t].memory = 0,
                          ![t].revoked = (tab[t].pc # "idle")]
    /\ UNCHANGED <<ops, mirror, lease, chain>>

\* The tab is closed or reloaded: the browser releases its Web Lock.
Crash(t) ==
    /\ tab[t] # Locked
    /\ Leave(t, Locked)
    /\ UNCHANGED <<ops, mirror, chain>>

\* A revoked session, a failed vault write or read, or an unreachable indexer
\* throws out of the action; nothing more is recorded.
Throw(t) ==
    /\ tab[t].pc # "idle"
    /\ Leave(t, IF tab[t].goal = "unlock" THEN Locked ELSE tab[t])
    /\ UNCHANGED <<ops, mirror, chain>>

-----------------------------------------------------------------------------
(* reconcileConsole *)

\* An operation that never reached submission is dropped.
AbandonPrepared(t) ==
    /\ Holds(t, "reconcile") /\ assertCurrent(t)
    /\ \E i \in Pending(ops) :
          /\ ops[i].status = "prepared"
          /\ write([ops EXCEPT ![i].status = "rejected"])
    /\ UNCHANGED <<mirror, lease, tab, chain>>

\* getTransactionReceipt: only a finalized receipt of the recorded
\* transaction proves success or failure.
receiptFinding(i) ==
    CASE tx[i] = "succeeded" -> "receiptSuccess"
      [] tx[i] = "failed"    -> "receiptFailure"
      [] OTHER               -> "none"

ObserveReceipt(t) ==
    /\ Holds(t, "reconcile") /\ assertCurrent(t)
    /\ \E i \in Pending(ops) :
          /\ Unresolved(ops[i]) /\ ops[i].transactionId
          /\ receiptFinding(i) # "none"
          /\ tab' = [tab EXCEPT ![t].pc = "settle", ![t].finding = receiptFinding(i)]
    /\ UNCHANGED <<ops, mirror, lease, chain>>

openingMatches(i) == lineCommit \in ops[i].snapshot
candidateObserved(i) == ops[i].kind = "bookTransition" /\ lineCommit = i
effectObserved(i) == ops[i].kind = "expireNote" /\ cancelled

provesExecution(i) == openingMatches(i) /\ (candidateObserved(i) \/ effectObserved(i))

\* Without a receipt (none yet, or the six seconds of waiting ran out) the
\* public state is read.
ObserveEvidence(t) ==
    /\ Holds(t, "reconcile") /\ assertCurrent(t)
    /\ \E i \in Pending(ops) :
          /\ Unresolved(ops[i])
          /\ provesExecution(i)
          /\ tab' = [tab EXCEPT ![t].pc = "settle", ![t].finding = "observed"]
    /\ UNCHANGED <<ops, mirror, lease, chain>>

SettlePending(t) ==
    /\ Holds(t, "settle") /\ assertCurrent(t)
    /\ \E i \in Pending(ops) :
          write([ops EXCEPT ![i].status =
                   IF tab[t].finding = "receiptFailure" THEN "rejected" ELSE "confirmed"])
    /\ tab' = [tab EXCEPT ![t].pc = "reconcile", ![t].finding = "none"]
    /\ UNCHANGED <<mirror, lease, chain>>

\* A blocked mutation ends; an unlock goes on with the mirror records.
StopRecovery(t) ==
    IF tab[t].goal = "unlock" THEN GoTo(t, "loadMirror") /\ Release(t) ELSE Leave(t, tab[t])

\* Evidence that does not match blocks, and so does an indexer that cannot be
\* asked: both happen to a pending operation and to the latest confirmed one.
Blocked(t) ==
    /\ Holds(t, "reconcile") /\ assertCurrent(t)
    /\ \/ \E i \in Pending(ops) : Unresolved(ops[i])
       \/ Pending(ops) = {} /\ latestConfirmedOperation(ops) # {}
    /\ StopRecovery(t)
    /\ UNCHANGED <<ops, mirror, chain>>

\* A current snapshot is published, and written to the mirror by an unlock,
\* before it is acknowledged.
needsRestore(t, i) == ~ops[i].acknowledged \/ tab[t].goal = "unlock"

RestoreLatest(t) ==
    /\ Holds(t, "reconcile") /\ assertCurrent(t)
    /\ Pending(ops) = {}
    /\ \E i \in latestConfirmedOperation(ops) :
          /\ openingMatches(i)
          /\ needsRestore(t, i)
          /\ tab' = [tab EXCEPT ![t].pc = "restored", ![t].memory = lineCommit]
          /\ mirror' = IF tab[t].goal = "unlock" /\ lineCommit # 0 THEN lineCommit ELSE mirror
    /\ UNCHANGED <<ops, lease, chain>>

AcknowledgeRestored(t) ==
    /\ Holds(t, "restored") /\ assertCurrent(t)
    /\ \E i \in latestConfirmedOperation(ops) :
          write([ops EXCEPT ![i].acknowledged = TRUE])
    /\ IF tab[t].goal = "unlock" THEN Leave(t, tab[t])
       ELSE GoTo(t, "ready") /\ UNCHANGED lease
    /\ UNCHANGED <<mirror, chain>>

\* Nothing to restore: a mutation keeps the book it has in memory.
NothingToRestore(t) ==
    /\ Holds(t, "reconcile") /\ assertCurrent(t)
    /\ Pending(ops) = {}
    /\ \A i \in latestConfirmedOperation(ops) : openingMatches(i) /\ ~needsRestore(t, i)
    /\ IF tab[t].goal = "unlock" THEN StopRecovery(t)
       ELSE GoTo(t, "ready") /\ UNCHANGED lease
    /\ UNCHANGED <<ops, mirror, chain>>

LoadMirror(t) ==
    /\ tab[t].pc = "loadMirror" /\ assertCurrent(t)
    /\ Leave(t, [tab[t] EXCEPT !.memory = mirror])
    /\ UNCHANGED <<ops, mirror, chain>>

-----------------------------------------------------------------------------
(* journaledRuntime: prepare, submit, settle *)

\* The intent and its candidate are durable before anything is proved.  An
\* effect that is already public is refused.
Prepare(t) ==
    /\ Holds(t, "ready") /\ assertCurrent(t)
    /\ mayPrepare
    /\ ~(tab[t].goal = "expireNote" /\ cancelled)
    /\ write(Append(ops,
               [kind |-> tab[t].goal, status |-> "prepared", acknowledged |-> FALSE,
                transactionId |-> FALSE, witness |-> tab[t].memory,
                snapshot |-> {IF tab[t].goal = "bookTransition" THEN Len(ops) + 1
                              ELSE tab[t].memory}]))
    /\ GoTo(t, "prepared")
    /\ UNCHANGED <<mirror, lease, chain>>

MarkSubmitting(t) ==
    /\ Holds(t, "prepared") /\ assertCurrent(t)
    /\ write([ops EXCEPT ![current].status = "submitting"])
    /\ GoTo(t, "marked")
    /\ UNCHANGED <<mirror, lease, chain>>

\* The circuit runs against the public state; its assertions are those of the
\* contract.
accepts(i) ==
    CASE ops[i].kind = "bookTransition" -> ops[i].witness = lineCommit
      [] ops[i].kind = "expireNote"     -> ~cancelled
      [] OTHER                          -> TRUE

Prove(t) ==
    /\ Holds(t, "marked") /\ assertCurrent(t)
    /\ accepts(current)
    /\ GoTo(t, "proved")
    /\ UNCHANGED <<ops, mirror, lease, chain>>

\* beforeSubmit: the identifier of the transaction is durable before the
\* transaction leaves the tab.
RecordTransaction(t) ==
    /\ Holds(t, "proved") /\ assertCurrent(t)
    /\ write([ops EXCEPT ![current].transactionId = TRUE])
    /\ GoTo(t, "recorded")
    /\ UNCHANGED <<mirror, lease, chain>>

\* `attempted` is set before the call: what is lost on the way to the node
\* and what was accepted look the same from here on.
submittable(t) == assertCurrent(t)

Submit(t) ==
    /\ Holds(t, "recorded") /\ submittable(t)
    /\ \E fate \in {"pool", "dropped"} : tx' = [tx EXCEPT ![current] = fate]
    /\ GoTo(t, "submitted")
    /\ UNCHANGED <<ops, mirror, lease, lineCommit, cancelled>>

\* Proving failed, the wallet refused or the session was revoked before the
\* attempt: the operation is rejected, also without a session.
attemptSetAfterSubmit == {"marked", "proved", "recorded", "submitted"}
attemptPending == {"marked", "proved", "recorded"}

RejectUnattempted(t) ==
    /\ lease = t /\ tab[t].pc \in attemptPending
    /\ write([ops EXCEPT ![current].status = "rejected"])
    /\ Leave(t, tab[t])
    /\ UNCHANGED <<mirror, chain>>

ConfirmSubmitted(t) ==
    /\ Holds(t, "submitted")
    /\ tx[current] = "succeeded"
    /\ write([ops EXCEPT ![current].status = "confirmed"])
    /\ GoTo(t, "confirmed")
    /\ UNCHANGED <<mirror, lease, chain>>

anyFailureRejects(i) == tx[i] \notin {"succeeded", "pool"}
definitiveRejection(i) == tx[i] = "failed"

RejectSubmitted(t) ==
    /\ Holds(t, "submitted")
    /\ definitiveRejection(current)
    /\ write([ops EXCEPT ![current].status = "rejected"])
    /\ Leave(t, tab[t])
    /\ UNCHANGED <<mirror, chain>>

\* A lost response, a timeout or a partial receipt settles nothing.
MarkUncertain(t) ==
    /\ Holds(t, "submitted")
    /\ write([ops EXCEPT ![current].status = "uncertain"])
    /\ Leave(t, tab[t])
    /\ UNCHANGED <<mirror, chain>>

\* The action's own mirror writes, with the passphrase it began with; a
\* failure of theirs is swallowed.
SaveMirror(t) ==
    /\ Holds(t, "confirmed")
    /\ mirror' \in {mirror} \cup (IF ops[current].kind = "bookTransition" THEN {current} ELSE {})
    /\ GoTo(t, "mirrored")
    /\ UNCHANGED <<ops, lease, chain>>

AcknowledgeConfirmed(t) ==
    /\ Holds(t, "mirrored")
    /\ IF assertCurrent(t)
       THEN \E book \in ops[current].snapshot :
               /\ write([ops EXCEPT ![current].acknowledged = TRUE])
               /\ Leave(t, [tab[t] EXCEPT !.memory = book])
       ELSE Leave(t, tab[t]) /\ UNCHANGED ops
    /\ UNCHANGED <<mirror, chain>>

-----------------------------------------------------------------------------
(* The network *)

applyEffect(i) ==
    /\ accepts(i)
    /\ lineCommit' = IF ops[i].kind = "bookTransition" THEN i ELSE lineCommit
    /\ cancelled' = (cancelled \/ ops[i].kind = "expireNote")

Succeed(i) ==
    /\ tx[i] = "pool"
    /\ applyEffect(i)
    /\ tx' = [tx EXCEPT ![i] = "succeeded"]
    /\ UNCHANGED <<ops, mirror, lease, tab>>

\* FailEntirely, a partial success with or without the effect, or the loss of
\* the transaction.
Miscarry(i) ==
    /\ tx[i] = "pool"
    /\ \/ tx' = [tx EXCEPT ![i] = "partial"] /\ applyEffect(i)
       \/ /\ \E fate \in {"failed", "partial", "dropped"} : tx' = [tx EXCEPT ![i] = fate]
          /\ UNCHANGED <<lineCommit, cancelled>>
    /\ UNCHANGED <<ops, mirror, lease, tab>>

\* Anyone may cancel an expired note; the other party may move the book.
ExpireByOther ==
    /\ ~cancelled
    /\ cancelled' = TRUE
    /\ UNCHANGED <<ops, mirror, lease, tab, lineCommit, tx>>

MoveBookElsewhere ==
    /\ lineCommit \notin {0, Foreign}
    /\ lineCommit' = Foreign
    /\ UNCHANGED <<ops, mirror, lease, tab, cancelled, tx>>

Elsewhere == ExpireByOther \/ MoveBookElsewhere

Recovery(t) ==
    \/ AbandonPrepared(t) \/ ObserveReceipt(t) \/ ObserveEvidence(t) \/ SettlePending(t)
    \/ Blocked(t) \/ RestoreLatest(t) \/ AcknowledgeRestored(t)
    \/ NothingToRestore(t) \/ LoadMirror(t)

Submission(t) ==
    \/ Prepare(t) \/ MarkSubmitting(t) \/ Prove(t) \/ RecordTransaction(t) \/ Submit(t)
    \/ RejectUnattempted(t) \/ ConfirmSubmitted(t) \/ RejectSubmitted(t)
    \/ MarkUncertain(t) \/ SaveMirror(t) \/ AcknowledgeConfirmed(t)

Next ==
    \/ \E t \in Tabs :
          \/ BeginUnlock(t) \/ (\E kind \in Kinds : BeginMutation(t, kind))
          \/ AcquireLease(t) \/ LockVault(t) \/ Crash(t) \/ Throw(t)
          \/ Recovery(t) \/ Submission(t)
    \/ \E i \in Ids : Succeed(i) \/ Miscarry(i)
    \/ Elsewhere

Spec == Init /\ [][Next]_vars

-----------------------------------------------------------------------------
(* Properties *)

\* Every record the vault holds passes validateRecord when it is read back:
\* within its capacity, one operation at most awaits its settlement or
\* acknowledgement, and the latest confirmed one still has its recovery
\* snapshot.  A record that does not is refused as tampered, for ever.
JournalReadable ==
    /\ ops \in Seq(Operation) /\ Len(ops) <= MAX_JOURNAL_OPERATIONS
    /\ \A i, j \in DOMAIN ops : ~Settled(ops[i]) /\ ~Settled(ops[j]) => i = j
    /\ \A i \in latestConfirmedOperation(ops) : ops[i].snapshot # {}
    /\ \A i \in DOMAIN ops : ops[i].acknowledged => ops[i].status = "confirmed"

\* An operation the journal calls rejected was never executed and never will
\* be: its transaction was not submitted, or failed entirely (the disposition
\* "definitive-rejection" of the network runtime).
RejectedNeverHappens ==
    \A i \in DOMAIN ops : ops[i].status = "rejected" => tx[i] \in {"none", "failed"}

\* An operation the journal calls confirmed took effect: its own transaction
\* was executed, or the public effect it wanted is there.
ConfirmedHappened ==
    \A i \in DOMAIN ops : ops[i].status = "confirmed" =>
        \/ tx[i] = "succeeded"
        \/ ops[i].kind = "bookTransition" /\ tx[i] = "partial"
        \/ ops[i].kind = "expireNote" /\ cancelled

\* What the journal says of an operation, in either direction, is true.
JournalTruthful == RejectedNeverHappens /\ ConfirmedHappened

\* A new intent starts only when no earlier transaction can still change the
\* ledger, whichever tab submitted it and whatever became of that tab: no
\* action is executed twice because its first outcome was unknown.
EarlierOutcomesKnown ==
    \A i \in DOMAIN ops : i < Len(ops) /\ tx[i] = "pool" => ~accepts(i)

\* "A confirmed journal is the atomic private snapshot": as long as the line
\* holds a book of this journal, the journal can open it.
BookRecoverable ==
    lineCommit \in Ids => \E i \in DOMAIN ops : lineCommit \in ops[i].snapshot
=============================================================================
