------------------------ MODULE OrganizationAccount ------------------------
(***************************************************************************)
(* The durable account of an organization: one encrypted record per wallet *)
(* that every tab of the browser reloads under a Web Lock (account.ts),    *)
(* and the transactions that OrganizationNetwork prepares, proves, saves,  *)
(* sends and settles through it (network.ts, transactions.ts, finality.ts).*)
(*                                                                         *)
(* One facility with one line generation.  Every purchase costs one unit;  *)
(* a book of the line is named after the operation that proved it (its     *)
(* salt is fresh), and so is a claim.  A request has at most one quote;    *)
(* quote and claim share one expiry.  Operations without effect on books   *)
(* and claims (reserve, registrations, status, deployment, keys) go        *)
(* through the same steps and are represented by none of their own.        *)
(***************************************************************************)
EXTENDS ServiceRequests, FiniteSets

CONSTANTS Tabs, NoTab,
          MaxOps,     \* bound: signed transactions of the account
          Limit       \* the allowance of the line

ASSUME AccountAssumption ==
    /\ NoTab \notin Tabs
    /\ MaxOps \in Nat
    /\ Limit \in Nat

Ops == 1 .. MaxOps
OpenBook == 0                 \* the book of openLine

VARIABLES
    record,    \* the encrypted record: its committed Snapshot and its Pending operation
    archived,  \* operations in the record's recovery history
    lock,      \* the tab that holds the account lock, and its step, one of Steps
    tx,        \* what the bytes of every signed transaction say, a Call each
    fate,      \* what became of every signed transaction, one of Fates
    lapsed,    \* signed transactions whose intents have expired
    ledger,    \* the facility on the ledger: book, quotes and claims
    late       \* requests whose quote and claim have expired

vars == <<record, archived, lock, tx, fate, lapsed, ledger, late>>
chain == <<fate, lapsed, ledger, late>>

Note == [id : 0 .. MaxOps, redeemed : BOOLEAN, expiryRecorded : BOOLEAN,
         refund : {"none", "owed", "paid"}]
Order == [state : {"none", "open", "delivered", "cancelled"},
          rid : Requests \cup {0}, quoted : BOOLEAN, note : 0 .. MaxOps]
Snapshot == [book : 0 .. MaxOps, outstanding : 0 .. Limit,
             notes : [Requests -> Note], order : Order]
Call == [circuit : {"none", "draw", "expire", "compensate", "refund", "repay"},
         rid : Requests \cup {0}, note : 0 .. MaxOps, book : 0 .. MaxOps,
         cash : BOOLEAN]
Pending == [id : 0 .. MaxOps, call : Call, after : Snapshot, signed : BOOLEAN]
Fates == {"none", "signed", "pooled", "succeeded", "failed", "partial"}
Steps == {"free", "proving", "signed", "waiting"}

NoNote == [id |-> 0, redeemed |-> FALSE, expiryRecorded |-> FALSE, refund |-> "none"]
NoOrder == [state |-> "none", rid |-> 0, quoted |-> FALSE, note |-> 0]
NoCall == [circuit |-> "none", rid |-> 0, note |-> 0, book |-> 0, cash |-> FALSE]
Fresh == [book |-> OpenBook, outstanding |-> 0,
          notes |-> [r \in Requests |-> NoNote], order |-> NoOrder]
NoPending == [id |-> 0, call |-> NoCall, after |-> Fresh, signed |-> FALSE]
Unlocked == [tab |-> NoTab, step |-> "free"]

Init ==
    /\ record = [snapshot |-> Fresh, pending |-> NoPending]
    /\ archived = {}
    /\ lock = Unlocked
    /\ tx = [i \in Ops |-> NoCall]
    /\ fate = [i \in Ops |-> "none"]
    /\ lapsed = {}
    /\ ledger = [book |-> OpenBook, quotes |-> {},
                 claims |-> [r \in Requests |-> [id |-> 0, state |-> "none"]]]
    /\ late = {}

snapshot == record.snapshot
pending == record.pending
IsPending == pending.id # 0

(***************************************************************************)
(* The circuits, on the part of the facility's state kept here.            *)
(***************************************************************************)
Claim(r) == ledger.claims[r]

\* The assertions of a circuit against the present ledger.
Accepts(c) ==
    CASE c.circuit = "draw" ->
            /\ c.rid \in ledger.quotes \ late
            /\ Claim(c.rid).id = 0
            /\ c.book = ledger.book
      [] c.circuit = "expire" ->
            /\ Claim(c.rid) = [id |-> c.note, state |-> "live"]
            /\ c.rid \in late
      [] c.circuit = "compensate" ->
            /\ Claim(c.rid).id = c.note
            /\ Claim(c.rid).state \in {"live", "expired"}
            /\ c.rid \in late
            /\ c.book = ledger.book
      [] c.circuit = "refund" -> Claim(c.rid) = [id |-> c.note, state |-> "allocated"]
      [] c.circuit = "repay" -> c.book = ledger.book
      [] OTHER -> FALSE

\* The ledger after transaction i executed.
Executed(i) ==
    LET c == tx[i]
        become(s, k) == [ledger.claims EXCEPT ![c.rid] = [id |-> k, state |-> s]]
    IN  [ledger EXCEPT
            !.book = IF c.circuit \in {"draw", "compensate", "repay"} THEN i ELSE @,
            !.claims =
                CASE c.circuit = "draw" -> become("live", i)
                  [] c.circuit = "expire" -> become("expired", c.note)
                  [] c.circuit = "compensate" ->
                        become(IF c.cash THEN "allocated" ELSE "settled", c.note)
                  [] c.circuit = "refund" -> become("settled", c.note)
                  [] OTHER -> @]

(***************************************************************************)
(* The network: a sent transaction executes, fails entirely or in part, or *)
(* stays out of every block until its intents expire.                      *)
(***************************************************************************)
Include(i) ==
    /\ fate[i] = "pooled"
    /\ i \notin lapsed
    /\ \/ Accepts(tx[i]) /\ fate' = [fate EXCEPT ![i] = "succeeded"] /\ ledger' = Executed(i)
       \/ fate' = [fate EXCEPT ![i] = "failed"] /\ UNCHANGED ledger
       \/ fate' = [fate EXCEPT ![i] = "partial"] /\ UNCHANGED ledger
    /\ UNCHANGED <<record, archived, lock, tx, lapsed, late>>

Lapse(i) ==
    /\ fate[i] \in {"signed", "pooled"}
    /\ lapsed' = lapsed \cup {i}
    /\ UNCHANGED <<record, archived, lock, tx, fate, ledger, late>>

\* Ledger time passes the deadline of a request's quote and claim.
Expire(r) ==
    /\ r \notin late
    /\ late' = late \cup {r}
    /\ UNCHANGED <<record, archived, lock, tx, fate, lapsed, ledger>>

(***************************************************************************)
(* Sections under the account lock.  `exclusive` takes the lock only if it *)
(* is free, checks wallet and session, and reloads the durable record.     *)
(***************************************************************************)
Free == lock = Unlocked

\* edit: one commit, refused while an operation is pending.
Edit(after) ==
    /\ Free
    /\ ~IsPending
    /\ record' = [snapshot |-> after, pending |-> NoPending]
    /\ UNCHANGED <<archived, lock, tx, chain>>

\* The next operation: an unsigned candidate leaves no trace but its name.
NextOp == 1 + Cardinality({i \in Ops : fate[i] # "none"})

Candidate(c, after) == [id |-> NextOp, call |-> c, after |-> after, signed |-> FALSE]

\* operation: prepare saves call and candidate before proof and signature.
Prepare(t, c, after) ==
    /\ Free
    /\ ~IsPending
    /\ NextOp \in Ops
    /\ record' = [record EXCEPT !.pending = Candidate(c, after)]
    /\ lock' = [tab |-> t, step |-> "proving"]
    /\ UNCHANGED <<archived, tx, chain>>

\* replenish
Repay(t) ==
    /\ snapshot.outstanding > 0
    /\ Prepare(t, [NoCall EXCEPT !.circuit = "repay", !.book = snapshot.book],
               [snapshot EXCEPT !.outstanding = @ - 1, !.book = NextOp])

\* purchase, without the retained note: debt, book and note of the draw.
Drawn(s, r) == [s EXCEPT !.outstanding = @ + 1, !.book = NextOp,
                         !.notes[r] = [NoNote EXCEPT !.id = NextOp]]

Draw(t, r, after) ==
    /\ snapshot.notes[r].id = 0
    /\ snapshot.outstanding < Limit
    /\ Prepare(t, [NoCall EXCEPT !.circuit = "draw", !.rid = r, !.book = snapshot.book], after)

\* recordClaimExpiry
RecordExpiry(t, r) ==
    LET n == snapshot.notes[r] IN
    /\ n.id # 0 /\ n.refund = "none" /\ ~n.redeemed /\ ~n.expiryRecorded
    /\ Claim(r) = [id |-> n.id, state |-> "live"]
    /\ Prepare(t, [NoCall EXCEPT !.circuit = "expire", !.rid = r, !.note = n.id],
               [snapshot EXCEPT !.notes[r].expiryRecorded = TRUE])

\* Mutant of refundAfter: a cash refund counts as paid when it is allocated.
refundPaidAtOnce(credit) == "paid"

\* What is left of the claim's cost, one unit, after crediting the debt.
refundAfter(credit) == IF credit = 1 THEN "paid" ELSE "owed"

\* cancelExpired: credit what is still owed, the rest becomes a cash refund.
Compensate(t, r) ==
    LET n == snapshot.notes[r]
        credit == IF snapshot.outstanding < 1 THEN snapshot.outstanding ELSE 1
    IN  /\ n.id # 0 /\ n.refund = "none"
        /\ Prepare(t, [circuit |-> "compensate", rid |-> r, note |-> n.id,
                       book |-> snapshot.book, cash |-> credit = 0],
                   [snapshot EXCEPT !.outstanding = @ - credit, !.book = NextOp,
                        !.notes[r].refund = refundAfter(credit)])

\* refund
Refund(t, r) ==
    /\ snapshot.notes[r].refund = "owed"
    /\ Prepare(t, [NoCall EXCEPT !.circuit = "refund", !.rid = r,
                                 !.note = snapshot.notes[r].id],
               [snapshot EXCEPT !.notes[r].refund = "paid"])

(***************************************************************************)
(* The rest of an operation.                                               *)
(***************************************************************************)
\* Proof, balance or approval failed or timed out: discardUnsubmitted.
Refused(t) ==
    /\ lock = [tab |-> t, step |-> "proving"]
    /\ record' = [record EXCEPT !.pending = NoPending]
    /\ lock' = Unlocked
    /\ UNCHANGED <<archived, tx, chain>>

\* submitted: identifier and bytes are saved before anything is sent.
Submitted(t) ==
    /\ lock = [tab |-> t, step |-> "proving"]
    /\ Accepts(pending.call)
    /\ record' = [record EXCEPT !.pending.signed = TRUE]
    /\ tx' = [tx EXCEPT ![pending.id] = pending.call]
    /\ fate' = [fate EXCEPT ![pending.id] = "signed"]
    /\ lock' = [lock EXCEPT !.step = "signed"]
    /\ UNCHANGED <<archived, lapsed, ledger, late>>

\* The bytes reach the network; the acknowledgement may not reach the tab.
Deliver(t, i) ==
    /\ i \notin lapsed
    /\ fate' = [fate EXCEPT ![i] = IF @ = "signed" THEN "pooled" ELSE @]
    /\ lock' \in {[tab |-> t, step |-> "waiting"], Unlocked}

Send(t) ==
    /\ lock = [tab |-> t, step |-> "signed"]
    /\ Deliver(t, pending.id)
    /\ UNCHANGED <<record, archived, tx, lapsed, ledger, late>>

\* submitTx throws before the wallet sent anything, or the TTL has passed.
Unsent(t) ==
    /\ lock = [tab |-> t, step |-> "signed"]
    /\ lock' = Unlocked
    /\ UNCHANGED <<record, archived, tx, chain>>

\* finish, on a finalized receipt of the saved identifier.
Finished(t, outcome) ==
    /\ lock = [tab |-> t, step |-> "waiting"]
    /\ fate[pending.id] = outcome
    /\ lock' = Unlocked
    /\ UNCHANGED <<archived, tx, chain>>

Complete(t) ==
    /\ Finished(t, "succeeded")
    /\ record' = [snapshot |-> pending.after, pending |-> NoPending]

RejectFinalized(t) ==
    /\ Finished(t, "failed")
    /\ record' = [record EXCEPT !.pending = NoPending]

RetainPartial(t) == Finished(t, "partial") /\ UNCHANGED record

\* Mutant of GiveUp: there is no deadline.
waitsForReceipt(t) ==
    /\ lock = [tab |-> t, step |-> "waiting"] /\ fate[pending.id] # "pooled"
    /\ lock' = Unlocked
    /\ UNCHANGED <<record, archived, tx, chain>>

\* The finality deadline passes; the saved operation stays pending.
GiveUp(t) ==
    /\ lock = [tab |-> t, step |-> "waiting"]
    /\ lock' = Unlocked
    /\ UNCHANGED <<record, archived, tx, chain>>

\* Mutant of mayDiscard: a signed operation that was never sent is dropped too.
discardsSigned(p) == ~p.signed \/ fate[p.id] = "signed"

\* discardUnsubmitted: nothing of the operation was ever signed.
mayDiscard(p) == ~p.signed

\* reconcile
Reconcile(t) ==
    /\ Free
    /\ IsPending
    /\ IF mayDiscard(pending)
       THEN record' = [record EXCEPT !.pending = NoPending] /\ UNCHANGED lock
       ELSE lock' = [tab |-> t, step |-> "waiting"] /\ UNCHANGED record
    /\ UNCHANGED <<archived, tx, chain>>

\* resubmitOriginal: the same bytes again, while their intents are alive.
Resubmit(t) ==
    /\ Free
    /\ pending.signed
    /\ Deliver(t, pending.id)
    /\ UNCHANGED <<record, archived, tx, lapsed, ledger, late>>

\* Mutant of provesNotApplied: an unapplied effect is enough, expired or not.
observesNotApplied(p) ==
    /\ Claim(p.call.rid) = [id |-> p.call.note, state |-> "live"]
    /\ ledger.book = p.call.book

\* recoverExpiredCompensation: the finalized state, read after every intent
\* has expired, still shows the claim unallocated and the old book.
provesNotApplied(p) ==
    /\ p.id \in lapsed
    /\ ~p.call.cash
    /\ Claim(p.call.rid) = [id |-> p.call.note, state |-> "live"]
    /\ ledger.book = p.call.book

ArchiveExpired(t) ==
    /\ Free
    /\ pending.signed
    /\ pending.call.circuit = "compensate"
    /\ provesNotApplied(pending)
    /\ record' = [record EXCEPT !.pending = NoPending]
    /\ archived' = archived \cup {pending.id}
    /\ UNCHANGED <<lock, tx, chain>>

\* The tab is closed, or its vault session ends between two awaits.
CrashHolding(t) ==
    /\ lock.tab = t
    /\ lock' = Unlocked
    /\ UNCHANGED <<record, archived, tx, chain>>

Progress(t) ==
    \/ Refused(t) \/ Submitted(t) \/ Send(t) \/ Unsent(t)
    \/ Complete(t) \/ RejectFinalized(t) \/ RetainPartial(t) \/ GiveUp(t)

Recover(t) == Reconcile(t) \/ Resubmit(t) \/ ArchiveExpired(t) \/ CrashHolding(t)

ClaimRecovery(t) ==
    \/ Repay(t)
    \/ \E r \in Requests : RecordExpiry(t, r) \/ Compensate(t, r) \/ Refund(t, r)

Network ==
    \/ \E i \in Ops : Include(i) \/ Lapse(i)
    \/ \E r \in Requests : Expire(r)

(***************************************************************************)
(* The account on its own: merchants post quotes and redeem live claims on *)
(* the ledger, and the organization buys from any posted quote.            *)
(***************************************************************************)
MerchantPosts(r) ==
    /\ r \notin ledger.quotes \cup late
    /\ ledger' = [ledger EXCEPT !.quotes = @ \cup {r}]
    /\ UNCHANGED <<record, archived, lock, tx, fate, lapsed, late>>

MerchantRedeems(r) ==
    /\ Claim(r).state = "live"
    /\ r \notin late
    /\ ledger' = [ledger EXCEPT !.claims[r].state = "redeemed"]
    /\ UNCHANGED <<record, archived, lock, tx, fate, lapsed, late>>

Purchase(t, r) ==
    /\ r \in ledger.quotes
    /\ Draw(t, r, Drawn(snapshot, r))

Next ==
    \/ \E t \in Tabs :
          \/ Progress(t) \/ Recover(t) \/ ClaimRecovery(t)
          \/ \E r \in Requests : Purchase(t, r)
    \/ \E r \in Requests : MerchantPosts(r) \/ MerchantRedeems(r)
    \/ Network

Spec == Init /\ [][Next]_vars

(***************************************************************************)
(* Fairness: every wait under the lock has a deadline (25 s reads, 300 s   *)
(* proofs, 180 s approval, 30 s submission, 45 s finality), after which    *)
(* the section throws and the browser releases the lock.  Nothing is       *)
(* assumed of the wallet, the network or the user.                         *)
(***************************************************************************)
TimesOut(t) == Refused(t) \/ Unsent(t) \/ GiveUp(t)

FairSpec == Spec /\ \A t \in Tabs : WF_vars(TimesOut(t))

(***************************************************************************)
(* Properties                                                              *)
(***************************************************************************)
\* A transaction that may still execute is the one saved as pending: whatever
\* the tabs do (network.ts operation, reconcile, resubmitOriginal, recovery),
\* no second payment can be prepared beside it.
NoOrphanTransaction ==
    \A i \in Ops \ lapsed :
        fate[i] \in {"signed", "pooled"} => pending.signed /\ pending.id = i

\* matchesRestoredFacility and matchesRestoredNotes, for a snapshot.
Matches(s) ==
    /\ s.book = ledger.book
    /\ \A r \in Requests : LET n == s.notes[r] IN
          n.id # 0 =>
             /\ Claim(r).id = n.id
             /\ n.expiryRecorded => Claim(r).state \in {"expired", "allocated", "settled"}
             /\ n.redeemed => Claim(r).state = "redeemed"
             /\ CASE n.refund = "none" -> Claim(r).state \notin {"allocated", "settled"}
                  [] n.refund = "owed" -> Claim(r).state = "allocated"
                  [] n.refund = "paid" -> Claim(r).state = "settled"

\* The record always opens the facility, by its snapshot or by its pending
\* candidate, so a backup of the present record can be restored (recovery.ts).
BackupRestorable == Matches(snapshot) \/ (IsPending /\ Matches(pending.after))

\* An operation archived as expired and not applied (archiveExpired...) never
\* executes afterwards.
ArchivedNeverApplied == \A i \in archived : fate[i] \in {"signed", "pooled"}

\* Whoever holds the account lock lets go of it, although the wallet, the
\* prover or the indexer may never answer (finality.ts withinDeadline).
LockReleased == \A t \in Tabs : lock.tab = t ~> lock.tab # t
=============================================================================
