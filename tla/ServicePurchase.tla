-------------------------- MODULE ServicePurchase --------------------------
(***************************************************************************)
(* Buying an API service: tabs of the organization that drive one saved    *)
(* purchase (network.ts purchaseService, continueService, requoteService,  *)
(* cancelService, orders.ts) through the organization's account, and the   *)
(* supplier's server with its own journal, over one facility's ledger.     *)
(*                                                                         *)
(* A tab works from what it read before its last wait; the request ID it   *)
(* captured may have been replaced by another tab in the meantime.         *)
(***************************************************************************)
EXTENDS OrganizationAccount, SupplierJournal

VARIABLE client   \* every tab's run over the saved purchase

account == <<record, archived, lock, tx, fate, lapsed, late>>
serviceVars == <<vars, client, supplierVars>>

\* settled: the captured replacementEvidence; known: the supplier's quote.
Client == [pc : {"idle", "ask", "quote", "buy", "link", "claim", "payout", "replace"},
           rid : Requests \cup {0}, settled : BOOLEAN, known : BOOLEAN]
Idle == [pc |-> "idle", rid |-> 0, settled |-> FALSE, known |-> FALSE]

InitService ==
    /\ Init
    /\ InitSupplier
    /\ client = [t \in Tabs |-> Idle]

At(t, pc) == client[t].pc = pc
Rid(t) == client[t].rid
Goto(t, pc) == client' = [client EXCEPT ![t].pc = pc]
Stop(t) == client' = [client EXCEPT ![t] = Idle]

order == snapshot.order

(***************************************************************************)
(* orders.ts                                                               *)
(***************************************************************************)
\* Mutant of Active: any open attempt will do.
anyAttempt(r) == order.state = "open"

\* activeServiceOrder
Active(r) == order.state = "open" /\ order.rid = r

\* serviceOrderNote, for the request of the order: its claim, linked or not.
OrderNote(known) ==
    IF order.rid # 0 /\ (order.quoted \/ known \/ order.note # 0)
    THEN snapshot.notes[order.rid].id ELSE 0

\* requireReplaceableOrder
Replaceable(known, settled) ==
    /\ OrderNote(known) # 0 => settled
    /\ order.note # 0 => OrderNote(known) # 0

(***************************************************************************)
(* The tabs.  Each edit is one section under the account lock.             *)
(***************************************************************************)
EditOrder(new) == Edit([snapshot EXCEPT !.order = new])

\* purchaseService: the request is saved before the supplier is asked.
SaveOrder(t) ==
    /\ At(t, "idle") /\ lock.tab # t
    /\ order.state = "none"
    /\ \E r \in Requests :
          /\ \A q \in Requests : r <= q
          /\ EditOrder([NoOrder EXCEPT !.state = "open", !.rid = r])
          /\ client' = [client EXCEPT ![t] = [Idle EXCEPT !.pc = "ask", !.rid = r]]
    /\ UNCHANGED supplierVars

\* continueService.  The tab reads its memory of the record, which another tab
\* may have replaced since: that is a read here and a wait before the next step.
Continue(t) ==
    /\ At(t, "idle") /\ lock.tab # t
    /\ order.state = "open"
    /\ client' = [client EXCEPT ![t] = [Idle EXCEPT !.pc = "ask", !.rid = order.rid]]
    /\ UNCHANGED <<vars, supplierVars>>

\* POST orders, admitted by the server; its answer may be lost.
AskQuote(t) ==
    /\ At(t, "ask")
    /\ Admit("postQuote", Rid(t))
    /\ Goto(t, "quote") \/ Stop(t)
    /\ UNCHANGED vars

\* The supplier's quote package arrived: bind it to the order.
SaveQuote(t) ==
    /\ At(t, "quote")
    /\ orders[Rid(t)] \notin {"none", "created"}
    /\ Active(Rid(t))
    /\ EditOrder([order EXCEPT !.quoted = TRUE])
    /\ Goto(t, IF snapshot.notes[Rid(t)].id = 0 THEN "buy" ELSE "link")
    /\ UNCHANGED supplierVars

\* purchase with its binding: a retained claim, or a new draw.
Buy(t) ==
    /\ At(t, "buy")
    /\ Free
    /\ Active(Rid(t)) /\ order.quoted
    /\ \/ /\ snapshot.notes[Rid(t)].id # 0
          /\ Goto(t, "link")
          /\ UNCHANGED vars
       \/ /\ Draw(t, Rid(t), [Drawn(snapshot, Rid(t)) EXCEPT !.order.note = NextOp])
          /\ UNCHANGED client
    /\ UNCHANGED supplierVars

\* The draw of `purchase` is final: continueService goes on with its claim.
BuyCompleted(t) ==
    /\ Complete(t)
    /\ IF At(t, "buy") /\ pending.call.circuit = "draw" THEN Goto(t, "link") ELSE Stop(t)
    /\ UNCHANGED supplierVars

LinkClaim(t) ==
    /\ At(t, "link")
    /\ Active(Rid(t))
    /\ EditOrder([order EXCEPT !.note = snapshot.notes[Rid(t)].id])
    /\ Goto(t, "claim")
    /\ UNCHANGED supplierVars

\* POST the claim for redemption.
SubmitClaim(t) ==
    /\ At(t, "claim")
    /\ Admit("redeemDraw", Rid(t))
    /\ Goto(t, "payout") \/ Stop(t)
    /\ UNCHANGED vars

\* The service was delivered and the payout is on the ledger.
SaveDelivery(t) ==
    /\ At(t, "payout")
    /\ orders[Rid(t)] = "delivered"
    /\ Claim(Rid(t)).state = "redeemed"
    /\ Active(Rid(t))
    /\ Edit([snapshot EXCEPT !.order.state = "delivered", !.notes[Rid(t)].redeemed = TRUE])
    /\ Stop(t)
    /\ UNCHANGED supplierVars

\* The claim of the attempt is refunded, in the record and on the ledger.
Settled(r) == snapshot.notes[r].refund = "paid" /\ Claim(r).state = "settled"

\* replacementEvidence: what the supplier and the ledger say of the claim.
GatherEvidence(t) ==
    /\ At(t, "idle") /\ lock.tab # t
    /\ order.state = "open"
    /\ \E known \in BOOLEAN :
          /\ known => orders[order.rid] \notin {"none", "created"}
          /\ ~known => order.quoted \/ orders[order.rid] \in {"none", "created"}
          /\ client' = [client EXCEPT ![t] =
                [pc |-> "replace", rid |-> order.rid, known |-> known,
                 settled |-> OrderNote(known) # 0 /\ Settled(order.rid)]]
    /\ UNCHANGED <<vars, supplierVars>>

MayReplace(t) ==
    /\ At(t, "replace")
    /\ Active(Rid(t))
    /\ Replaceable(client[t].known, client[t].settled)

CancelService(t) ==
    /\ MayReplace(t)
    /\ EditOrder([order EXCEPT !.state = "cancelled"])
    /\ Stop(t)
    /\ UNCHANGED supplierVars

\* A fresh request ID; quote and claim of the retired attempt are unlinked.
RequoteService(t) ==
    /\ MayReplace(t)
    /\ order.rid + 1 \in Requests
    /\ EditOrder([NoOrder EXCEPT !.state = "open", !.rid = order.rid + 1])
    /\ client' = [client EXCEPT ![t] = [Idle EXCEPT !.pc = "ask", !.rid = order.rid + 1]]
    /\ UNCHANGED supplierVars

\* Any wait or check fails, or the page is closed.
Abandon(t) ==
    /\ ~At(t, "idle") /\ lock.tab # t
    /\ Stop(t)
    /\ UNCHANGED <<vars, supplierVars>>

\* The other sections of the account, as the tab runs them.
AccountStep(t) ==
    /\ \/ (Submitted(t) \/ Send(t)) /\ client' =
            [client EXCEPT ![t] = IF lock' = Unlocked THEN Idle ELSE @]
       \/ (Refused(t) \/ Unsent(t) \/ RejectFinalized(t) \/ RetainPartial(t)
              \/ GiveUp(t) \/ CrashHolding(t)) /\ Stop(t)
       \/ (Reconcile(t) \/ Resubmit(t) \/ ArchiveExpired(t) \/ ClaimRecovery(t))
              /\ At(t, "idle") /\ UNCHANGED client
    /\ UNCHANGED supplierVars

TabStep(t) ==
    \/ SaveOrder(t) \/ Continue(t) \/ AskQuote(t) \/ SaveQuote(t) \/ Buy(t)
    \/ BuyCompleted(t) \/ LinkClaim(t) \/ SubmitClaim(t) \/ SaveDelivery(t)
    \/ GatherEvidence(t) \/ CancelService(t) \/ RequoteService(t) \/ Abandon(t)
    \/ AccountStep(t)

(***************************************************************************)
(* The supplier and the network.                                           *)
(***************************************************************************)
ledgerAccepts(k) ==
    IF k[1] = "postQuote"
    THEN k[2] \notin ledger.quotes \cup late
    ELSE Claim(k[2]).state = "live" /\ k[2] \notin late

SupplierExecutes(k) ==
    /\ ledgerAccepts(k)
    /\ Finalize(k, "succeeded")
    /\ ledger' = IF k[1] = "postQuote"
                 THEN [ledger EXCEPT !.quotes = @ \cup {k[2]}]
                 ELSE [ledger EXCEPT !.claims[k[2]].state = "redeemed"]
    /\ UNCHANGED <<account, client>>

SupplierMiscarries(k) ==
    /\ \E f \in {"failed", "lost"} : Finalize(k, f)
    /\ UNCHANGED <<vars, client>>

\* The supplier sets the deadline of a quote when it creates the order.
ExpireQuote(r) ==
    /\ orders[r] # "none"
    /\ Expire(r)
    /\ UNCHANGED <<client, supplierVars>>

NextService ==
    \/ \E t \in Tabs : TabStep(t)
    \/ SupplierStep /\ UNCHANGED <<vars, client>>
    \/ \E k \in Operations : SupplierExecutes(k) \/ SupplierMiscarries(k)
    \/ \E i \in Ops : (Include(i) \/ Lapse(i)) /\ UNCHANGED <<client, supplierVars>>
    \/ \E r \in Requests : ExpireQuote(r)

SpecService == InitService /\ [][NextService]_serviceVars

(***************************************************************************)
(* Properties                                                              *)
(***************************************************************************)
\* Claims that cost the organization money: drawn and not fully refunded.
Charged == {r \in Requests : Claim(r).id # 0 /\ Claim(r).state # "settled"}

\* Requests with a draw that may still be charged.
Drawing == IF IsPending /\ pending.call.circuit = "draw" THEN {pending.call.rid} ELSE {}

\* One saved purchase is charged at most once, and a cancelled one never, through
\* every retry, requote, lost answer and second tab: a charge, made or under way,
\* belongs to the attempt the order names, since an attempt is retired only when
\* its claim is settled (requireReplaceableOrder, activeServiceOrder).
ChargedOnce ==
    \A r \in Charged \cup Drawing : r = order.rid /\ order.state # "cancelled"

\* A service counts as delivered only after its payout, on both sides.
DeliveredIsPaid ==
    /\ order.state = "delivered" =>
          Claim(order.rid).state = "redeemed" /\ orders[order.rid] = "delivered"
    /\ \A r \in Requests : orders[r] = "delivered" => Claim(r).state = "redeemed"
=============================================================================
