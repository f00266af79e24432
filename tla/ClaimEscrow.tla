----------------------------- MODULE ClaimEscrow ----------------------------
(***************************************************************************)
(* What a facility's reserve promises, without its seven counters: an      *)
(* escrow that backs every claim, one by one, out of one capital.  A claim *)
(* is promised only against free capital and then ends in one way: paid to *)
(* its merchant, or expired and then either released (the debt was         *)
(* credited) or owed back in cash and settled.  What a claim holds cannot  *)
(* be withdrawn or promised to another claim.                              *)
(***************************************************************************)
EXTENDS Totals

CONSTANTS
    MaxUint64,
    RefundsInKind   \* TRUE: a cash refund is paid out of the capital

VARIABLES
    capital,        \* what the issuer has put in and not taken out
    earned,         \* fees of paid claims that the issuer has not collected
    claims          \* claim -> [principal, fee, state]

vars == <<capital, earned, claims>>

States == {"live", "paid", "expired", "owed", "settled", "released"}

\* What a claim keeps locked in the capital.
hold(c) ==
    CASE c.state = "paid" -> c.principal
      [] c.state \in {"live", "expired", "owed"} -> c.principal + c.fee
      [] c.state = "settled" -> IF RefundsInKind THEN 0 ELSE c.principal + c.fee
      [] c.state = "released" -> 0

Held == TotalOf(DOMAIN claims, [c \in DOMAIN claims |-> hold(claims[c])], MaxUint64)
          + earned

Init ==
    /\ capital = 0
    /\ earned = 0
    /\ claims = [c \in {} |-> 0]

Fund ==
    /\ capital' > capital
    /\ UNCHANGED <<earned, claims>>

Withdraw ==
    /\ capital' < capital
    /\ Held <= capital'
    /\ UNCHANGED <<earned, claims>>

CollectFees ==
    /\ earned > 0
    /\ capital' = capital - earned
    /\ earned' = 0
    /\ UNCHANGED claims

Promise ==
    \E c \in DOMAIN claims' \ DOMAIN claims :
        /\ claims'[c].state = "live"
        /\ claims'[c].principal + claims'[c].fee <= capital - Held
        /\ claims' = Insert(claims, c, claims'[c])
        /\ UNCHANGED <<capital, earned>>

Move(c, from, to) ==
    /\ claims[c].state \in from
    /\ claims' = [claims EXCEPT ![c].state = to]

Pay(c) ==
    /\ Move(c, {"live"}, "paid")
    /\ earned' = earned + claims[c].fee
    /\ UNCHANGED capital

Expire(c) ==
    /\ \/ Move(c, {"live"}, "expired")
       \/ Move(c, {"live", "expired"}, "owed")
       \/ Move(c, {"live", "expired"}, "released")
    /\ UNCHANGED <<capital, earned>>

\* A cash refund of at most what the claim holds.
Settle(c) ==
    /\ Move(c, {"owed"}, "settled")
    /\ IF RefundsInKind
       THEN capital' \in (capital - hold(claims[c]))..(capital - 1)
       ELSE UNCHANGED capital
    /\ UNCHANGED earned

Next ==
    \/ Fund \/ Withdraw \/ CollectFees \/ Promise
    \/ \E c \in DOMAIN claims : Pay(c) \/ Expire(c) \/ Settle(c)

Spec == Init /\ [][Next]_vars
=============================================================================
