------------------------- MODULE MirrorHostsProofs --------------------------
(***************************************************************************)
(* What TLAPS proves about the two programs on the mirror, for any prices, *)
(* fees, calls and steps of the demo:                                      *)
(*                                                                         *)
(* - the private records of the MCP server always open the ledger they     *)
(*   are stored with: the counters of a ledger are sums over its claims,   *)
(*   and stay in the range where doubles are exact; and since a call that  *)
(*   waits writes from what it read, what it read opens its ledger too;    *)
(* - the page's ledger implements the contract as long as its reserve has  *)
(*   been exact: the same sums say that no rounding and no cast of the     *)
(*   contract comes between a call of the mirror and its circuit, and the  *)
(*   entries, the book and the commitments have the contract's shape, so   *)
(*   every call is a step of LineContract.                                 *)
(***************************************************************************)
EXTENDS MirrorHosts, TotalsProofs

-----------------------------------------------------------------------------
(* Claims, ledgers and snapshots *)

\* A claim, and what of its budget each counter still holds.
live(n) == ~n.redeemed /\ ~n.cancelled
refundDue(n) == n.cancelled /\ (n.compensationAllocated => n.cashRefundOwed /\ ~n.refundAcknowledged)

encumberedBy(n) == IF live(n) THEN n.amount ELSE 0
feePendingFor(n) == IF live(n) THEN n.fee ELSE 0
refundFor(n) == IF refundDue(n) THEN cost(n) ELSE 0

NoteFields == {"amount", "fee", "redeemed", "cancelled", "expiry", "lineGeneration",
               "compensationAllocated", "refundCommitment", "cashRefundOwed",
               "refundAcknowledged", "refundPaymentNullifier"}
NoteOK(n, D) ==
    /\ DOMAIN n = NoteFields
    /\ n.amount \in 0..MaxSafe /\ n.fee \in 0..MaxSafe
    /\ n.redeemed \in BOOLEAN /\ n.cancelled \in BOOLEAN
    /\ n.compensationAllocated \in BOOLEAN /\ n.cashRefundOwed \in BOOLEAN
    /\ n.refundAcknowledged \in BOOLEAN
    /\ n.lineGeneration = D.lineGeneration
    /\ n.redeemed => ~n.cancelled
    /\ n.compensationAllocated => n.cancelled
    /\ n.refundAcknowledged => n.compensationAllocated
NotesOK(map) == IsFiniteSet(DOMAIN map) /\ \A D \in DOMAIN map : NoteOK(map[D], D)

Bound == 2 * MaxSafe
Sum(map, f) == TotalOf(DOMAIN map, f, Bound)
Encumbered(map) == Sum(map, [D \in DOMAIN map |-> encumberedBy(map[D])])
FeesPending(map) == Sum(map, [D \in DOMAIN map |-> feePendingFor(map[D])])
Refunds(map) == Sum(map, [D \in DOMAIN map |-> refundFor(map[D])])

LedgerFields == {"issuerPubKey", "registeredMerchants", "totalReserve", "encumberedReserve",
                 "redeemedReserve", "feeReserve", "pendingFeeReserve", "refundReserve",
                 "reportedRefundReserve", "feeFlat", "feeBps", "identityCommitment",
                 "lineCommitment", "lineExpiry", "status", "lineGeneration", "quotes",
                 "notes", "nullifiers"}

\* What is locked, without rounding.
locked(L) == L.encumberedReserve + L.redeemedReserve + L.feeReserve + L.pendingFeeReserve
                + L.refundReserve + L.reportedRefundReserve

\* Three counters are the sums of what they still hold, three only grow or are
\* paid out whole, and the reserve covers them and is an exact double.
CountersOK(L) ==
    /\ L.encumberedReserve = Encumbered(L.notes)
    /\ L.pendingFeeReserve = FeesPending(L.notes)
    /\ L.refundReserve = Refunds(L.notes)
    /\ L.redeemedReserve \in Nat /\ L.feeReserve \in Nat /\ L.reportedRefundReserve \in Nat
    /\ L.totalReserve \in Nat /\ L.totalReserve <= MaxSafe
    /\ locked(L) <= L.totalReserve
LedgerOK(L) == DOMAIN L = LedgerFields /\ NotesOK(L.notes) /\ CountersOK(L)

\* The agent's records and the merchants' open the ledger.
SnapshotFields == {"ledger", "agent", "invoices", "notes", "refunds"}
RefundOpens(s, D) ==
    LET n == s.ledger.notes[D]
    IN  /\ n.compensationAllocated =>
              /\ D \in DOMAIN s.refunds
              /\ n.refundCommitment = [note |-> D, amount |-> s.refunds[D].amount]
        /\ n.refundAcknowledged <=>
              D \in DOMAIN s.refunds /\ s.refunds[D].status = "issuer-reported"
        /\ n.refundAcknowledged => n.refundPaymentNullifier \in s.ledger.nullifiers
SnapshotOK(s) ==
    /\ DOMAIN s = SnapshotFields /\ LedgerOK(s.ledger)
    /\ s.agent = s.ledger.lineCommitment
    /\ s.invoices = DOMAIN s.ledger.quotes
    /\ s.notes = DOMAIN s.ledger.notes
    /\ DOMAIN s.refunds \subseteq s.notes
    /\ \A D \in DOMAIN s.refunds : DOMAIN s.refunds[D] = {"amount", "status"}
    /\ \A D \in s.notes : RefundOpens(s, D)

McpInv ==
    /\ readable => SnapshotOK(file)
    /\ DOMAIN waiting = Slots
    /\ \A slot \in Slots : waiting[slot] # None => SnapshotOK(waiting[slot].read)

-----------------------------------------------------------------------------
(* Sums over the claims *)

LEMMA Numbers == MaxSafe \in Nat /\ Bound \in Nat /\ MaxUint64 \in Nat /\ MaxSafe <= MaxUint64
BY MirrorNumbers DEF Bound

\* What a claim holds of a budget is a natural that a sum can count.
LEMMA Shares ==
    ASSUME NEW D, NEW n, NoteOK(n, D)
    PROVE  /\ n.amount \in Nat /\ n.fee \in Nat /\ cost(n) \in Nat
           /\ cost(n) = n.amount + n.fee
           /\ encumberedBy(n) \in 0..Bound /\ feePendingFor(n) \in 0..Bound
           /\ refundFor(n) \in 0..Bound
<1>1. /\ n.amount \in Nat /\ n.fee \in Nat /\ n.amount <= MaxSafe /\ n.fee <= MaxSafe
    BY Numbers DEF NoteOK
<1>2. n.amount + n.fee \in 0..Bound /\ n.amount \in 0..Bound /\ n.fee \in 0..Bound /\ 0 \in 0..Bound
    BY <1>1, Numbers DEF Bound
<1> QED
    BY <1>1, <1>2 DEF encumberedBy, feePendingFor, refundFor, cost

LEMMA SumsAreNaturals ==
    ASSUME NEW map, NotesOK(map)
    PROVE  Encumbered(map) \in Nat /\ FeesPending(map) \in Nat /\ Refunds(map) \in Nat
BY UnitsFinite, Numbers DEF NotesOK, Encumbered, FeesPending, Refunds, Sum

\* A claim moves: each sum changes by its share's difference.
LEMMA ClaimMoves ==
    ASSUME NEW map, NotesOK(map), NEW D \in DOMAIN map, NEW n, NoteOK(n, D),
           NEW map2, map2 = [map EXCEPT ![D] = n]
    PROVE  /\ NotesOK(map2)
           /\ Encumbered(map2) = Encumbered(map) - encumberedBy(map[D]) + encumberedBy(n)
           /\ FeesPending(map2) = FeesPending(map) - feePendingFor(map[D]) + feePendingFor(n)
           /\ Refunds(map2) = Refunds(map) - refundFor(map[D]) + refundFor(n)
<1>1. /\ DOMAIN map2 = DOMAIN map /\ map2[D] = n
      /\ \A x \in DOMAIN map \ {D} : map2[x] = map[x]
      /\ IsFiniteSet(DOMAIN map)
    BY DEF NotesOK
<1>2. NotesOK(map2)
    BY <1>1 DEF NotesOK
<1>3. /\ encumberedBy(map[D]) \in 0..Bound /\ encumberedBy(n) \in 0..Bound
      /\ feePendingFor(map[D]) \in 0..Bound /\ feePendingFor(n) \in 0..Bound
      /\ refundFor(map[D]) \in 0..Bound /\ refundFor(n) \in 0..Bound
    BY Shares DEF NotesOK
<1>4. Encumbered(map2) = Encumbered(map) - encumberedBy(map[D]) + encumberedBy(n)
    <2> DEFINE f == [x \in DOMAIN map |-> encumberedBy(map[x])]
               g == [x \in DOMAIN map |-> encumberedBy(map2[x])]
               v == encumberedBy(map[D])
               w == encumberedBy(n)
    <2>1. /\ f[D] = v /\ g[D] = w /\ v \in 0..Bound /\ w \in 0..Bound
          /\ \A x \in DOMAIN map \ {D} : f[x] = g[x]
          /\ IsFiniteSet(DOMAIN map)
        BY <1>1, <1>3
    <2>2. Encumbered(map) = TotalOf(DOMAIN map, f, Bound)
          /\ Encumbered(map2) = TotalOf(DOMAIN map, g, Bound)
        BY <1>1 DEF Encumbered, Sum
    <2> HIDE DEF f, g, v, w
    <2>3. TotalOf(DOMAIN map, g, Bound) = TotalOf(DOMAIN map, f, Bound) - v + w
        BY <2>1, TotalUpdate, Numbers
    <2> QED
        BY <2>2, <2>3 DEF v, w
<1>5. FeesPending(map2) = FeesPending(map) - feePendingFor(map[D]) + feePendingFor(n)
    <2> DEFINE f == [x \in DOMAIN map |-> feePendingFor(map[x])]
               g == [x \in DOMAIN map |-> feePendingFor(map2[x])]
               v == feePendingFor(map[D])
               w == feePendingFor(n)
    <2>1. /\ f[D] = v /\ g[D] = w /\ v \in 0..Bound /\ w \in 0..Bound
          /\ \A x \in DOMAIN map \ {D} : f[x] = g[x]
          /\ IsFiniteSet(DOMAIN map)
        BY <1>1, <1>3
    <2>2. FeesPending(map) = TotalOf(DOMAIN map, f, Bound)
          /\ FeesPending(map2) = TotalOf(DOMAIN map, g, Bound)
        BY <1>1 DEF FeesPending, Sum
    <2> HIDE DEF f, g, v, w
    <2>3. TotalOf(DOMAIN map, g, Bound) = TotalOf(DOMAIN map, f, Bound) - v + w
        BY <2>1, TotalUpdate, Numbers
    <2> QED
        BY <2>2, <2>3 DEF v, w
<1>6. Refunds(map2) = Refunds(map) - refundFor(map[D]) + refundFor(n)
    <2> DEFINE f == [x \in DOMAIN map |-> refundFor(map[x])]
               g == [x \in DOMAIN map |-> refundFor(map2[x])]
               v == refundFor(map[D])
               w == refundFor(n)
    <2>1. /\ f[D] = v /\ g[D] = w /\ v \in 0..Bound /\ w \in 0..Bound
          /\ \A x \in DOMAIN map \ {D} : f[x] = g[x]
          /\ IsFiniteSet(DOMAIN map)
        BY <1>1, <1>3
    <2>2. Refunds(map) = TotalOf(DOMAIN map, f, Bound)
          /\ Refunds(map2) = TotalOf(DOMAIN map, g, Bound)
        BY <1>1 DEF Refunds, Sum
    <2> HIDE DEF f, g, v, w
    <2>3. TotalOf(DOMAIN map, g, Bound) = TotalOf(DOMAIN map, f, Bound) - v + w
        BY <2>1, TotalUpdate, Numbers
    <2> QED
        BY <2>2, <2>3 DEF v, w
<1> QED
    BY <1>2, <1>4, <1>5, <1>6

\* A claim is drawn: each sum grows by its share.
LEMMA ClaimAdded ==
    ASSUME NEW map, NotesOK(map), NEW D, D \notin DOMAIN map, NEW n, NoteOK(n, D)
    PROVE  /\ NotesOK(Insert(map, D, n))
           /\ Encumbered(Insert(map, D, n)) = Encumbered(map) + encumberedBy(n)
           /\ FeesPending(Insert(map, D, n)) = FeesPending(map) + feePendingFor(n)
           /\ Refunds(Insert(map, D, n)) = Refunds(map) + refundFor(n)
<1> DEFINE map2 == Insert(map, D, n)
<1>1. /\ DOMAIN map2 = DOMAIN map \cup {D} /\ map2[D] = n
      /\ \A x \in DOMAIN map : map2[x] = map[x]
      /\ IsFiniteSet(DOMAIN map)
    BY DEF NotesOK, Insert
<1> HIDE DEF map2
<1>2. NotesOK(map2)
    BY <1>1, FS_AddElement DEF NotesOK
<1>3. encumberedBy(n) \in 0..Bound /\ feePendingFor(n) \in 0..Bound /\ refundFor(n) \in 0..Bound
    BY Shares
<1>4. Encumbered(map2) = Encumbered(map) + encumberedBy(n)
    <2> DEFINE f == [x \in DOMAIN map |-> encumberedBy(map[x])]
               g == [x \in DOMAIN map2 |-> encumberedBy(map2[x])]
               v == encumberedBy(n)
    <2>1. /\ g[D] = v /\ v \in 0..Bound /\ \A x \in DOMAIN map : f[x] = g[x]
          /\ IsFiniteSet(DOMAIN map)
        BY <1>1, <1>3
    <2>2. Encumbered(map) = TotalOf(DOMAIN map, f, Bound)
          /\ Encumbered(map2) = TotalOf(DOMAIN map \cup {D}, g, Bound)
        BY <1>1 DEF Encumbered, Sum
    <2> HIDE DEF f, g, v
    <2>3. TotalOf(DOMAIN map \cup {D}, g, Bound) = TotalOf(DOMAIN map, f, Bound) + v
        BY <2>1, TotalInserted, Numbers
    <2> QED
        BY <2>2, <2>3 DEF v
<1>5. FeesPending(map2) = FeesPending(map) + feePendingFor(n)
    <2> DEFINE f == [x \in DOMAIN map |-> feePendingFor(map[x])]
               g == [x \in DOMAIN map2 |-> feePendingFor(map2[x])]
               v == feePendingFor(n)
    <2>1. /\ g[D] = v /\ v \in 0..Bound /\ \A x \in DOMAIN map : f[x] = g[x]
          /\ IsFiniteSet(DOMAIN map)
        BY <1>1, <1>3
    <2>2. FeesPending(map) = TotalOf(DOMAIN map, f, Bound)
          /\ FeesPending(map2) = TotalOf(DOMAIN map \cup {D}, g, Bound)
        BY <1>1 DEF FeesPending, Sum
    <2> HIDE DEF f, g, v
    <2>3. TotalOf(DOMAIN map \cup {D}, g, Bound) = TotalOf(DOMAIN map, f, Bound) + v
        BY <2>1, TotalInserted, Numbers
    <2> QED
        BY <2>2, <2>3 DEF v
<1>6. Refunds(map2) = Refunds(map) + refundFor(n)
    <2> DEFINE f == [x \in DOMAIN map |-> refundFor(map[x])]
               g == [x \in DOMAIN map2 |-> refundFor(map2[x])]
               v == refundFor(n)
    <2>1. /\ g[D] = v /\ v \in 0..Bound /\ \A x \in DOMAIN map : f[x] = g[x]
          /\ IsFiniteSet(DOMAIN map)
        BY <1>1, <1>3
    <2>2. Refunds(map) = TotalOf(DOMAIN map, f, Bound)
          /\ Refunds(map2) = TotalOf(DOMAIN map \cup {D}, g, Bound)
        BY <1>1 DEF Refunds, Sum
    <2> HIDE DEF f, g, v
    <2>3. TotalOf(DOMAIN map \cup {D}, g, Bound) = TotalOf(DOMAIN map, f, Bound) + v
        BY <2>1, TotalInserted, Numbers
    <2> QED
        BY <2>2, <2>3 DEF v
<1> QED
    BY <1>2, <1>4, <1>5, <1>6 DEF map2

\* Within the exact range a sum is its double.
LEMMA ExactDouble ==
    ASSUME NEW n \in Int, n <= MaxSafe
    PROVE  double(n) = n
<1>1. n <= MaxSafe + 1
    BY Numbers
<1> QED
    BY <1>1 DEF double

\* Within the exact range the doubles add up.
LEMMA LockedExactly ==
    ASSUME NEW L, LedgerOK(L)
    PROVE  /\ lockedReserve(L) = locked(L) /\ locked(L) \in Nat
           /\ \A counter \in Counters : L[counter] \in Nat /\ safe(L[counter])
<1>1. /\ L.encumberedReserve \in Nat /\ L.pendingFeeReserve \in Nat /\ L.refundReserve \in Nat
      /\ L.redeemedReserve \in Nat /\ L.feeReserve \in Nat /\ L.reportedRefundReserve \in Nat
      /\ L.totalReserve \in Nat /\ L.totalReserve <= MaxSafe /\ locked(L) <= L.totalReserve
    BY SumsAreNaturals DEF LedgerOK, CountersOK
<1>2. \A n \in Nat : n <= MaxSafe => double(n) = n
    BY ExactDouble
<1>3. lockedReserve(L) = locked(L)
    BY <1>1, <1>2, Numbers DEF lockedReserve, locked
<1> QED
    BY <1>1, <1>3, Numbers DEF locked, Counters, safe

-----------------------------------------------------------------------------
(* The functions of the mirror: a ledger that adds up stays so *)

\* What a call moves between the budgets; the reserve stays.
Moved(L, M, encumbered, redeemed, fees, pending, refunds, reported) ==
    /\ M.totalReserve = L.totalReserve
    /\ M.encumberedReserve = L.encumberedReserve + encumbered
    /\ M.redeemedReserve = L.redeemedReserve + redeemed
    /\ M.feeReserve = L.feeReserve + fees
    /\ M.pendingFeeReserve = L.pendingFeeReserve + pending
    /\ M.refundReserve = L.refundReserve + refunds
    /\ M.reportedRefundReserve = L.reportedRefundReserve + reported

\* Neither claims nor counters change.
SameMoney(L, M) ==
    /\ DOMAIN M = LedgerFields /\ M.notes = L.notes
    /\ \A counter \in Counters : M[counter] = L[counter]

LEMMA MoneyKept ==
    ASSUME NEW L, LedgerOK(L), NEW M, SameMoney(L, M)
    PROVE  LedgerOK(M)
<1>1. /\ M.encumberedReserve = L.encumberedReserve /\ M.redeemedReserve = L.redeemedReserve
      /\ M.feeReserve = L.feeReserve /\ M.pendingFeeReserve = L.pendingFeeReserve
      /\ M.refundReserve = L.refundReserve /\ M.totalReserve = L.totalReserve
      /\ M.reportedRefundReserve = L.reportedRefundReserve /\ M.notes = L.notes
    BY DEF SameMoney, Counters
<1> QED
    BY <1>1 DEF LedgerOK, CountersOK, SameMoney, locked

\* Merchants, the line and its status leave quotes and nullifiers too.
LEMMA LineCalls ==
    ASSUME NEW L, LedgerOK(L), NEW caller, NEW M,
           \/ \E m : M \in registerMerchant(L, caller, m) \cup disableMerchant(L, caller, m)
           \/ \E agent, limit, expiry, flat, bps :
                  M \in openLine(L, caller, agent, limit, expiry, flat, bps)
           \/ \E next, books : M \in setStatus(L, caller, next, books)
    PROVE  SameMoney(L, M) /\ M.quotes = L.quotes /\ M.nullifiers = L.nullifiers
<1> USE DEF accepted, SameMoney, LedgerOK, LedgerFields, Counters
<1>1. CASE \E m : M \in registerMerchant(L, caller, m)
    BY <1>1 DEF registerMerchant
<1>2. CASE \E m : M \in disableMerchant(L, caller, m)
    BY <1>2 DEF disableMerchant
<1>3. CASE \E agent, limit, expiry, flat, bps :
               M \in openLine(L, caller, agent, limit, expiry, flat, bps)
    <2>1. PICK agent, limit, expiry, flat, bps :
             M \in openLine(L, caller, agent, limit, expiry, flat, bps)
        BY <1>3
    <2>2. M = [L EXCEPT !.identityCommitment = agent,
                        !.lineCommitment = lineStateCommit(agent, limit, 0, 0),
                        !.lineExpiry = expiry, !.feeFlat = flat, !.feeBps = bps,
                        !.status = "OPEN", !.lineGeneration = @ + 1]
        BY ONLY <2>1 DEF openLine, accepted
    <2> QED
        BY <2>2
<1>4. CASE \E next, books : M \in setStatus(L, caller, next, books)
    BY <1>4 DEF setStatus
<1> QED
    BY <1>1, <1>2, <1>3, <1>4

\* Only these two replace the book at all.
LEMMA BookKept ==
    ASSUME NEW L, LedgerOK(L), NEW caller, NEW M,
           \/ \E m : M \in registerMerchant(L, caller, m) \cup disableMerchant(L, caller, m)
           \/ \E next, books : M \in setStatus(L, caller, next, books)
    PROVE  M.lineCommitment = L.lineCommitment
<1> USE DEF accepted, LedgerOK, LedgerFields
<1>1. CASE \E m : M \in registerMerchant(L, caller, m)
    BY <1>1 DEF registerMerchant
<1>2. CASE \E m : M \in disableMerchant(L, caller, m)
    BY <1>2 DEF disableMerchant
<1>3. CASE \E next, books : M \in setStatus(L, caller, next, books)
    BY <1>3 DEF setStatus
<1> QED
    BY <1>1, <1>2, <1>3

LEMMA QuotePosted ==
    ASSUME NEW L, LedgerOK(L), NEW caller, NEW invoice, NEW amount, NEW expiry,
           NEW M \in postQuote(L, caller, invoice, amount, expiry)
    PROVE  /\ SameMoney(L, M) /\ M.nullifiers = L.nullifiers
           /\ M.lineCommitment = L.lineCommitment
           /\ DOMAIN M.quotes = DOMAIN L.quotes \cup {quoteOf(L, caller, invoice, amount, expiry)}
<1> DEFINE Q == quoteOf(L, caller, invoice, amount, expiry)
           meta == [expiry |-> expiry, lineGeneration |-> L.lineGeneration, used |-> FALSE]
<1>1. M = [L EXCEPT !.quotes = Insert(@, Q, meta)]
    BY DEF postQuote, accepted
<1> HIDE DEF Q, meta
<1>2. M.quotes = Insert(L.quotes, Q, meta)
    BY <1>1 DEF LedgerOK, LedgerFields
<1>3. DOMAIN M.quotes = DOMAIN L.quotes \cup {Q}
    BY <1>2 DEF Insert
<1>4. SameMoney(L, M) /\ M.nullifiers = L.nullifiers /\ M.lineCommitment = L.lineCommitment
    BY <1>1 DEF SameMoney, LedgerOK, LedgerFields, Counters
<1> QED
    BY <1>3, <1>4 DEF Q

LEMMA Repaid ==
    ASSUME NEW L, LedgerOK(L), NEW caller, NEW books, NEW receipt, NEW payRef, NEW expiry,
           NEW M \in acknowledgeRepayment(L, caller, books, receipt, payRef, expiry)
    PROVE  SameMoney(L, M) /\ M.quotes = L.quotes /\ L.nullifiers \subseteq M.nullifiers
BY DEF acknowledgeRepayment, accepted, SameMoney, LedgerOK, LedgerFields, Counters

\* Funding an empty reserve stays exact.
LEMMA Funded ==
    ASSUME NEW L, LedgerOK(L), L.totalReserve = 0, NEW caller, NEW amount,
           NEW M \in fundReserve(L, caller, amount)
    PROVE  /\ LedgerOK(M) /\ M.notes = L.notes /\ M.quotes = L.quotes
           /\ M.nullifiers = L.nullifiers /\ M.lineCommitment = L.lineCommitment
<1>1. safe(amount) /\ amount > 0 /\ M = [L EXCEPT !.totalReserve = double(L.totalReserve + amount)]
    BY DEF fundReserve, accepted
<1>2. double(L.totalReserve + amount) = amount /\ amount \in Nat /\ amount <= MaxSafe
    BY <1>1, Numbers DEF safe, double
<1>3. M = [L EXCEPT !.totalReserve = amount]
    BY <1>1, <1>2
<1>4. /\ DOMAIN M = LedgerFields /\ M.totalReserve = amount
      /\ M.encumberedReserve = L.encumberedReserve /\ M.redeemedReserve = L.redeemedReserve
      /\ M.feeReserve = L.feeReserve /\ M.pendingFeeReserve = L.pendingFeeReserve
      /\ M.refundReserve = L.refundReserve /\ M.notes = L.notes
      /\ M.reportedRefundReserve = L.reportedRefundReserve /\ M.quotes = L.quotes
      /\ M.nullifiers = L.nullifiers /\ M.lineCommitment = L.lineCommitment
    BY <1>3 DEF LedgerOK, LedgerFields
<1>5. locked(M) = locked(L) /\ locked(L) \in Nat /\ locked(L) <= 0
    BY <1>4, LockedExactly DEF LedgerOK, CountersOK, locked
<1> QED
    BY <1>2, <1>4, <1>5 DEF LedgerOK, CountersOK

LEMMA FeesWithdrawn ==
    ASSUME NEW L, LedgerOK(L), NEW caller, NEW M \in withdrawFees(L, caller)
    PROVE  /\ LedgerOK(M) /\ M.notes = L.notes /\ M.quotes = L.quotes
           /\ M.nullifiers = L.nullifiers /\ M.lineCommitment = L.lineCommitment
<1>1. M = [L EXCEPT !.totalReserve = double(L.totalReserve - L.feeReserve), !.feeReserve = 0]
    BY DEF withdrawFees, accepted
<1>2. /\ L.totalReserve \in Nat /\ L.feeReserve \in Nat /\ L.totalReserve <= MaxSafe
      /\ L.encumberedReserve \in Nat /\ L.redeemedReserve \in Nat /\ L.pendingFeeReserve \in Nat
      /\ L.refundReserve \in Nat /\ L.reportedRefundReserve \in Nat
      /\ locked(L) <= L.totalReserve
    BY LockedExactly DEF LedgerOK, CountersOK, Counters
<1>3. double(L.totalReserve - L.feeReserve) = L.totalReserve - L.feeReserve
    BY <1>2, Numbers DEF double
<1>4. /\ DOMAIN M = LedgerFields /\ M.totalReserve = L.totalReserve - L.feeReserve
      /\ M.encumberedReserve = L.encumberedReserve /\ M.redeemedReserve = L.redeemedReserve
      /\ M.feeReserve = 0 /\ M.pendingFeeReserve = L.pendingFeeReserve
      /\ M.refundReserve = L.refundReserve /\ M.notes = L.notes
      /\ M.reportedRefundReserve = L.reportedRefundReserve /\ M.quotes = L.quotes
      /\ M.nullifiers = L.nullifiers /\ M.lineCommitment = L.lineCommitment
    BY <1>1, <1>3 DEF LedgerOK, LedgerFields
<1>5. locked(M) = locked(L) - L.feeReserve /\ L.totalReserve - L.feeReserve \in Nat
    BY <1>2, <1>4 DEF locked
<1>6. locked(M) <= M.totalReserve /\ M.totalReserve <= MaxSafe
    BY <1>2, <1>4, <1>5, LockedExactly, Numbers
<1> QED
    BY <1>2, <1>4, <1>5, <1>6 DEF LedgerOK, CountersOK

\* A draw locks the price and the fee of one new claim.
LEMMA Drawn ==
    ASSUME NEW L, LedgerOK(L), NEW agent, NEW books, NEW Q, NEW wq, NEW fee, NEW expiry,
           NEW M \in draw(L, agent, books, Q, wq, fee, expiry), NEW D,
           D = noteOf(L, agent, Q, wq, fee, expiry)
    PROVE  /\ LedgerOK(M) /\ DOMAIN M.quotes = DOMAIN L.quotes
           /\ L.nullifiers \subseteq M.nullifiers
           /\ D \notin DOMAIN L.notes /\ M.notes = Insert(L.notes, D, noteRecord(D))
           /\ Moved(L, M, wq.amount, 0, 0, fee, 0, 0)
<1> DEFINE N == [kind |-> "draw", secret |-> agent, quote |-> Q]
           book == rotated(books, books.outstanding + wq.amount + fee)
           n == noteRecord(D)
<1>1. /\ Q \in DOMAIN L.quotes /\ safe(wq.amount) /\ safe(fee)
      /\ wq.amount + fee <= L.totalReserve - lockedReserve(L)
      /\ D \notin DOMAIN L.notes
      /\ M = [L EXCEPT !.quotes[Q].used = TRUE, !.lineCommitment = book,
                       !.nullifiers = @ \cup {N},
                       !.encumberedReserve = double(@ + wq.amount),
                       !.pendingFeeReserve = double(@ + fee),
                       !.notes = Insert(@, D, n)]
    BY DEF draw, accepted, affordable
<1> HIDE DEF N, book, n
<1>2. /\ DOMAIN M = LedgerFields
      /\ M.encumberedReserve = double(L.encumberedReserve + wq.amount)
      /\ M.pendingFeeReserve = double(L.pendingFeeReserve + fee)
      /\ M.redeemedReserve = L.redeemedReserve /\ M.feeReserve = L.feeReserve
      /\ M.refundReserve = L.refundReserve /\ M.totalReserve = L.totalReserve
      /\ M.reportedRefundReserve = L.reportedRefundReserve
      /\ M.notes = Insert(L.notes, D, n) /\ L.nullifiers \subseteq M.nullifiers
      /\ M.quotes = [L.quotes EXCEPT ![Q].used = TRUE]
    BY <1>1 DEF LedgerOK, LedgerFields
<1>3. D.amount = wq.amount /\ D.fee = fee
    BY DEF noteOf
<1>4. /\ NoteOK(n, D) /\ encumberedBy(n) = wq.amount /\ feePendingFor(n) = fee
      /\ refundFor(n) = 0
    BY <1>1, <1>3 DEF n, noteRecord, NoteOK, NoteFields, safe, encumberedBy, feePendingFor,
                      refundFor, live, refundDue
<1>5. /\ NotesOK(M.notes) /\ Encumbered(M.notes) = Encumbered(L.notes) + wq.amount
      /\ FeesPending(M.notes) = FeesPending(L.notes) + fee
      /\ Refunds(M.notes) = Refunds(L.notes) + 0
    <2>1. NotesOK(L.notes) /\ D \notin DOMAIN L.notes /\ NoteOK(n, D)
        BY <1>1, <1>4 DEF LedgerOK
    <2>2. M.notes = Insert(L.notes, D, n)
        BY <1>2
    <2>3. /\ NotesOK(M.notes)
          /\ Encumbered(M.notes) = Encumbered(L.notes) + encumberedBy(n)
          /\ FeesPending(M.notes) = FeesPending(L.notes) + feePendingFor(n)
          /\ Refunds(M.notes) = Refunds(L.notes) + refundFor(n)
        BY <2>1, <2>2, ClaimAdded
    <2> QED
        BY <1>4, <2>3
<1>6. /\ wq.amount \in Nat /\ fee \in Nat /\ lockedReserve(L) = locked(L) /\ locked(L) \in Nat
      /\ Refunds(L.notes) \in Nat
      /\ \A counter \in Counters : L[counter] \in Nat
    BY <1>1, LockedExactly, SumsAreNaturals, Numbers DEF safe, LedgerOK
<1>9. Moved(L, M, wq.amount, 0, 0, fee, 0, 0)
    <2>1. L.encumberedReserve + wq.amount <= MaxSafe /\ L.pendingFeeReserve + fee <= MaxSafe
        BY <1>1, <1>6, Numbers DEF locked, Counters, LedgerOK, CountersOK
    <2>2. /\ M.encumberedReserve = L.encumberedReserve + wq.amount
          /\ M.pendingFeeReserve = L.pendingFeeReserve + fee
        BY <1>2, <1>6, <2>1, ExactDouble DEF Counters
    <2> QED
        BY <1>2, <1>6, <2>2 DEF Moved, Counters
<1>7. locked(M) = locked(L) + (wq.amount + fee) /\ locked(M) <= M.totalReserve
    BY <1>1, <1>6, <1>9 DEF locked, Counters, Moved
<1>8. CountersOK(M)
    BY <1>2, <1>5, <1>6, <1>7, <1>9 DEF LedgerOK, CountersOK, Moved
<1> QED
    BY <1>1, <1>2, <1>5, <1>8, <1>9 DEF LedgerOK, n

\* What a call leaves of a claim's refund.
RefundPart(n) == <<n.compensationAllocated, n.refundCommitment, n.refundAcknowledged,
                   n.refundPaymentNullifier>>

\* A redemption moves a live claim's budgets to what was redeemed and earned.
LEMMA Redeemed ==
    ASSUME NEW L, LedgerOK(L), NEW caller, NEW D, NEW opening,
           NEW M \in redeemDraw(L, caller, D, opening)
    PROVE  /\ LedgerOK(M) /\ M.quotes = L.quotes /\ M.lineCommitment = L.lineCommitment
           /\ L.nullifiers \subseteq M.nullifiers /\ DOMAIN M.notes = DOMAIN L.notes
           /\ \A x \in DOMAIN L.notes : RefundPart(M.notes[x]) = RefundPart(L.notes[x])
           /\ LET m == L.notes[D] IN Moved(L, M, -m.amount, m.amount, m.fee, -m.fee, 0, 0)
<1> DEFINE N == [kind |-> "redeem", secret |-> caller, note |-> D]
           m == L.notes[D]
           n == [m EXCEPT !.redeemed = TRUE]
<1>1. /\ D \in DOMAIN L.notes /\ ~m.redeemed /\ ~m.cancelled
      /\ M = [L EXCEPT !.notes[D].redeemed = TRUE,
                       !.nullifiers = @ \cup {N},
                       !.encumberedReserve = double(@ - m.amount),
                       !.redeemedReserve = double(@ + m.amount),
                       !.pendingFeeReserve = double(@ - m.fee),
                       !.feeReserve = double(@ + m.fee)]
    BY DEF redeemDraw, accepted
<1> HIDE DEF N
<1>2. /\ DOMAIN M = LedgerFields
      /\ M.encumberedReserve = double(L.encumberedReserve - m.amount)
      /\ M.redeemedReserve = double(L.redeemedReserve + m.amount)
      /\ M.pendingFeeReserve = double(L.pendingFeeReserve - m.fee)
      /\ M.feeReserve = double(L.feeReserve + m.fee)
      /\ M.refundReserve = L.refundReserve /\ M.totalReserve = L.totalReserve
      /\ M.reportedRefundReserve = L.reportedRefundReserve
      /\ M.notes = [L.notes EXCEPT ![D] = n] /\ L.nullifiers \subseteq M.nullifiers
      /\ M.quotes = L.quotes /\ M.lineCommitment = L.lineCommitment
    BY <1>1 DEF LedgerOK, LedgerFields
<1>3. NoteOK(m, D)
    BY <1>1 DEF LedgerOK, NotesOK
<1>4. NoteOK(n, D) /\ n.redeemed /\ ~n.cancelled /\ RefundPart(n) = RefundPart(m)
    BY <1>1, <1>3 DEF NoteOK, NoteFields, RefundPart
<1> HIDE DEF n
<1>5. /\ encumberedBy(m) = m.amount /\ feePendingFor(m) = m.fee /\ refundFor(m) = 0
      /\ encumberedBy(n) = 0 /\ feePendingFor(n) = 0 /\ refundFor(n) = 0
    BY <1>1, <1>4 DEF encumberedBy, feePendingFor, refundFor, live, refundDue
<1> HIDE DEF m
<1>6. /\ NotesOK(M.notes) /\ Encumbered(M.notes) = Encumbered(L.notes) - m.amount + 0
      /\ FeesPending(M.notes) = FeesPending(L.notes) - m.fee + 0
      /\ Refunds(M.notes) = Refunds(L.notes) - 0 + 0
    BY <1>1, <1>2, <1>4, <1>5, ClaimMoves DEF LedgerOK, m
<1>7. /\ m.amount \in Nat /\ m.fee \in Nat /\ \A counter \in Counters : L[counter] \in Nat
      /\ Refunds(L.notes) \in Nat /\ Encumbered(M.notes) \in Nat /\ FeesPending(M.notes) \in Nat
    BY <1>3, <1>6, Shares, LockedExactly, SumsAreNaturals DEF LedgerOK
<1>11. Moved(L, M, -m.amount, m.amount, m.fee, -m.fee, 0, 0)
    <2>1. m.amount <= L.encumberedReserve /\ m.fee <= L.pendingFeeReserve
        BY <1>6, <1>7 DEF LedgerOK, CountersOK, Counters
    <2>2. /\ L.encumberedReserve - m.amount \in 0..MaxSafe /\ L.redeemedReserve + m.amount \in 0..MaxSafe
          /\ L.pendingFeeReserve - m.fee \in 0..MaxSafe /\ L.feeReserve + m.fee \in 0..MaxSafe
        BY <1>7, <2>1, Numbers DEF locked, Counters, LedgerOK, CountersOK
    <2>3. \A k \in 0..MaxSafe : double(k) = k
        BY ExactDouble, Numbers
    <2> QED
        BY <1>2, <1>7, <2>2, <2>3 DEF Moved, Counters
<1>8. locked(M) = locked(L)
    BY <1>7, <1>11 DEF locked, Counters, Moved
<1>9. CountersOK(M)
    BY <1>2, <1>6, <1>7, <1>8, <1>11 DEF LedgerOK, CountersOK, Counters, Moved
<1>10. /\ DOMAIN M.notes = DOMAIN L.notes
       /\ \A x \in DOMAIN L.notes : RefundPart(M.notes[x]) = RefundPart(L.notes[x])
    BY <1>2, <1>4 DEF m
<1> QED
    BY <1>2, <1>6, <1>9, <1>10, <1>11 DEF LedgerOK, m

\* The budget of an expired claim is owed to its owner.
LEMMA Cancelled ==
    ASSUME NEW L, LedgerOK(L), NEW D \in DOMAIN L.notes, ~L.notes[D].redeemed,
           NEW M, M = cancelled(L, D)
    PROVE  /\ LedgerOK(M) /\ M.quotes = L.quotes /\ M.lineCommitment = L.lineCommitment
           /\ M.nullifiers = L.nullifiers /\ DOMAIN M.notes = DOMAIN L.notes
           /\ M.lineGeneration = L.lineGeneration
           /\ M.notes[D].cancelled /\ ~M.notes[D].redeemed
           /\ M.notes[D].compensationAllocated = L.notes[D].compensationAllocated
           /\ cost(M.notes[D]) = cost(L.notes[D])
           /\ \A x \in DOMAIN L.notes : RefundPart(M.notes[x]) = RefundPart(L.notes[x])
           /\ ~L.notes[D].cancelled =>
                 LET m == L.notes[D] IN Moved(L, M, -m.amount, 0, 0, -m.fee, cost(m), 0)
<1> DEFINE m == L.notes[D]
           n == [m EXCEPT !.cancelled = TRUE]
<1>1. NoteOK(m, D)
    BY DEF LedgerOK, NotesOK
<1>2. NoteOK(n, D) /\ n.cancelled /\ RefundPart(n) = RefundPart(m)
    BY <1>1 DEF NoteOK, NoteFields, RefundPart
<1>3. CASE m.cancelled
    <2>1. M = L
        BY <1>3 DEF cancelled
    <2> QED
        BY <1>3, <2>1
<1>4. CASE ~m.cancelled
    <2>1. M = [L EXCEPT !.notes[D].cancelled = TRUE,
                        !.encumberedReserve = double(@ - m.amount),
                        !.pendingFeeReserve = double(@ - m.fee),
                        !.refundReserve = double(@ + cost(m))]
        BY <1>4 DEF cancelled
    <2>2. /\ DOMAIN M = LedgerFields
          /\ M.encumberedReserve = double(L.encumberedReserve - m.amount)
          /\ M.pendingFeeReserve = double(L.pendingFeeReserve - m.fee)
          /\ M.refundReserve = double(L.refundReserve + cost(m))
          /\ M.redeemedReserve = L.redeemedReserve /\ M.feeReserve = L.feeReserve
          /\ M.totalReserve = L.totalReserve
          /\ M.reportedRefundReserve = L.reportedRefundReserve
          /\ M.notes = [L.notes EXCEPT ![D] = n] /\ M.nullifiers = L.nullifiers
          /\ M.quotes = L.quotes /\ M.lineCommitment = L.lineCommitment
          /\ M.lineGeneration = L.lineGeneration
        BY <2>1 DEF LedgerOK, LedgerFields
    <2>3. ~n.redeemed /\ ~n.compensationAllocated /\ cost(n) = cost(m) /\ ~m.redeemed
        BY <1>1, <1>4 DEF NoteOK, NoteFields, cost
    <2>4. /\ encumberedBy(m) = m.amount /\ feePendingFor(m) = m.fee /\ refundFor(m) = 0
          /\ encumberedBy(n) = 0 /\ feePendingFor(n) = 0 /\ refundFor(n) = cost(m)
        BY <1>2, <1>4, <2>3 DEF encumberedBy, feePendingFor, refundFor, live, refundDue
    <2>11. n.compensationAllocated = m.compensationAllocated
        BY <1>1 DEF NoteOK, NoteFields
    <2> HIDE DEF n
    <2>5. NotesOK(L.notes)
        BY DEF LedgerOK
    <2>6. /\ NotesOK(M.notes)
          /\ Encumbered(M.notes) = Encumbered(L.notes) - encumberedBy(m) + encumberedBy(n)
          /\ FeesPending(M.notes) = FeesPending(L.notes) - feePendingFor(m) + feePendingFor(n)
          /\ Refunds(M.notes) = Refunds(L.notes) - refundFor(m) + refundFor(n)
        BY <1>2, <2>2, <2>5, ClaimMoves
    <2>7. /\ m.amount \in Nat /\ m.fee \in Nat /\ cost(m) = m.amount + m.fee
          /\ \A counter \in Counters : L[counter] \in Nat
          /\ Encumbered(L.notes) \in Nat /\ FeesPending(L.notes) \in Nat
          /\ Refunds(L.notes) \in Nat
          /\ Encumbered(M.notes) \in Nat /\ FeesPending(M.notes) \in Nat
        BY <1>1, <2>5, <2>6, Shares, LockedExactly, SumsAreNaturals
    <2>12. Moved(L, M, -m.amount, 0, 0, -m.fee, cost(m), 0)
        <3>1. m.amount <= L.encumberedReserve /\ m.fee <= L.pendingFeeReserve
            BY <2>4, <2>6, <2>7 DEF LedgerOK, CountersOK, Counters
        <3>2. /\ L.encumberedReserve - m.amount \in 0..MaxSafe
              /\ L.pendingFeeReserve - m.fee \in 0..MaxSafe
              /\ L.refundReserve + cost(m) \in 0..MaxSafe
            BY <2>7, <3>1, Numbers DEF locked, Counters, LedgerOK, CountersOK
        <3>3. \A k \in 0..MaxSafe : double(k) = k
            BY ExactDouble, Numbers
        <3> QED
            BY <2>2, <2>7, <3>2, <3>3 DEF Moved, Counters
    <2>8. locked(M) = locked(L)
        BY <2>7, <2>12 DEF locked, Counters, Moved
    <2>9. CountersOK(M)
        BY <2>2, <2>4, <2>6, <2>7, <2>8, <2>12 DEF LedgerOK, CountersOK, Counters, Moved
    <2>10. /\ DOMAIN M.notes = DOMAIN L.notes /\ M.notes[D] = n
           /\ \A x \in DOMAIN L.notes : RefundPart(M.notes[x]) = RefundPart(L.notes[x])
        BY <1>2, <2>2
    <2> QED
        BY <1>2, <2>2, <2>3, <2>6, <2>9, <2>10, <2>11, <2>12 DEF LedgerOK, m
<1> QED
    BY <1>3, <1>4

\* One claim is compensated: it names what is owed, and the others keep theirs.
OneCompensated(L, M, D) ==
    /\ D \in DOMAIN L.notes /\ LedgerOK(M) /\ M.quotes = L.quotes
    /\ M.nullifiers = L.nullifiers /\ DOMAIN M.notes = DOMAIN L.notes
    /\ D.lineGeneration # M.lineGeneration => M.lineCommitment = L.lineCommitment
    /\ \A x \in DOMAIN L.notes \ {D} : RefundPart(M.notes[x]) = RefundPart(L.notes[x])
    /\ \E owed : /\ M.notes[D].refundCommitment = [note |-> D, amount |-> owed]
                 /\ ~M.notes[D].refundAcknowledged

\* A price that the book takes whole leaves the refunds.
Released(L, M, D, books) ==
    LET price == cost(L.notes[D])
        current == L.notes[D].lineGeneration = L.lineGeneration
        released == IF current /\ credit(L, books, price) = price THEN price ELSE 0
    IN  Moved(cancelled(L, D), M, 0, 0, 0, 0, -released, 0)

\* A compensation pays from the book first: what the book took is free again, and
\* the rest is owed in cash.
LEMMA Compensated ==
    ASSUME NEW L, LedgerOK(L), NEW caller, NEW D, NEW books,
           NEW M \in allocateCompensation(L, caller, D, books)
    PROVE  OneCompensated(L, M, D) /\ Released(L, M, D, books)
<1> DEFINE base == cancelled(L, D)
           price == cost(L.notes[D])
           credited == credit(L, books, price)
           current == L.notes[D].lineGeneration = L.lineGeneration
           released == IF current /\ credited = price THEN price ELSE 0
           owed == IF current THEN price - credited ELSE price
           remains == owed > 0
           book == IF current THEN rotated(books, books.outstanding - credited)
                   ELSE L.lineCommitment
           m == base.notes[D]
           n == [m EXCEPT !.compensationAllocated = TRUE,
                          !.refundCommitment = [note |-> D, amount |-> owed],
                          !.cashRefundOwed = remains,
                          !.refundAcknowledged = FALSE,
                          !.refundPaymentNullifier = Empty]
<1>1. /\ D \in DOMAIN L.notes /\ ~L.notes[D].redeemed /\ ~L.notes[D].compensationAllocated
      /\ current => safe(books.outstanding)
      /\ M = IF current
             THEN allocated([base EXCEPT !.lineCommitment = book,
                                         !.refundReserve = double(@ - released)], D, owed)
             ELSE allocated(base, D, owed)
    BY DEF allocateCompensation, accepted
<1>2. /\ LedgerOK(base) /\ base.quotes = L.quotes /\ base.lineCommitment = L.lineCommitment
      /\ base.nullifiers = L.nullifiers /\ DOMAIN base.notes = DOMAIN L.notes
      /\ base.lineGeneration = L.lineGeneration
      /\ m.cancelled /\ ~m.redeemed /\ cost(m) = price
      /\ m.compensationAllocated = L.notes[D].compensationAllocated
      /\ \A x \in DOMAIN L.notes : RefundPart(base.notes[x]) = RefundPart(L.notes[x])
    BY <1>1, Cancelled
<1>3. NoteOK(L.notes[D], D)
    BY <1>1 DEF LedgerOK, NotesOK
<1>4. /\ NoteOK(m, D) /\ m.cancelled /\ ~m.redeemed /\ ~m.compensationAllocated
      /\ cost(m) = price
    BY <1>1, <1>2 DEF LedgerOK, NotesOK
<1> HIDE DEF m, owed, remains
<1>5. /\ NoteOK(n, D) /\ n.cancelled /\ n.compensationAllocated /\ ~n.refundAcknowledged
      /\ n.refundCommitment = [note |-> D, amount |-> owed] /\ cost(n) = price
      /\ n.cashRefundOwed <=> owed > 0
    <2>1. remains \in BOOLEAN /\ (remains <=> owed > 0)
        BY DEF remains
    <2> QED
        BY <1>4, <2>1 DEF NoteOK, NoteFields, cost
<1>6. price \in Nat /\ released \in Nat /\ owed \in Nat /\ released = (IF owed > 0 THEN 0 ELSE price)
    BY <1>1, <1>3, Shares, Numbers DEF credit, safe, owed
<1> HIDE DEF base
<1>7. /\ DOMAIN M = LedgerFields
      /\ M.encumberedReserve = base.encumberedReserve
      /\ M.pendingFeeReserve = base.pendingFeeReserve
      /\ M.refundReserve = (IF current THEN double(base.refundReserve - released)
                                        ELSE base.refundReserve)
      /\ M.redeemedReserve = base.redeemedReserve /\ M.feeReserve = base.feeReserve
      /\ M.totalReserve = base.totalReserve
      /\ M.reportedRefundReserve = base.reportedRefundReserve
      /\ M.notes = [base.notes EXCEPT ![D] = n] /\ M.nullifiers = base.nullifiers
      /\ M.quotes = base.quotes /\ M.lineGeneration = base.lineGeneration
      /\ M.lineCommitment = book
    <2>3. DOMAIN base = LedgerFields
        BY <1>2 DEF LedgerOK
    <2>4. CASE current
        <3>1. M = [[base EXCEPT !.lineCommitment = book, !.refundReserve = double(@ - released)]
                      EXCEPT !.notes[D] = n]
            BY <1>1, <2>4, <2>3 DEF allocated, LedgerFields, m, remains
        <3> HIDE DEF n, book, released, current
        <3> QED
            BY <2>3, <2>4, <3>1 DEF LedgerFields
    <2>5. CASE ~current
        <3>1. M = [base EXCEPT !.notes[D] = n] /\ book = base.lineCommitment
            BY <1>1, <1>2, <2>5 DEF allocated, m, remains
        <3> HIDE DEF n, book, released, current
        <3> QED
            BY <2>3, <2>5, <3>1 DEF LedgerFields
    <2> QED
        BY <2>4, <2>5
<1> HIDE DEF n, m
<1>8. /\ encumberedBy(m) = 0 /\ feePendingFor(m) = 0 /\ refundFor(m) = price
      /\ encumberedBy(n) = 0 /\ feePendingFor(n) = 0 /\ refundFor(n) = price - released
    BY <1>4, <1>5, <1>6 DEF encumberedBy, feePendingFor, refundFor, live, refundDue
<1> HIDE DEF price, released, owed, credited
<1>9. NotesOK(base.notes)
    BY <1>2 DEF LedgerOK
<1>10. /\ NotesOK(M.notes)
       /\ Encumbered(M.notes) = Encumbered(base.notes) - 0 + 0
       /\ FeesPending(M.notes) = FeesPending(base.notes) - 0 + 0
       /\ Refunds(M.notes) = Refunds(base.notes) - price + (price - released)
    <2>1. D \in DOMAIN base.notes /\ m = base.notes[D]
        BY <1>1, <1>2 DEF m
    <2> QED
        BY <1>5, <1>7, <1>8, <1>9, <2>1, ClaimMoves
<1>11. /\ Encumbered(base.notes) \in Nat /\ FeesPending(base.notes) \in Nat
       /\ Refunds(base.notes) \in Nat /\ \A counter \in Counters : base[counter] \in Nat
       /\ locked(base) <= base.totalReserve /\ Refunds(M.notes) \in Nat
    BY <1>2, <1>9, <1>10, SumsAreNaturals, LockedExactly DEF LedgerOK, CountersOK
<1>16. Moved(base, M, 0, 0, 0, 0, -released, 0)
    <2>1. released <= base.refundReserve /\ base.refundReserve <= MaxSafe
        BY <1>2, <1>6, <1>10, <1>11, Numbers DEF LedgerOK, CountersOK, Counters, locked
    <2>2. double(base.refundReserve - released) = base.refundReserve - released
        BY <1>6, <1>11, <2>1, ExactDouble, Numbers DEF Counters
    <2>3. ~current => released = 0
        BY DEF released
    <2> HIDE DEF current
    <2> QED
        BY <1>6, <1>7, <1>11, <2>2, <2>3 DEF Moved, Counters
<1>12. locked(M) = locked(base) - released /\ locked(M) <= M.totalReserve
    BY <1>6, <1>11, <1>16 DEF locked, Counters, Moved
<1>13. CountersOK(M)
    BY <1>2, <1>6, <1>10, <1>11, <1>12, <1>16 DEF LedgerOK, CountersOK, Counters, Moved
<1>14. /\ DOMAIN M.notes = DOMAIN L.notes /\ M.notes[D] = n
       /\ \A x \in DOMAIN L.notes \ {D} : RefundPart(M.notes[x]) = RefundPart(L.notes[x])
    BY <1>1, <1>2, <1>7
<1>15. D.lineGeneration # M.lineGeneration => M.lineCommitment = L.lineCommitment
    BY <1>2, <1>3, <1>7 DEF NoteOK
<1> QED
    BY <1>1, <1>2, <1>5, <1>7, <1>10, <1>13, <1>14, <1>15, <1>16
       DEF LedgerOK, base, released, credited, price, Released, OneCompensated

Reported(L, M, D) ==
    Moved(L, M, 0, 0, 0, 0, -cost(L.notes[D]), cost(L.notes[D]))

\* A cash refund that the issuer reports is no longer owed.
LEMMA Acknowledged ==
    ASSUME NEW L, LedgerOK(L), NEW caller, NEW D, NEW amount, NEW payRef, NEW expiry,
           NEW M \in acknowledgeRefund(L, caller, D, amount, payRef, expiry)
    PROVE  /\ D \in DOMAIN L.notes /\ LedgerOK(M) /\ M.quotes = L.quotes
           /\ M.lineCommitment = L.lineCommitment
           /\ L.nullifiers \subseteq M.nullifiers /\ DOMAIN M.notes = DOMAIN L.notes
           /\ \A x \in DOMAIN L.notes \ {D} : RefundPart(M.notes[x]) = RefundPart(L.notes[x])
           /\ M.notes[D].refundCommitment = [note |-> D, amount |-> amount]
           /\ M.notes[D].refundAcknowledged
           /\ M.notes[D].refundPaymentNullifier \in M.nullifiers
           /\ Reported(L, M, D)
<1> DEFINE P == paymentNullifier(payRef)
           m == L.notes[D]
           n == [m EXCEPT !.refundAcknowledged = TRUE, !.refundPaymentNullifier = P]
<1>1. /\ D \in DOMAIN L.notes /\ m.cancelled /\ m.compensationAllocated /\ m.cashRefundOwed
      /\ ~m.refundAcknowledged /\ m.refundCommitment = [note |-> D, amount |-> amount]
      /\ M = [L EXCEPT !.nullifiers = @ \cup {P},
                       !.notes[D].refundAcknowledged = TRUE,
                       !.notes[D].refundPaymentNullifier = P,
                       !.refundReserve = double(@ - cost(m)),
                       !.reportedRefundReserve = double(@ + cost(m))]
    BY DEF acknowledgeRefund, accepted
<1> HIDE DEF P
<1>2. NoteOK(m, D)
    BY <1>1 DEF LedgerOK, NotesOK
<1>3. /\ NoteOK(n, D) /\ n.cancelled /\ n.compensationAllocated /\ n.refundAcknowledged
      /\ n.refundCommitment = [note |-> D, amount |-> amount]
      /\ n.refundPaymentNullifier = P /\ ~n.redeemed
    BY <1>1, <1>2 DEF NoteOK, NoteFields
<1>4. /\ DOMAIN M = LedgerFields
      /\ M.encumberedReserve = L.encumberedReserve
      /\ M.pendingFeeReserve = L.pendingFeeReserve
      /\ M.refundReserve = double(L.refundReserve - cost(m))
      /\ M.redeemedReserve = L.redeemedReserve /\ M.feeReserve = L.feeReserve
      /\ M.totalReserve = L.totalReserve
      /\ M.reportedRefundReserve = double(L.reportedRefundReserve + cost(m))
      /\ M.notes = [L.notes EXCEPT ![D] = n] /\ M.nullifiers = L.nullifiers \cup {P}
      /\ M.quotes = L.quotes /\ M.lineCommitment = L.lineCommitment
    BY <1>1 DEF LedgerOK, LedgerFields
<1> HIDE DEF n
<1>5. /\ encumberedBy(m) = 0 /\ feePendingFor(m) = 0 /\ refundFor(m) = cost(m)
      /\ encumberedBy(n) = 0 /\ feePendingFor(n) = 0 /\ refundFor(n) = 0
    BY <1>1, <1>3 DEF encumberedBy, feePendingFor, refundFor, live, refundDue
<1>6. NotesOK(L.notes)
    BY DEF LedgerOK
<1>7. /\ NotesOK(M.notes)
      /\ Encumbered(M.notes) = Encumbered(L.notes) - encumberedBy(m) + encumberedBy(n)
      /\ FeesPending(M.notes) = FeesPending(L.notes) - feePendingFor(m) + feePendingFor(n)
      /\ Refunds(M.notes) = Refunds(L.notes) - refundFor(m) + refundFor(n)
    BY <1>1, <1>3, <1>4, <1>6, ClaimMoves
<1>8. /\ cost(m) \in Nat /\ \A counter \in Counters : L[counter] \in Nat
      /\ Encumbered(L.notes) \in Nat /\ FeesPending(L.notes) \in Nat
      /\ Refunds(L.notes) \in Nat /\ Refunds(M.notes) \in Nat
    BY <1>2, <1>6, <1>7, Shares, LockedExactly, SumsAreNaturals
<1>12. Moved(L, M, 0, 0, 0, 0, -cost(m), cost(m))
    <2>1. cost(m) <= L.refundReserve
        BY <1>5, <1>7, <1>8 DEF LedgerOK, CountersOK, Counters
    <2>2. /\ L.refundReserve - cost(m) \in 0..MaxSafe
          /\ L.reportedRefundReserve + cost(m) \in 0..MaxSafe
        BY <1>8, <2>1, Numbers DEF locked, Counters, LedgerOK, CountersOK
    <2>3. \A k \in 0..MaxSafe : double(k) = k
        BY ExactDouble, Numbers
    <2> QED
        BY <1>4, <1>8, <2>2, <2>3 DEF Moved, Counters
<1>9. locked(M) = locked(L)
    BY <1>8, <1>12 DEF locked, Counters, Moved
<1>10. CountersOK(M)
    BY <1>4, <1>5, <1>7, <1>8, <1>9, <1>12 DEF LedgerOK, CountersOK, Counters, Moved
<1>11. /\ DOMAIN M.notes = DOMAIN L.notes /\ M.notes[D] = n
       /\ \A x \in DOMAIN L.notes \ {D} : RefundPart(M.notes[x]) = RefundPart(L.notes[x])
    BY <1>1, <1>4
<1> QED
    BY <1>1, <1>3, <1>4, <1>7, <1>10, <1>11, <1>12 DEF LedgerOK, m, Reported

-----------------------------------------------------------------------------
(* The tools: records that open a ledger open the one a call returns *)

\* What a call keeps of the refunds, whose records it leaves alone.
RefundsKept(L, M) ==
    /\ L.nullifiers \subseteq M.nullifiers
    /\ DOMAIN L.notes \subseteq DOMAIN M.notes
    /\ \A x \in DOMAIN L.notes : RefundPart(M.notes[x]) = RefundPart(L.notes[x])
    /\ \A x \in DOMAIN M.notes \ DOMAIN L.notes :
          ~M.notes[x].compensationAllocated /\ ~M.notes[x].refundAcknowledged

\* A snapshot with the records that belong to its ledger.
Opens(s, M) ==
    /\ DOMAIN s = SnapshotFields /\ s.ledger = M
    /\ s.agent = M.lineCommitment
    /\ s.invoices = DOMAIN M.quotes
    /\ s.notes = DOMAIN M.notes

\* One refund opens after a call, when it opened before and nothing of it changed.
LEMMA RefundStaysOpen ==
    ASSUME NEW s, NEW s2, NEW D, RefundOpens(s, D),
           RefundPart(s2.ledger.notes[D]) = RefundPart(s.ledger.notes[D]),
           s.ledger.nullifiers \subseteq s2.ledger.nullifiers,
           D \in DOMAIN s2.refunds <=> D \in DOMAIN s.refunds,
           D \in DOMAIN s.refunds => s2.refunds[D] = s.refunds[D]
    PROVE  RefundOpens(s2, D)
<1> DEFINE m == s.ledger.notes[D]
           n == s2.ledger.notes[D]
<1>1. /\ n.compensationAllocated = m.compensationAllocated
      /\ n.refundCommitment = m.refundCommitment
      /\ n.refundAcknowledged = m.refundAcknowledged
      /\ n.refundPaymentNullifier = m.refundPaymentNullifier
    BY DEF RefundPart
<1>2. /\ m.compensationAllocated =>
            /\ D \in DOMAIN s.refunds
            /\ m.refundCommitment = [note |-> D, amount |-> s.refunds[D].amount]
      /\ m.refundAcknowledged <=>
            D \in DOMAIN s.refunds /\ s.refunds[D].status = "issuer-reported"
      /\ m.refundAcknowledged => m.refundPaymentNullifier \in s.ledger.nullifiers
    BY DEF RefundOpens
<1> SUFFICES
      /\ n.compensationAllocated =>
            /\ D \in DOMAIN s2.refunds
            /\ n.refundCommitment = [note |-> D, amount |-> s2.refunds[D].amount]
      /\ n.refundAcknowledged <=>
            D \in DOMAIN s2.refunds /\ s2.refunds[D].status = "issuer-reported"
      /\ n.refundAcknowledged => n.refundPaymentNullifier \in s2.ledger.nullifiers
    BY DEF RefundOpens
<1> HIDE DEF m, n
<1> QED
    BY <1>1, <1>2

LEMMA SnapshotKept ==
    ASSUME NEW s, SnapshotOK(s), NEW M, LedgerOK(M), RefundsKept(s.ledger, M),
           NEW s2, Opens(s2, M), s2.refunds = s.refunds
    PROVE  SnapshotOK(s2)
<1>1. /\ s2.ledger = M /\ s2.notes = DOMAIN M.notes /\ s.notes = DOMAIN s.ledger.notes
      /\ DOMAIN s.refunds \subseteq s.notes
    BY DEF Opens, SnapshotOK
<1>2. ASSUME NEW D \in s2.notes PROVE RefundOpens(s2, D)
    <2>1. CASE D \in s.notes
        <3>1. RefundOpens(s, D)
            BY <2>1 DEF SnapshotOK
        <3> QED
            BY <1>1, <2>1, <3>1, RefundStaysOpen DEF RefundsKept
    <2>2. CASE D \notin s.notes
        <3>1. ~M.notes[D].compensationAllocated /\ ~M.notes[D].refundAcknowledged
            BY <1>1, <1>2, <2>2 DEF RefundsKept
        <3>2. D \notin DOMAIN s2.refunds
            BY <1>1, <2>2
        <3> QED
            BY <1>1, <3>1, <3>2 DEF RefundOpens
    <2> QED
        BY <2>1, <2>2
<1>3. DOMAIN s2.refunds \subseteq s2.notes
    BY <1>1 DEF RefundsKept
<1> QED
    BY <1>1, <1>2, <1>3 DEF SnapshotOK, Opens

\* The same claims: a call keeps the refunds.
LEMMA SameRefunds ==
    ASSUME NEW L, NEW M, L.nullifiers \subseteq M.nullifiers, DOMAIN M.notes = DOMAIN L.notes,
           \A x \in DOMAIN L.notes : RefundPart(M.notes[x]) = RefundPart(L.notes[x])
    PROVE  RefundsKept(L, M)
BY DEF RefundsKept

\* The ledger is replaced, and the agent's book where the call returned one.
LEMMA LedgerReplaced ==
    ASSUME NEW s, SnapshotOK(s), NEW M, LedgerOK(M), RefundsKept(s.ledger, M),
           DOMAIN M.notes = DOMAIN s.ledger.notes, DOMAIN M.quotes = DOMAIN s.ledger.quotes
    PROVE  /\ SnapshotOK(rebooked(s, M))
           /\ M.lineCommitment = s.ledger.lineCommitment => SnapshotOK([s EXCEPT !.ledger = M])
<1>1. DOMAIN s = SnapshotFields /\ s.agent = s.ledger.lineCommitment
      /\ s.invoices = DOMAIN s.ledger.quotes /\ s.notes = DOMAIN s.ledger.notes
    BY DEF SnapshotOK
<1>2. Opens(rebooked(s, M), M) /\ rebooked(s, M).refunds = s.refunds
    BY <1>1 DEF Opens, SnapshotFields, rebooked
<1>3. ASSUME M.lineCommitment = s.ledger.lineCommitment
      PROVE  Opens([s EXCEPT !.ledger = M], M) /\ [s EXCEPT !.ledger = M].refunds = s.refunds
    BY <1>1, <1>3 DEF Opens, SnapshotFields
<1>4. SnapshotOK(rebooked(s, M))
    BY <1>2, SnapshotKept
<1>5. ASSUME M.lineCommitment = s.ledger.lineCommitment
      PROVE  SnapshotOK([s EXCEPT !.ledger = M])
    <2> DEFINE s2 == [s EXCEPT !.ledger = M]
    <2>1. Opens(s2, M) /\ s2.refunds = s.refunds
        BY <1>3, <1>5
    <2> HIDE DEF s2
    <2>2. SnapshotOK(s2)
        BY <2>1, SnapshotKept
    <2> QED
        BY <2>2 DEF s2
<1> QED
    BY <1>4, <1>5

LEMMA QuotedSnapshot ==
    ASSUME NEW s, SnapshotOK(s), NEW m, NEW invoice, NEW amount, NEW deadline,
           NEW M \in quoteResults(s, m, invoice, amount, deadline)
    PROVE  SnapshotOK(quoted(s, m, invoice, amount, deadline, M))
<1> DEFINE L == s.ledger
           s2 == quoted(s, m, invoice, amount, deadline, M)
           Q == quoteOf(L, m, invoice, amount, deadline)
<1>1. LedgerOK(L) /\ DOMAIN s = SnapshotFields /\ s.agent = L.lineCommitment
      /\ s.invoices = DOMAIN L.quotes /\ s.notes = DOMAIN L.notes
    BY DEF SnapshotOK
<1>2. M \in postQuote(L, m, invoice, amount, deadline)
    BY DEF quoteResults
<1>3. /\ SameMoney(L, M) /\ M.nullifiers = L.nullifiers
      /\ M.lineCommitment = L.lineCommitment /\ DOMAIN M.quotes = DOMAIN L.quotes \cup {Q}
    BY <1>1, <1>2, QuotePosted
<1>4. LedgerOK(M) /\ M.notes = L.notes
    BY <1>1, <1>3, MoneyKept DEF SameMoney
<1>5. RefundsKept(L, M)
    BY <1>3, <1>4 DEF RefundsKept
<1>6. s2 = [s EXCEPT !.ledger = M, !.invoices = @ \cup {Q}]
    BY DEF quoted
<1> HIDE DEF s2, Q
<1>7. Opens(s2, M) /\ s2.refunds = s.refunds
    BY <1>1, <1>3, <1>4, <1>6 DEF Opens, SnapshotFields
<1>8. SnapshotOK(s2)
    BY <1>4, <1>5, <1>7, SnapshotKept
<1> QED
    BY <1>8 DEF s2

LEMMA DrawnSnapshot ==
    ASSUME NEW s, SnapshotOK(s), NEW Q, NEW fee, NEW M \in drawResults(s, Q, fee)
    PROVE  SnapshotOK(drawn(s, Q, fee, M))
<1> DEFINE L == s.ledger
           s2 == drawn(s, Q, fee, M)
           D == noteOf(L, Agent, Q, Q, fee, L.quotes[Q].expiry)
<1>1. LedgerOK(L) /\ DOMAIN s = SnapshotFields /\ s.agent = L.lineCommitment
      /\ s.invoices = DOMAIN L.quotes /\ s.notes = DOMAIN L.notes
    BY DEF SnapshotOK
<1>2. M \in draw(L, Agent, s.agent, Q, Q, fee, L.quotes[Q].expiry)
    BY DEF drawResults
<1>3. /\ LedgerOK(M) /\ DOMAIN M.quotes = DOMAIN L.quotes /\ L.nullifiers \subseteq M.nullifiers
      /\ D \notin DOMAIN L.notes /\ M.notes = Insert(L.notes, D, noteRecord(D))
    BY <1>1, <1>2, Drawn
<1>4. s2 = [s EXCEPT !.ledger = M, !.agent = M.lineCommitment, !.notes = @ \cup {D}]
    BY DEF drawn
<1>5. ~noteRecord(D).compensationAllocated /\ ~noteRecord(D).refundAcknowledged
    BY DEF noteRecord
<1> HIDE DEF s2, D
<1>6. /\ DOMAIN M.notes = DOMAIN L.notes \cup {D} /\ M.notes[D] = noteRecord(D)
      /\ \A x \in DOMAIN L.notes : M.notes[x] = L.notes[x]
    BY <1>3 DEF Insert
<1>7. RefundsKept(L, M)
    BY <1>3, <1>5, <1>6 DEF RefundsKept
<1>8. Opens(s2, M) /\ s2.refunds = s.refunds
    BY <1>1, <1>3, <1>4, <1>6 DEF Opens, SnapshotFields
<1>9. SnapshotOK(s2)
    BY <1>3, <1>7, <1>8, SnapshotKept
<1> QED
    BY <1>9 DEF s2

\* The ledger of these tools is all they write.
LEMMA LedgerToolSnapshot ==
    ASSUME NEW s, SnapshotOK(s), NEW M,
           \/ \E caller, m : M \in registerMerchant(s.ledger, caller, m)
                                    \cup disableMerchant(s.ledger, caller, m)
           \/ \E caller, next, books : M \in setStatus(s.ledger, caller, next, books)
           \/ \E caller, D, opening : M \in redeemDraw(s.ledger, caller, D, opening)
           \/ \E D : M \in expireNote(s.ledger, D)
           \/ \E caller : M \in withdrawFees(s.ledger, caller)
           \/ /\ s.ledger.totalReserve = 0
              /\ \E caller, amount : M \in fundReserve(s.ledger, caller, amount)
    PROVE  SnapshotOK([s EXCEPT !.ledger = M])
<1> DEFINE L == s.ledger
<1>1. LedgerOK(L)
    BY DEF SnapshotOK
<1>2. SUFFICES /\ LedgerOK(M) /\ RefundsKept(L, M) /\ DOMAIN M.notes = DOMAIN L.notes
               /\ DOMAIN M.quotes = DOMAIN L.quotes /\ M.lineCommitment = L.lineCommitment
    BY LedgerReplaced
<1> HIDE DEF L
<1>3. ASSUME /\ LedgerOK(M) /\ M.notes = L.notes /\ M.quotes = L.quotes
             /\ M.nullifiers = L.nullifiers /\ M.lineCommitment = L.lineCommitment
      PROVE  /\ LedgerOK(M) /\ RefundsKept(L, M) /\ DOMAIN M.notes = DOMAIN L.notes
             /\ DOMAIN M.quotes = DOMAIN L.quotes /\ M.lineCommitment = L.lineCommitment
    BY <1>3 DEF RefundsKept
<1>4. CASE \/ \E caller, m : M \in registerMerchant(L, caller, m) \cup disableMerchant(L, caller, m)
           \/ \E caller, next, books : M \in setStatus(L, caller, next, books)
    <2>1. PICK caller :
             \/ \E m : M \in registerMerchant(L, caller, m) \cup disableMerchant(L, caller, m)
             \/ \E next, books : M \in setStatus(L, caller, next, books)
        BY <1>4
    <2>2. SameMoney(L, M) /\ M.quotes = L.quotes /\ M.nullifiers = L.nullifiers
        BY <1>1, <2>1, LineCalls
    <2>3. M.lineCommitment = L.lineCommitment
        BY <1>1, <2>1, BookKept
    <2>4. LedgerOK(M) /\ M.notes = L.notes
        BY <1>1, <2>2, MoneyKept DEF SameMoney
    <2> QED
        BY <1>3, <2>2, <2>3, <2>4
<1>5. CASE \E caller, D, opening : M \in redeemDraw(L, caller, D, opening)
    <2>1. PICK caller, D, opening : M \in redeemDraw(L, caller, D, opening)
        BY <1>5
    <2>2. /\ LedgerOK(M) /\ M.quotes = L.quotes /\ M.lineCommitment = L.lineCommitment
          /\ L.nullifiers \subseteq M.nullifiers /\ DOMAIN M.notes = DOMAIN L.notes
          /\ \A x \in DOMAIN L.notes : RefundPart(M.notes[x]) = RefundPart(L.notes[x])
        BY <1>1, <2>1, Redeemed
    <2> QED
        BY <2>2, SameRefunds
<1>6. CASE \E D : M \in expireNote(L, D)
    <2>1. PICK D : M \in expireNote(L, D)
        BY <1>6
    <2>2. D \in DOMAIN L.notes /\ ~L.notes[D].redeemed /\ M = cancelled(L, D)
        BY <2>1 DEF expireNote, accepted
    <2>3. /\ LedgerOK(M) /\ M.quotes = L.quotes /\ M.lineCommitment = L.lineCommitment
          /\ M.nullifiers = L.nullifiers /\ DOMAIN M.notes = DOMAIN L.notes
          /\ \A x \in DOMAIN L.notes : RefundPart(M.notes[x]) = RefundPart(L.notes[x])
        BY <1>1, <2>2, Cancelled
    <2> QED
        BY <2>3, SameRefunds
<1>7. CASE \E caller : M \in withdrawFees(L, caller)
    BY <1>1, <1>3, <1>7, FeesWithdrawn
<1>8. CASE /\ L.totalReserve = 0
           /\ \E caller, amount : M \in fundReserve(L, caller, amount)
    BY <1>1, <1>3, <1>8, Funded
<1> QED
    BY <1>4, <1>5, <1>6, <1>7, <1>8 DEF L

\* These two return a book with the ledger.
LEMMA RebookedSnapshot ==
    ASSUME NEW s, SnapshotOK(s), NEW M,
           \/ \E caller, agent, limit, expiry, flat, bps :
                  M \in openLine(s.ledger, caller, agent, limit, expiry, flat, bps)
           \/ \E caller, books, receipt, payRef, expiry :
                  M \in acknowledgeRepayment(s.ledger, caller, books, receipt, payRef, expiry)
    PROVE  SnapshotOK(rebooked(s, M))
<1> DEFINE L == s.ledger
<1>1. LedgerOK(L)
    BY DEF SnapshotOK
<1> HIDE DEF L
<1>2. SameMoney(L, M) /\ M.quotes = L.quotes /\ L.nullifiers \subseteq M.nullifiers
    <2>1. CASE \E caller, agent, limit, expiry, flat, bps :
                  M \in openLine(L, caller, agent, limit, expiry, flat, bps)
        <3>1. PICK caller :
                \E agent, limit, expiry, flat, bps :
                  M \in openLine(L, caller, agent, limit, expiry, flat, bps)
            BY <2>1
        <3> QED
            BY <1>1, <3>1, LineCalls
    <2>2. CASE \E caller, books, receipt, payRef, expiry :
                  M \in acknowledgeRepayment(L, caller, books, receipt, payRef, expiry)
        BY <1>1, <2>2, Repaid
    <2> QED
        BY <2>1, <2>2 DEF L
<1>3. LedgerOK(M) /\ M.notes = L.notes
    BY <1>1, <1>2, MoneyKept DEF SameMoney
<1>4. RefundsKept(L, M)
    BY <1>2, <1>3 DEF RefundsKept
<1> QED
    BY <1>2, <1>3, <1>4, LedgerReplaced DEF L

LEMMA CompensatedSnapshot ==
    ASSUME NEW s, SnapshotOK(s), NEW D,
           NEW M \in allocateCompensation(s.ledger, Issuer, D, s.agent)
    PROVE  SnapshotOK(withRefund(s, D, M))
<1> DEFINE L == s.ledger
           s2 == withRefund(s, D, M)
           r == [amount |-> M.notes[D].refundCommitment.amount, status |-> "allocated"]
<1>1. LedgerOK(L) /\ DOMAIN s = SnapshotFields /\ s.agent = L.lineCommitment
      /\ s.invoices = DOMAIN L.quotes /\ s.notes = DOMAIN L.notes
      /\ DOMAIN s.refunds \subseteq s.notes
      /\ \A x \in DOMAIN s.refunds : DOMAIN s.refunds[x] = {"amount", "status"}
    BY DEF SnapshotOK
<1>2. /\ D \in DOMAIN L.notes /\ LedgerOK(M) /\ M.quotes = L.quotes
      /\ M.nullifiers = L.nullifiers /\ DOMAIN M.notes = DOMAIN L.notes
      /\ D.lineGeneration # M.lineGeneration => M.lineCommitment = L.lineCommitment
      /\ \A x \in DOMAIN L.notes \ {D} : RefundPart(M.notes[x]) = RefundPart(L.notes[x])
      /\ \E owed : /\ M.notes[D].refundCommitment = [note |-> D, amount |-> owed]
                   /\ ~M.notes[D].refundAcknowledged
    <2>1. M \in allocateCompensation(L, Issuer, D, s.agent) /\ LedgerOK(L)
        BY <1>1
    <2> HIDE DEF L
    <2>2. OneCompensated(L, M, D)
        BY <2>1, Compensated
    <2> QED
        BY <2>2 DEF OneCompensated
<1>3. s2 = [s EXCEPT !.ledger = M,
                     !.agent = IF D.lineGeneration = M.lineGeneration
                               THEN M.lineCommitment ELSE @,
                     !.refunds = Insert(@, D, r)]
    BY DEF withRefund
<1>4. /\ DOMAIN r = {"amount", "status"} /\ r.status = "allocated"
      /\ M.notes[D].refundCommitment = [note |-> D, amount |-> r.amount]
      /\ ~M.notes[D].refundAcknowledged
    BY <1>2
<1> HIDE DEF s2, r, L
<1>5. Opens(s2, M) /\ s2.refunds = Insert(s.refunds, D, r)
    BY <1>1, <1>2, <1>3 DEF Opens, SnapshotFields
<1>6. /\ DOMAIN s2.refunds = DOMAIN s.refunds \cup {D} /\ s2.refunds[D] = r
      /\ \A x \in DOMAIN s.refunds \ {D} : s2.refunds[x] = s.refunds[x]
    BY <1>5 DEF Insert
<1>7. ASSUME NEW x \in s2.notes PROVE RefundOpens(s2, x)
    <2>1. CASE x = D
        BY <1>4, <1>5, <1>6, <2>1 DEF RefundOpens, Opens
    <2>2. CASE x # D
        <3>1. x \in s.notes /\ RefundOpens(s, x)
            BY <1>1, <1>2, <1>5, <1>7 DEF SnapshotOK, Opens
        <3>2. RefundPart(s2.ledger.notes[x]) = RefundPart(s.ledger.notes[x])
              /\ s.ledger.nullifiers \subseteq s2.ledger.nullifiers
            BY <1>1, <1>2, <1>5, <2>2, <3>1 DEF Opens, L
        <3>3. /\ x \in DOMAIN s2.refunds <=> x \in DOMAIN s.refunds
              /\ x \in DOMAIN s.refunds => s2.refunds[x] = s.refunds[x]
            BY <1>6, <2>2
        <3> QED
            BY <3>1, <3>2, <3>3, RefundStaysOpen
    <2> QED
        BY <2>1, <2>2
<1>8. /\ DOMAIN s2.refunds \subseteq s2.notes
      /\ \A x \in DOMAIN s2.refunds : DOMAIN s2.refunds[x] = {"amount", "status"}
    BY <1>1, <1>2, <1>4, <1>5, <1>6 DEF Opens
<1>9. SnapshotOK(s2)
    BY <1>2, <1>5, <1>7, <1>8 DEF SnapshotOK, Opens
<1> QED
    BY <1>9 DEF s2

\* What line.refund.acknowledge writes.
reported(s, D, M) == [s EXCEPT !.ledger = M, !.refunds[D].status = "issuer-reported"]

LEMMA AcknowledgedSnapshot ==
    ASSUME NEW s, SnapshotOK(s), NEW D \in DOMAIN s.refunds, NEW payRef, NEW expiry,
           NEW M \in acknowledgeRefund(s.ledger, Issuer, D, s.refunds[D].amount, payRef, expiry)
    PROVE  SnapshotOK(reported(s, D, M))
<1> DEFINE L == s.ledger
           s2 == reported(s, D, M)
           r == [s.refunds[D] EXCEPT !.status = "issuer-reported"]
<1>1. LedgerOK(L) /\ DOMAIN s = SnapshotFields /\ s.agent = L.lineCommitment
      /\ s.invoices = DOMAIN L.quotes /\ s.notes = DOMAIN L.notes
      /\ DOMAIN s.refunds \subseteq s.notes
      /\ \A x \in DOMAIN s.refunds : DOMAIN s.refunds[x] = {"amount", "status"}
    BY DEF SnapshotOK
<1>2. /\ LedgerOK(M) /\ M.quotes = L.quotes /\ M.lineCommitment = L.lineCommitment
      /\ L.nullifiers \subseteq M.nullifiers /\ DOMAIN M.notes = DOMAIN L.notes
      /\ \A x \in DOMAIN L.notes \ {D} : RefundPart(M.notes[x]) = RefundPart(L.notes[x])
      /\ M.notes[D].refundCommitment = [note |-> D, amount |-> s.refunds[D].amount]
      /\ M.notes[D].refundAcknowledged
      /\ M.notes[D].refundPaymentNullifier \in M.nullifiers
    <2> DEFINE amount == s.refunds[D].amount
    <2>1. M \in acknowledgeRefund(L, Issuer, D, amount, payRef, expiry) /\ LedgerOK(L)
        BY <1>1
    <2> HIDE DEF L, amount
    <2>2. /\ LedgerOK(M) /\ M.quotes = L.quotes /\ M.lineCommitment = L.lineCommitment
          /\ L.nullifiers \subseteq M.nullifiers /\ DOMAIN M.notes = DOMAIN L.notes
          /\ \A x \in DOMAIN L.notes \ {D} : RefundPart(M.notes[x]) = RefundPart(L.notes[x])
          /\ M.notes[D].refundCommitment = [note |-> D, amount |-> amount]
          /\ M.notes[D].refundAcknowledged
          /\ M.notes[D].refundPaymentNullifier \in M.nullifiers
        BY <2>1, Acknowledged
    <2> QED
        BY <2>2 DEF amount, L
<1>3. /\ DOMAIN s2 = SnapshotFields /\ s2.ledger = M /\ s2.agent = s.agent
      /\ s2.invoices = s.invoices /\ s2.notes = s.notes
      /\ s2.refunds = [s.refunds EXCEPT ![D] = r]
    BY <1>1 DEF SnapshotFields, reported
<1>4. DOMAIN r = {"amount", "status"} /\ r.status = "issuer-reported"
      /\ r.amount = s.refunds[D].amount
    BY <1>1
<1> HIDE DEF s2, r, L
<1>5. /\ DOMAIN s2.refunds = DOMAIN s.refunds /\ s2.refunds[D] = r
      /\ \A x \in DOMAIN s.refunds \ {D} : s2.refunds[x] = s.refunds[x]
    BY <1>3
<1>6. ASSUME NEW x \in s2.notes PROVE RefundOpens(s2, x)
    <2>1. CASE x = D
        BY <1>2, <1>3, <1>4, <1>5, <2>1 DEF RefundOpens
    <2>2. CASE x # D
        <3>1. x \in s.notes /\ RefundOpens(s, x)
            BY <1>3, <1>6 DEF SnapshotOK
        <3>2. RefundPart(s2.ledger.notes[x]) = RefundPart(s.ledger.notes[x])
              /\ s.ledger.nullifiers \subseteq s2.ledger.nullifiers
            BY <1>1, <1>2, <1>3, <2>2, <3>1 DEF L
        <3>3. /\ x \in DOMAIN s2.refunds <=> x \in DOMAIN s.refunds
              /\ x \in DOMAIN s.refunds => s2.refunds[x] = s.refunds[x]
            BY <1>5, <2>2
        <3> QED
            BY <3>1, <3>2, <3>3, RefundStaysOpen
    <2> QED
        BY <2>1, <2>2
<1>7. \A x \in DOMAIN s2.refunds : DOMAIN s2.refunds[x] = {"amount", "status"}
    BY <1>1, <1>4, <1>5
<1>8. SnapshotOK(s2)
    BY <1>1, <1>2, <1>3, <1>5, <1>6, <1>7 DEF SnapshotOK
<1> QED
    BY <1>8 DEF s2

-----------------------------------------------------------------------------
(* The scripted demo *)

LEMMA GenesisOpens == SnapshotOK(genesis) /\ genesis.ledger.totalReserve = 0
<1> DEFINE L == genesis.ledger
<1>1. /\ DOMAIN genesis = SnapshotFields /\ genesis.agent = NoBook
      /\ genesis.invoices = {} /\ genesis.notes = {} /\ DOMAIN genesis.refunds = {}
    BY DEF genesis, NoAgent, SnapshotFields
<1>2. /\ DOMAIN L = LedgerFields /\ DOMAIN L.notes = {} /\ DOMAIN L.quotes = {}
      /\ L.lineCommitment = NoBook /\ L.totalReserve = 0
      /\ L.encumberedReserve = 0 /\ L.redeemedReserve = 0 /\ L.feeReserve = 0
      /\ L.pendingFeeReserve = 0 /\ L.refundReserve = 0 /\ L.reportedRefundReserve = 0
    BY DEF genesis, createLedger, LedgerFields
<1> HIDE DEF L
<1>3. Encumbered(L.notes) = 0 /\ FeesPending(L.notes) = 0 /\ Refunds(L.notes) = 0
    BY <1>2, TotalEmpty, Numbers DEF Encumbered, FeesPending, Refunds, Sum
<1>4. NotesOK(L.notes)
    BY <1>2, FS_EmptySet DEF NotesOK
<1>5. LedgerOK(L)
    BY <1>2, <1>3, <1>4, Numbers DEF LedgerOK, CountersOK, locked
<1> QED
    BY <1>1, <1>2, <1>5 DEF SnapshotOK, L

\* Step 2 funds the reserve, which is empty until then.
DemoOK(n, s) == SnapshotOK(s) /\ (n < 2 => s.ledger.totalReserve = 0)

LEMMA Musts ==
    ASSUME NEW s, NEW results, NEW s2 \in must(s, results)
    PROVE  \E M \in results : s2 = [s EXCEPT !.ledger = M]
BY DEF must

LEMMA DemoStepKept ==
    ASSUME NEW n \in 1..18, NEW s, DemoOK(n - 1, s), NEW deadline, NEW flat,
           NEW bps, NEW s2 \in demoStep(n, s, deadline, flat, bps)
    PROVE  DemoOK(n, s2)
<1> DEFINE L == s.ledger
<1>1. SnapshotOK(s) /\ (n <= 2 => L.totalReserve = 0)
    BY DEF DemoOK
<1>2. CASE n = 1
    <2>1. s2 \in must(s, registerMerchant(L, Issuer, MerchantB))
        BY <1>2 DEF demoStep
    <2>2. PICK M \in registerMerchant(L, Issuer, MerchantB) : s2 = [s EXCEPT !.ledger = M]
        BY <2>1, Musts
    <2>3. SnapshotOK(s2)
        BY <1>1, <2>2, LedgerToolSnapshot
    <2>4. SameMoney(L, M) /\ s2.ledger = M
        BY <1>1, <2>2, LineCalls DEF SnapshotOK, SnapshotFields
    <2> QED
        BY <1>1, <1>2, <2>3, <2>4 DEF DemoOK, SameMoney, Counters
<1>3. CASE n > 1
    <2> SUFFICES SnapshotOK(s2)
        BY <1>3 DEF DemoOK
    <2>1. CASE n = 2
        <3>1. s2 \in must(s, fundReserve(L, Issuer, DemoReserve)) /\ L.totalReserve = 0
            BY <1>1, <2>1 DEF demoStep
        <3>2. PICK M \in fundReserve(L, Issuer, DemoReserve) : s2 = [s EXCEPT !.ledger = M]
            BY <3>1, Musts
        <3> QED
            BY <1>1, <3>1, <3>2, LedgerToolSnapshot
    <2>2. CASE n \in {3, 11}
        <3>1. \E M : /\ s2 = rebooked(s, M)
                     /\ \/ \E caller, agent, limit, expiry, fee, rate :
                              M \in openLine(L, caller, agent, limit, expiry, fee, rate)
                        \/ \E caller, books, receipt, payRef, expiry :
                              M \in acknowledgeRepayment(L, caller, books, receipt, payRef, expiry)
            BY <2>2 DEF demoStep
        <3> QED
            BY <1>1, <3>1, RebookedSnapshot
    <2>3. CASE n \in {4, 9, 12}
        <3>1. \E m, invoice, amount : s2 \in demoQuote(s, m, invoice, amount, deadline)
            BY <2>3 DEF demoStep
        <3> QED
            BY <1>1, <3>1, QuotedSnapshot DEF demoQuote
    <2>4. CASE n \in {5, 13}
        <3>1. \E Q : s2 \in demoDraw(s, Q)
            BY <2>4 DEF demoStep
        <3> QED
            BY <1>1, <3>1, DrawnSnapshot DEF demoDraw
    <2>5. CASE n \in {6, 8, 10, 14, 17, 18}
        <3>1. s2 = s
            BY <2>5 DEF demoStep, blocked
        <3> QED
            BY <1>1, <3>1
    <2>6. CASE n \in {7, 15}
        <3>1. \E m, D : s2 \in must(s, redeemResults(s, m, D))
            BY <2>6 DEF demoStep
        <3>2. PICK m, D : s2 \in must(s, redeemDraw(L, m, D, [D EXCEPT !.merchant = m]))
            BY <3>1 DEF redeemResults
        <3>3. PICK M \in redeemDraw(L, m, D, [D EXCEPT !.merchant = m]) :
                 s2 = [s EXCEPT !.ledger = M]
            BY <3>2, Musts
        <3> QED
            BY <1>1, <3>3, LedgerToolSnapshot
    <2>7. CASE n = 16
        <3>1. s2 \in must(s, setStatus(L, Issuer, "DEFAULTED", s.agent))
            BY <2>7 DEF demoStep
        <3>2. PICK M \in setStatus(L, Issuer, "DEFAULTED", s.agent) :
                 s2 = [s EXCEPT !.ledger = M]
            BY <3>1, Musts
        <3> QED
            BY <1>1, <3>2, LedgerToolSnapshot
    <2> QED
        BY <1>3, <2>1, <2>2, <2>3, <2>4, <2>5, <2>6, <2>7
<1> QED
    BY <1>2, <1>3

\* The recursion over the script is a function: one exists up to every step.
demoSnapshots(flat, bps) ==
    LET snap[n \in 0..18] ==
            IF n = 0 THEN {genesis}
            ELSE UNION {demoStep(n, s, now + Lag, flat, bps) : s \in snap[n - 1]}
    IN  snap

LEMMA DemoRecursion ==
    ASSUME NEW flat, NEW bps, NEW snap, snap = demoSnapshots(flat, bps)
    PROVE  /\ snap[0] = {genesis}
           /\ \A n \in 1..18 :
                 snap[n] = UNION {demoStep(n, s, now + Lag, flat, bps) : s \in snap[n - 1]}
<1> DEFINE After(n, S) == UNION {demoStep(n, s, now + Lag, flat, bps) : s \in S}
           Upto(m, f) == f = [n \in 0..m |-> IF n = 0 THEN {genesis} ELSE After(n, f[n - 1])]
           Reached == {m \in Nat : \E f : Upto(m, f)}
<1>1. 0 \in Reached
    <2> DEFINE f == [n \in 0..0 |-> {genesis}]
    <2>1. f = [n \in 0..0 |-> IF n = 0 THEN {genesis} ELSE After(n, f[n - 1])]
        <3> HIDE DEF After
        <3> QED
            OBVIOUS
    <2> QED
        BY <2>1
<1>2. ASSUME NEW m \in Nat, m \in Reached PROVE m + 1 \in Reached
    <2>1. PICK f : Upto(m, f)
        BY <1>2
    <2> DEFINE g == [n \in 0..(m + 1) |-> IF n <= m THEN f[n] ELSE After(m + 1, f[m])]
    <2> HIDE DEF After
    <2>2. ASSUME NEW n \in 0..(m + 1)
          PROVE  g[n] = IF n = 0 THEN {genesis} ELSE After(n, g[n - 1])
        <3>1. CASE n = 0
            BY <2>1, <3>1
        <3>2. CASE n # 0 /\ n <= m
            <4>1. f[n] = After(n, f[n - 1])
                <5>1. n \in 0..m /\ n # 0
                    BY <3>2
                <5>2. \A x \in 0..m : f[x] = IF x = 0 THEN {genesis} ELSE After(x, f[x - 1])
                    BY <2>1
                <5> HIDE DEF Upto
                <5> QED
                    BY <5>1, <5>2
            <4>2. g[n] = f[n] /\ g[n - 1] = f[n - 1]
                BY <3>2
            <4> QED
                BY <3>2, <4>1, <4>2
        <3>3. CASE n = m + 1
            BY <3>3
        <3> QED
            BY <3>1, <3>2, <3>3
    <2>3. g = [n \in 0..(m + 1) |-> IF n = 0 THEN {genesis} ELSE After(n, g[n - 1])]
        BY <2>2
    <2>4. Upto(m + 1, g)
        BY <2>3
    <2> HIDE DEF g, Upto
    <2> QED
        BY <2>4
<1>3. \E f : Upto(18, f)
    <2> HIDE DEF Reached
    <2>1. \A m \in Nat : m \in Reached
        BY <1>1, <1>2, NatSetInduction
    <2> QED
        BY <2>1 DEF Reached
<1>4. Upto(18, snap)
    BY <1>3 DEF demoSnapshots
<1> HIDE DEF After
<1>5. ASSUME NEW n \in 0..18
      PROVE  snap[n] = IF n = 0 THEN {genesis} ELSE After(n, snap[n - 1])
    BY <1>4
<1>6. snap[0] = {genesis} /\ \A n \in 1..18 : snap[n] = After(n, snap[n - 1])
    BY <1>5
<1> QED
    BY <1>6 DEF After

LEMMA DemoOpens ==
    ASSUME NEW step \in 0..18, NEW flat, NEW bps, NEW s \in snapshotAt(step, flat, bps)
    PROVE  SnapshotOK(s)
<1> DEFINE snap == demoSnapshots(flat, bps)
           Good == {n \in Nat : n <= 18 => \A t \in snap[n] : DemoOK(n, t)}
<1>1. s \in snap[step]
    BY DEF snapshotAt, demoSnapshots
<1>2. /\ snap[0] = {genesis}
      /\ \A n \in 1..18 : snap[n] = UNION {demoStep(n, t, now + Lag, flat, bps) : t \in snap[n - 1]}
    BY DemoRecursion
<1> HIDE DEF snap
<1>3. 0 \in Good
    BY <1>2, GenesisOpens DEF DemoOK
<1>4. ASSUME NEW n \in Nat, n \in Good PROVE n + 1 \in Good
    <2>1. ASSUME n + 1 <= 18, NEW s2 \in snap[n + 1] PROVE DemoOK(n + 1, s2)
        <3>0. n + 1 \in 1..18 /\ n + 1 - 1 = n
            BY <2>1
        <3>1. PICK t \in snap[n] : s2 \in demoStep(n + 1, t, now + Lag, flat, bps)
            <4>1. snap[n + 1] = UNION {demoStep(n + 1, t, now + Lag, flat, bps) : t \in snap[n]}
                BY <1>2, <3>0
            <4> QED
                BY <2>1, <4>1
        <3>2. DemoOK(n, t) /\ n + 1 \in 1..18 /\ n + 1 - 1 = n
            BY <1>4, <2>1, <3>0
        <3> QED
            BY <3>1, <3>2, DemoStepKept
    <2> QED
        BY <2>1
<1>5. \A n \in Nat : n \in Good
    <2> HIDE DEF Good
    <2> QED
        BY <1>3, <1>4, NatSetInduction
<1> QED
    BY <1>1, <1>5 DEF DemoOK

-----------------------------------------------------------------------------
(* The server *)

LEMMA McpInvInit == McpInit => McpInv
BY DEF McpInit, McpInv, readable

\* What a tool writes may be anything that opens; what waits is left alone.
LEMMA Written ==
    ASSUME McpInv, readable' => SnapshotOK(file'), waiting' = waiting
    PROVE  McpInv'
BY DEF McpInv

\* The tools that read and write in one step.
LEMMA SeedKeeps == McpInv /\ lineSeed => McpInv'
<1> SUFFICES ASSUME McpInv, lineSeed PROVE McpInv'
    OBVIOUS
<1>1. PICK step \in SeedSteps, flat \in DemoFees, bps \in DemoRates :
         file' \in snapshotAt(step, flat, bps)
    BY DEF lineSeed
<1>2. step \in 0..18
    BY DemoAmounts
<1>3. SnapshotOK(file')
    BY <1>1, <1>2, DemoOpens
<1> QED
    BY <1>3, Written DEF lineSeed

LEMMA QuoteKeeps ==
    ASSUME McpInv, NEW m, NEW invoice, NEW amount, lineQuote(m, invoice, amount)
    PROVE  McpInv'
<1>1. PICK M \in quoteResults(file, m, invoice, amount, now + Lag) :
         write(quoted(file, m, invoice, amount, now + Lag, M))
    BY DEF lineQuote
<1>2. SnapshotOK(file)
    BY DEF lineQuote, McpInv
<1> QED
    BY <1>1, <1>2, QuotedSnapshot, Written DEF write

LEMMA DrawKeeps ==
    ASSUME McpInv, NEW Q, NEW fee, lineDraw(Q, fee)
    PROVE  McpInv'
<1>1. PICK M \in drawResults(file, Q, fee) : write(drawn(file, Q, fee, M))
    BY DEF lineDraw
<1>2. SnapshotOK(file)
    BY DEF lineDraw, McpInv
<1> QED
    BY <1>1, <1>2, DrawnSnapshot, Written DEF write

LEMMA RepayKeeps ==
    ASSUME McpInv, NEW amount, NEW payRef, lineRepay(amount, payRef)
    PROVE  McpInv'
<1>1. PICK M \in acknowledgeRepayment(file.ledger, Issuer, file.agent,
                                     receiptFor(file, amount), payRef, now + Lag) :
         write(rebooked(file, M))
    BY DEF lineRepay
<1>2. SnapshotOK(file)
    BY DEF lineRepay, McpInv
<1> QED
    BY <1>1, <1>2, RebookedSnapshot, Written DEF write

LEMMA LedgerToolsKeep ==
    ASSUME McpInv,
           \/ \E D, m : lineRedeem(D, m)
           \/ \E D : lineExpireNote(D)
           \/ lineWithdrawFees
           \/ \E m : lineDisableMerchant(m)
    PROVE  McpInv'
<1>1. PICK M :
         /\ write([file EXCEPT !.ledger = M])
         /\ \/ \E m : M \in disableMerchant(file.ledger, Issuer, m)
            \/ \E m, D : M \in redeemDraw(file.ledger, m, D, D)
            \/ \E D : M \in expireNote(file.ledger, D)
            \/ M \in withdrawFees(file.ledger, Issuer)
    BY DEF lineRedeem, lineExpireNote, lineWithdrawFees, lineDisableMerchant, writeLedger
<1>2. SnapshotOK(file)
    BY DEF lineRedeem, lineExpireNote, lineWithdrawFees, lineDisableMerchant, McpInv
<1>3. SnapshotOK([file EXCEPT !.ledger = M])
    BY <1>1, <1>2, LedgerToolSnapshot
<1> QED
    BY <1>1, <1>3, Written DEF write

\* The tools that wait: what they read opens, so what they write from it does.
LEMMA WaitKeeps ==
    ASSUME McpInv, NEW slot \in Slots,
           \/ \E D : callCompensate(slot, D)
           \/ \E D, payRef : callAcknowledge(slot, D, payRef)
    PROVE  McpInv'
<1>1. PICK call : startWaiting(slot, call) /\ call.read = file
    <2>1. CASE \E D : callCompensate(slot, D)
        <3>1. PICK D : startWaiting(slot, [tool |-> "compensate", note |-> D, read |-> file])
            BY <2>1 DEF callCompensate
        <3> QED
            BY <3>1
    <2>2. CASE \E D, payRef : callAcknowledge(slot, D, payRef)
        <3>1. PICK D, payRef :
                startWaiting(slot, [tool |-> "acknowledge", note |-> D, read |-> file,
                                    ref |-> payRef])
            BY <2>2 DEF callAcknowledge
        <3> QED
            BY <3>1
    <2> QED
        BY <2>1, <2>2
<1>2. SnapshotOK(file) /\ file' = file /\ waiting' = [waiting EXCEPT ![slot] = call]
    BY <1>1 DEF startWaiting, McpInv
<1>3. DOMAIN waiting' = Slots /\ readable' = readable
    BY <1>2 DEF McpInv, readable
<1>4. ASSUME NEW x \in Slots, waiting'[x] # None PROVE SnapshotOK(waiting'[x].read)
    <2>1. CASE x = slot
        BY <1>1, <1>2, <2>1 DEF McpInv
    <2>2. CASE x # slot
        BY <1>2, <1>4, <2>2 DEF McpInv
    <2> QED
        BY <2>1, <2>2
<1> QED
    BY <1>2, <1>3, <1>4 DEF McpInv

LEMMA Resumed ==
    ASSUME McpInv, NEW slot \in Slots, waiting' = [waiting EXCEPT ![slot] = None],
           file' = file \/ SnapshotOK(file')
    PROVE  McpInv'
<1>1. DOMAIN waiting' = Slots
    BY DEF McpInv
<1>2. readable' => SnapshotOK(file')
    BY DEF McpInv, readable
<1>3. ASSUME NEW x \in Slots, waiting'[x] # None PROVE SnapshotOK(waiting'[x].read)
    BY <1>3 DEF McpInv
<1> QED
    BY <1>1, <1>2, <1>3 DEF McpInv

LEMMA CompensateKeeps ==
    ASSUME McpInv, NEW slot \in Slots, lineCompensate(slot)
    PROVE  McpInv'
<1> DEFINE s == waiting[slot].read
           D == waiting[slot].note
           results == allocateCompensation(s.ledger, Issuer, D, s.agent)
<1>1. /\ waiting[slot].tool = "compensate"
      /\ waiting' = [waiting EXCEPT ![slot] = None]
      /\ file' = file \/ \E M \in results : file' = withRefund(s, D, M)
    BY DEF lineCompensate
<1>2. SnapshotOK(s)
    <2>1. waiting[slot].tool # "none"
        BY <1>1
    <2>2. waiting[slot] # None
        BY <2>1 DEF None
    <2> QED
        BY <2>2 DEF McpInv
<1> HIDE DEF s, D
<1>3. file' = file \/ SnapshotOK(file')
    BY <1>1, <1>2, CompensatedSnapshot
<1> QED
    BY <1>1, <1>3, Resumed

LEMMA AcknowledgeKeeps ==
    ASSUME McpInv, NEW slot \in Slots, lineAcknowledgeRefund(slot)
    PROVE  McpInv'
<1> DEFINE s == waiting[slot].read
           D == waiting[slot].note
<1>1. /\ waiting[slot].tool = "acknowledge"
      /\ waiting' = [waiting EXCEPT ![slot] = None]
      /\ \/ file' = file
         \/ /\ D \in DOMAIN s.refunds
            /\ \E M \in acknowledgeRefund(s.ledger, Issuer, D, s.refunds[D].amount,
                                          waiting[slot].ref, now + Lag) :
                  file' = reported(s, D, M)
    BY DEF lineAcknowledgeRefund, reported
<1>2. SnapshotOK(s)
    <2>1. waiting[slot].tool # "none"
        BY <1>1
    <2>2. waiting[slot] # None
        BY <2>1 DEF None
    <2> QED
        BY <2>2 DEF McpInv
<1> HIDE DEF s, D
<1>3. file' = file \/ SnapshotOK(file')
    BY <1>1, <1>2, AcknowledgedSnapshot
<1> QED
    BY <1>1, <1>3, Resumed

\* A crash loses what waited, and keeps the file or leaves one that is not read.
LEMMA CrashKeeps == McpInv /\ McpCrash => McpInv'
BY DEF McpInv, McpCrash, readable

LEMMA McpStep == McpInv /\ McpNext => McpInv'
<1> SUFFICES ASSUME McpInv, McpNext PROVE McpInv'
    OBVIOUS
<1>1. CASE McpTick
    BY <1>1, Written DEF McpTick, McpInv, readable
<1>2. CASE McpCrash
    BY <1>2, CrashKeeps
<1>3. CASE lineSeed
    BY <1>3, SeedKeeps
<1>4. CASE \E m, invoice, amount : lineQuote(m, invoice, amount)
    BY <1>4, QuoteKeeps
<1>5. CASE \E Q, fee : lineDraw(Q, fee)
    BY <1>5, DrawKeeps
<1>6. CASE \E amount, payRef : lineRepay(amount, payRef)
    BY <1>6, RepayKeeps
<1>7. CASE \/ \E D, m : lineRedeem(D, m)
           \/ \E D : lineExpireNote(D)
           \/ lineWithdrawFees
           \/ \E m : lineDisableMerchant(m)
    BY <1>7, LedgerToolsKeep
<1>8. CASE \E slot \in Slots : \/ \E D : callCompensate(slot, D)
                              \/ \E D, payRef : callAcknowledge(slot, D, payRef)
    BY <1>8, WaitKeeps
<1>9. CASE \E slot \in Slots : lineCompensate(slot)
    BY <1>9, CompensateKeeps
<1>10. CASE \E slot \in Slots : lineAcknowledgeRefund(slot)
    BY <1>10, AcknowledgeKeeps
<1> QED
    BY <1>1, <1>2, <1>3, <1>4, <1>5, <1>6, <1>7, <1>8, <1>9, <1>10 DEF McpNext

-----------------------------------------------------------------------------
(* The theorem *)

LEMMA OpensRecords == McpInv => RecordsOpenLedger
<1> SUFFICES ASSUME McpInv, readable
             PROVE  /\ file.agent = file.ledger.lineCommitment
                    /\ file.invoices = DOMAIN file.ledger.quotes
                    /\ file.notes = DOMAIN file.ledger.notes
                    /\ \A counter \in Counters : safe(file.ledger[counter])
                    /\ lockedReserve(file.ledger) <= file.ledger.totalReserve
                    /\ \A D \in file.notes : RefundOpens(file, D)
    BY DEF RecordsOpenLedger, RefundOpens
<1>1. SnapshotOK(file)
    BY DEF McpInv
<1>2. LedgerOK(file.ledger)
    BY <1>1 DEF SnapshotOK
<1>3. lockedReserve(file.ledger) <= file.ledger.totalReserve
    BY <1>2, LockedExactly DEF LedgerOK, CountersOK
<1> QED
    BY <1>1, <1>2, <1>3, LockedExactly DEF SnapshotOK

LEMMA McpInvariant == HostSpec => []McpInv
<1>1. HostInit => McpInv
    BY McpInvInit DEF HostInit
<1>2. McpInv /\ [HostNext]_hostVars => McpInv'
    <2> SUFFICES ASSUME McpInv, [HostNext]_hostVars PROVE McpInv'
        OBVIOUS
    <2>1. CASE UNCHANGED mcpState
        BY <2>1 DEF mcpState, McpInv, readable
    <2>2. CASE McpNext
        BY <2>2, McpStep
    <2> QED
        BY <2>1, <2>2 DEF HostNext, hostVars, mcpState
<1> QED
    BY <1>1, <1>2, PTL DEF HostSpec

\* Whatever the tools overlap with, and wherever the process dies, the private
\* records of the file open its ledger, and its budgets pass readState's check.
THEOREM RecordsAlwaysOpen == HostSpec => []RecordsOpenLedger
BY McpInvariant, OpensRecords, PTL

-----------------------------------------------------------------------------
(* The page: what it accepts, the contract accepts *)

\* A function, and no other value with a domain.
IsMap(f) == f = [x \in DOMAIN f |-> f[x]]

\* The commitment of a claim binds what its entry holds, and names a borrower.
Binds(D, n) ==
    /\ IsMap(n)
    /\ D = C!drawNoteCommit(D.lineGeneration, D.identity, D.quote, D.merchant, D.amount,
                            D.fee, D.expiry)
    /\ n.amount = D.amount /\ n.fee = D.fee /\ D.lineGeneration \in Nat
    /\ D.identity \in Agents

\* The book opens for the borrower, with numbers that are safe.
BookOK(L) ==
    LET b == L.lineCommitment
    IN  /\ b = lineStateCommit(L.identityCommitment, b.limit, b.outstanding, b.epoch)
        /\ safe(b.outstanding) /\ safe(b.epoch)

\* While the reserve is exact: the budgets add up, and the records have the shape
\* the contract gives them.
PageOK(L) ==
    /\ LedgerOK(L) /\ BookOK(L)
    /\ L.feeFlat \in Nat /\ L.feeBps \in Nat /\ L.lineGeneration \in Nat
    /\ L.status \in C!Status
    /\ L.status # "NONE" => L.identityCommitment \in Agents
    /\ IsMap(L.quotes) /\ IsMap(L.notes)
    /\ \A D \in DOMAIN L.notes : Binds(D, L.notes[D])

PageInv == ~rounded => PageOK(ledger)

\* Only the issuer's key differs.
SameButIssuer(L, M) ==
    /\ DOMAIN M = LedgerFields
    /\ \A field \in LedgerFields \ {"issuerPubKey"} : M[field] = L[field]

LEMMA GenesisBound ==
    ASSUME PageOK(ledger), NEW caller, NEW L, L = bindGenesisIssuer(caller)
    PROVE  PageOK(L) /\ SameButIssuer(ledger, L)
<1>1. DOMAIN ledger = LedgerFields
    BY DEF PageOK, LedgerOK
<1>2. SameButIssuer(ledger, L)
    BY <1>1 DEF bindGenesisIssuer, SameButIssuer, LedgerFields
<1>3. /\ SameMoney(ledger, L) /\ L.status = ledger.status /\ L.quotes = ledger.quotes
      /\ L.identityCommitment = ledger.identityCommitment /\ L.feeFlat = ledger.feeFlat
      /\ L.lineCommitment = ledger.lineCommitment /\ L.feeBps = ledger.feeBps
      /\ L.lineGeneration = ledger.lineGeneration /\ L.notes = ledger.notes
    BY <1>2 DEF SameButIssuer, LedgerFields, SameMoney, Counters
<1>4. LedgerOK(L)
    BY <1>3, MoneyKept DEF PageOK
<1> QED
    BY <1>2, <1>3, <1>4 DEF PageOK, BookOK

\* The counters of a ledger that adds up pass every cast.
LEMMA CastsPass ==
    ASSUME LedgerOK(ledger')
    PROVE  C!castsHold
<1>1. \A counter \in Counters : ledger'[counter] \in Nat /\ ledger'[counter] <= MaxSafe
    BY LockedExactly, Numbers DEF safe
<1>2. \A counter \in Counters : ledger'[counter] \in 0..MaxUint64
    BY <1>1, Numbers DEF Counters
<1> QED
    BY <1>2 DEF C!castsHold, C!CountersOK, C!Uint64, Counters

\* What is locked is the same number on both sides.
LEMMA LockedAlike ==
    ASSUME PageOK(ledger), NEW L, SameButIssuer(ledger, L)
    PROVE  /\ lockedReserve(L) = C!locked
           /\ C!locked \in Nat /\ C!locked <= ledger.totalReserve
           /\ \A counter \in Counters : ledger[counter] \in Nat /\ safe(ledger[counter])
<1>1. /\ lockedReserve(ledger) = locked(ledger) /\ locked(ledger) \in Nat
      /\ locked(ledger) <= ledger.totalReserve
      /\ \A counter \in Counters : ledger[counter] \in Nat /\ safe(ledger[counter])
    BY LockedExactly DEF PageOK, LedgerOK, CountersOK
<1>2. locked(ledger) = C!locked
    BY DEF locked, C!locked
<1>3. lockedReserve(L) = lockedReserve(ledger)
    BY DEF SameButIssuer, LedgerFields, lockedReserve
<1> QED
    BY <1>1, <1>2, <1>3

-----------------------------------------------------------------------------
(* Merchants and reserve *)

\* Neither the claims nor the line nor the quotes change.
SameLine(L, M) ==
    /\ DOMAIN M = LedgerFields
    /\ \A field \in LedgerFields \ ({"issuerPubKey", "registeredMerchants"} \cup Counters) :
          M[field] = L[field]

LEMMA LineKept ==
    ASSUME NEW L, PageOK(L), NEW M, SameLine(L, M), LedgerOK(M)
    PROVE  PageOK(M)
<1>1. /\ M.status = L.status /\ M.quotes = L.quotes
      /\ M.identityCommitment = L.identityCommitment /\ M.feeFlat = L.feeFlat
      /\ M.lineCommitment = L.lineCommitment /\ M.feeBps = L.feeBps
      /\ M.lineGeneration = L.lineGeneration /\ M.notes = L.notes
    BY DEF SameLine, LedgerFields, Counters
<1> QED
    BY <1>1 DEF PageOK, BookOK

\* A deposit that the reserve holds exactly did not round.
LEMMA NoRounding ==
    ASSUME NEW n \in Nat, n <= 2 * MaxSafe, double(n) <= MaxSafe
    PROVE  double(n) = n /\ n <= MaxSafe
<1>1. CASE n <= MaxSafe + 1
    BY <1>1 DEF double
<1>2. CASE n > MaxSafe + 1
    <2>1. gapAt(n) = 2
        <3> DEFINE P(g) == n <= g * (MaxSafe + 1) /\ g * (MaxSafe + 1) < 2 * n
        <3>1. 2 \in Gaps /\ P(2)
            BY <1>2, Numbers DEF Gaps
        <3>2. ASSUME NEW g \in Gaps, P(g) PROVE g = 2
            <4>1. g = 2 \/ (g \in Nat /\ g >= 4)
                BY DEF Gaps
            <4>2. CASE g \in Nat /\ g >= 4
                <5>1. g * (MaxSafe + 1) >= 4 * (MaxSafe + 1)
                    BY <4>2, Numbers
                <5> QED
                    BY <3>2, <4>2, <5>1, Numbers
            <4> QED
                BY <4>1, <4>2
        <3>3. \E g \in Gaps : P(g)
            BY <3>1
        <3>4. gapAt(n) \in Gaps /\ P(gapAt(n))
            BY <3>3 DEF gapAt
        <3> QED
            BY <3>2, <3>4
    <2>2. double(n) = nearest(n, 2)
        BY <1>2, <2>1, Numbers DEF double
    <2>3. n \div 2 \in Nat /\ (n = 2 * (n \div 2) \/ n = 2 * (n \div 2) + 1)
        OBVIOUS
    <2>4. nearest(n, 2) \in Nat /\ nearest(n, 2) >= n - 1
        BY <2>3 DEF nearest
    <2> QED
        BY <1>2, <2>2, <2>4, Numbers
<1> QED
    BY <1>1, <1>2, Numbers

\* What a step leaves, as the contract names it.
TermFields == {"feeFlat", "feeBps", "identityCommitment", "lineExpiry", "lineGeneration"}
Kept(fields) == \A field \in fields : ledger'[field] = ledger[field]

LEMMA KeptAlike ==
    /\ Kept(Counters) => UNCHANGED C!counters
    /\ Kept(TermFields) => UNCHANGED C!terms
    /\ Kept({"lineCommitment", "status"}) =>
          ledger'.lineCommitment = ledger.lineCommitment /\ ledger'.status = ledger.status
    /\ Kept({"quotes", "notes", "nullifiers"}) =>
          /\ ledger'.quotes = ledger.quotes /\ ledger'.notes = ledger.notes
          /\ ledger'.nullifiers = ledger.nullifiers
BY DEF Kept, Counters, TermFields, C!counters, C!terms

LEMMA LineKeptAlike ==
    ASSUME Kept(LedgerFields \ ({"issuerPubKey", "registeredMerchants"} \cup Counters))
    PROVE  /\ UNCHANGED C!terms /\ ledger'.lineCommitment = ledger.lineCommitment
           /\ ledger'.status = ledger.status
           /\ ledger'.quotes = ledger.quotes /\ ledger'.notes = ledger.notes
           /\ ledger'.nullifiers = ledger.nullifiers
BY DEF Kept, Counters, LedgerFields, C!terms

LEMMA RegisterFollows ==
    ASSUME PageOK(ledger), NEW caller, NEW L, L = bindGenesisIssuer(caller),
           NEW m, ledger' \in registerMerchant(L, caller, m), UNCHANGED <<now, repaid>>
    PROVE  PageOK(ledger') /\ (C!registerMerchant(Issuer, m) \/ Reenabled)
<1>1. PageOK(L) /\ SameButIssuer(ledger, L)
    BY GenesisBound
<1>2. /\ m \in DOMAIN L.registeredMerchants => ~L.registeredMerchants[m]
      /\ ledger' = [L EXCEPT !.registeredMerchants = Insert(@, m, TRUE)]
    BY DEF registerMerchant, accepted
<1>3. SameMoney(L, ledger') /\ SameLine(L, ledger')
      /\ ledger'.registeredMerchants = Insert(ledger.registeredMerchants, m, TRUE)
    BY <1>1, <1>2 DEF SameButIssuer, SameMoney, SameLine, LedgerFields, Counters
<1>4. PageOK(ledger')
    BY <1>1, <1>3, LineKept, MoneyKept DEF PageOK
<1>5. /\ Kept(LedgerFields \ ({"issuerPubKey", "registeredMerchants"} \cup Counters))
      /\ Kept(Counters)
    BY <1>1, <1>3 DEF Kept, SameLine, SameMoney, SameButIssuer, LedgerFields, Counters
<1>6. CASE m \notin DOMAIN ledger.registeredMerchants
    BY <1>3, <1>4, <1>5, <1>6, KeptAlike, LineKeptAlike
       DEF C!registerMerchant, C!requireIssuer, C!Insert, Insert
<1>7. CASE m \in DOMAIN ledger.registeredMerchants
    <2>1. ~ledger.registeredMerchants[m]
        BY <1>1, <1>2, <1>7 DEF SameButIssuer, LedgerFields
    <2>2. ledger' = [ledger EXCEPT !.registeredMerchants[m] = TRUE,
                                   !.issuerPubKey = ledger'.issuerPubKey]
        <3> DEFINE map == Insert(L.registeredMerchants, m, TRUE)
        <3>1. map = [ledger.registeredMerchants EXCEPT ![m] = TRUE]
            BY <1>1, <1>7 DEF Insert, SameButIssuer, LedgerFields
        <3>2. ledger' = [L EXCEPT !.registeredMerchants = map] /\ DOMAIN ledger = LedgerFields
            BY <1>1, <1>2 DEF SameButIssuer, PageOK, LedgerOK
        <3> HIDE DEF map
        <3>3. L = [ledger EXCEPT !.issuerPubKey = caller] \/ L = ledger
            BY DEF bindGenesisIssuer
        <3>4. ledger' = [ledger EXCEPT !.registeredMerchants = map,
                                       !.issuerPubKey = ledger'.issuerPubKey]
            BY <3>2, <3>3 DEF LedgerFields
        <3> QED
            BY <3>1, <3>4
    <2> QED
        BY <1>4, <1>7, <2>1, <2>2 DEF Reenabled
<1> QED
    BY <1>6, <1>7

LEMMA DisableFollows ==
    ASSUME PageOK(ledger), NEW caller, NEW L, L = bindGenesisIssuer(caller),
           NEW m, ledger' \in disableMerchant(L, caller, m), UNCHANGED <<now, repaid>>
    PROVE  PageOK(ledger') /\ C!disableMerchant(Issuer, m)
<1>1. PageOK(L) /\ SameButIssuer(ledger, L)
    BY GenesisBound
<1>2. /\ m \in DOMAIN L.registeredMerchants
      /\ ledger' = [L EXCEPT !.registeredMerchants = Insert(@, m, FALSE)]
    BY DEF disableMerchant, accepted
<1>3. SameMoney(L, ledger') /\ SameLine(L, ledger')
      /\ ledger'.registeredMerchants = Insert(ledger.registeredMerchants, m, FALSE)
      /\ m \in DOMAIN ledger.registeredMerchants
    BY <1>1, <1>2 DEF SameButIssuer, SameMoney, SameLine, LedgerFields, Counters
<1>4. PageOK(ledger')
    BY <1>1, <1>3, LineKept, MoneyKept DEF PageOK
<1>5. /\ Kept(LedgerFields \ ({"issuerPubKey", "registeredMerchants"} \cup Counters))
      /\ Kept(Counters)
    BY <1>1, <1>3 DEF Kept, SameLine, SameMoney, SameButIssuer, LedgerFields, Counters
<1> QED
    BY <1>3, <1>4, <1>5, KeptAlike, LineKeptAlike
       DEF C!disableMerchant, C!requireIssuer, C!Insert, Insert

\* The reserve takes another exact amount that covers what is locked.
LEMMA ReserveSet ==
    ASSUME NEW L, PageOK(L), NEW t \in Nat, t <= MaxSafe, locked(L) <= t,
           NEW M, M = [L EXCEPT !.totalReserve = t]
    PROVE  /\ PageOK(M) /\ SameLine(L, M)
           /\ M.registeredMerchants = L.registeredMerchants
           /\ \A counter \in Counters \ {"totalReserve"} : M[counter] = L[counter]
           /\ M.totalReserve = t
<1>1. /\ DOMAIN M = LedgerFields /\ M.totalReserve = t
      /\ \A field \in LedgerFields \ {"totalReserve"} : M[field] = L[field]
    BY DEF PageOK, LedgerOK, LedgerFields
<1>2. SameLine(L, M) /\ M.registeredMerchants = L.registeredMerchants
      /\ \A counter \in Counters \ {"totalReserve"} : M[counter] = L[counter]
    BY <1>1 DEF SameLine, LedgerFields, Counters
<1>3. locked(M) = locked(L) /\ M.notes = L.notes
    BY <1>1 DEF locked, LedgerFields
<1>4. LedgerOK(M)
    BY <1>1, <1>3 DEF PageOK, LedgerOK, CountersOK, LedgerFields
<1> QED
    BY <1>1, <1>2, <1>4, LineKept

LEMMA ReserveSetAlike ==
    ASSUME PageOK(ledger), NEW L, SameButIssuer(ledger, L), PageOK(L),
           NEW t \in Nat, t <= MaxSafe, C!locked <= t,
           ledger' = [L EXCEPT !.totalReserve = t], UNCHANGED <<now, repaid>>
    PROVE  /\ PageOK(ledger') /\ C!castsHold
           /\ ledger'.totalReserve = t
           /\ ledger'.registeredMerchants = ledger.registeredMerchants
           /\ Kept(LedgerFields \ ({"issuerPubKey", "registeredMerchants"} \cup Counters))
           /\ Kept(Counters \ {"totalReserve"})
<1>1. locked(L) = C!locked
    BY DEF SameButIssuer, LedgerFields, locked, C!locked
<1>2. /\ PageOK(ledger') /\ SameLine(L, ledger') /\ ledger'.totalReserve = t
      /\ ledger'.registeredMerchants = L.registeredMerchants
      /\ \A counter \in Counters \ {"totalReserve"} : ledger'[counter] = L[counter]
    BY <1>1, ReserveSet
<1>3. C!castsHold
    BY <1>2, CastsPass DEF PageOK
<1> QED
    BY <1>2, <1>3 DEF Kept, SameLine, SameButIssuer, LedgerFields, Counters

LEMMA FundFollows ==
    ASSUME PageOK(ledger), NEW caller, NEW L, L = bindGenesisIssuer(caller),
           NEW amount, ledger' \in fundReserve(L, caller, amount),
           ledger'.totalReserve <= MaxSafe, UNCHANGED <<now, repaid>>
    PROVE  PageOK(ledger') /\ C!fundReserve(Issuer, amount)
<1>1. PageOK(L) /\ SameButIssuer(ledger, L)
    BY GenesisBound
<1>2. /\ safe(amount) /\ amount > 0
      /\ ledger' = [L EXCEPT !.totalReserve = double(L.totalReserve + amount)]
    BY DEF fundReserve, accepted
<1>3. /\ L.totalReserve \in Nat /\ L.totalReserve <= MaxSafe
      /\ L.totalReserve = ledger.totalReserve
    BY <1>1 DEF PageOK, LedgerOK, CountersOK, SameButIssuer, LedgerFields
<1>4. ledger'.totalReserve = double(L.totalReserve + amount)
    BY <1>1, <1>2 DEF PageOK, LedgerOK, LedgerFields
<1> DEFINE t == L.totalReserve + amount
<1>5. t \in Nat /\ t <= MaxSafe /\ double(t) = t
    BY <1>2, <1>3, <1>4, NoRounding, Numbers DEF safe
<1>6. C!locked <= t
    BY <1>1, <1>2, <1>3, LockedAlike, Numbers DEF safe
<1>7. ledger' = [L EXCEPT !.totalReserve = t] /\ t = ledger.totalReserve + amount
    BY <1>2, <1>3, <1>5
<1> HIDE DEF t
<1>8. /\ PageOK(ledger') /\ C!castsHold
      /\ ledger'.totalReserve = t
      /\ ledger'.registeredMerchants = ledger.registeredMerchants
      /\ Kept(LedgerFields \ ({"issuerPubKey", "registeredMerchants"} \cup Counters))
      /\ Kept(Counters \ {"totalReserve"})
    BY <1>1, <1>5, <1>6, <1>7, ReserveSetAlike
<1>9. C!fundReserve(Issuer, amount)
    BY <1>2, <1>7, <1>8, LineKeptAlike DEF C!fundReserve, C!requireIssuer, Kept, Counters
<1> QED
    BY <1>8, <1>9

LEMMA WithdrawFollows ==
    ASSUME PageOK(ledger), NEW caller, NEW L, L = bindGenesisIssuer(caller),
           NEW amount, ledger' \in withdrawUnencumberedReserve(L, caller, amount),
           UNCHANGED <<now, repaid>>
    PROVE  PageOK(ledger') /\ C!withdrawUnencumberedReserve(Issuer, amount)
<1>1. PageOK(L) /\ SameButIssuer(ledger, L)
    BY GenesisBound
<1>2. /\ safe(amount) /\ amount > 0 /\ amount <= L.totalReserve - lockedReserve(L)
      /\ ledger' = [L EXCEPT !.totalReserve = double(L.totalReserve - amount)]
    BY DEF withdrawUnencumberedReserve, accepted
<1>3. /\ L.totalReserve \in Nat /\ L.totalReserve <= MaxSafe
      /\ L.totalReserve = ledger.totalReserve
    BY <1>1 DEF PageOK, LedgerOK, CountersOK, SameButIssuer, LedgerFields
<1>4. lockedReserve(L) = C!locked /\ C!locked \in Nat /\ C!locked <= ledger.totalReserve
    BY <1>1, LockedAlike
<1> DEFINE t == L.totalReserve - amount
<1>5. t \in Nat /\ t <= MaxSafe /\ C!locked <= t /\ C!reserveCovers(amount)
    BY <1>2, <1>3, <1>4, Numbers DEF safe, C!reserveCovers
<1>6. ledger' = [L EXCEPT !.totalReserve = t] /\ t = ledger.totalReserve - amount
    BY <1>2, <1>3, <1>5, ExactDouble
<1> HIDE DEF t
<1>7. /\ PageOK(ledger') /\ C!castsHold
      /\ ledger'.totalReserve = t
      /\ ledger'.registeredMerchants = ledger.registeredMerchants
      /\ Kept(LedgerFields \ ({"issuerPubKey", "registeredMerchants"} \cup Counters))
      /\ Kept(Counters \ {"totalReserve"})
    BY <1>1, <1>5, <1>6, ReserveSetAlike
<1>8. C!withdrawUnencumberedReserve(Issuer, amount)
    BY <1>2, <1>5, <1>6, <1>7, LineKeptAlike
       DEF C!withdrawUnencumberedReserve, C!requireIssuer, Kept, Counters
<1> QED
    BY <1>7, <1>8

LEMMA WithdrawFeesFollows ==
    ASSUME PageOK(ledger), NEW caller, NEW L, L = bindGenesisIssuer(caller),
           ledger' \in withdrawFees(L, caller), UNCHANGED <<now, repaid>>
    PROVE  PageOK(ledger') /\ C!withdrawFees(Issuer)
<1>1. PageOK(L) /\ SameButIssuer(ledger, L)
    BY GenesisBound
<1>2. /\ L.feeReserve > 0 /\ L.totalReserve >= lockedReserve(L)
      /\ ledger' = [L EXCEPT !.totalReserve = double(L.totalReserve - L.feeReserve),
                             !.feeReserve = 0]
    BY DEF withdrawFees, accepted
<1>3. /\ lockedReserve(L) = C!locked
      /\ \A counter \in Counters : ledger[counter] \in Nat /\ safe(ledger[counter])
    BY <1>1, LockedAlike
<1>4. /\ L.totalReserve = ledger.totalReserve /\ L.feeReserve = ledger.feeReserve
      /\ ledger.totalReserve \in Nat /\ ledger.totalReserve <= MaxSafe
      /\ ledger.feeReserve \in Nat
    BY <1>1, <1>3, Numbers DEF SameButIssuer, LedgerFields, Counters, safe
<1>5. ledger' = [L EXCEPT !.totalReserve = ledger.totalReserve - ledger.feeReserve,
                         !.feeReserve = 0]
    <2>1. double(ledger.totalReserve - ledger.feeReserve)
             = ledger.totalReserve - ledger.feeReserve
        BY <1>4, ExactDouble, Numbers
    <2> QED
        BY <1>2, <1>4, <2>1
<1>6. /\ DOMAIN ledger' = LedgerFields /\ ledger'.feeReserve = 0
      /\ ledger'.totalReserve = ledger.totalReserve - ledger.feeReserve
      /\ \A field \in LedgerFields \ {"issuerPubKey", "totalReserve", "feeReserve"} :
            ledger'[field] = ledger[field]
      /\ \A field \in LedgerFields \ {"totalReserve", "feeReserve"} :
            ledger'[field] = L[field]
    BY <1>1, <1>5 DEF PageOK, LedgerOK, SameButIssuer, LedgerFields
<1>7. LedgerOK(ledger') /\ SameLine(L, ledger')
    BY <1>1, <1>6, FeesWithdrawn DEF PageOK, SameLine, LedgerFields, Counters
<1>8. PageOK(ledger') /\ C!castsHold
    BY <1>1, <1>7, LineKept, CastsPass
<1>9. /\ Kept(LedgerFields \ ({"issuerPubKey", "registeredMerchants"} \cup Counters))
      /\ Kept(Counters \ {"totalReserve", "feeReserve"})
      /\ ledger'.registeredMerchants = ledger.registeredMerchants
    BY <1>6 DEF Kept, LedgerFields, Counters
<1>10. C!withdrawFees(Issuer)
    BY <1>2, <1>3, <1>4, <1>6, <1>8, <1>9, LineKeptAlike
       DEF C!withdrawFees, C!requireIssuer, Kept, Counters
<1> QED
    BY <1>8, <1>10

-----------------------------------------------------------------------------
(* The line, quotes and repayments: no budget moves *)

\* The same money, under another line, status or quotes.
LEMMA SameMoneyPage ==
    ASSUME NEW L, PageOK(L), NEW M, SameMoney(L, M), BookOK(M),
           M.feeFlat \in Nat, M.feeBps \in Nat, M.lineGeneration \in Nat,
           M.status \in C!Status, M.status # "NONE" => M.identityCommitment \in Agents,
           IsMap(M.quotes)
    PROVE  PageOK(M)
<1>1. LedgerOK(M) /\ M.notes = L.notes
    BY MoneyKept DEF PageOK, SameMoney
<1> QED
    BY <1>1 DEF PageOK

LEMMA OpenFollows ==
    ASSUME PageOK(ledger), NEW caller, NEW L, L = bindGenesisIssuer(caller),
           ledger.lineGeneration < MaxGenerations,
           NEW agent \in Agents, NEW limit, NEW expiry, NEW flat, NEW bps,
           ledger' \in openLine(L, caller, agent, limit, expiry, flat, bps),
           UNCHANGED <<now, repaid>>
    PROVE  PageOK(ledger') /\ C!openLine(Issuer, agent, limit, expiry, flat, bps)
<1>1. PageOK(L) /\ SameButIssuer(ledger, L)
    BY GenesisBound
<1> DEFINE book == lineStateCommit(agent, limit, 0, 0)
           generation == L.lineGeneration + 1
<1>2. /\ safe(limit) /\ limit > 0 /\ expiry > now /\ L.status \in {"NONE", "CLOSED"}
      /\ safe(flat) /\ safe(bps) /\ bps <= 10000
      /\ ledger' = [L EXCEPT !.identityCommitment = agent, !.lineCommitment = book,
                             !.lineExpiry = expiry, !.feeFlat = flat, !.feeBps = bps,
                             !.status = "OPEN", !.lineGeneration = generation]
    BY DEF openLine, accepted
<1>3. /\ BookOK([lineCommitment |-> book, identityCommitment |-> agent])
      /\ book = C!lineStateCommit(agent, limit, 0, 0)
    BY <1>2, Numbers DEF BookOK, safe, lineStateCommit, C!lineStateCommit
<1>4. generation \in Nat /\ generation = ledger.lineGeneration + 1 /\ ledger.status = L.status
    BY <1>1 DEF PageOK, SameButIssuer, LedgerFields
<1> HIDE DEF book, generation
<1>5. /\ DOMAIN ledger' = LedgerFields /\ ledger'.identityCommitment = agent
      /\ ledger'.lineCommitment = book /\ ledger'.lineExpiry = expiry
      /\ ledger'.feeFlat = flat /\ ledger'.feeBps = bps /\ ledger'.status = "OPEN"
      /\ ledger'.lineGeneration = generation
      /\ \A field \in {"registeredMerchants", "quotes", "notes", "nullifiers"} \cup Counters :
            ledger'[field] = L[field]
    BY <1>1, <1>2 DEF SameButIssuer, LedgerFields, Counters
<1>6. SameMoney(L, ledger') /\ ledger'.quotes = L.quotes
    BY <1>5 DEF SameMoney
<1>7. PageOK(ledger')
    <2>1. BookOK(ledger')
        BY <1>3, <1>5 DEF BookOK
    <2>2. ledger'.feeFlat \in Nat /\ ledger'.feeBps \in Nat /\ ledger'.lineGeneration \in Nat
        BY <1>2, <1>4, <1>5, Numbers DEF safe
    <2>3. ledger'.status \in C!Status /\ ledger'.identityCommitment \in Agents
          /\ IsMap(ledger'.quotes)
        BY <1>1, <1>5, <1>6 DEF C!Status, PageOK
    <2> QED
        BY <1>1, <1>6, <2>1, <2>2, <2>3, SameMoneyPage
<1>8. /\ Kept({"registeredMerchants", "quotes", "notes", "nullifiers"} \cup Counters)
    BY <1>1, <1>5 DEF Kept, SameButIssuer, LedgerFields, Counters
<1>9. C!openLine(Issuer, agent, limit, expiry, flat, bps)
    BY <1>2, <1>3, <1>4, <1>5, <1>8, KeptAlike
       DEF C!openLine, C!requireIssuer, C!blockTimeLt, Kept
<1> QED
    BY <1>7, <1>9

LEMMA StatusFollows ==
    ASSUME PageOK(ledger), NEW caller, NEW status \in {"OPEN", "DEFAULTED", "CLOSED"},
           NEW books, ledger' \in setStatus(ledger, caller, status, books),
           UNCHANGED <<now, repaid>>
    PROVE  PageOK(ledger') /\ C!setStatus(Issuer, status, ledger.lineCommitment)
<1>1. /\ ledger.status \notin {"NONE", "CLOSED"}
      /\ status = "CLOSED" => ledger.lineCommitment.outstanding = 0
      /\ ledger' = [ledger EXCEPT !.status = status]
    BY DEF setStatus, accepted, mayClose
<1>2. /\ DOMAIN ledger' = LedgerFields /\ ledger'.status = status
      /\ \A field \in LedgerFields \ {"status"} : ledger'[field] = ledger[field]
    BY <1>1 DEF PageOK, LedgerOK, LedgerFields
<1>3. SameMoney(ledger, ledger') /\ BookOK(ledger') /\ IsMap(ledger'.quotes)
      /\ ledger'.feeFlat = ledger.feeFlat /\ ledger'.feeBps = ledger.feeBps
      /\ ledger'.lineGeneration = ledger.lineGeneration
      /\ ledger'.identityCommitment = ledger.identityCommitment
    BY <1>2 DEF SameMoney, LedgerFields, Counters, BookOK, PageOK
<1>4. PageOK(ledger')
    BY <1>1, <1>2, <1>3, SameMoneyPage DEF PageOK, C!Status
<1>5. Kept(LedgerFields \ {"status"})
    BY <1>2 DEF Kept
<1>6. UNCHANGED C!counters /\ UNCHANGED C!terms
    BY <1>5, KeptAlike DEF Kept, LedgerFields, Counters, TermFields
<1>7. C!opensLineCommit(ledger.identityCommitment, ledger.lineCommitment)
    BY DEF PageOK, BookOK, C!opensLineCommit, C!lineStateCommit, lineStateCommit
<1>8. ledger.status \in {"OPEN", "DEFAULTED"}
    BY <1>1 DEF PageOK, C!Status
<1>9. C!setStatus(Issuer, status, ledger.lineCommitment)
    BY <1>1, <1>2, <1>5, <1>6, <1>7, <1>8
       DEF C!setStatus, C!requireIssuer, Kept, LedgerFields
<1> QED
    BY <1>4, <1>9

\* A rotated book opens for the same borrower.
LEMMA RotatedBook ==
    ASSUME NEW identity, NEW limit, NEW outstanding, NEW epoch, NEW next,
           NEW b, b = lineStateCommit(identity, limit, outstanding, epoch)
    PROVE  rotated(b, next) = C!lineStateCommit(identity, limit, next, epoch + 1)
<1>1. b = [identity |-> identity, limit |-> limit, outstanding |-> outstanding,
           epoch |-> epoch]
    BY DEF lineStateCommit
<1>2. b.epoch = epoch
    BY <1>1
<1>3. rotated(b, next) = [b EXCEPT !.outstanding = next, !.epoch = epoch + 1]
    BY <1>2 DEF rotated
<1>4. [b EXCEPT !.outstanding = next, !.epoch = epoch + 1]
        = [identity |-> identity, limit |-> limit, outstanding |-> next,
           epoch |-> epoch + 1]
    <2> DEFINE c == [b EXCEPT !.outstanding = next, !.epoch = epoch + 1]
               r == [identity |-> identity, limit |-> limit, outstanding |-> next,
                     epoch |-> epoch + 1]
               Fields == {"identity", "limit", "outstanding", "epoch"}
    <2>1. DOMAIN b = Fields /\ b.identity = identity /\ b.limit = limit
        BY <1>1
    <2>2. /\ DOMAIN c = Fields /\ c.identity = identity /\ c.limit = limit
          /\ c.outstanding = next /\ c.epoch = epoch + 1
        BY <2>1
    <2>3. DOMAIN r = Fields /\ \A f \in Fields : r[f] = c[f]
        BY <2>2
    <2>4. c = [f \in Fields |-> c[f]] /\ r = [f \in Fields |-> r[f]]
        BY <2>1
    <2> HIDE DEF c, r, Fields
    <2>5. c = r
        BY <2>3, <2>4
    <2> QED
        BY <2>5 DEF c, r
<1> QED
    BY <1>3, <1>4 DEF C!lineStateCommit

LEMMA RepayFollows ==
    ASSUME PageOK(ledger), NEW caller, NEW held, NEW amount, NEW payRef, NEW receiptExpiry,
           localAcknowledgeRepayment(caller, held, amount, payRef, receiptExpiry)
    PROVE  /\ PageOK(ledger') /\ amount \in C!Uint64
           /\ C!acknowledgeRepayment(Issuer, ledger.lineCommitment, amount, payRef,
                                     receiptExpiry)
<1> DEFINE b == ledger.lineCommitment
           owed == b.outstanding - amount
           book == rotated(b, owed)
           P == paymentNullifier(payRef)
           N == [kind |-> "repay", book |-> b, amount |-> amount, ref |-> payRef]
<1>1. /\ ledger.status \in {"OPEN", "DEFAULTED"} /\ receiptExpiry > now
      /\ safe(amount) /\ amount > 0 /\ amount <= b.outstanding /\ mayRotate(b)
      /\ payRef # Empty /\ P \notin ledger.nullifiers /\ N \notin ledger.nullifiers
      /\ ledger' = [ledger EXCEPT !.lineCommitment = book, !.nullifiers = @ \cup {P, N}]
      /\ repaid' = repaid + amount /\ now' = now
    BY DEF localAcknowledgeRepayment, acknowledgeRepayment, accepted
<1>2. /\ b = lineStateCommit(ledger.identityCommitment, b.limit, b.outstanding, b.epoch)
      /\ safe(b.outstanding) /\ safe(b.epoch)
    BY DEF PageOK, BookOK
<1>3. /\ safe(owed) /\ owed \in C!Uint64 /\ safe(b.epoch + 1) /\ b.epoch + 1 \in C!Uint64
      /\ amount \in C!Uint64
    BY <1>1, <1>2, Numbers DEF safe, mayRotate, C!Uint64
<1> HIDE DEF owed
<1>4. /\ book = C!lineStateCommit(ledger.identityCommitment, b.limit, owed, b.epoch + 1)
      /\ C!opensLineCommit(ledger.identityCommitment, b)
    <2> DEFINE identity == ledger.identityCommitment
               limit == b.limit
               outstanding == b.outstanding
               epoch == b.epoch
    <2>1. b = lineStateCommit(identity, limit, outstanding, epoch)
        BY <1>2
    <2>2. C!opensLineCommit(identity, b)
        BY <2>1 DEF C!opensLineCommit, lineStateCommit, C!lineStateCommit
    <2> HIDE DEF identity, limit, outstanding, epoch, b
    <2>3. rotated(b, owed) = C!lineStateCommit(identity, limit, owed, epoch + 1)
        BY <2>1, RotatedBook
    <2> QED
        BY <2>2, <2>3 DEF identity, limit, epoch
<1>5. BookOK([lineCommitment |-> book, identityCommitment |-> ledger.identityCommitment])
    BY <1>3, <1>4 DEF BookOK, C!lineStateCommit, lineStateCommit
<1>6. P = C!paymentNullifier(payRef) /\ N = C!repayNullifier(b, amount, payRef)
    BY DEF paymentNullifier, C!paymentNullifier, C!repayNullifier
<1> HIDE DEF b, book, P, N
<1>7. /\ DOMAIN ledger' = LedgerFields /\ ledger'.lineCommitment = book
      /\ ledger'.nullifiers = ledger.nullifiers \cup {P, N}
      /\ \A field \in LedgerFields \ {"lineCommitment", "nullifiers"} :
            ledger'[field] = ledger[field]
    BY <1>1 DEF PageOK, LedgerOK, LedgerFields
<1>8. /\ SameMoney(ledger, ledger') /\ IsMap(ledger'.quotes)
      /\ ledger'.feeFlat = ledger.feeFlat /\ ledger'.feeBps = ledger.feeBps
      /\ ledger'.lineGeneration = ledger.lineGeneration
      /\ ledger'.identityCommitment = ledger.identityCommitment
      /\ ledger'.status = ledger.status
    BY <1>7 DEF SameMoney, LedgerFields, Counters, PageOK
<1>9. BookOK(ledger')
    BY <1>5, <1>7, <1>8 DEF BookOK
<1>10. PageOK(ledger')
    BY <1>1, <1>8, <1>9, SameMoneyPage DEF PageOK
<1>11. Kept(LedgerFields \ {"lineCommitment", "nullifiers"})
    BY <1>7 DEF Kept
<1>12. UNCHANGED C!counters /\ UNCHANGED C!terms
    BY <1>11, KeptAlike DEF Kept, LedgerFields, Counters, TermFields
<1>13. C!rotateBook(b, owed)
    BY <1>3, <1>4, <1>7 DEF C!rotateBook
<1>14. C!creditRepayment(Issuer, b, amount, payRef, receiptExpiry)
    BY <1>1, <1>4, <1>6, <1>7, <1>13
       DEF C!creditRepayment, C!requireIssuer, C!blockTimeLt, b, owed
<1>15. C!acknowledgeRepayment(Issuer, b, amount, payRef, receiptExpiry)
    BY <1>1, <1>7, <1>11, <1>12, <1>14 DEF C!acknowledgeRepayment, Kept, LedgerFields
<1> QED
    BY <1>3, <1>10, <1>15 DEF b

LEMMA CountedAlike == \A S : C!Cardinality(S) = Cardinality(S)
BY DEF C!Cardinality, Cardinality

LEMMA PostFollows ==
    ASSUME PageOK(ledger), NEW caller, NEW invoice, NEW amount, NEW expiry,
           localPostQuote(caller, invoice, amount, expiry)
    PROVE  PageOK(ledger') /\ C!postQuote(caller, invoice, amount, expiry)
<1> DEFINE Q == quoteOf(ledger, caller, invoice, amount, expiry)
           meta == [expiry |-> expiry, lineGeneration |-> ledger.lineGeneration, used |-> FALSE]
<1>1. /\ Cardinality(DOMAIN ledger.quotes) < MaxQuotes
      /\ caller \in DOMAIN ledger.registeredMerchants /\ ledger.registeredMerchants[caller]
      /\ ledger.status = "OPEN" /\ amount > 0 /\ expiry > now /\ Q \notin DOMAIN ledger.quotes
      /\ ledger' = [ledger EXCEPT !.quotes = Insert(@, Q, meta)]
      /\ now' = now /\ repaid' = repaid
    BY DEF localPostQuote, callMirror, postQuote, accepted
<1>2. Q = C!quoteCommit(caller, invoice, amount, expiry, ledger.lineGeneration,
                        ledger.feeFlat, ledger.feeBps)
    BY DEF quoteOf, quoteCommitment, C!quoteCommit
<1> HIDE DEF Q, meta
<1>3. /\ DOMAIN ledger' = LedgerFields /\ ledger'.quotes = Insert(ledger.quotes, Q, meta)
      /\ \A field \in LedgerFields \ {"quotes"} : ledger'[field] = ledger[field]
    BY <1>1 DEF PageOK, LedgerOK, LedgerFields
<1>4. SameMoney(ledger, ledger') /\ BookOK(ledger')
      /\ ledger'.feeFlat = ledger.feeFlat /\ ledger'.feeBps = ledger.feeBps
      /\ ledger'.lineGeneration = ledger.lineGeneration
      /\ ledger'.identityCommitment = ledger.identityCommitment
      /\ ledger'.status = ledger.status
    BY <1>3 DEF SameMoney, LedgerFields, Counters, BookOK, PageOK
<1>5. IsMap(ledger'.quotes)
    BY <1>3 DEF IsMap, Insert
<1>6. PageOK(ledger')
    BY <1>4, <1>5, SameMoneyPage DEF PageOK
<1>7. Kept(LedgerFields \ {"quotes"})
    BY <1>3 DEF Kept
<1>8. UNCHANGED C!counters /\ UNCHANGED C!terms
    BY <1>7, KeptAlike DEF Kept, LedgerFields, Counters, TermFields
<1>9. ledger'.quotes = C!Insert(ledger.quotes, Q, meta)
    BY <1>3 DEF Insert, C!Insert
<1>10. C!postQuote(caller, invoice, amount, expiry)
    BY <1>1, <1>2, <1>7, <1>8, <1>9, CountedAlike
       DEF C!postQuote, C!blockTimeLt, Kept, LedgerFields, meta
<1> QED
    BY <1>6, <1>10

-----------------------------------------------------------------------------
(* Claims *)

\* A claim moves: its entry still fits its commitment.
LEMMA ClaimPage ==
    ASSUME NEW L, PageOK(L), NEW D \in DOMAIN L.notes, NEW n, Binds(D, n),
           NEW M, LedgerOK(M), M.notes = [L.notes EXCEPT ![D] = n], BookOK(M),
           \A field \in TermFields \cup {"status", "quotes"} : M[field] = L[field]
    PROVE  PageOK(M)
<1>1. /\ M.feeFlat = L.feeFlat /\ M.feeBps = L.feeBps /\ M.lineGeneration = L.lineGeneration
      /\ M.status = L.status /\ M.identityCommitment = L.identityCommitment
      /\ M.quotes = L.quotes
    BY DEF TermFields
<1>2. IsMap(M.notes) /\ DOMAIN M.notes = DOMAIN L.notes
    BY DEF IsMap
<1>3. ASSUME NEW x \in DOMAIN M.notes PROVE Binds(x, M.notes[x])
    BY <1>2 DEF PageOK
<1> QED
    BY <1>1, <1>2, <1>3 DEF PageOK

\* The commitment that the contract recomputes for a claim is its own.
LEMMA OpensNote ==
    ASSUME PageOK(ledger), NEW D \in DOMAIN ledger.notes
    PROVE  /\ C!opensNoteAs(D, D.merchant)
           /\ NoteOK(ledger.notes[D], D) /\ Binds(D, ledger.notes[D])
           /\ C!cost(ledger.notes[D]) = cost(ledger.notes[D])
<1> DEFINE m == ledger.notes[D]
<1>1. NoteOK(m, D) /\ Binds(D, m)
    BY DEF PageOK, LedgerOK, NotesOK
<1>2. /\ D = C!drawNoteCommit(D.lineGeneration, D.identity, D.quote, D.merchant, D.amount,
                              D.fee, D.expiry)
      /\ m.amount = D.amount /\ m.fee = D.fee /\ m.lineGeneration = D.lineGeneration
    BY <1>1 DEF NoteOK, Binds
<1>3. C!opensNoteAs(D, D.merchant)
    BY <1>2 DEF C!opensNoteAs
<1> QED
    BY <1>1, <1>3 DEF C!cost, cost

\* A Boolean of an entry is not what its commitment binds.
LEMMA FlagSet ==
    ASSUME NEW D, NEW m, NoteOK(m, D), Binds(D, m), NEW value,
           NEW flag \in {"redeemed", "cancelled"}
    PROVE  Binds(D, [m EXCEPT ![flag] = value])
<1> DEFINE n == [m EXCEPT ![flag] = value]
<1>1. n.amount = m.amount /\ n.fee = m.fee /\ IsMap(n)
    BY DEF NoteOK, NoteFields, IsMap
<1> HIDE DEF n
<1>2. Binds(D, n)
    BY <1>1 DEF Binds
<1> QED
    BY <1>2 DEF n

LEMMA RedeemFollows ==
    ASSUME PageOK(ledger), NEW caller, NEW D \in DOMAIN ledger.notes, NEW expiry,
           localRedeemDraw(caller, D, expiry)
    PROVE  PageOK(ledger') /\ C!redeemDraw(caller, D)
<1> DEFINE m == ledger.notes[D]
           opening == [D EXCEPT !.merchant = caller, !.expiry = expiry,
                                !.lineGeneration = m.lineGeneration, !.fee = m.fee]
           N == [kind |-> "redeem", secret |-> caller, note |-> D]
           n == [m EXCEPT !.redeemed = TRUE]
<1>1. /\ ledger' \in redeemDraw(ledger, caller, D, opening)
      /\ now' = now /\ repaid' = repaid
    BY DEF localRedeemDraw, callMirror
<1>2. /\ ~m.redeemed /\ ~m.cancelled /\ m.expiry > now /\ N \notin ledger.nullifiers
      /\ D = [opening EXCEPT !.lineGeneration = m.lineGeneration, !.fee = m.fee]
      /\ ledger' = [ledger EXCEPT !.notes[D].redeemed = TRUE,
                       !.nullifiers = @ \cup {N},
                       !.encumberedReserve = double(@ - m.amount),
                       !.redeemedReserve = double(@ + m.amount),
                       !.pendingFeeReserve = double(@ - m.fee),
                       !.feeReserve = double(@ + m.fee)]
    BY <1>1 DEF redeemDraw, accepted
<1>3. NoteOK(m, D) /\ Binds(D, m) /\ C!opensNoteAs(D, D.merchant)
    BY OpensNote
<1>4. D.merchant = caller
    <2>1. D = [lineGeneration |-> D.lineGeneration, identity |-> D.identity,
               quote |-> D.quote, merchant |-> D.merchant, amount |-> D.amount,
               fee |-> D.fee, expiry |-> D.expiry]
        BY <1>3 DEF Binds, C!drawNoteCommit
    <2>2. "merchant" \in DOMAIN D
        BY <2>1
    <2>3. [opening EXCEPT !.lineGeneration = m.lineGeneration, !.fee = m.fee].merchant = caller
        BY <2>2
    <2> QED
        BY <1>2, <2>3
<1>5. /\ LedgerOK(ledger') /\ Moved(ledger, ledger', -m.amount, m.amount, m.fee, -m.fee, 0, 0)
    BY <1>1, Redeemed DEF PageOK
<1> HIDE DEF opening
<1>6. /\ DOMAIN ledger' = LedgerFields
      /\ ledger'.notes = [ledger.notes EXCEPT ![D].redeemed = TRUE]
      /\ ledger'.nullifiers = ledger.nullifiers \cup {N}
      /\ \A field \in LedgerFields \ ({"notes", "nullifiers"} \cup Counters) :
            ledger'[field] = ledger[field]
    BY <1>2 DEF PageOK, LedgerOK, LedgerFields, Counters
<1>7. PageOK(ledger')
    <2>1. BookOK(ledger')
        BY <1>6 DEF PageOK, BookOK, LedgerFields, Counters
    <2>2. Binds(D, n)
        BY <1>3, FlagSet
    <2>3. \A field \in TermFields \cup {"status", "quotes"} : ledger'[field] = ledger[field]
        BY <1>6 DEF TermFields, LedgerFields, Counters
    <2>4. ledger'.notes = [ledger.notes EXCEPT ![D] = n]
        BY <1>6
    <2> HIDE DEF n
    <2> QED
        BY <1>5, <2>1, <2>2, <2>3, <2>4, ClaimPage
<1>8. Kept(LedgerFields \ ({"notes", "nullifiers"} \cup Counters)) /\ C!castsHold
    BY <1>5, <1>6, CastsPass DEF Kept
<1>9. UNCHANGED C!terms
    BY <1>8, KeptAlike DEF Kept, LedgerFields, Counters, TermFields
<1>10. m.amount \in Nat /\ m.fee \in Nat /\ \A counter \in Counters : ledger[counter] \in Nat
    BY <1>3, Shares, LockedExactly DEF PageOK
<1>11. N = C!redeemNullifier(caller, D)
    BY DEF C!redeemNullifier
<1> HIDE DEF N
<1>12. /\ ledger'.encumberedReserve = ledger.encumberedReserve - m.amount
       /\ ledger'.redeemedReserve = ledger.redeemedReserve + m.amount
       /\ ledger'.pendingFeeReserve = ledger.pendingFeeReserve - m.fee
       /\ ledger'.feeReserve = ledger.feeReserve + m.fee
       /\ ledger'.totalReserve = ledger.totalReserve
       /\ ledger'.refundReserve = ledger.refundReserve
       /\ ledger'.reportedRefundReserve = ledger.reportedRefundReserve
    BY <1>5, <1>10 DEF Moved, Counters
<1>13. C!redeemDraw(caller, D)
    BY <1>1, <1>2, <1>3, <1>4, <1>6, <1>8, <1>9, <1>11, <1>12
       DEF C!redeemDraw, C!blockTimeLt, Kept, LedgerFields, Counters
<1> QED
    BY <1>7, <1>13

LEMMA ExpireFollows ==
    ASSUME PageOK(ledger), NEW D \in DOMAIN ledger.notes, localExpireNote(D)
    PROVE  PageOK(ledger') /\ C!expireNote(D)
<1> DEFINE m == ledger.notes[D]
           n == [m EXCEPT !.cancelled = TRUE]
<1>1. /\ ledger' = cancelled(ledger, D) /\ now' = now /\ repaid' = repaid
      /\ ~m.redeemed /\ costIsSafe(m) /\ ~m.cancelled /\ m.expiry <= now
    BY DEF localExpireNote, callMirror, expireNote, accepted
<1>2. ledger' = [ledger EXCEPT !.notes[D].cancelled = TRUE,
                              !.encumberedReserve = double(@ - m.amount),
                              !.pendingFeeReserve = double(@ - m.fee),
                              !.refundReserve = double(@ + cost(m))]
    BY <1>1 DEF cancelled
<1>3. NoteOK(m, D) /\ Binds(D, m) /\ C!cost(m) = cost(m)
    BY OpensNote
<1>4. LedgerOK(ledger') /\ Moved(ledger, ledger', -m.amount, 0, 0, -m.fee, cost(m), 0)
    BY <1>1, Cancelled DEF PageOK
<1>5. /\ DOMAIN ledger' = LedgerFields
      /\ ledger'.notes = [ledger.notes EXCEPT ![D].cancelled = TRUE]
      /\ \A field \in LedgerFields \ ({"notes"} \cup Counters) : ledger'[field] = ledger[field]
    BY <1>2 DEF PageOK, LedgerOK, LedgerFields, Counters
<1>6. PageOK(ledger')
    <2>1. BookOK(ledger')
        BY <1>5 DEF PageOK, BookOK, LedgerFields, Counters
    <2>2. Binds(D, n)
        BY <1>3, FlagSet
    <2>3. \A field \in TermFields \cup {"status", "quotes"} : ledger'[field] = ledger[field]
        BY <1>5 DEF TermFields, LedgerFields, Counters
    <2>4. ledger'.notes = [ledger.notes EXCEPT ![D] = n]
        BY <1>5
    <2> HIDE DEF n
    <2> QED
        BY <1>4, <2>1, <2>2, <2>3, <2>4, ClaimPage
<1>7. Kept(LedgerFields \ ({"notes"} \cup Counters)) /\ C!castsHold
    BY <1>4, <1>5, CastsPass DEF Kept
<1>8. UNCHANGED C!terms
    BY <1>7, KeptAlike DEF Kept, LedgerFields, Counters, TermFields
<1>9. m.amount \in Nat /\ m.fee \in Nat /\ cost(m) \in Nat
      /\ \A counter \in Counters : ledger[counter] \in Nat
    BY <1>3, Shares, LockedExactly DEF PageOK
<1>10. C!cost(m) \in C!Uint64
    BY <1>1, <1>3, Numbers DEF costIsSafe, safe, C!Uint64
<1>11. /\ ledger'.encumberedReserve = ledger.encumberedReserve - m.amount
       /\ ledger'.pendingFeeReserve = ledger.pendingFeeReserve - m.fee
       /\ ledger'.refundReserve = ledger.refundReserve + C!cost(m)
       /\ ledger'.redeemedReserve = ledger.redeemedReserve
       /\ ledger'.feeReserve = ledger.feeReserve
       /\ ledger'.totalReserve = ledger.totalReserve
       /\ ledger'.reportedRefundReserve = ledger.reportedRefundReserve
    BY <1>3, <1>4, <1>9 DEF Moved, Counters
<1>12. C!noteExpired(m)
    BY <1>1 DEF C!noteExpired, C!blockTimeGte
<1>13. C!expireNote(D)
    BY <1>1, <1>5, <1>7, <1>8, <1>10, <1>11, <1>12
       DEF C!expireNote, Kept, LedgerFields, Counters
<1> QED
    BY <1>6, <1>13

\* An entry after its expiry, whoever recorded it: cancelled, and else the same.
CancelledEntry(m, k) ==
    /\ DOMAIN k = NoteFields /\ k.cancelled
    /\ \A field \in NoteFields \ {"cancelled"} : k[field] = m[field]

\* What expiry leaves of the ledger.
LEMMA CancelledFields ==
    ASSUME PageOK(ledger), NEW D \in DOMAIN ledger.notes, NEW base, base = cancelled(ledger, D)
    PROVE  /\ DOMAIN base = LedgerFields /\ CancelledEntry(ledger.notes[D], base.notes[D])
           /\ DOMAIN base.notes = DOMAIN ledger.notes /\ IsMap(base.notes)
           /\ \A x \in DOMAIN ledger.notes \ {D} : base.notes[x] = ledger.notes[x]
           /\ \A field \in LedgerFields \ ({"notes"} \cup Counters) : base[field] = ledger[field]
<1> DEFINE m == ledger.notes[D]
<1>1. NoteOK(m, D) /\ IsMap(ledger.notes) /\ DOMAIN ledger = LedgerFields
    BY DEF PageOK, LedgerOK, NotesOK
<1>2. CASE m.cancelled
    <2>1. base = ledger
        BY <1>2 DEF cancelled
    <2> QED
        BY <1>1, <1>2, <2>1 DEF CancelledEntry, NoteOK
<1>3. CASE ~m.cancelled
    <2>1. base = [ledger EXCEPT !.notes[D].cancelled = TRUE,
                               !.encumberedReserve = double(@ - m.amount),
                               !.pendingFeeReserve = double(@ - m.fee),
                               !.refundReserve = double(@ + cost(m))]
        BY <1>3 DEF cancelled
    <2>2. /\ DOMAIN base = LedgerFields
          /\ base.notes = [ledger.notes EXCEPT ![D].cancelled = TRUE]
          /\ \A field \in LedgerFields \ ({"notes"} \cup Counters) : base[field] = ledger[field]
        BY <1>1, <2>1 DEF LedgerFields, Counters
    <2>3. /\ DOMAIN base.notes = DOMAIN ledger.notes
          /\ base.notes[D] = [m EXCEPT !.cancelled = TRUE]
          /\ \A x \in DOMAIN ledger.notes \ {D} : base.notes[x] = ledger.notes[x]
          /\ IsMap(base.notes)
        BY <2>2 DEF IsMap
    <2>4. CancelledEntry(m, [m EXCEPT !.cancelled = TRUE])
        BY <1>1 DEF CancelledEntry, NoteOK, NoteFields
    <2> QED
        BY <2>2, <2>3, <2>4
<1> QED
    BY <1>2, <1>3

\* The entry of a compensated claim is the one the contract writes.
LEMMA AllocatedEntry ==
    ASSUME PageOK(ledger), NEW D \in DOMAIN ledger.notes, ~ledger.notes[D].redeemed,
           NEW k, CancelledEntry(ledger.notes[D], k), NEW owed, NEW n,
           n = [k EXCEPT !.compensationAllocated = TRUE,
                         !.refundCommitment = [note |-> D, amount |-> owed],
                         !.cashRefundOwed = owed > 0,
                         !.refundAcknowledged = FALSE,
                         !.refundPaymentNullifier = Empty]
    PROVE  n = C!allocatedNote(D, owed) /\ Binds(D, n)
<1> DEFINE m == ledger.notes[D]
           r == C!allocatedNote(D, owed)
           due == owed > 0
           refund == [note |-> D, amount |-> owed]
<1>1. NoteOK(m, D) /\ Binds(D, m)
    BY OpensNote
<1>2. r = [amount |-> m.amount, fee |-> m.fee, redeemed |-> FALSE, cancelled |-> TRUE,
           expiry |-> m.expiry, lineGeneration |-> m.lineGeneration,
           compensationAllocated |-> TRUE, refundCommitment |-> refund,
           cashRefundOwed |-> due, refundAcknowledged |-> FALSE,
           refundPaymentNullifier |-> Empty]
    BY DEF C!allocatedNote, C!refundCommit
<1>3. n = [k EXCEPT !.compensationAllocated = TRUE, !.refundCommitment = refund,
                    !.cashRefundOwed = due, !.refundAcknowledged = FALSE,
                    !.refundPaymentNullifier = Empty]
    OBVIOUS
<1>4. k.cancelled = TRUE /\ k.redeemed = FALSE /\ k.amount = m.amount /\ k.fee = m.fee
      /\ k.expiry = m.expiry /\ k.lineGeneration = m.lineGeneration /\ DOMAIN k = NoteFields
    <2>1. k.redeemed = m.redeemed /\ m.redeemed \in BOOLEAN /\ k.cancelled
        BY <1>1 DEF CancelledEntry, NoteFields, NoteOK
    <2>2. k.amount = m.amount /\ k.fee = m.fee
          /\ k.expiry = m.expiry /\ k.lineGeneration = m.lineGeneration /\ DOMAIN k = NoteFields
        BY DEF CancelledEntry, NoteFields
    <2> QED
        BY <2>1, <2>2
<1> HIDE DEF m, r, due, refund
<1>5. /\ DOMAIN n = NoteFields /\ IsMap(n) /\ n.amount = m.amount /\ n.fee = m.fee
      /\ n.redeemed = FALSE /\ n.cancelled = TRUE /\ n.expiry = m.expiry
      /\ n.lineGeneration = m.lineGeneration /\ n.compensationAllocated = TRUE
      /\ n.refundCommitment = refund /\ n.cashRefundOwed = due
      /\ n.refundAcknowledged = FALSE /\ n.refundPaymentNullifier = Empty
    BY <1>3, <1>4 DEF NoteFields, IsMap
<1>6. DOMAIN r = NoteFields /\ IsMap(r) /\ \A field \in NoteFields : r[field] = n[field]
    BY <1>2, <1>5 DEF NoteFields, IsMap
<1>7. n = r
    BY <1>5, <1>6 DEF IsMap
<1>8. Binds(D, n)
    BY <1>1, <1>5 DEF Binds
<1> QED
    BY <1>7, <1>8 DEF r

LEMMA CompensateFollows ==
    ASSUME PageOK(ledger), NEW caller, NEW D \in DOMAIN ledger.notes, NEW held,
           localCompensate(caller, D, held)
    PROVE  /\ PageOK(ledger')
           /\ \/ C!allocateCompensation(Issuer, D, ledger.lineCommitment)
              \/ caller \in Agents /\ C!allocateCompensation(caller, D, ledger.lineCommitment)
<1> DEFINE m == ledger.notes[D]
           books == [held EXCEPT !.identity = ledger.identityCommitment]
           b == ledger.lineCommitment
           base == cancelled(ledger, D)
           price == cost(m)
           credited == credit(ledger, books, price)
           current == m.lineGeneration = ledger.lineGeneration
           released == IF current /\ credited = price THEN price ELSE 0
           owed == IF current THEN price - credited ELSE price
           debt == books.outstanding - credited
           book == IF current THEN rotated(books, debt) ELSE b
           k == base.notes[D]
           n == [k EXCEPT !.compensationAllocated = TRUE,
                          !.refundCommitment = [note |-> D, amount |-> owed],
                          !.cashRefundOwed = owed > 0,
                          !.refundAcknowledged = FALSE,
                          !.refundPaymentNullifier = Empty]
<1>1. /\ ledger' \in allocateCompensation(ledger, caller, D, books)
      /\ now' = now /\ repaid' = repaid
    BY DEF localCompensate, callMirror
<1>2. /\ ~m.redeemed /\ costIsSafe(m) /\ ~m.compensationAllocated
      /\ m.cancelled \/ m.expiry <= now
      /\ isIssuer(ledger, caller) \/ caller = D.identity
      /\ current => /\ D.identity = ledger.identityCommitment
                    /\ books = b /\ safe(b.outstanding) /\ mayRotate(b)
      /\ m.lineGeneration <= ledger.lineGeneration
    BY <1>1 DEF allocateCompensation, accepted
<1>22. ledger' = IF current
                   THEN allocated([base EXCEPT !.lineCommitment = book,
                                               !.refundReserve = double(@ - released)], D, owed)
                   ELSE allocated(base, D, owed)
    BY <1>1 DEF allocateCompensation, accepted
<1>3. /\ NoteOK(m, D) /\ Binds(D, m) /\ C!opensNoteAs(D, D.merchant) /\ C!cost(m) = price
      /\ m.amount \in Nat /\ m.fee \in Nat /\ price \in Nat
      /\ \A counter \in Counters : ledger[counter] \in Nat
    BY OpensNote, Shares, LockedExactly DEF PageOK
<1>4. /\ LedgerOK(ledger') /\ Released(ledger, ledger', D, books)
    BY <1>1, Compensated DEF OneCompensated, PageOK
<1>5. /\ LedgerOK(base)
      /\ ~m.cancelled => Moved(ledger, base, -m.amount, 0, 0, -m.fee, price, 0)
      /\ m.cancelled => base = ledger
    <2>1. /\ LedgerOK(base)
          /\ ~m.cancelled => Moved(ledger, base, -m.amount, 0, 0, -m.fee, price, 0)
        <3>1. LedgerOK(ledger) /\ ~ledger.notes[D].redeemed /\ base = cancelled(ledger, D)
            BY <1>2 DEF PageOK
        <3> HIDE DEF base
        <3>2. LedgerOK(base)
            BY <3>1, Cancelled
        <3>3. ~ledger.notes[D].cancelled =>
                 Moved(ledger, base, -ledger.notes[D].amount, 0, 0, -ledger.notes[D].fee,
                       cost(ledger.notes[D]), 0)
            BY <3>1, Cancelled
        <3> QED
            BY <3>2, <3>3
    <2>2. m.cancelled => base = ledger
        BY DEF cancelled
    <2> HIDE DEF base, m
    <2> QED
        BY <2>1, <2>2
<1>6. /\ DOMAIN base = LedgerFields /\ CancelledEntry(m, k)
      /\ DOMAIN base.notes = DOMAIN ledger.notes /\ IsMap(base.notes)
      /\ \A x \in DOMAIN ledger.notes \ {D} : base.notes[x] = ledger.notes[x]
      /\ \A field \in LedgerFields \ ({"notes"} \cup Counters) : base[field] = ledger[field]
    BY CancelledFields
<1>7. Moved(base, ledger', 0, 0, 0, 0, -released, 0)
    BY <1>4 DEF Released
<1> HIDE DEF base
<1>8. n = C!allocatedNote(D, owed) /\ Binds(D, n)
    <2>1. ~ledger.notes[D].redeemed /\ CancelledEntry(ledger.notes[D], k)
        BY <1>2, <1>6
    <2> HIDE DEF owed, m, k
    <2> QED
        BY <2>1, AllocatedEntry
<1>9. /\ DOMAIN ledger' = LedgerFields /\ ledger'.notes = [base.notes EXCEPT ![D] = n]
      /\ ledger'.lineCommitment = book
      /\ \A field \in LedgerFields \ ({"notes", "lineCommitment"} \cup Counters) :
            ledger'[field] = base[field]
    <2> DEFINE remains == owed > 0
               refund == [note |-> D, amount |-> owed]
    <2>1. CASE current
        <3>1. ledger' = [[base EXCEPT !.lineCommitment = book,
                                      !.refundReserve = double(@ - released)] EXCEPT !.notes[D] = n]
            BY <1>22, <1>6, <2>1 DEF allocated, LedgerFields
        <3> HIDE DEF n, book, released, current
        <3> QED
            BY <1>6, <3>1 DEF LedgerFields, Counters
    <2>2. CASE ~current
        <3>1. ledger' = [base EXCEPT !.notes[D] = n] /\ book = base.lineCommitment
            BY <1>22, <1>6, <2>2 DEF allocated, LedgerFields, Counters
        <3> HIDE DEF n, book, released, current
        <3> QED
            BY <1>6, <3>1 DEF LedgerFields, Counters
    <2> QED
        BY <2>1, <2>2
<1> HIDE DEF n
<1>10. ledger'.notes = [ledger.notes EXCEPT ![D] = n]
    <2> DEFINE after == [ledger.notes EXCEPT ![D] = n]
    <2>1. DOMAIN after = DOMAIN ledger.notes /\ IsMap(after) /\ IsMap(ledger'.notes)
          /\ DOMAIN ledger'.notes = DOMAIN ledger.notes
        BY <1>6, <1>9 DEF IsMap
    <2>2. \A x \in DOMAIN ledger.notes : ledger'.notes[x] = after[x]
        BY <1>6, <1>9
    <2> HIDE DEF after
    <2>3. ledger'.notes = after
        BY <2>1, <2>2 DEF IsMap
    <2> QED
        BY <2>3 DEF after
<1>11. /\ Kept(LedgerFields \ ({"notes", "lineCommitment"} \cup Counters)) /\ C!castsHold
    BY <1>4, <1>6, <1>9, CastsPass DEF Kept
<1>12. b = lineStateCommit(ledger.identityCommitment, b.limit, b.outstanding, b.epoch)
       /\ safe(b.outstanding) /\ safe(b.epoch)
       /\ C!opensLineCommit(ledger.identityCommitment, b)
    BY DEF PageOK, BookOK, C!opensLineCommit, C!lineStateCommit, lineStateCommit
<1>13. /\ released \in Nat
       /\ current => /\ owed = C!cashRefundAmount(b.outstanding, price)
                     /\ debt = C!debtAfterCredit(b.outstanding, price)
                     /\ released = (IF owed > 0 THEN 0 ELSE price)
                     /\ safe(debt) /\ safe(b.epoch + 1)
       /\ ~current => owed = price /\ released = 0
    <2> DEFINE out == b.outstanding
    <2>0. out \in Nat /\ out <= MaxSafe /\ safe(b.epoch + 1) = mayRotate(b)
        BY <1>12, Numbers DEF safe, mayRotate
    <2>1. /\ current => /\ credited = IF out < price THEN out ELSE price
                        /\ debt = out - credited /\ owed = price - credited
                        /\ released = IF credited = price THEN price ELSE 0
                        /\ safe(b.epoch + 1)
          /\ ~current => owed = price /\ released = 0
        <3>1. CASE current
            <4>1. books = b
                BY <1>2, <3>1
            <4>2. credited = (IF out < price THEN out ELSE price) /\ debt = out - credited
                <5> HIDE DEF books, price, b
                <5> QED
                    BY <4>1 DEF credit
            <4>3. owed = price - credited /\ released = IF credited = price THEN price ELSE 0
                <5> HIDE DEF credited, price
                <5> QED
                    BY <3>1
            <4>4. safe(b.epoch + 1)
                BY <1>2, <2>0, <3>1
            <4> QED
                BY <3>1, <4>2, <4>3, <4>4
        <3>2. CASE ~current
            <4> HIDE DEF credited, price
            <4> QED
                BY <3>2
        <3> QED
            BY <3>1, <3>2
    <2> HIDE DEF credited, released, owed, debt, price, current, out
    <2>2. CASE current /\ out < price
        BY <1>3, <2>0, <2>1, <2>2, Numbers DEF C!cashRefundAmount, C!debtAfterCredit, safe, out, price
    <2>3. CASE current /\ out >= price
        BY <1>3, <2>0, <2>1, <2>3, Numbers DEF C!cashRefundAmount, C!debtAfterCredit, safe, out, price
    <2>4. CASE ~current
        BY <2>1, <2>4
    <2> QED
        BY <1>3, <2>0, <2>2, <2>3, <2>4
<1> HIDE DEF credited, released, owed, debt, price
<1>14. current => book = C!lineStateCommit(ledger.identityCommitment, b.limit, debt, b.epoch + 1)
    <2> DEFINE identity == ledger.identityCommitment
               limit == b.limit
               outstanding == b.outstanding
               epoch == b.epoch
    <2>1. b = lineStateCommit(identity, limit, outstanding, epoch)
        BY <1>12
    <2> HIDE DEF identity, limit, outstanding, epoch, b
    <2>2. rotated(b, debt) = C!lineStateCommit(identity, limit, debt, epoch + 1)
        BY <2>1, RotatedBook
    <2> QED
        BY <1>2, <2>2 DEF identity, limit, epoch
<1>15. BookOK(ledger')
    <2>1. ledger'.identityCommitment = ledger.identityCommitment
        BY <1>11 DEF Kept, LedgerFields, Counters
    <2>2. CASE current
        BY <1>9, <1>13, <1>14, <2>1, <2>2 DEF BookOK, C!lineStateCommit, lineStateCommit
    <2>3. CASE ~current
        BY <1>9, <1>12, <2>1, <2>3 DEF BookOK
    <2> QED
        BY <2>2, <2>3
<1>16. PageOK(ledger')
    <2>1. \A field \in TermFields \cup {"status", "quotes"} : ledger'[field] = ledger[field]
        BY <1>11 DEF Kept, TermFields, LedgerFields, Counters
    <2> QED
        BY <1>4, <1>8, <1>10, <1>15, <2>1, ClaimPage
<1>17. UNCHANGED C!terms
    BY <1>11, KeptAlike DEF Kept, LedgerFields, Counters, TermFields
<1>18. C!moveToRefund(m, released)
    <2>1. m.cancelled \/ C!noteExpired(m)
        BY <1>2 DEF C!noteExpired, C!blockTimeGte
    <2>2. \A counter \in Counters : base[counter] \in Nat
        BY <1>5, LockedExactly
    <2> DEFINE amount == IF m.cancelled THEN 0 ELSE m.amount
               fee == IF m.cancelled THEN 0 ELSE m.fee
               moved == IF m.cancelled THEN 0 ELSE price
    <2>3. /\ amount \in Nat /\ fee \in Nat /\ moved \in Nat /\ released \in Nat
          /\ Moved(ledger, base, -amount, 0, 0, -fee, moved, 0)
        <3>1. CASE m.cancelled
            BY <1>3, <1>5, <1>13, <3>1 DEF Moved, Counters
        <3>2. CASE ~m.cancelled
            <4>1. amount = m.amount /\ fee = m.fee /\ moved = price
                BY <3>2
            <4> HIDE DEF amount, fee, moved, m
            <4> QED
                BY <1>3, <1>5, <1>13, <3>2, <4>1
        <3> QED
            BY <3>1, <3>2
    <2> HIDE DEF amount, fee, moved
    <2>4. /\ ledger'.encumberedReserve = ledger.encumberedReserve - amount
          /\ ledger'.pendingFeeReserve = ledger.pendingFeeReserve - fee
          /\ ledger'.refundReserve = ledger.refundReserve + moved - released
          /\ ledger'.totalReserve = ledger.totalReserve
          /\ ledger'.redeemedReserve = ledger.redeemedReserve
          /\ ledger'.feeReserve = ledger.feeReserve
          /\ ledger'.reportedRefundReserve = ledger.reportedRefundReserve
        <3>1. /\ base.encumberedReserve = ledger.encumberedReserve - amount
              /\ base.pendingFeeReserve = ledger.pendingFeeReserve - fee
              /\ base.refundReserve = ledger.refundReserve + moved
              /\ base.totalReserve = ledger.totalReserve
              /\ base.redeemedReserve = ledger.redeemedReserve
              /\ base.feeReserve = ledger.feeReserve
              /\ base.reportedRefundReserve = ledger.reportedRefundReserve
            BY <1>3, <2>3 DEF Moved, Counters
        <3>2. /\ ledger'.encumberedReserve = base.encumberedReserve
              /\ ledger'.pendingFeeReserve = base.pendingFeeReserve
              /\ ledger'.refundReserve = base.refundReserve - released
              /\ ledger'.totalReserve = base.totalReserve
              /\ ledger'.redeemedReserve = base.redeemedReserve
              /\ ledger'.feeReserve = base.feeReserve
              /\ ledger'.reportedRefundReserve = base.reportedRefundReserve
            BY <1>7, <2>2, <2>3 DEF Moved, Counters
        <3>3. ledger'.refundReserve = ledger.refundReserve + moved - released
            BY <1>3, <2>2, <2>3, <3>1, <3>2 DEF Counters
        <3>4. ledger'.encumberedReserve = ledger.encumberedReserve - amount
              /\ ledger'.pendingFeeReserve = ledger.pendingFeeReserve - fee
            BY <1>3, <2>2, <2>3, <3>1, <3>2 DEF Counters
        <3> QED
            BY <3>1, <3>2, <3>3, <3>4
    <2>5. C!cost(m) = price
        BY <1>3
    <2> HIDE DEF m
    <2> QED
        BY <1>11, <2>1, <2>4, <2>5 DEF C!moveToRefund, amount, fee, moved
<1>19. C!cost(m) \in C!Uint64
    BY <1>2, <1>3, Numbers DEF costIsSafe, safe, C!Uint64, price
<1>20. \/ /\ current /\ D.identity = ledger.identityCommitment
          /\ C!moveToRefund(m, IF C!cashRefundAmount(b.outstanding, C!cost(m)) > 0
                               THEN 0 ELSE C!cost(m))
          /\ C!rotateBook(b, C!debtAfterCredit(b.outstanding, C!cost(m)))
          /\ ledger'.notes = [ledger.notes EXCEPT ![D] =
                  C!allocatedNote(D, C!cashRefundAmount(b.outstanding, C!cost(m)))]
       \/ /\ m.lineGeneration < ledger.lineGeneration
          /\ C!moveToRefund(m, 0)
          /\ ledger'.notes = [ledger.notes EXCEPT ![D] = C!allocatedNote(D, C!cost(m))]
          /\ ledger'.lineCommitment = b
    <2>1. CASE current
        <3>1. C!rotateBook(b, debt)
            BY <1>9, <1>13, <1>14, <2>1, Numbers DEF C!rotateBook, safe, C!Uint64
        <3>2. /\ owed = C!cashRefundAmount(b.outstanding, C!cost(m))
              /\ debt = C!debtAfterCredit(b.outstanding, C!cost(m))
              /\ released = (IF owed > 0 THEN 0 ELSE C!cost(m))
              /\ D.identity = ledger.identityCommitment
            BY <1>2, <1>3, <1>13, <2>1
        <3>3. C!moveToRefund(m, IF owed > 0 THEN 0 ELSE C!cost(m))
            BY <1>18, <3>2
        <3>4. ledger'.notes = [ledger.notes EXCEPT ![D] = C!allocatedNote(D, owed)]
            BY <1>8, <1>10
        <3> HIDE DEF current, b, m
        <3> QED
            BY <2>1, <3>1, <3>2, <3>3, <3>4
    <2>2. CASE ~current
        <3>1. m.lineGeneration < ledger.lineGeneration
            BY <1>2, <1>3, <2>2 DEF NoteOK, Binds, PageOK
        <3> QED
            BY <1>3, <1>8, <1>9, <1>10, <1>13, <1>18, <2>2, <3>1
    <2> QED
        BY <2>1, <2>2
<1> HIDE DEF current, books
<1>21. ASSUME NEW c, c = Issuer \/ c = D.identity
       PROVE  C!allocateCompensation(c, D, b)
    BY <1>1, <1>2, <1>3, <1>11, <1>12, <1>17, <1>19, <1>20, <1>21
       DEF C!allocateCompensation, C!requireIssuer, Kept, LedgerFields, Counters, current
<1>23. D.identity \in Agents
    BY <1>3 DEF Binds
<1> QED
    BY <1>2, <1>16, <1>21, <1>23

\* The entry of a reported refund is the one the contract writes.
LEMMA ReportedEntry ==
    ASSUME NEW D, NEW m, NoteOK(m, D), Binds(D, m), ~m.redeemed, m.cancelled,
           m.compensationAllocated, m.cashRefundOwed, NEW P,
           NEW n, n = [m EXCEPT !.refundAcknowledged = TRUE, !.refundPaymentNullifier = P]
    PROVE  n = C!acknowledgedNote(m, P) /\ Binds(D, n)
<1> DEFINE r == C!acknowledgedNote(m, P)
<1>1. /\ m.redeemed = FALSE /\ m.cancelled = TRUE /\ m.compensationAllocated = TRUE
      /\ m.cashRefundOwed = TRUE /\ DOMAIN m = NoteFields
    BY DEF NoteOK
<1>2. /\ DOMAIN n = NoteFields /\ IsMap(n) /\ n.refundAcknowledged = TRUE
      /\ n.refundPaymentNullifier = P
      /\ \A field \in NoteFields \ {"refundAcknowledged", "refundPaymentNullifier"} :
            n[field] = m[field]
    BY <1>1 DEF IsMap, NoteFields
<1>3. DOMAIN r = NoteFields /\ IsMap(r) /\ \A field \in NoteFields : r[field] = n[field]
    BY <1>1, <1>2 DEF C!acknowledgedNote, NoteFields, IsMap
<1> HIDE DEF r
<1>4. n = r
    BY <1>2, <1>3 DEF IsMap
<1>5. n.amount = m.amount /\ n.fee = m.fee
    BY <1>2 DEF NoteFields
<1>6. Binds(D, n)
    BY <1>2, <1>5 DEF Binds
<1> QED
    BY <1>4, <1>6 DEF r

LEMMA ReportFollows ==
    ASSUME PageOK(ledger), NEW caller, NEW D \in DOMAIN ledger.notes, NEW amount, NEW payRef,
           NEW receiptExpiry,
           localAcknowledgeRefund(caller, D, amount, payRef, receiptExpiry)
    PROVE  /\ PageOK(ledger') /\ amount \in C!Uint64
           /\ C!acknowledgeRefund(Issuer, D, amount, payRef, receiptExpiry)
<1> DEFINE m == ledger.notes[D]
           P == paymentNullifier(payRef)
           n == [m EXCEPT !.refundAcknowledged = TRUE, !.refundPaymentNullifier = P]
           price == cost(m)
           refund == [note |-> D, amount |-> amount]
<1>1. /\ ledger' \in acknowledgeRefund(ledger, caller, D, amount, payRef, receiptExpiry)
      /\ now' = now /\ repaid' = repaid
    BY DEF localAcknowledgeRefund, callMirror
<1>2. /\ ~m.redeemed /\ costIsSafe(m) /\ m.cancelled /\ m.compensationAllocated
      /\ m.cashRefundOwed /\ ~m.refundAcknowledged /\ receiptExpiry > now
      /\ amount \in 1..price /\ payRef # Empty /\ P \notin ledger.nullifiers
      /\ m.refundCommitment = refund
      /\ ledger' = [ledger EXCEPT !.nullifiers = @ \cup {P},
                       !.notes[D].refundAcknowledged = TRUE,
                       !.notes[D].refundPaymentNullifier = P,
                       !.refundReserve = double(@ - price),
                       !.reportedRefundReserve = double(@ + price)]
    BY <1>1 DEF acknowledgeRefund, accepted
<1>3. /\ NoteOK(m, D) /\ Binds(D, m) /\ C!cost(m) = price
      /\ m.amount \in Nat /\ m.fee \in Nat /\ price \in Nat
      /\ \A counter \in Counters : ledger[counter] \in Nat
    BY OpensNote, Shares, LockedExactly DEF PageOK
<1>4. LedgerOK(ledger') /\ Moved(ledger, ledger', 0, 0, 0, 0, -price, price)
    BY <1>1, Acknowledged DEF Reported, PageOK
<1>5. /\ amount \in C!Uint64 /\ price \in C!Uint64
    BY <1>2, <1>3, Numbers DEF costIsSafe, safe, C!Uint64
<1> HIDE DEF price, P, refund
<1>6. /\ DOMAIN ledger' = LedgerFields /\ ledger'.notes = [ledger.notes EXCEPT ![D] = n]
      /\ ledger'.nullifiers = ledger.nullifiers \cup {P}
      /\ \A field \in LedgerFields \ ({"notes", "nullifiers"} \cup Counters) :
            ledger'[field] = ledger[field]
    BY <1>2 DEF PageOK, LedgerOK, LedgerFields, Counters
<1>7. n = C!acknowledgedNote(m, P) /\ Binds(D, n)
    BY <1>2, <1>3, ReportedEntry
<1> HIDE DEF n
<1>8. PageOK(ledger')
    <2>1. BookOK(ledger')
        BY <1>6 DEF PageOK, BookOK, LedgerFields, Counters
    <2>2. \A field \in TermFields \cup {"status", "quotes"} : ledger'[field] = ledger[field]
        BY <1>6 DEF TermFields, LedgerFields, Counters
    <2> QED
        BY <1>4, <1>6, <1>7, <2>1, <2>2, ClaimPage
<1>9. Kept(LedgerFields \ ({"notes", "nullifiers"} \cup Counters)) /\ C!castsHold
    BY <1>4, <1>6, CastsPass DEF Kept
<1>10. UNCHANGED C!terms
    BY <1>9, KeptAlike DEF Kept, LedgerFields, Counters, TermFields
<1>11. /\ ledger'.refundReserve = ledger.refundReserve - price
       /\ ledger'.reportedRefundReserve = ledger.reportedRefundReserve + price
       /\ ledger'.encumberedReserve = ledger.encumberedReserve
       /\ ledger'.redeemedReserve = ledger.redeemedReserve
       /\ ledger'.pendingFeeReserve = ledger.pendingFeeReserve
       /\ ledger'.feeReserve = ledger.feeReserve
       /\ ledger'.totalReserve = ledger.totalReserve
    BY <1>3, <1>4 DEF Moved, Counters
<1>12. P = C!paymentNullifier(payRef) /\ refund = C!refundCommit(D, amount)
    BY DEF P, refund, paymentNullifier, C!paymentNullifier, C!refundCommit
<1>13. C!reportRefund(Issuer, D, amount, payRef, receiptExpiry)
    BY <1>2, <1>3, <1>5, <1>6, <1>7, <1>12
       DEF C!reportRefund, C!requireIssuer, C!blockTimeLt
<1>14. C!acknowledgeRefund(Issuer, D, amount, payRef, receiptExpiry)
    BY <1>1, <1>3, <1>9, <1>10, <1>11, <1>13
       DEF C!acknowledgeRefund, Kept, LedgerFields, Counters
<1> QED
    BY <1>5, <1>8, <1>14

-----------------------------------------------------------------------------
(* Draws *)

\* The contract checks, without a division, the fee the mirror computes.
LEMMA FeeHolds ==
    ASSUME NEW amount \in Nat, amount > 0, ledger.feeFlat \in Nat, ledger.feeBps \in Nat, NEW fee,
           fee = requiredDrawFee(amount, ledger.feeFlat, ledger.feeBps)
    PROVE  C!feePolicyHolds(amount, fee)
<1> DEFINE bps == ledger.feeBps
           flat == ledger.feeFlat
           p == amount * bps
           v == (p + 9999) \div 10000
<1>1. p \in Nat /\ (bps = 0 => p = 0) /\ (bps # 0 => p > 0)
    <2> HIDE DEF bps
    <2>1. bps \in Nat
        BY DEF bps
    <2> QED
        BY <2>1
<1>2. fee = flat + v
    BY DEF requiredDrawFee
<1> HIDE DEF p
<1>3. v \in Nat /\ p <= v * 10000 /\ (v - 1) * 10000 < p /\ (p > 0 => v > 0) /\ (p = 0 => v = 0)
    BY <1>1
<1> HIDE DEF v
<1>4. fee >= flat /\ fee - flat = v
    BY <1>2, <1>3
<1> QED
    BY <1>1, <1>3, <1>4 DEF C!feePolicyHolds, p

\* A new claim is what its commitment binds.
LEMMA NewEntry ==
    ASSUME NEW generation \in Nat, NEW identity \in Agents, NEW Q, NEW merchant, NEW amount, NEW fee,
           NEW expiry, NEW D,
           D = C!drawNoteCommit(generation, identity, Q, merchant, amount, fee, expiry)
    PROVE  Binds(D, noteRecord(D))
<1>1. D.lineGeneration = generation /\ D.identity = identity /\ D.quote = Q
      /\ D.merchant = merchant /\ D.amount = amount /\ D.fee = fee /\ D.expiry = expiry
    BY DEF C!drawNoteCommit
<1>2. IsMap(noteRecord(D)) /\ noteRecord(D).amount = D.amount /\ noteRecord(D).fee = D.fee
    BY DEF noteRecord, IsMap
<1> QED
    BY <1>1, <1>2 DEF Binds

LEMMA DrawFollows ==
    ASSUME PageOK(ledger), NEW agent, NEW held, NEW quoteCommit, NEW invoice, NEW expiry,
           NEW fee, localDraw(agent, held, quoteCommit, invoice, expiry, fee)
    PROVE  /\ PageOK(ledger') /\ agent = ledger.identityCommitment /\ ledger.status # "NONE"
           /\ \E Q \in DOMAIN ledger.quotes :
                 fee \in C!Uint64 /\ C!draw(agent, ledger.lineCommitment, Q, fee)
<1> DEFINE Q == quoteCommitment(invoice.merchant, invoice.invoice, invoice.amount, expiry,
                                ledger.quotes[quoteCommit].lineGeneration,
                                ledger.feeFlat, ledger.feeBps)
           books == [held EXCEPT !.identity = ledger.identityCommitment]
           b == ledger.lineCommitment
           meta == ledger.quotes[Q]
           amount == Q.amount
           N == [kind |-> "draw", secret |-> agent, quote |-> Q]
           D == noteOf(ledger, agent, Q, Q, fee, expiry)
           debt == b.outstanding + amount + fee
           book == rotated(b, debt)
           price == amount + fee
<1>1. /\ ledger' \in draw(ledger, agent, books, Q, Q, fee, expiry)
      /\ now' = now /\ repaid' = repaid
    BY DEF localDraw, callMirror
<1> HIDE DEF Q
<1>2. /\ ledger.status = "OPEN" /\ ledger.lineExpiry > now /\ agent = ledger.identityCommitment
      /\ books = b /\ Q \in DOMAIN ledger.quotes /\ ~meta.used /\ meta.expiry > now
      /\ meta.lineGeneration = ledger.lineGeneration
      /\ safe(amount) /\ amount > 0 /\ reconstructs(ledger, Q, Q)
      /\ Q.merchant \in DOMAIN ledger.registeredMerchants
      /\ safe(fee) /\ fee = requiredDrawFee(amount, ledger.feeFlat, ledger.feeBps)
      /\ expiry = meta.expiry /\ N \notin ledger.nullifiers /\ D \notin DOMAIN ledger.notes
    BY <1>1 DEF draw, accepted
<1>3. affordable(ledger, books, price) /\ mayRotate(books)
      /\ ledger' = [ledger EXCEPT
             !.quotes[Q].used = TRUE,
             !.lineCommitment = rotated(books, books.outstanding + amount + fee),
             !.nullifiers = @ \cup {N},
             !.encumberedReserve = double(@ + amount),
             !.pendingFeeReserve = double(@ + fee),
             !.notes = Insert(@, D, noteRecord(D))]
    BY <1>1 DEF draw, accepted
<1>4. /\ LedgerOK(ledger') /\ Moved(ledger, ledger', amount, 0, 0, fee, 0, 0)
      /\ ledger'.notes = Insert(ledger.notes, D, noteRecord(D))
    <2> HIDE DEF books, D
    <2>1. /\ LedgerOK(ledger') /\ Moved(ledger, ledger', Q.amount, 0, 0, fee, 0, 0)
          /\ ledger'.notes = Insert(ledger.notes, noteOf(ledger, agent, Q, Q, fee, expiry),
                                    noteRecord(noteOf(ledger, agent, Q, Q, fee, expiry)))
        BY <1>1, Drawn DEF PageOK
    <2> QED
        BY <2>1 DEF D
<1>5. /\ affordable(ledger, b, price) /\ mayRotate(b)
      /\ ledger' = [ledger EXCEPT
             !.quotes[Q].used = TRUE, !.lineCommitment = book,
             !.nullifiers = @ \cup {N},
             !.encumberedReserve = double(@ + amount),
             !.pendingFeeReserve = double(@ + fee),
             !.notes = Insert(@, D, noteRecord(D))]
    <2> HIDE DEF books, b, D, N, amount, price
    <2> QED
        BY <1>2, <1>3 DEF b
<1> HIDE DEF books, book, D, N
<1>6. /\ DOMAIN ledger' = LedgerFields
      /\ ledger'.quotes = [ledger.quotes EXCEPT ![Q].used = TRUE]
      /\ ledger'.lineCommitment = book /\ ledger'.nullifiers = ledger.nullifiers \cup {N}
      /\ \A field \in LedgerFields \ ({"quotes", "lineCommitment", "nullifiers", "notes"}
                                       \cup Counters) :
            ledger'[field] = ledger[field]
    BY <1>5 DEF PageOK, LedgerOK, LedgerFields, Counters
<1>7. Kept(LedgerFields \ ({"quotes", "lineCommitment", "nullifiers", "notes"} \cup Counters))
      /\ C!castsHold
    BY <1>4, <1>6, CastsPass DEF Kept
<1>8. /\ UNCHANGED C!terms /\ ledger'.status = ledger.status
      /\ ledger'.registeredMerchants = ledger.registeredMerchants
    BY <1>7, KeptAlike DEF Kept, LedgerFields, Counters, TermFields
<1>9. /\ b = lineStateCommit(ledger.identityCommitment, b.limit, b.outstanding, b.epoch)
      /\ safe(b.outstanding) /\ safe(b.epoch)
      /\ C!opensLineCommit(ledger.identityCommitment, b)
    BY DEF PageOK, BookOK, C!opensLineCommit, C!lineStateCommit, lineStateCommit
<1>10. /\ amount \in Nat /\ fee \in Nat /\ price \in Nat /\ fee \in C!Uint64
       /\ b.outstanding \in Nat /\ b.epoch \in Nat
       /\ debt = b.outstanding + price
    BY <1>2, <1>9, Numbers DEF safe, C!Uint64
<1>11. /\ safe(debt) /\ debt \in C!Uint64 /\ safe(b.epoch + 1) /\ b.epoch + 1 \in C!Uint64
       /\ b.outstanding + price <= b.limit
       /\ price <= ledger.totalReserve - lockedReserve(ledger)
    <2>1. /\ safe(b.outstanding + price) /\ safe(b.epoch + 1)
          /\ b.outstanding + price <= b.limit
          /\ price <= ledger.totalReserve - lockedReserve(ledger)
        BY <1>5 DEF affordable, mayRotate
    <2>2. \A n : safe(n) => n \in C!Uint64
        BY Numbers DEF safe, C!Uint64
    <2> HIDE DEF debt, price, b
    <2> QED
        BY <1>10, <2>1, <2>2
<1> HIDE DEF debt, price
<1>12. book = C!lineStateCommit(ledger.identityCommitment, b.limit, debt, b.epoch + 1)
    <2> DEFINE identity == ledger.identityCommitment
               limit == b.limit
               outstanding == b.outstanding
               epoch == b.epoch
    <2>1. b = lineStateCommit(identity, limit, outstanding, epoch)
        BY <1>9
    <2> HIDE DEF identity, limit, outstanding, epoch, b
    <2>2. rotated(b, debt) = C!lineStateCommit(identity, limit, debt, epoch + 1)
        BY <2>1, RotatedBook
    <2> QED
        BY <2>2 DEF identity, limit, epoch, book
<1>13. C!rotateBook(b, debt)
    BY <1>6, <1>11, <1>12 DEF C!rotateBook
<1>14. D = C!drawNoteCommit(ledger.lineGeneration, agent, Q, Q.merchant, amount, fee, meta.expiry)
    BY <1>2 DEF D, noteOf, C!drawNoteCommit
<1>15. noteRecord(D) = C!freshNote(amount, fee, meta.expiry)
    <2>1. D.amount = amount /\ D.fee = fee /\ D.expiry = meta.expiry
          /\ D.lineGeneration = ledger.lineGeneration
        BY <1>14 DEF C!drawNoteCommit
    <2> HIDE DEF amount, meta
    <2> QED
        BY <2>1 DEF noteRecord, C!freshNote
<1>16. C!quotePreimageHolds(Q)
    <2>1. Q = quoteCommitment(Q.merchant, Q.invoice, Q.amount, ledger.quotes[Q].expiry,
                              ledger.quotes[Q].lineGeneration, ledger.feeFlat, ledger.feeBps)
        BY <1>2 DEF reconstructs
    <2> QED
        BY <2>1 DEF quoteCommitment, C!quotePreimageHolds, C!quoteCommit
<1>17. /\ ledger'.quotes = C!Insert(ledger.quotes, Q, C!consumed(meta))
       /\ IsMap(ledger'.quotes)
    <2> DEFINE after == C!Insert(ledger.quotes, Q, C!consumed(meta))
    <2>1. IsMap(ledger.quotes)
        BY DEF PageOK
    <2>2. /\ DOMAIN after = DOMAIN ledger.quotes /\ IsMap(after) /\ IsMap(ledger'.quotes)
          /\ DOMAIN ledger'.quotes = DOMAIN ledger.quotes
        BY <1>2, <1>6, <2>1 DEF C!Insert, IsMap
    <2>3. \A x \in DOMAIN ledger.quotes : ledger'.quotes[x] = after[x]
        BY <1>2, <1>6 DEF C!Insert, C!consumed
    <2> HIDE DEF after
    <2>4. ledger'.quotes = after
        BY <2>2, <2>3 DEF IsMap
    <2> QED
        BY <2>2, <2>4 DEF after
<1>18. ledger'.notes = C!Insert(ledger.notes, D, noteRecord(D))
    BY <1>4 DEF Insert, C!Insert
<1>19. /\ C!feePolicyHolds(amount, fee)
    BY <1>2, <1>10, FeeHolds DEF PageOK
<1>20. /\ lockedReserve(ledger) = C!locked /\ C!locked <= ledger.totalReserve
       /\ \A counter \in Counters : ledger[counter] \in Nat
    <2>1. SameButIssuer(ledger, ledger)
        BY DEF SameButIssuer, PageOK, LedgerOK
    <2> QED
        BY <2>1, LockedAlike
<1>21. C!reserveCovers(price) /\ C!capacityHolds(b, price)
    <2>1. ledger.totalReserve >= C!locked
        BY <1>20, LockedAlike, LockedExactly, Numbers DEF Counters, PageOK, SameButIssuer
    <2> QED
        BY <1>11, <1>20, <2>1 DEF C!reserveCovers, C!capacityHolds
<1>22. /\ ledger'.encumberedReserve = ledger.encumberedReserve + amount
       /\ ledger'.pendingFeeReserve = ledger.pendingFeeReserve + fee
       /\ ledger'.redeemedReserve = ledger.redeemedReserve
       /\ ledger'.feeReserve = ledger.feeReserve
       /\ ledger'.refundReserve = ledger.refundReserve
       /\ ledger'.totalReserve = ledger.totalReserve
       /\ ledger'.reportedRefundReserve = ledger.reportedRefundReserve
    BY <1>4, <1>20 DEF Moved, Counters
<1>23. N = C!drawNullifier(agent, Q)
    BY DEF N, C!drawNullifier
<1>24. PageOK(ledger')
    <2>1. BookOK(ledger')
        BY <1>6, <1>8, <1>11, <1>12 DEF BookOK, C!lineStateCommit, lineStateCommit, C!terms
    <2>2. IsMap(ledger'.notes) /\ Binds(D, noteRecord(D))
          /\ DOMAIN ledger'.notes = DOMAIN ledger.notes \cup {D}
          /\ \A x \in DOMAIN ledger'.notes :
                ledger'.notes[x] = IF x = D THEN noteRecord(D) ELSE ledger.notes[x]
        BY <1>2, <1>14, <1>18, NewEntry DEF PageOK, C!Insert, IsMap
    <2>3. \A x \in DOMAIN ledger'.notes : Binds(x, ledger'.notes[x])
        BY <2>2 DEF PageOK
    <2>4. /\ ledger'.feeFlat = ledger.feeFlat /\ ledger'.feeBps = ledger.feeBps
          /\ ledger'.lineGeneration = ledger.lineGeneration
          /\ ledger'.identityCommitment = ledger.identityCommitment
        BY <1>8 DEF C!terms
    <2> QED
        BY <1>4, <1>8, <1>17, <2>1, <2>2, <2>3, <2>4 DEF PageOK
<1>25. C!draw(agent, b, Q, fee)
    BY <1>1, <1>2, <1>6, <1>7, <1>8, <1>9, <1>10, <1>13, <1>14, <1>15, <1>16, <1>17, <1>18,
       <1>19, <1>21, <1>22, <1>23
       DEF C!draw, C!blockTimeLt, price
<1> QED
    BY <1>2, <1>10, <1>24, <1>25

-----------------------------------------------------------------------------
(* The steps of the contract *)

LEMMA HeldBook == ledger.lineCommitment \in C!HeldBooks
BY DEF C!HeldBooks

LEMMA IssuerSteps ==
    /\ \A m \in Merchants : C!registerMerchant(Issuer, m) => C!Next
    /\ \A m \in Merchants : C!disableMerchant(Issuer, m) => C!Next
    /\ \A a \in Deposits : C!fundReserve(Issuer, a) => C!Next
    /\ \A a \in Deposits : C!withdrawUnencumberedReserve(Issuer, a) => C!Next
    /\ C!withdrawFees(Issuer) => C!Next
    /\ \A agent \in Agents, limit \in Limits, expiry \in Times, flat \in FlatFees, bps \in Rates :
          C!openLine(Issuer, agent, limit, expiry, flat, bps) => C!Next
<1>1. Issuer \in C!Principals
    BY DEF C!Principals
<1>2. \A m \in Merchants : C!registerMerchant(Issuer, m) \/ C!disableMerchant(Issuer, m) => C!Next
    BY <1>1 DEF C!Next
<1>3. \A a \in Deposits :
         C!fundReserve(Issuer, a) \/ C!withdrawUnencumberedReserve(Issuer, a) => C!Next
    BY <1>1 DEF C!Next
<1>4. C!withdrawFees(Issuer) => C!Next
    BY <1>1 DEF C!Next
<1>5. \A agent \in Agents, limit \in Limits, expiry \in Times, flat \in FlatFees, bps \in Rates :
         C!openLine(Issuer, agent, limit, expiry, flat, bps) => C!Next
    BY <1>1 DEF C!Next, C!Times, Times
<1> QED
    BY <1>2, <1>3, <1>4, <1>5

LEMMA BookSteps ==
    /\ \A status \in C!Status : C!setStatus(Issuer, status, ledger.lineCommitment) => C!Next
    /\ \A amount \in C!Uint64, payRef \in Payments, expiry \in Times :
          C!acknowledgeRepayment(Issuer, ledger.lineCommitment, amount, payRef, expiry)
             => C!Next
<1>1. Issuer \in C!Principals
    BY DEF C!Principals
<1>2. \A status \in C!Status : C!setStatus(Issuer, status, ledger.lineCommitment) => C!Next
    BY <1>1, HeldBook DEF C!Next
<1>3. ASSUME NEW amount \in C!Uint64, NEW payRef \in Payments, NEW expiry \in Times,
             C!acknowledgeRepayment(Issuer, ledger.lineCommitment, amount, payRef, expiry)
      PROVE  C!Next
    BY <1>1, <1>3, HeldBook DEF C!Next, C!Times, Times
<1> QED
    BY <1>2, <1>3

LEMMA QuoteSteps ==
    ASSUME NEW caller \in Callers
    PROVE  /\ \A invoice \in Invoices, amount \in Prices, expiry \in Times :
                 C!postQuote(caller, invoice, amount, expiry) => C!Next
           /\ \A Q \in DOMAIN ledger.quotes, fee \in C!Uint64 :
                 caller \in Agents /\ C!draw(caller, ledger.lineCommitment, Q, fee) => C!Next
<1>1. caller \in C!Principals
    BY DEF C!Principals, Callers
<1>2. ASSUME NEW invoice \in Invoices, NEW amount \in Prices, NEW expiry \in Times,
             C!postQuote(caller, invoice, amount, expiry)
      PROVE  C!Next
    BY <1>1, <1>2 DEF C!Next, C!Times, Times
<1>3. ASSUME NEW Q \in DOMAIN ledger.quotes, NEW fee \in C!Uint64, caller \in Agents,
             C!draw(caller, ledger.lineCommitment, Q, fee)
      PROVE  C!Next
    BY <1>1, <1>3, HeldBook DEF C!Next
<1> QED
    BY <1>2, <1>3

LEMMA ClaimSteps ==
    ASSUME NEW caller \in Callers, NEW D \in DOMAIN ledger.notes
    PROVE  /\ C!redeemDraw(caller, D) => C!Next
           /\ C!expireNote(D) => C!Next
           /\ C!allocateCompensation(caller, D, ledger.lineCommitment) => C!Next
           /\ C!allocateCompensation(Issuer, D, ledger.lineCommitment) => C!Next
           /\ \A amount \in C!Uint64, payRef \in Payments, expiry \in Times :
                 C!acknowledgeRefund(Issuer, D, amount, payRef, expiry) => C!Next
<1>1. caller \in C!Principals /\ Issuer \in C!Principals
    BY DEF C!Principals, Callers
<1>2. C!redeemDraw(caller, D) => C!Next
    BY <1>1 DEF C!Next
<1>3. C!expireNote(D) => C!Next
    BY <1>1 DEF C!Next
<1>4. \A c \in C!Principals :
         C!allocateCompensation(c, D, ledger.lineCommitment) => C!Next
    BY <1>1, HeldBook DEF C!Next
<1>5. ASSUME NEW amount \in C!Uint64, NEW payRef \in Payments, NEW expiry \in Times,
             C!acknowledgeRefund(Issuer, D, amount, payRef, expiry)
      PROVE  C!Next
    BY <1>1, <1>5 DEF C!Next, C!Times, Times
<1> QED
    BY <1>1, <1>2, <1>3, <1>4, <1>5

\* The sum of two safe amounts rounds to a natural.
LEMMA DoubleOfSum ==
    ASSUME NEW a, NEW b, safe(a), safe(b)
    PROVE  double(a + b) \in Nat
<1> DEFINE n == a + b
<1>1. n \in Nat /\ n <= 2 * (MaxSafe + 1)
    BY Numbers DEF safe
<1> SUFFICES double(n) \in Nat
    BY DEF n
<1> HIDE DEF n
<1>2. CASE n <= MaxSafe + 1
    BY <1>1, <1>2 DEF double
<1>3. CASE ~(n <= MaxSafe + 1)
    <2> DEFINE g == gapAt(n)
    <2>1. 2 * (MaxSafe + 1) < 2 * n
        BY <1>1, <1>3, Numbers
    <2>2. g \in Gaps
        <3>1. \E x \in Gaps : n <= x * (MaxSafe + 1) /\ x * (MaxSafe + 1) < 2 * n
            BY <1>1, <2>1 DEF Gaps
        <3> QED
            BY <3>1 DEF gapAt
    <2>3. g \in Nat /\ g > 0
        BY <2>2 DEF Gaps
    <2> HIDE DEF g
    <2> DEFINE q == n \div g
    <2>4. q \in Nat
        BY <1>1, <2>3
    <2> HIDE DEF q
    <2>5. g * q \in Nat /\ g * (q + 1) \in Nat
        BY <2>3, <2>4
    <2>6. nearest(n, g) \in Nat
        BY <2>5 DEF nearest, q
    <2> QED
        BY <1>3, <2>6 DEF double, g
<1> QED
    BY <1>2, <1>3

\* What a call of the page may do: a step of the contract, or one of none.
Follows == PageOK(ledger') /\ (C!Next \/ Reenabled \/ UNCHANGED C!vars)

\* A call of the issuer that fails has at most bound the issuer.
LEMMA BoundCall ==
    ASSUME PageOK(ledger), NEW caller, NEW L, L = bindGenesisIssuer(caller), NEW results,
           callBound(L, results), ledger' \notin results
    PROVE  Follows
<1>1. ledger' = L /\ UNCHANGED <<now, repaid>>
    BY DEF callBound
<1>2. PageOK(L) /\ SameButIssuer(ledger, L)
    BY GenesisBound
<1>3. \A field \in LedgerFields \ {"issuerPubKey"} : ledger'[field] = ledger[field]
    BY <1>1, <1>2 DEF SameButIssuer
<1>4. UNCHANGED C!counters /\ UNCHANGED C!terms
    BY <1>3 DEF LedgerFields, C!counters, C!terms
<1>5. /\ ledger'.registeredMerchants = ledger.registeredMerchants
      /\ ledger'.lineCommitment = ledger.lineCommitment /\ ledger'.status = ledger.status
      /\ ledger'.quotes = ledger.quotes /\ ledger'.notes = ledger.notes
      /\ ledger'.nullifiers = ledger.nullifiers
    BY <1>3 DEF LedgerFields
<1>6. UNCHANGED C!vars
    BY <1>1, <1>4, <1>5 DEF C!vars
<1> QED
    BY <1>1, <1>2, <1>6 DEF Follows

LEMMA BoundCalls == \A L, results : callBound(L, results) => UNCHANGED <<now, repaid>>
BY DEF callBound

\* A reserve that is not beyond the safe numbers is one of them.
LEMMA FundedSafely ==
    ASSUME PageOK(ledger), NEW caller, NEW L, L = bindGenesisIssuer(caller), NEW amount,
           ledger' \in fundReserve(L, caller, amount), ~(ledger'.totalReserve > MaxSafe)
    PROVE  ledger'.totalReserve <= MaxSafe
<1> DEFINE sum == L.totalReserve + amount
<1>1. PageOK(L)
    BY GenesisBound
<1>2. safe(amount) /\ ledger' = [L EXCEPT !.totalReserve = double(sum)]
    BY DEF fundReserve, accepted
<1>3. safe(L.totalReserve) /\ DOMAIN L = LedgerFields
    BY <1>1, LockedExactly DEF PageOK, LedgerOK, Counters
<1>4. double(sum) \in Nat
    BY <1>2, <1>3, DoubleOfSum
<1> HIDE DEF sum
<1>5. ledger'.totalReserve = double(sum)
    BY <1>2, <1>3 DEF LedgerFields
<1> QED
    BY <1>4, <1>5, Numbers

LEMMA MerchantCallsFollow ==
    ASSUME PageOK(ledger), NEW caller, NEW m \in Merchants,
           localRegisterMerchant(caller, m) \/ localDisableMerchant(caller, m)
    PROVE  Follows
<1> DEFINE L == bindGenesisIssuer(caller)
<1>1. CASE localRegisterMerchant(caller, m)
    <2>1. callBound(L, registerMerchant(L, caller, m))
        BY <1>1 DEF localRegisterMerchant
    <2> HIDE DEF L
    <2>2. CASE ledger' \in registerMerchant(L, caller, m)
        <3>1. L = bindGenesisIssuer(caller)
            BY DEF L
        <3>2. PageOK(ledger') /\ (C!registerMerchant(Issuer, m) \/ Reenabled)
            BY <2>1, <2>2, <3>1, BoundCalls, RegisterFollows
        <3> QED
            BY <3>2, IssuerSteps DEF Follows
    <2>3. CASE ledger' \notin registerMerchant(L, caller, m)
        BY <2>1, <2>3, BoundCall DEF L
    <2> QED
        BY <2>2, <2>3
<1>2. CASE localDisableMerchant(caller, m)
    <2>1. callBound(L, disableMerchant(L, caller, m))
        BY <1>2 DEF localDisableMerchant
    <2> HIDE DEF L
    <2>2. CASE ledger' \in disableMerchant(L, caller, m)
        <3>1. L = bindGenesisIssuer(caller)
            BY DEF L
        <3>2. PageOK(ledger') /\ C!disableMerchant(Issuer, m)
            BY <2>1, <2>2, <3>1, BoundCalls, DisableFollows
        <3> QED
            BY <3>2, IssuerSteps DEF Follows
    <2>3. CASE ledger' \notin disableMerchant(L, caller, m)
        BY <2>1, <2>3, BoundCall DEF L
    <2> QED
        BY <2>2, <2>3
<1> QED
    BY <1>1, <1>2

LEMMA ReserveCallsFollow ==
    ASSUME PageOK(ledger), NEW caller, NEW a \in Deposits, ~(ledger'.totalReserve > MaxSafe),
           localFundReserve(caller, a) \/ localWithdrawReserve(caller, a)
    PROVE  Follows
<1> DEFINE L == bindGenesisIssuer(caller)
<1>1. CASE localFundReserve(caller, a)
    <2>1. callBound(L, fundReserve(L, caller, a))
        BY <1>1 DEF localFundReserve
    <2> HIDE DEF L
    <2>2. CASE ledger' \in fundReserve(L, caller, a)
        <3>1. L = bindGenesisIssuer(caller)
            BY DEF L
        <3>2. ledger'.totalReserve <= MaxSafe
            BY <2>2, <3>1, FundedSafely
        <3>3. PageOK(ledger') /\ C!fundReserve(Issuer, a)
            BY <2>1, <2>2, <3>1, <3>2, BoundCalls, FundFollows
        <3> QED
            BY <3>3, IssuerSteps DEF Follows
    <2>3. CASE ledger' \notin fundReserve(L, caller, a)
        BY <2>1, <2>3, BoundCall DEF L
    <2> QED
        BY <2>2, <2>3
<1>2. CASE localWithdrawReserve(caller, a)
    <2>1. callBound(L, withdrawUnencumberedReserve(L, caller, a))
        BY <1>2 DEF localWithdrawReserve
    <2> HIDE DEF L
    <2>2. CASE ledger' \in withdrawUnencumberedReserve(L, caller, a)
        <3>1. L = bindGenesisIssuer(caller)
            BY DEF L
        <3>2. PageOK(ledger') /\ C!withdrawUnencumberedReserve(Issuer, a)
            BY <2>1, <2>2, <3>1, BoundCalls, WithdrawFollows
        <3> QED
            BY <3>2, IssuerSteps DEF Follows
    <2>3. CASE ledger' \notin withdrawUnencumberedReserve(L, caller, a)
        BY <2>1, <2>3, BoundCall DEF L
    <2> QED
        BY <2>2, <2>3
<1> QED
    BY <1>1, <1>2

LEMMA FeeCallsFollow ==
    ASSUME PageOK(ledger), NEW caller, localWithdrawFees(caller)
    PROVE  Follows
<1> DEFINE L == bindGenesisIssuer(caller)
<1>1. callBound(L, withdrawFees(L, caller))
    BY DEF localWithdrawFees
<1> HIDE DEF L
<1>2. CASE ledger' \in withdrawFees(L, caller)
    <2>1. L = bindGenesisIssuer(caller)
        BY DEF L
    <2>2. PageOK(ledger') /\ C!withdrawFees(Issuer)
        BY <1>1, <1>2, <2>1, BoundCalls, WithdrawFeesFollows
    <2> QED
        BY <2>2, IssuerSteps DEF Follows
<1>3. CASE ledger' \notin withdrawFees(L, caller)
    BY <1>1, <1>3, BoundCall DEF L
<1> QED
    BY <1>2, <1>3

LEMMA OpenCallsFollow ==
    ASSUME PageOK(ledger), NEW caller, NEW agent \in Agents, NEW limit \in Limits,
           NEW expiry \in Times, NEW flat \in FlatFees, NEW bps \in Rates,
           localOpenLine(caller, agent, limit, expiry, flat, bps)
    PROVE  Follows
<1> DEFINE L == bindGenesisIssuer(caller)
           opened == openLine(L, caller, agent, limit, expiry, flat, bps)
<1>1. callBound(L, opened) /\ ledger.lineGeneration < MaxGenerations
    BY DEF localOpenLine
<1> HIDE DEF L
<1>2. CASE ledger' \in opened
    <2>1. L = bindGenesisIssuer(caller)
        BY DEF L
    <2>2. UNCHANGED <<now, repaid>>
        BY <1>1, BoundCalls
    <2>3. PageOK(ledger') /\ C!openLine(Issuer, agent, limit, expiry, flat, bps)
        BY <1>1, <1>2, <2>1, <2>2, OpenFollows
    <2> QED
        BY <2>3, IssuerSteps DEF Follows
<1>3. CASE ledger' \notin opened
    BY <1>1, <1>3, BoundCall DEF L
<1> QED
    BY <1>2, <1>3

LEMMA StatusCallsFollow ==
    ASSUME PageOK(ledger), NEW caller, NEW status \in {"OPEN", "DEFAULTED", "CLOSED"}, NEW held,
           localSetStatus(caller, status, held)
    PROVE  Follows
<1> DEFINE books == [held EXCEPT !.identity = ledger.identityCommitment]
<1>1. ledger' \in setStatus(ledger, caller, status, books) /\ UNCHANGED <<now, repaid>>
    BY DEF localSetStatus, callMirror
<1> HIDE DEF books
<1>2. PageOK(ledger') /\ C!setStatus(Issuer, status, ledger.lineCommitment)
    BY <1>1, StatusFollows
<1>3. status \in C!Status
    BY DEF C!Status
<1> QED
    BY <1>2, <1>3, BookSteps DEF Follows

LEMMA RepayCallsFollow ==
    ASSUME PageOK(ledger), NEW caller, NEW held, NEW amount, NEW payRef \in Payments,
           NEW receiptExpiry \in Times,
           localAcknowledgeRepayment(caller, held, amount, payRef, receiptExpiry)
    PROVE  Follows
<1>1. /\ PageOK(ledger') /\ amount \in C!Uint64
      /\ C!acknowledgeRepayment(Issuer, ledger.lineCommitment, amount, payRef, receiptExpiry)
    BY RepayFollows
<1> QED
    BY <1>1, BookSteps DEF Follows

LEMMA QuoteCallsFollow ==
    ASSUME PageOK(ledger), NEW caller \in Callers,
           \/ \E invoice \in Invoices, amount \in Prices, expiry \in Times :
                 localPostQuote(caller, invoice, amount, expiry)
           \/ \E held, quoteCommit, invoice, expiry, fee :
                 localDraw(caller, held, quoteCommit, invoice, expiry, fee)
    PROVE  Follows
<1>1. ASSUME NEW invoice \in Invoices, NEW amount \in Prices, NEW expiry \in Times,
             localPostQuote(caller, invoice, amount, expiry)
      PROVE  Follows
    <2>1. PageOK(ledger') /\ C!postQuote(caller, invoice, amount, expiry)
        BY <1>1, PostFollows
    <2> QED
        BY <2>1, QuoteSteps DEF Follows
<1>2. ASSUME NEW held, NEW quoteCommit, NEW invoice, NEW expiry, NEW fee,
             localDraw(caller, held, quoteCommit, invoice, expiry, fee)
      PROVE  Follows
    <2>1. /\ PageOK(ledger') /\ caller = ledger.identityCommitment /\ ledger.status # "NONE"
          /\ \E Q \in DOMAIN ledger.quotes :
                fee \in C!Uint64 /\ C!draw(caller, ledger.lineCommitment, Q, fee)
        BY <1>2, DrawFollows
    <2>2. caller \in Agents
        BY <2>1 DEF PageOK
    <2> QED
        BY <2>1, <2>2, QuoteSteps DEF Follows
<1> QED
    BY <1>1, <1>2

LEMMA RefundCallsFollow ==
    ASSUME PageOK(ledger), NEW caller, NEW D \in DOMAIN ledger.notes, RefundCall(caller, D)
    PROVE  Follows
<1>1. ASSUME NEW held, localCompensate(caller, D, held)
      PROVE  Follows
    <2>1. /\ PageOK(ledger')
          /\ \/ C!allocateCompensation(Issuer, D, ledger.lineCommitment)
             \/ caller \in Agents /\ C!allocateCompensation(caller, D, ledger.lineCommitment)
        BY <1>1, CompensateFollows
    <2> QED
        BY <2>1, ClaimSteps DEF Follows, Callers
<1>2. ASSUME NEW amount, NEW payRef \in Payments, NEW receiptExpiry \in Times,
             localAcknowledgeRefund(caller, D, amount, payRef, receiptExpiry)
      PROVE  Follows
    <2>1. /\ PageOK(ledger') /\ amount \in C!Uint64
          /\ C!acknowledgeRefund(Issuer, D, amount, payRef, receiptExpiry)
        BY <1>2, ReportFollows
    <2> QED
        BY <2>1, ClaimSteps DEF Follows, Callers
<1> QED
    BY <1>1, <1>2 DEF RefundCall

LEMMA ClaimCallsFollow ==
    ASSUME PageOK(ledger), NEW D \in DOMAIN ledger.notes,
           \/ \E caller \in Callers, expiry \in Times : localRedeemDraw(caller, D, expiry)
           \/ localExpireNote(D)
    PROVE  Follows
<1>1. ASSUME NEW caller \in Callers, NEW expiry, localRedeemDraw(caller, D, expiry)
      PROVE  Follows
    BY <1>1, RedeemFollows, ClaimSteps DEF Follows
<1>2. CASE localExpireNote(D)
    BY <1>2, ExpireFollows, ClaimSteps DEF Follows, Callers
<1> QED
    BY <1>1, <1>2

\* Time passes alike on both sides.
LEMMA TickFollows ==
    ASSUME PageOK(ledger), LocalTick
    PROVE  Follows
<1>1. /\ now < MaxTime /\ now' = now + 1 /\ ledger' = ledger /\ repaid' = repaid
    BY DEF LocalTick
<1>2. UNCHANGED C!counters /\ UNCHANGED C!terms
    BY <1>1 DEF C!counters, C!terms
<1>3. C!Tick
    BY <1>1, <1>2 DEF C!Tick
<1> QED
    BY <1>1, <1>3 DEF Follows, C!Next

\* Every call of the page that leaves the reserve exact.
LEMMA CallsFollow ==
    ASSUME PageOK(ledger), LocalCall, ~(ledger'.totalReserve > MaxSafe)
    PROVE  Follows
<1>1. CASE LocalTick
    BY <1>1, TickFollows
<1>2. ASSUME NEW caller, IssuerCall(caller)
      PROVE  Follows
    <2>1. CASE \E m \in MerchantKeys : localRegisterMerchant(caller, m)
        BY <2>1, MerchantCallsFollow DEF MerchantKeys
    <2>2. CASE \E m \in Merchants : localDisableMerchant(caller, m)
        BY <2>2, MerchantCallsFollow
    <2>3. CASE \E a \in Deposits : localFundReserve(caller, a) \/ localWithdrawReserve(caller, a)
        BY <2>3, ReserveCallsFollow
    <2>4. CASE localWithdrawFees(caller)
        BY <2>4, FeeCallsFollow
    <2>5. CASE \E agent \in Agents, limit \in Limits, expiry \in Times,
                  flat \in FlatFees, bps \in Rates :
                     localOpenLine(caller, agent, limit, expiry, flat, bps)
        BY <2>5, OpenCallsFollow
    <2>6. CASE \E status \in {"OPEN", "DEFAULTED", "CLOSED"}, held \in HeldBooks :
                     localSetStatus(caller, status, held)
        BY <2>6, StatusCallsFollow
    <2>7. CASE \E held \in HeldBooks, amount \in 1..ledger.lineCommitment.outstanding,
                  payRef \in Payments, receiptExpiry \in Times :
                     localAcknowledgeRepayment(caller, held, amount, payRef, receiptExpiry)
        BY <2>7, RepayCallsFollow
    <2> QED
        BY <1>2, <2>1, <2>2, <2>3, <2>4, <2>5, <2>6, <2>7 DEF IssuerCall
<1>3. ASSUME NEW caller \in Callers,
             \/ \E invoice \in Invoices, amount \in Prices, expiry \in Times :
                   localPostQuote(caller, invoice, amount, expiry)
             \/ \E held \in HeldBooks, quoteCommit, invoice \in DOMAIN ledger.quotes,
                   expiry \in Times, fee \in 0..MaxSafe :
                   localDraw(caller, held, quoteCommit, invoice, expiry, fee)
      PROVE  Follows
    BY <1>3, QuoteCallsFollow
<1>4. ASSUME NEW caller, NEW D \in DOMAIN ledger.notes, RefundCall(caller, D)
      PROVE  Follows
    BY <1>4, RefundCallsFollow
<1>5. CASE \E m \in Merchants : localDisableMerchant(omitted, m)
    BY <1>5, MerchantCallsFollow
<1>6. CASE localWithdrawFees(omitted)
    BY <1>6, FeeCallsFollow
<1>7. ASSUME NEW D \in DOMAIN ledger.notes,
             \/ \E caller \in Callers, expiry \in Times : localRedeemDraw(caller, D, expiry)
             \/ localExpireNote(D)
      PROVE  Follows
    BY <1>7, ClaimCallsFollow
<1> QED
    BY <1>1, <1>2, <1>3, <1>4, <1>5, <1>6, <1>7 DEF LocalCall

-----------------------------------------------------------------------------
(* The page follows the contract *)

LEMMA PageStarts == LocalInit => PageInv /\ C!Init
<1> SUFFICES ASSUME LocalInit PROVE PageOK(ledger) /\ C!Init
    BY DEF PageInv
<1>1. /\ ledger = createLedger(Nobody) /\ now \in 0..MaxTime /\ repaid = 0
    BY DEF LocalInit
<1>2. /\ DOMAIN ledger = LedgerFields
      /\ ledger.notes = [D \in {} |-> Empty] /\ ledger.quotes = [Q \in {} |-> Empty]
      /\ ledger.lineCommitment = NoBook /\ ledger.identityCommitment = Empty
      /\ ledger.status = "NONE" /\ ledger.lineGeneration = 0
      /\ ledger.feeFlat = 0 /\ ledger.feeBps = 0
      /\ ledger.totalReserve = 0 /\ ledger.encumberedReserve = 0
      /\ ledger.redeemedReserve = 0 /\ ledger.feeReserve = 0
      /\ ledger.pendingFeeReserve = 0 /\ ledger.refundReserve = 0
      /\ ledger.reportedRefundReserve = 0
      /\ ledger.registeredMerchants = [m \in {InitialMerchant} |-> TRUE]
      /\ ledger.nullifiers = {} /\ ledger.lineExpiry = 0
    BY <1>1 DEF createLedger, LedgerFields
<1>3. DOMAIN ledger.notes = {} /\ IsMap(ledger.notes) /\ IsMap(ledger.quotes)
    BY <1>2 DEF IsMap
<1>4. /\ Encumbered(ledger.notes) = 0 /\ FeesPending(ledger.notes) = 0
      /\ Refunds(ledger.notes) = 0
    BY <1>3, TotalEmpty, Numbers DEF Encumbered, FeesPending, Refunds, Sum
<1>5. NotesOK(ledger.notes)
    BY <1>3, FS_EmptySet DEF NotesOK
<1>6. LedgerOK(ledger)
    BY <1>2, <1>4, <1>5, Numbers DEF LedgerOK, CountersOK, locked
<1>7. BookOK(ledger)
    BY <1>2, Numbers DEF BookOK, NoBook, lineStateCommit, safe
<1>8. PageOK(ledger)
    BY <1>2, <1>3, <1>6, <1>7 DEF PageOK, C!Status
<1>9. C!Init
    BY <1>1, <1>2 DEF C!Init, NoBook, lineStateCommit, C!lineStateCommit
<1> QED
    BY <1>8, <1>9

\* The tools of the other program leave the page, and move at most its clock.
LEMMA ToolsKeepClock ==
    ASSUME McpNext
    PROVE  now' = now \/ (now < MaxTime /\ now' = now + 1)
<1>1. CASE McpTick
    BY <1>1 DEF McpTick
<1>2. CASE McpCrash \/ lineSeed
    BY <1>2 DEF McpCrash, lineSeed, write
<1>3. ASSUME NEW m, NEW invoice, NEW amount, NEW D,
             lineQuote(m, invoice, amount) \/ lineRedeem(D, m) \/ lineDisableMerchant(m)
      PROVE  now' = now
    BY <1>3 DEF lineQuote, lineRedeem, lineDisableMerchant, write, writeLedger
<1>4. ASSUME NEW Q, NEW fee, NEW amount, NEW payRef, NEW D,
             \/ lineDraw(Q, fee) \/ lineWithdrawFees \/ lineRepay(amount, payRef)
             \/ lineExpireNote(D)
      PROVE  now' = now
    BY <1>4 DEF lineDraw, lineWithdrawFees, lineRepay, lineExpireNote, write, writeLedger
<1>5. ASSUME NEW slot, NEW D, NEW payRef,
             \/ callCompensate(slot, D) \/ callAcknowledge(slot, D, payRef)
             \/ lineCompensate(slot) \/ lineAcknowledgeRefund(slot)
      PROVE  now' = now
    BY <1>5 DEF callCompensate, callAcknowledge, startWaiting, lineCompensate,
                lineAcknowledgeRefund
<1> QED
    BY <1>1, <1>2, <1>3, <1>4, <1>5 DEF McpNext

LEMMA PageStep ==
    ASSUME PageInv, [HostNext]_hostVars
    PROVE  PageInv' /\ (~rounded' => C!Next \/ Reenabled \/ UNCHANGED C!vars)
<1>1. CASE UNCHANGED pageState /\ (now' = now \/ (now < MaxTime /\ now' = now + 1))
    <2>1. ledger' = ledger /\ repaid' = repaid /\ rounded' = rounded
        BY <1>1 DEF pageState
    <2>2. UNCHANGED C!counters /\ UNCHANGED C!terms
        BY <2>1 DEF C!counters, C!terms
    <2>3. PageInv'
        BY <2>1 DEF PageInv, PageOK, LedgerOK, BookOK, CountersOK
    <2>4. CASE now' = now
        BY <2>1, <2>2, <2>3, <2>4 DEF C!vars
    <2>5. CASE now < MaxTime /\ now' = now + 1
        <3>1. C!Tick
            BY <2>1, <2>2, <2>5 DEF C!Tick
        <3> QED
            BY <2>3, <3>1 DEF C!Next
    <2> QED
        BY <1>1, <2>4, <2>5
<1>2. CASE host = "page" /\ LocalNext
    <2>1. LocalCall /\ rounded' = (rounded \/ ledger'.totalReserve > MaxSafe)
        BY <1>2 DEF LocalNext
    <2>2. CASE rounded'
        BY <2>2 DEF PageInv
    <2>3. CASE ~rounded'
        <3>1. PageOK(ledger) /\ ~(ledger'.totalReserve > MaxSafe)
            BY <2>1, <2>3 DEF PageInv
        <3>2. Follows
            BY <2>1, <3>1, CallsFollow
        <3>3. PageInv'
            BY <3>2 DEF Follows, PageInv, PageOK, LedgerOK, BookOK, CountersOK
        <3> QED
            BY <3>2, <3>3 DEF Follows
    <2> QED
        BY <2>2, <2>3
<1>3. CASE host = "mcp" /\ McpNext /\ UNCHANGED <<host, pageState>>
    BY <1>1, <1>3, ToolsKeepClock
<1>4. CASE UNCHANGED hostVars
    BY <1>1, <1>4 DEF hostVars
<1> QED
    BY <1>2, <1>3, <1>4 DEF HostNext

\* As long as its reserve has been exact, every call the page's runtime accepts is
\* one the contract accepts, with the same effect, but for a merchant registered
\* again: whatever was rehearsed on the mirror, the ledger would have done.
THEOREM MirrorFollows == HostSpec => MirrorFollowsContract
<1>1. HostInit => PageInv /\ C!Init
    BY PageStarts DEF HostInit
<1>2. PageInv /\ [HostNext]_hostVars => PageInv'
    BY PageStep
<1>3. PageInv /\ [HostNext]_hostVars => [~rounded' => C!Next \/ Reenabled]_(C!vars)
    BY PageStep
<1> QED
    BY <1>1, <1>2, <1>3, PTL DEF HostSpec, MirrorFollowsContract
=============================================================================
