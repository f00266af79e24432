--------------------------- MODULE ProtocolMirror ---------------------------
(***************************************************************************)
(* The TypeScript mirror of the facility (src/lib/line/protocol.ts): every *)
(* circuit of line.compact rewritten as a function that clones a ledger    *)
(* object and returns the changed clone, or a failure and no ledger.       *)
(*                                                                         *)
(* A function is the set of ledgers a call may return: empty when it       *)
(* fails.  A ledger is a record, a hash the record of what it binds, as in *)
(* LineContract; a nonce or a salt is left out.  Amounts are doubles.      *)
(* Events and the action clock, which nothing reads, are left out.         *)
(***************************************************************************)
EXTENDS Totals

CONSTANTS
    Issuer, Agents, Merchants,  \* holders of secret keys
    InitialMerchant,            \* the merchant createLedger registers
    Nobody,                     \* whose secret a random genesis key would open
    Payments, Invoices, Empty,
    Deposits, Prices, Limits, FlatFees, Rates,
    MaxSafe,                    \* Number.MAX_SAFE_INTEGER
    MaxUint64, MaxTime, MaxQuotes, MaxGenerations

ASSUME MirrorNumbers ==
    /\ MaxSafe \in Nat /\ MaxUint64 \in Nat
    /\ MaxSafe <= MaxUint64 /\ MaxUint64 < 2048 * (MaxSafe + 1)

VARIABLE now   \* executionUnixSeconds: the trusted clock of the ledgers

Callers == {Issuer} \cup Agents \cup Merchants
Times == 0..(MaxTime + 1)

accepted(guard, ledger) == IF guard THEN {ledger} ELSE {}

-----------------------------------------------------------------------------
(* Numbers *)

\* assertSafeUint
safe(n) == n \in 0..MaxSafe

\* What lies between two doubles beyond 2^53, up to a sum of two Uint<64>.
Gaps == {2, 4, 8, 16, 32, 64, 128, 256, 512, 1024, 2048, 4096}
gapAt(n) == CHOOSE g \in Gaps : n <= g * (MaxSafe + 1) /\ g * (MaxSafe + 1) < 2 * n

\* The multiple of the gap next to n; a tie goes to the even significand.
nearest(n, gap) ==
    LET q == n \div gap
        tail == 2 * (n % gap)
    IN  IF tail < gap \/ (tail = gap /\ q % 2 = 0) THEN gap * q ELSE gap * (q + 1)

\* A sum or difference as a double: beyond 2^53 only multiples of the gap exist.
double(n) == IF n <= MaxSafe + 1 THEN n ELSE nearest(n, gapAt(n))

-----------------------------------------------------------------------------
(* Ledgers *)

lineStateCommit(identity, limit, outstanding, epoch) ==
    [identity |-> identity, limit |-> limit,
     outstanding |-> outstanding, epoch |-> epoch]
NoBook == lineStateCommit(Empty, 0, 0, 0)   \* lineCommitment: null

createLedger(issuerPubKey) ==
    [issuerPubKey |-> issuerPubKey,
     registeredMerchants |-> [m \in {InitialMerchant} |-> TRUE],
     totalReserve |-> 0, encumberedReserve |-> 0, redeemedReserve |-> 0,
     feeReserve |-> 0, pendingFeeReserve |-> 0, refundReserve |-> 0,
     reportedRefundReserve |-> 0, feeFlat |-> 0, feeBps |-> 0,
     identityCommitment |-> Empty, lineCommitment |-> NoBook, lineExpiry |-> 0,
     status |-> "NONE", lineGeneration |-> 0,
     quotes |-> [Q \in {} |-> Empty], notes |-> [D \in {} |-> Empty],
     nullifiers |-> {}]

isIssuer(L, caller) == caller = L.issuerPubKey

lockedReserve(L) ==
    double(double(double(double(double(L.encumberedReserve + L.redeemedReserve)
        + L.feeReserve) + L.pendingFeeReserve) + L.refundReserve)
        + L.reportedRefundReserve)

\* The books after a change of the outstanding debt.  lineCommitment throws on a
\* number that is not safe; the books that open one hold safe numbers.
mayRotate(books) == safe(books.epoch + 1)
rotated(books, outstanding) ==
    [books EXCEPT !.outstanding = outstanding, !.epoch = @ + 1]

-----------------------------------------------------------------------------
(* Merchants and reserve *)

registerMerchant(L, caller, m) ==
    accepted(/\ isIssuer(L, caller)
             /\ m \in DOMAIN L.registeredMerchants => ~L.registeredMerchants[m],
             [L EXCEPT !.registeredMerchants = Insert(@, m, TRUE)])

disableMerchant(L, caller, m) ==
    accepted(isIssuer(L, caller) /\ m \in DOMAIN L.registeredMerchants,
             [L EXCEPT !.registeredMerchants = Insert(@, m, FALSE)])

fundReserve(L, caller, amount) ==
    LET nextReserve == double(L.totalReserve + amount)
    IN  accepted(/\ isIssuer(L, caller)
                 /\ safe(amount) /\ amount > 0
                 /\ nextReserve <= MaxUint64,
                 [L EXCEPT !.totalReserve = nextReserve])

withdrawUnencumberedReserve(L, caller, amount) ==
    accepted(/\ isIssuer(L, caller)
             /\ safe(amount) /\ amount > 0
             /\ amount <= L.totalReserve - lockedReserve(L),
             [L EXCEPT !.totalReserve = double(@ - amount)])

withdrawFees(L, caller) ==
    accepted(/\ isIssuer(L, caller)
             /\ L.feeReserve > 0
             /\ L.totalReserve >= lockedReserve(L),
             [L EXCEPT !.totalReserve = double(@ - L.feeReserve), !.feeReserve = 0])

-----------------------------------------------------------------------------
(* The line *)

openLine(L, caller, agent, limit, expiry, flat, bps) ==
    accepted(/\ isIssuer(L, caller)
             /\ safe(limit) /\ limit > 0
             /\ safe(expiry) /\ expiry > now
             /\ L.status \in {"NONE", "CLOSED"}
             /\ safe(flat) /\ safe(bps) /\ bps <= 10000,
             [L EXCEPT !.identityCommitment = agent,
                       !.lineCommitment = lineStateCommit(agent, limit, 0, 0),
                       !.lineExpiry = expiry, !.feeFlat = flat, !.feeBps = bps,
                       !.status = "OPEN", !.lineGeneration = @ + 1])

\* Mutant of mayClose: closing does not look at the book.
closesAnyBook(L, books) == TRUE

mayClose(L, books) ==
    /\ books.identity = L.identityCommitment
    /\ books = L.lineCommitment
    /\ books.outstanding = 0

setStatus(L, caller, status, books) ==
    accepted(/\ isIssuer(L, caller)
             /\ L.status \notin {"NONE", "CLOSED"} /\ L.lineCommitment # NoBook
             /\ status # "NONE"
             /\ status = "CLOSED" => mayClose(L, books),
             [L EXCEPT !.status = status])

-----------------------------------------------------------------------------
(* Quotes and draws *)

quoteCommitment(m, invoice, amount, expiry, generation, flat, bps) ==
    [merchant |-> m, invoice |-> invoice, amount |-> amount, expiry |-> expiry,
     lineGeneration |-> generation, feeFlat |-> flat, feeBps |-> bps]

\* The commitment of a quote posted now, and the posting of it.
quoteOf(L, caller, invoice, amount, expiry) ==
    quoteCommitment(caller, invoice, amount, expiry, L.lineGeneration,
                    L.feeFlat, L.feeBps)

postQuote(L, caller, invoice, amount, expiry) ==
    LET Q == quoteOf(L, caller, invoice, amount, expiry)
    IN  accepted(/\ caller \in DOMAIN L.registeredMerchants
                 /\ L.registeredMerchants[caller]
                 /\ L.status = "OPEN"
                 /\ safe(amount) /\ amount > 0
                 /\ safe(expiry) /\ expiry > now
                 /\ Q \notin DOMAIN L.quotes,
                 [L EXCEPT !.quotes = Insert(@, Q,
                    [expiry |-> expiry, lineGeneration |-> L.lineGeneration,
                     used |-> FALSE])])

\* requiredDrawFee: the flat fee and the rate, rounded up.
requiredDrawFee(amount, flat, bps) == flat + (amount * bps + 9999) \div 10000

\* The note of a draw, and its entry on the ledger.
noteOf(L, agent, Q, wq, fee, expiry) ==
    [lineGeneration |-> L.lineGeneration, identity |-> agent, quote |-> Q,
     merchant |-> wq.merchant, amount |-> wq.amount, fee |-> fee, expiry |-> expiry]
noteRecord(D) ==
    [amount |-> D.amount, fee |-> D.fee, redeemed |-> FALSE, cancelled |-> FALSE,
     expiry |-> D.expiry, lineGeneration |-> D.lineGeneration,
     compensationAllocated |-> FALSE, refundCommitment |-> Empty,
     cashRefundOwed |-> FALSE, refundAcknowledged |-> FALSE,
     refundPaymentNullifier |-> Empty]

\* The witnessed preimage, with the ledger's meta and fee policy, opens Q.
reconstructs(L, Q, wq) ==
    Q = quoteCommitment(wq.merchant, wq.invoice, wq.amount, L.quotes[Q].expiry,
                        L.quotes[Q].lineGeneration, L.feeFlat, L.feeBps)

\* The price fits the book's limit and the unlocked reserve, in doubles.
affordable(L, books, cost) ==
    /\ safe(cost) /\ safe(books.outstanding + cost)
    /\ books.outstanding + cost <= books.limit
    /\ L.totalReserve >= lockedReserve(L)
    /\ cost <= L.totalReserve - lockedReserve(L)

draw(L, agent, books, Q, wq, fee, noteExpiry) ==
    LET meta == L.quotes[Q]
        N == [kind |-> "draw", secret |-> agent, quote |-> Q]
        D == noteOf(L, agent, Q, wq, fee, noteExpiry)
    IN  accepted(/\ L.status = "OPEN" /\ L.lineCommitment # NoBook
                 /\ L.lineExpiry > now
                 /\ agent = books.identity /\ agent = L.identityCommitment
                 /\ books = L.lineCommitment
                 /\ Q \in DOMAIN L.quotes
                 /\ ~meta.used /\ meta.expiry > now
                 /\ meta.lineGeneration = L.lineGeneration
                 /\ safe(wq.amount) /\ wq.amount > 0
                 /\ reconstructs(L, Q, wq)
                 /\ wq.merchant \in DOMAIN L.registeredMerchants
                 /\ safe(fee)
                 /\ fee = requiredDrawFee(wq.amount, L.feeFlat, L.feeBps)
                 /\ affordable(L, books, wq.amount + fee) /\ mayRotate(books)
                 /\ noteExpiry = meta.expiry
                 /\ N \notin L.nullifiers
                 /\ D \notin DOMAIN L.notes,
                 [L EXCEPT !.quotes[Q].used = TRUE,
                           !.lineCommitment =
                               rotated(books, books.outstanding + wq.amount + fee),
                           !.nullifiers = @ \cup {N},
                           !.encumberedReserve = double(@ + wq.amount),
                           !.pendingFeeReserve = double(@ + fee),
                           !.notes = Insert(@, D, noteRecord(D))])

\* opening: the note's preimage with the caller's key and the given deadline.
redeemDraw(L, caller, D, opening) ==
    LET live == L.notes[D]
        N == [kind |-> "redeem", secret |-> caller, note |-> D]
    IN  accepted(/\ D \in DOMAIN L.notes
                 /\ ~live.redeemed /\ ~live.cancelled /\ live.expiry > now
                 /\ caller = opening.merchant
                 /\ opening.amount = live.amount
                 /\ D = [opening EXCEPT !.lineGeneration = live.lineGeneration,
                                        !.fee = live.fee]
                 /\ N \notin L.nullifiers,
                 [L EXCEPT !.notes[D].redeemed = TRUE,
                           !.nullifiers = @ \cup {N},
                           !.encumberedReserve = double(@ - live.amount),
                           !.redeemedReserve = double(@ + live.amount),
                           !.pendingFeeReserve = double(@ - live.fee),
                           !.feeReserve = double(@ + live.fee)])

-----------------------------------------------------------------------------
(* cancelOrExpireNote *)

cost(note) == note.amount + note.fee
costIsSafe(note) == safe(note.amount) /\ safe(note.fee) /\ safe(cost(note))

\* The budget of an expired note moves to the refunds, unless it already did.
cancelled(L, D) ==
    IF L.notes[D].cancelled THEN L
    ELSE [L EXCEPT !.notes[D].cancelled = TRUE,
                   !.encumberedReserve = double(@ - L.notes[D].amount),
                   !.pendingFeeReserve = double(@ - L.notes[D].fee),
                   !.refundReserve = double(@ + cost(L.notes[D]))]

\* Action 0, by anyone.
expireNote(L, D) ==
    accepted(/\ D \in DOMAIN L.notes
             /\ ~L.notes[D].redeemed /\ costIsSafe(L.notes[D])
             /\ ~L.notes[D].cancelled /\ L.notes[D].expiry <= now,
             cancelled(L, D))

\* What the book of the note's own generation can take.
credit(L, books, price) == IF books.outstanding < price THEN books.outstanding ELSE price

allocated(L, D, owed) ==
    [L EXCEPT !.notes[D] = [@ EXCEPT !.compensationAllocated = TRUE,
                                     !.refundCommitment = [note |-> D, amount |-> owed],
                                     !.cashRefundOwed = owed > 0,
                                     !.refundAcknowledged = FALSE,
                                     !.refundPaymentNullifier = Empty]]

\* Action 1, by the issuer or the note's owner, who opens the note.
allocateCompensation(L, caller, D, books) ==
    LET live == L.notes[D]
        price == cost(live)
        credited == credit(L, books, price)
        released == IF credited = price THEN price ELSE 0
        current == live.lineGeneration = L.lineGeneration
        base == cancelled(L, D)
    IN  accepted(/\ D \in DOMAIN L.notes
                 /\ ~live.redeemed /\ costIsSafe(live)
                 /\ ~live.compensationAllocated
                 /\ live.cancelled \/ live.expiry <= now
                 /\ isIssuer(L, caller) \/ caller = D.identity
                 /\ current => /\ D.identity = L.identityCommitment
                               /\ books.identity = D.identity
                               /\ books = L.lineCommitment
                               /\ safe(books.outstanding) /\ mayRotate(books)
                 /\ live.lineGeneration <= L.lineGeneration,
                 IF current
                 THEN allocated([base EXCEPT
                        !.lineCommitment = rotated(books, books.outstanding - credited),
                        !.refundReserve = double(@ - released)], D, price - credited)
                 ELSE allocated(base, D, price))

paymentNullifier(payRef) == [kind |-> "payment", ref |-> payRef]

\* Action 2, the issuer's report of a cash refund of `amount`.
acknowledgeRefund(L, caller, D, amount, payRef, receiptExpiry) ==
    LET live == L.notes[D]
        P == paymentNullifier(payRef)
    IN  accepted(/\ D \in DOMAIN L.notes
                 /\ ~live.redeemed /\ costIsSafe(live)
                 /\ isIssuer(L, caller)
                 /\ live.cancelled /\ live.compensationAllocated /\ live.cashRefundOwed
                 /\ ~live.refundAcknowledged
                 /\ safe(receiptExpiry) /\ receiptExpiry > now
                 /\ amount \in 1..cost(live)
                 /\ payRef # Empty
                 /\ live.refundCommitment = [note |-> D, amount |-> amount]
                 /\ P \notin L.nullifiers,
                 [L EXCEPT !.nullifiers = @ \cup {P},
                           !.notes[D].refundAcknowledged = TRUE,
                           !.notes[D].refundPaymentNullifier = P,
                           !.refundReserve = double(@ - cost(live)),
                           !.reportedRefundReserve = double(@ + cost(live))])

-----------------------------------------------------------------------------
(* Repayment *)

\* receipt: the identity and the commitment it was issued for, and its amount.
acknowledgeRepayment(L, caller, books, receipt, payRef, receiptExpiry) ==
    LET P == paymentNullifier(payRef)
        N == [kind |-> "repay", book |-> L.lineCommitment, amount |-> receipt.amount,
              ref |-> payRef]
    IN  accepted(/\ isIssuer(L, caller)
                 /\ L.status \in {"OPEN", "DEFAULTED"} /\ L.lineCommitment # NoBook
                 /\ books = L.lineCommitment
                 /\ receipt.identity = books.identity
                 /\ receipt.identity = L.identityCommitment
                 /\ receipt.currentC = L.lineCommitment
                 /\ safe(receiptExpiry) /\ receiptExpiry > now
                 /\ safe(receipt.amount) /\ receipt.amount > 0
                 /\ receipt.amount <= books.outstanding /\ mayRotate(books)
                 /\ payRef # Empty
                 /\ P \notin L.nullifiers /\ N \notin L.nullifiers,
                 [L EXCEPT !.lineCommitment =
                               rotated(books, books.outstanding - receipt.amount),
                           !.nullifiers = @ \cup {P, N}])
=============================================================================
