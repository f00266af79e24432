---------------------------- MODULE LineContract ----------------------------
(***************************************************************************)
(* The canonical credit facility, contracts/line.compact: one public       *)
(* ledger, one action per exported circuit.  A circuit is a transaction:   *)
(* its asserts are the guards, its ledger writes happen together or not at *)
(* all, and the ledger orders transactions, so every action is atomic.     *)
(*                                                                         *)
(* A hash or a commitment is modelled by the record of what it binds (they *)
(* are injective on their inputs), a secret key by the principal who holds *)
(* it, a random nonce or salt is left out.  The private book travels as a  *)
(* witness; a caller may hold the current opening of lineCommit or the one *)
(* it kept from the opening of the line (HeldBooks).                       *)
(*                                                                         *)
(* actionClock is left out: it is incremented by every circuit and never   *)
(* read.                                                                   *)
(***************************************************************************)
EXTENDS Totals

CONSTANTS
    Issuer,          \* holder of the issuer's secret key
    Agents,          \* holders of an agent key, the possible borrowers
    Merchants,       \* holders of a merchant key
    InitialMerchant, \* the merchant the constructor registers
    Payments,        \* external payment references
    Invoices,        \* what tells two otherwise equal quotes apart
    Empty,           \* pad(32, ""): an unset 32-byte field
    Deposits,        \* amounts the issuer funds or withdraws
    Prices,          \* amounts merchants quote
    Limits,          \* credit limits the issuer opens with
    FlatFees, Rates, \* fee policies: a flat fee, and basis points
    MaxUint64,       \* the largest Uint<64>
    MaxTime,         \* bound of the ledger's block time
    MaxQuotes,       \* bound of the number of quotes ever posted
    MaxGenerations   \* bound of the number of openings

ASSUME KeysAreDistinct ==
    /\ Issuer \notin Agents \cup Merchants
    /\ Agents \cap Merchants = {}
    /\ InitialMerchant \in Merchants
    /\ Empty \notin Agents \cup Payments

ASSUME InputsAreUint64 ==
    /\ MaxUint64 \in Nat /\ MaxTime \in Nat
    /\ MaxQuotes \in Nat /\ MaxGenerations \in Nat
    /\ MaxTime < MaxUint64 /\ MaxGenerations <= MaxUint64
    /\ Deposits \cup Prices \cup Limits \cup FlatFees \subseteq 0..MaxUint64
    /\ Rates \subseteq Nat

VARIABLES
    registeredMerchants,  \* Map: merchant key -> may post quotes
    totalReserve, encumberedReserve, redeemedReserve, feeReserve,
    pendingFeeReserve, refundReserve, reportedRefundReserve,
    feeFlat, feeBps,      \* the generation's fee policy
    identityCommit,       \* the borrower of the current generation
    lineCommit,           \* the book: what the commitment to it binds
    lineExpiry, status, lineGeneration,
    quotes,               \* Map: quote commitment -> QuoteMeta
    notes,                \* Map: draw note commitment -> NoteMeta
    nullifiers,           \* Set of spent nullifiers
    blockTime,            \* the ledger's block time
    repaid                \* history: every repayment credited to a book

counters == <<totalReserve, encumberedReserve, redeemedReserve, feeReserve,
              pendingFeeReserve, refundReserve, reportedRefundReserve>>
terms == <<feeFlat, feeBps, identityCommit, lineExpiry, lineGeneration>>
vars == <<registeredMerchants, counters, terms, lineCommit, status, quotes,
          notes, nullifiers, blockTime, repaid>>

-----------------------------------------------------------------------------
(* Values *)

Uint64 == 0..MaxUint64
Times == 0..(MaxTime + 1)
Status == {"NONE", "OPEN", "DEFAULTED", "CLOSED"}
Principals == {Issuer} \cup Agents \cup Merchants

requireIssuer(caller) == caller = Issuer

\* kernel.blockTimeLessThan / blockTimeGreaterThanOrEqual.
blockTimeLt(t) == blockTime < t
blockTimeGte(t) == blockTime >= t

lineStateCommit(identity, limit, outstanding, epoch) ==
    [identity |-> identity, limit |-> limit,
     outstanding |-> outstanding, epoch |-> epoch]

quoteCommit(merchantPk, invoice, amount, expiry, generation, flat, bps) ==
    [merchant |-> merchantPk, invoice |-> invoice, amount |-> amount,
     expiry |-> expiry, lineGeneration |-> generation,
     feeFlat |-> flat, feeBps |-> bps]

drawNoteCommit(generation, identity, Q, merchantPk, amount, fee, expiry) ==
    [lineGeneration |-> generation, identity |-> identity, quote |-> Q,
     merchant |-> merchantPk, amount |-> amount, fee |-> fee, expiry |-> expiry]

\* The note commitment already binds the generation and the owner.
refundCommit(D, amount) == [note |-> D, amount |-> amount]

drawNullifier(agent, Q) == [kind |-> "draw", secret |-> agent, quote |-> Q]
redeemNullifierOfMerchant(merchant, D) == [kind |-> "redeem", secret |-> merchant]
redeemNullifier(merchant, D) == [kind |-> "redeem", secret |-> merchant, note |-> D]
paymentNullifierPerLine(payRef) == [kind |-> "payment", ref |-> <<lineGeneration, payRef>>]
paymentNullifier(payRef) == [kind |-> "payment", ref |-> payRef]
repayNullifier(C, amount, payRef) ==
    [kind |-> "repay", book |-> C, amount |-> amount, ref |-> payRef]

fullCashRefund(outstanding, cost) == IF outstanding >= cost THEN 0 ELSE cost
cashRefundAmount(outstanding, cost) ==
    IF outstanding >= cost THEN 0 ELSE cost - outstanding
debtAfterExactCredit(outstanding, cost) ==
    IF outstanding >= cost THEN outstanding - cost ELSE outstanding
debtAfterCredit(outstanding, cost) ==
    IF outstanding >= cost THEN outstanding - cost ELSE 0

\* The openings of the book a caller may hold: the current one, or the one it
\* kept since openLine.
HeldBooks == {lineCommit, [lineCommit EXCEPT !.outstanding = 0, !.epoch = 0]}

\* The stale check: the witnessed book opens lineCommit for this identity.
anyBook(identity, book) == book \in HeldBooks
opensLineCommit(identity, book) ==
    lineStateCommit(identity, book.limit, book.outstanding, book.epoch) = lineCommit

locked == encumberedReserve + redeemedReserve + feeReserve
            + pendingFeeReserve + refundReserve + reportedRefundReserve

\* The price fits the private limit; an amount fits the unencumbered reserve.
capacityHolds(book, price) == book.outstanding + price <= book.limit

coversIgnoringRefunds(amount) == amount <= totalReserve - (locked - refundReserve)
coversIgnoringRedeemed(amount) == amount <= totalReserve - (locked - redeemedReserve)
reserveCovers(amount) == totalReserve >= locked /\ amount <= totalReserve - locked

CountersOK ==
    /\ totalReserve \in Uint64 /\ encumberedReserve \in Uint64
    /\ redeemedReserve \in Uint64 /\ feeReserve \in Uint64
    /\ pendingFeeReserve \in Uint64 /\ refundReserve \in Uint64
    /\ reportedRefundReserve \in Uint64

\* Every `as Uint<64>` cast and every unsigned subtraction of the call.
castsWrap == TRUE
castsHold == CountersOK'

-----------------------------------------------------------------------------
(* The constructor *)

Init ==
    /\ registeredMerchants = [m \in {InitialMerchant} |-> TRUE]
    /\ totalReserve = 0 /\ encumberedReserve = 0 /\ redeemedReserve = 0
    /\ feeReserve = 0 /\ pendingFeeReserve = 0
    /\ refundReserve = 0 /\ reportedRefundReserve = 0
    /\ feeFlat = 0 /\ feeBps = 0
    /\ identityCommit = Empty
    /\ lineCommit = lineStateCommit(Empty, 0, 0, 0)
    /\ lineExpiry = 0
    /\ status = "NONE"
    /\ lineGeneration = 0
    /\ quotes = [Q \in {} |-> Empty]
    /\ notes = [D \in {} |-> Empty]
    /\ nullifiers = {}
    /\ blockTime \in 0..MaxTime
    /\ repaid = 0

-----------------------------------------------------------------------------
(* Merchants and reserve *)

registerMerchant(caller, m) ==
    /\ requireIssuer(caller)
    /\ m \notin DOMAIN registeredMerchants
    /\ registeredMerchants' = Insert(registeredMerchants, m, TRUE)
    /\ UNCHANGED <<counters, terms, lineCommit, status, quotes, notes,
                   nullifiers, blockTime, repaid>>

disableMerchant(caller, m) ==
    /\ requireIssuer(caller)
    /\ m \in DOMAIN registeredMerchants
    /\ registeredMerchants' = Insert(registeredMerchants, m, FALSE)
    /\ UNCHANGED <<counters, terms, lineCommit, status, quotes, notes,
                   nullifiers, blockTime, repaid>>

fundReserve(caller, amount) ==
    /\ requireIssuer(caller)
    /\ amount > 0
    /\ totalReserve' = totalReserve + amount
    /\ UNCHANGED <<encumberedReserve, redeemedReserve, feeReserve,
                   pendingFeeReserve, refundReserve, reportedRefundReserve>>
    /\ castsHold
    /\ UNCHANGED <<registeredMerchants, terms, lineCommit, status, quotes,
                   notes, nullifiers, blockTime, repaid>>

withdrawUnencumberedReserve(caller, amount) ==
    /\ requireIssuer(caller)
    /\ amount > 0
    /\ reserveCovers(amount)
    /\ totalReserve' = totalReserve - amount
    /\ UNCHANGED <<encumberedReserve, redeemedReserve, feeReserve,
                   pendingFeeReserve, refundReserve, reportedRefundReserve>>
    /\ castsHold
    /\ UNCHANGED <<registeredMerchants, terms, lineCommit, status, quotes,
                   notes, nullifiers, blockTime, repaid>>

withdrawFees(caller) ==
    /\ requireIssuer(caller)
    /\ feeReserve > 0
    /\ totalReserve >= locked
    /\ totalReserve' = totalReserve - feeReserve
    /\ feeReserve' = 0
    /\ UNCHANGED <<encumberedReserve, redeemedReserve, pendingFeeReserve,
                   refundReserve, reportedRefundReserve>>
    /\ castsHold
    /\ UNCHANGED <<registeredMerchants, terms, lineCommit, status, quotes,
                   notes, nullifiers, blockTime, repaid>>

-----------------------------------------------------------------------------
(* The line *)

openLine(caller, agent, limit, expiry, flat, bps) ==
    /\ requireIssuer(caller)
    /\ status \in {"NONE", "CLOSED"}
    /\ limit > 0
    /\ blockTimeLt(expiry)
    /\ bps <= 10000
    /\ lineGeneration < MaxGenerations
    /\ identityCommit' = agent
    /\ lineCommit' = lineStateCommit(agent, limit, 0, 0)
    /\ lineExpiry' = expiry
    /\ feeFlat' = flat
    /\ feeBps' = bps
    /\ status' = "OPEN"
    /\ lineGeneration' = lineGeneration + 1
    /\ UNCHANGED <<registeredMerchants, counters, quotes, notes, nullifiers,
                   blockTime, repaid>>

setStatus(caller, next, book) ==
    /\ requireIssuer(caller)
    /\ status # "NONE"
    /\ next # "NONE"
    /\ status # "CLOSED"
    /\ next = "CLOSED" => /\ opensLineCommit(identityCommit, book)
                          /\ book.outstanding = 0
    /\ next = "OPEN" => status \in {"OPEN", "DEFAULTED"}
    /\ status' = next
    /\ UNCHANGED <<registeredMerchants, counters, terms, lineCommit, quotes,
                   notes, nullifiers, blockTime, repaid>>

\* The private book becomes outstanding = newOutstanding, epoch + 1.
rotateBook(book, newOutstanding) ==
    /\ newOutstanding \in Uint64
    /\ book.epoch + 1 \in Uint64
    /\ lineCommit' = lineStateCommit(identityCommit, book.limit,
                                     newOutstanding, book.epoch + 1)

-----------------------------------------------------------------------------
(* Quotes and draws *)

postQuote(caller, invoice, amount, expiry) ==
    LET Q == quoteCommit(caller, invoice, amount, expiry, lineGeneration,
                         feeFlat, feeBps)
    IN  /\ caller \in DOMAIN registeredMerchants
        /\ registeredMerchants[caller]
        /\ status = "OPEN"
        /\ amount > 0
        /\ blockTimeLt(expiry)
        /\ Q \notin DOMAIN quotes
        /\ Cardinality(DOMAIN quotes) < MaxQuotes
        /\ quotes' = Insert(quotes, Q, [expiry |-> expiry,
                                        lineGeneration |-> lineGeneration,
                                        used |-> FALSE])
        /\ UNCHANGED <<registeredMerchants, counters, terms, lineCommit, status,
                       notes, nullifiers, blockTime, repaid>>

\* fee = feeFlat + ceil(amount * feeBps / 10000), proved without division.
feeRoundedDown(amount, fee) ==
    LET variableFee == fee - feeFlat
        numerator == amount * feeBps
    IN  /\ fee >= feeFlat
        /\ variableFee * 10000 <= numerator
        /\ numerator < (variableFee + 1) * 10000
feePolicyHolds(amount, fee) ==
    LET variableFee == fee - feeFlat
        numerator == amount * feeBps
    IN  /\ fee >= feeFlat
        /\ IF feeBps = 0
           THEN variableFee = 0
           ELSE /\ variableFee > 0
                /\ (variableFee - 1) * 10000 < numerator
                /\ numerator <= variableFee * 10000

\* The witnessed preimage of Q, recomputed under the current fee policy.
quotePreimageHolds(Q) ==
    Q = quoteCommit(Q.merchant, Q.invoice, Q.amount, quotes[Q].expiry,
                    quotes[Q].lineGeneration, feeFlat, feeBps)

freshNote(amount, fee, expiry) ==
    [amount |-> amount, fee |-> fee, redeemed |-> FALSE, cancelled |-> FALSE,
     expiry |-> expiry, lineGeneration |-> lineGeneration,
     compensationAllocated |-> FALSE, refundCommitment |-> Empty,
     cashRefundOwed |-> FALSE, refundAcknowledged |-> FALSE,
     refundPaymentNullifier |-> Empty]

notConsumed(meta) == meta
consumed(meta) == [meta EXCEPT !.used = TRUE]

draw(agent, book, Q, fee) ==
    LET meta == quotes[Q]
        amount == Q.amount
        price == amount + fee
        N == drawNullifier(agent, Q)
        D == drawNoteCommit(lineGeneration, agent, Q, Q.merchant, amount, fee,
                            meta.expiry)
    IN  /\ status = "OPEN"
        /\ blockTimeLt(lineExpiry)
        /\ agent = identityCommit
        /\ opensLineCommit(agent, book)
        /\ ~meta.used
        /\ blockTimeLt(meta.expiry)
        /\ meta.lineGeneration = lineGeneration
        /\ quotePreimageHolds(Q)
        /\ Q.merchant \in DOMAIN registeredMerchants
        /\ amount > 0
        /\ feePolicyHolds(amount, fee)
        /\ capacityHolds(book, price)
        /\ reserveCovers(price)
        /\ N \notin nullifiers
        /\ D \notin DOMAIN notes
        /\ quotes' = Insert(quotes, Q, consumed(meta))
        /\ notes' = Insert(notes, D, freshNote(amount, fee, meta.expiry))
        /\ nullifiers' = nullifiers \cup {N}
        /\ encumberedReserve' = encumberedReserve + amount
        /\ pendingFeeReserve' = pendingFeeReserve + fee
        /\ UNCHANGED <<totalReserve, redeemedReserve, feeReserve, refundReserve,
                       reportedRefundReserve>>
        /\ castsHold
        /\ rotateBook(book, book.outstanding + price)
        /\ UNCHANGED <<registeredMerchants, terms, status, blockTime, repaid>>

\* The note's opening under the caller's merchant key.
opensNoteAsAnyone(D, merchantPk) == merchantPk \in Merchants
opensNoteAs(D, merchantPk) ==
    LET meta == notes[D]
    IN  D = drawNoteCommit(meta.lineGeneration, D.identity, D.quote, merchantPk,
                           meta.amount, meta.fee, D.expiry)

redeemDraw(caller, D) ==
    LET meta == notes[D]
        N == redeemNullifier(caller, D)
    IN  /\ ~meta.redeemed
        /\ ~meta.cancelled
        /\ blockTimeLt(meta.expiry)
        /\ opensNoteAs(D, caller)
        /\ N \notin nullifiers
        /\ nullifiers' = nullifiers \cup {N}
        /\ notes' = [notes EXCEPT ![D].redeemed = TRUE]
        /\ encumberedReserve' = encumberedReserve - meta.amount
        /\ redeemedReserve' = redeemedReserve + meta.amount
        /\ pendingFeeReserve' = pendingFeeReserve - meta.fee
        /\ feeReserve' = feeReserve + meta.fee
        /\ UNCHANGED <<totalReserve, refundReserve, reportedRefundReserve>>
        /\ castsHold
        /\ UNCHANGED <<registeredMerchants, terms, lineCommit, status, quotes,
                       blockTime, repaid>>

-----------------------------------------------------------------------------
(* Expiry and compensation: the three modes of cancelOrExpireNote *)

cost(meta) == meta.amount + meta.fee

expiredOneEarly(meta) == blockTime + 1 >= meta.expiry
noteExpired(meta) == blockTimeGte(meta.expiry)

\* Mode 0, permissionless.
expireNote(D) ==
    LET meta == notes[D]
    IN  /\ ~meta.redeemed
        /\ cost(meta) \in Uint64
        /\ ~meta.cancelled
        /\ noteExpired(meta)
        /\ notes' = [notes EXCEPT ![D].cancelled = TRUE]
        /\ encumberedReserve' = encumberedReserve - meta.amount
        /\ pendingFeeReserve' = pendingFeeReserve - meta.fee
        /\ refundReserve' = refundReserve + cost(meta)
        /\ UNCHANGED <<totalReserve, redeemedReserve, feeReserve,
                       reportedRefundReserve>>
        /\ castsHold
        /\ UNCHANGED <<registeredMerchants, terms, lineCommit, status, quotes,
                       nullifiers, blockTime, repaid>>

\* Mode 1's expiry of a note that mode 0 has not cancelled, releasing what a
\* book credit already covers.
moveToRefundAgain(meta, released) ==
    /\ meta.cancelled \/ noteExpired(meta)
    /\ encumberedReserve' = encumberedReserve - meta.amount
    /\ pendingFeeReserve' = pendingFeeReserve - meta.fee
    /\ refundReserve' = refundReserve + cost(meta) - released
    /\ UNCHANGED <<totalReserve, redeemedReserve, feeReserve, reportedRefundReserve>>
    /\ castsHold
moveToRefund(meta, released) ==
    /\ meta.cancelled \/ noteExpired(meta)
    /\ encumberedReserve' = encumberedReserve
                              - (IF meta.cancelled THEN 0 ELSE meta.amount)
    /\ pendingFeeReserve' = pendingFeeReserve
                              - (IF meta.cancelled THEN 0 ELSE meta.fee)
    /\ refundReserve' = refundReserve + (IF meta.cancelled THEN 0 ELSE cost(meta))
                              - released
    /\ UNCHANGED <<totalReserve, redeemedReserve, feeReserve, reportedRefundReserve>>
    /\ castsHold

allocatedNote(D, refund) ==
    [amount |-> notes[D].amount, fee |-> notes[D].fee,
     redeemed |-> FALSE, cancelled |-> TRUE,
     expiry |-> notes[D].expiry, lineGeneration |-> notes[D].lineGeneration,
     compensationAllocated |-> TRUE, refundCommitment |-> refundCommit(D, refund),
     cashRefundOwed |-> refund > 0, refundAcknowledged |-> FALSE,
     refundPaymentNullifier |-> Empty]

\* Mode 1, by the issuer or the note's owner.
allocateCompensation(caller, D, book) ==
    LET meta == notes[D]
        owner == D.identity
        refund == cashRefundAmount(book.outstanding, cost(meta))
    IN  /\ ~meta.redeemed
        /\ cost(meta) \in Uint64
        /\ ~meta.compensationAllocated
        /\ opensNoteAs(D, D.merchant)
        /\ requireIssuer(caller) \/ caller = owner
        /\ \/ /\ meta.lineGeneration = lineGeneration
              /\ owner = identityCommit
              /\ opensLineCommit(identityCommit, book)
              /\ moveToRefund(meta, IF refund > 0 THEN 0 ELSE cost(meta))
              /\ rotateBook(book, debtAfterCredit(book.outstanding, cost(meta)))
              /\ notes' = [notes EXCEPT ![D] = allocatedNote(D, refund)]
           \/ /\ meta.lineGeneration < lineGeneration
              /\ moveToRefund(meta, 0)
              /\ notes' = [notes EXCEPT ![D] = allocatedNote(D, cost(meta))]
              /\ UNCHANGED lineCommit
        /\ UNCHANGED <<registeredMerchants, terms, status, quotes, nullifiers,
                       blockTime, repaid>>

acknowledgedNote(meta, P) ==
    [amount |-> meta.amount, fee |-> meta.fee, redeemed |-> FALSE, cancelled |-> TRUE,
     expiry |-> meta.expiry, lineGeneration |-> meta.lineGeneration,
     compensationAllocated |-> TRUE, refundCommitment |-> meta.refundCommitment,
     cashRefundOwed |-> TRUE, refundAcknowledged |-> TRUE,
     refundPaymentNullifier |-> P]

\* The guards of mode 2 and its effect on the note and the nullifiers.
reportRefund(caller, D, amount, payRef, receiptExpiry) ==
    LET meta == notes[D]
        P == paymentNullifier(payRef)
    IN  /\ ~meta.redeemed
        /\ cost(meta) \in Uint64
        /\ requireIssuer(caller)
        /\ meta.cancelled /\ meta.compensationAllocated /\ meta.cashRefundOwed
        /\ ~meta.refundAcknowledged
        /\ blockTimeLt(receiptExpiry)
        /\ amount \in 1..cost(meta)
        /\ refundCommit(D, amount) = meta.refundCommitment
        /\ payRef # Empty
        /\ P \notin nullifiers
        /\ nullifiers' = nullifiers \cup {P}
        /\ notes' = [notes EXCEPT ![D] = acknowledgedNote(meta, P)]

\* Mode 2, the issuer's report that it paid the cash refund.
acknowledgeRefund(caller, D, amount, payRef, receiptExpiry) ==
    /\ reportRefund(caller, D, amount, payRef, receiptExpiry)
    /\ refundReserve' = refundReserve - cost(notes[D])
    /\ reportedRefundReserve' = reportedRefundReserve + cost(notes[D])
    /\ UNCHANGED <<totalReserve, encumberedReserve, redeemedReserve, feeReserve,
                   pendingFeeReserve>>
    /\ castsHold
    /\ UNCHANGED <<registeredMerchants, terms, lineCommit, status, quotes,
                   blockTime, repaid>>

-----------------------------------------------------------------------------
(* Repayment *)

\* acknowledgeRepayment, apart from the reserve counters.
creditRepayment(caller, book, amount, payRef, receiptExpiry) ==
    LET P == paymentNullifier(payRef)
        N == repayNullifier(lineCommit, amount, payRef)
    IN  /\ requireIssuer(caller)
        /\ status \in {"OPEN", "DEFAULTED"}
        /\ opensLineCommit(identityCommit, book)
        /\ amount > 0
        /\ amount <= book.outstanding
        /\ blockTimeLt(receiptExpiry)
        /\ payRef # Empty
        /\ P \notin nullifiers
        /\ N \notin nullifiers
        /\ nullifiers' = nullifiers \cup {P, N}
        /\ rotateBook(book, book.outstanding - amount)
        /\ repaid' = repaid + amount

acknowledgeRepayment(caller, book, amount, payRef, receiptExpiry) ==
    /\ creditRepayment(caller, book, amount, payRef, receiptExpiry)
    /\ UNCHANGED <<registeredMerchants, counters, terms, status, quotes, notes,
                   blockTime>>

-----------------------------------------------------------------------------
\* A block is produced: its time is the ledger's, never smaller.
Tick ==
    /\ blockTime < MaxTime
    /\ blockTime' = blockTime + 1
    /\ UNCHANGED <<registeredMerchants, counters, terms, lineCommit, status,
                   quotes, notes, nullifiers, repaid>>

Next ==
    \/ Tick
    \/ \E caller \in Principals :
        \/ \E m \in Merchants : registerMerchant(caller, m) \/ disableMerchant(caller, m)
        \/ \E a \in Deposits :
               fundReserve(caller, a) \/ withdrawUnencumberedReserve(caller, a)
        \/ withdrawFees(caller)
        \/ \E agent \in Agents, limit \in Limits, expiry \in Times,
              flat \in FlatFees, bps \in Rates :
               openLine(caller, agent, limit, expiry, flat, bps)
        \/ \E next \in Status, book \in HeldBooks : setStatus(caller, next, book)
        \/ \E invoice \in Invoices, amount \in Prices, expiry \in Times :
               postQuote(caller, invoice, amount, expiry)
        \/ \E book \in HeldBooks, Q \in DOMAIN quotes, fee \in Uint64 :
               caller \in Agents /\ draw(caller, book, Q, fee)
        \/ \E D \in DOMAIN notes :
            \/ redeemDraw(caller, D)
            \/ expireNote(D)
            \/ \E book \in HeldBooks : allocateCompensation(caller, D, book)
            \/ \E amount \in Uint64, payRef \in Payments \cup {Empty},
                  receiptExpiry \in Times :
                   acknowledgeRefund(caller, D, amount, payRef, receiptExpiry)
        \/ \E book \in HeldBooks, amount \in Uint64,
              payRef \in Payments \cup {Empty}, receiptExpiry \in Times :
               acknowledgeRepayment(caller, book, amount, payRef, receiptExpiry)

Spec == Init /\ [][Next]_vars

-----------------------------------------------------------------------------
(* Properties *)

live(n) == ~n.redeemed /\ ~n.cancelled
\* Cancelled, and its budget not yet released to a book or reported refunded.
awaitingRefund(n) ==
    n.cancelled /\ (n.compensationAllocated => n.cashRefundOwed /\ ~n.refundAcknowledged)

\* What one claim keeps in each budget.
encumberedBy(n) == IF live(n) THEN n.amount ELSE 0
pendingFeeOf(n) == IF live(n) THEN n.fee ELSE 0
redeemedBy(n) == IF n.redeemed THEN n.amount ELSE 0
refundLockOf(n) == IF awaitingRefund(n) THEN cost(n) ELSE 0
reportedLockOf(n) == IF n.refundAcknowledged THEN cost(n) ELSE 0
\* What the borrower still owes or has paid for a claim: its cost or, once
\* compensated, the part the book could not credit.
owedFor(n) == IF n.compensationAllocated THEN n.refundCommitment.amount ELSE cost(n)
promisedBy(n) == IF n.compensationAllocated THEN n.refundCommitment.amount ELSE 0
\* What a claim of the current line that was not compensated may still be owed for.
uncompensatedBy(n) ==
    IF n.lineGeneration = lineGeneration /\ ~n.compensationAllocated THEN cost(n) ELSE 0

\* The sum over all claims, and its uses.
Total(f) == TotalOf(DOMAIN notes, f, MaxUint64)
Encumbered == [D \in DOMAIN notes |-> encumberedBy(notes[D])]
PendingFees == [D \in DOMAIN notes |-> pendingFeeOf(notes[D])]
RedeemedAmounts == [D \in DOMAIN notes |-> redeemedBy(notes[D])]
RefundLocks == [D \in DOMAIN notes |-> refundLockOf(notes[D])]
ReportedLocks == [D \in DOMAIN notes |-> reportedLockOf(notes[D])]
Owed == [D \in DOMAIN notes |-> owedFor(notes[D])]
Promised == [D \in DOMAIN notes |-> promisedBy(notes[D])]
Uncompensated == [D \in DOMAIN notes |-> uncompensatedBy(notes[D])]

Live == {D \in DOMAIN notes : live(notes[D])}
Allocated == {D \in DOMAIN notes : notes[D].compensationAllocated}
Refunded == {D \in DOMAIN notes : notes[D].refundAcknowledged}

QuoteMeta == [expiry: Uint64, lineGeneration: Uint64, used: BOOLEAN]

QuoteCommits == [merchant: Merchants, invoice: Invoices, amount: Uint64,
                 expiry: Uint64, lineGeneration: Uint64, feeFlat: Uint64,
                 feeBps: 0..10000]

NoteCommits == [lineGeneration: Uint64, identity: Agents, quote: QuoteCommits,
                merchant: Merchants, amount: Uint64, fee: Uint64, expiry: Uint64]

NoteMeta == [amount: Uint64, fee: Uint64, redeemed: BOOLEAN, cancelled: BOOLEAN,
             expiry: Uint64, lineGeneration: Uint64,
             compensationAllocated: BOOLEAN,
             refundCommitment: {Empty} \cup [note: NoteCommits, amount: Uint64],
             cashRefundOwed: BOOLEAN, refundAcknowledged: BOOLEAN,
             refundPaymentNullifier: {Empty} \cup [kind: {"payment"}, ref: Payments]]

Books == [identity: Agents \cup {Empty}, limit: Uint64, outstanding: Uint64,
          epoch: Uint64]

MerchantsOK ==
    /\ DOMAIN registeredMerchants \subseteq Merchants
    /\ registeredMerchants \in [DOMAIN registeredMerchants -> BOOLEAN]

LineOK ==
    /\ feeFlat \in Uint64 /\ feeBps \in 0..10000
    /\ identityCommit \in Agents \cup {Empty}
    /\ lineCommit \in Books
    /\ lineExpiry \in Uint64 /\ status \in Status /\ lineGeneration \in Uint64

QuotesOK ==
    /\ DOMAIN quotes \subseteq QuoteCommits
    /\ quotes \in [DOMAIN quotes -> QuoteMeta]

NotesOK ==
    /\ DOMAIN notes \subseteq NoteCommits
    /\ notes \in [DOMAIN notes -> NoteMeta]
    /\ IsFiniteSet(DOMAIN notes)

\* The types the ledger declares for its fields.
TypeOK ==
    /\ MerchantsOK
    /\ CountersOK
    /\ LineOK
    /\ QuotesOK
    /\ NotesOK
    /\ blockTime \in 0..MaxTime
    /\ repaid \in Nat

\* line.compact:20: E + R + F + P + U + X <= T, over every order of funding,
\* withdrawal, draw, redemption, expiry, compensation and refund report.
ReserveSolvent == locked <= totalReserve

\* Each budget is exactly the claims it stands for: live principal and fee,
\* redeemed principal, cancelled claims not yet released, and the reported
\* refunds, which stay locked in full (line.compact:29).
\* So a call about one claim can never consume the budget of another.
ReserveAccounting ==
    /\ encumberedReserve = Total(Encumbered)
    /\ pendingFeeReserve = Total(PendingFees)
    /\ redeemedReserve = Total(RedeemedAmounts)
    /\ refundReserve = Total(RefundLocks)
    /\ reportedRefundReserve = Total(ReportedLocks)

\* The borrower's side, across generations: the debt plus everything repaid is
\* what the claims cost, less what compensation credited to the book.  Closing
\* and reopening deletes no debt, and no claim is credited twice or both
\* credited and refunded in cash.  The cash refunds promised or reported never
\* exceed what the borrowers paid.
BorrowerConservation ==
    /\ lineCommit.outstanding + repaid = Total(Owed)
    /\ Total(Promised) <= repaid

\* A debt is owed for something: it never exceeds the claims of its own line that
\* were not compensated, so crediting a claim never finds a debt that is not its
\* own line's, and repayments never leave a debt behind the claims.  Nor does the
\* book ever hold a debt above its limit.
DebtBackedByClaims ==
    /\ lineCommit.outstanding <= Total(Uncompensated)
    /\ lineCommit.outstanding <= lineCommit.limit

\* No claim is ever stuck: until it expires its merchant can redeem it, and then
\* anyone can expire it, whatever the other claims, the line and the issuer did
\* (no cast overflows, no budget runs short, no nullifier is already spent).
ClaimsNeverStuck ==
    \A D \in Live :
        IF blockTime < notes[D].expiry THEN ENABLED redeemDraw(D.merchant, D)
                                       ELSE ENABLED expireNote(D)

\* One payment reference authorizes one credit for the lifetime of the contract
\* (line.compact:269-272): a repayment or a refund report, in any generation.
paymentEffects(payRef) ==
    {N \in nullifiers : N.kind = "repay" /\ N.ref = payRef}
      \cup {[kind |-> "refund", note |-> D] : D \in
                {D \in Refunded :
                    notes[D].refundPaymentNullifier = [kind |-> "payment", ref |-> payRef]}}

PaymentUsedOnce ==
    \A payRef \in Payments : \A x, y \in paymentEffects(payRef) : x = y

\* A quote is consumed exactly when it became a claim, and becomes one only once.
QuoteDrawnOnce ==
    \A Q \in DOMAIN quotes :
        /\ quotes[Q].used <=> \E D \in DOMAIN notes : D.quote = Q
        /\ \A D1, D2 \in DOMAIN notes : D1.quote = Q /\ D2.quote = Q => D1 = D2

ceilDiv(n, d) == (n + d - 1) \div d

\* The fee of every claim is the one its merchant's quote was made under, even
\* after the line was closed and reopened with another policy.
FeeAsQuoted ==
    \A D \in DOMAIN notes :
        /\ D.quote.lineGeneration = D.lineGeneration
        /\ notes[D].fee =
              D.quote.feeFlat + ceilDiv(D.quote.amount * D.quote.feeBps, 10000)

\* The six locked budgets and the note flags implement an escrow that holds,
\* for every claim, exactly what that claim may still need.
claimState(n) ==
    CASE n.redeemed -> "paid"
      [] live(n) -> "live"
      [] n.cancelled /\ ~n.compensationAllocated -> "expired"
      [] n.compensationAllocated /\ ~n.cashRefundOwed -> "released"
      [] n.cashRefundOwed /\ ~n.refundAcknowledged -> "owed"
      [] n.cashRefundOwed /\ n.refundAcknowledged -> "settled"

claimsOf == [D \in DOMAIN notes |-> [principal |-> notes[D].amount,
                                     fee |-> notes[D].fee,
                                     state |-> claimState(notes[D])]]

Escrow == INSTANCE ClaimEscrow WITH
    capital <- totalReserve, earned <- feeReserve, claims <- claimsOf,
    RefundsInKind <- FALSE

ImplementsEscrow == Escrow!Spec

\* No status change, expiry of the line, disabled merchant or withdrawal takes
\* an unexpired claim from its merchant: it can only end by being redeemed.
ClaimSurvives ==
    [][\A D \in Live :
         blockTime < notes[D].expiry =>
            /\ D \in DOMAIN notes'
            /\ live(notes[D])' \/ notes'[D].redeemed]_vars

\* A line is only closed, and its book only replaced, without debt; the books of
\* two generations never mix.
NoDebtForgiven ==
    [][lineCommit.outstanding > 0 =>
          /\ lineGeneration' = lineGeneration
          /\ lineCommit'.outstanding < lineCommit.outstanding =>
                repaid' > repaid \/ Allocated' # Allocated]_vars
=============================================================================
