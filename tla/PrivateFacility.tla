--------------------------- MODULE PrivateFacility ---------------------------
(***************************************************************************)
(* The private facility, contracts/experimental/                           *)
(* line-private-offer-addressed.compact: many borrowers share one reserve. *)
(* No line is public.  A borrower's book is a leaf of a Merkle tree and is *)
(* spent by a nullifier when a circuit replaces it; the reserve, the notes *)
(* and the quotes are on the ledger as commitments, whose openings a call  *)
(* must bring.  A line is opened in two calls: the agent's request and the *)
(* issuer's acceptance.                                                    *)
(*                                                                         *)
(* As in LineContract a commitment is the record of what it binds.  Salts  *)
(* only keep two commitments to one value apart, which no two of these     *)
(* are: the generation and the epoch name a book, the quote a note.  The   *)
(* epoch of the reserve is left out with them.  An approval signs exactly  *)
(* what the circuit reads and writes, so a call has the signer it needs at *)
(* the moment it executes, whenever it was signed: the caller.             *)
(***************************************************************************)
EXTENDS LineContract

CONSTANTS
    Suppliers,        \* the merchants that may quote
    MaxBooks,         \* bound of the leaves of the tree, whose capacity is 2^20
    Borrowers,        \* the agents that may use the facility
    MaxEnrollments,   \* bound of the number of requests
    MaxReopened       \* bound of the generation of a book

ASSUME BorrowersAreAgents ==
    /\ Borrowers \subseteq Agents /\ Suppliers \subseteq Merchants
    /\ MaxEnrollments \in Nat /\ MaxReopened \in Nat /\ MaxBooks \in Nat

VARIABLES
    reserve,             \* the ReserveBook that reserveCommit commits to
    books,               \* leaves of the tree of books
    spentBooks,          \* spent nullifiers: of books, and of requests without predecessor
    enrollments,         \* Map: request -> accepted
    initialEnrollments,  \* issued <<identity, generation>>
    offers,              \* the Map `quotes`: quote -> used
    claims,              \* the Map `notes`: draw note -> its private NoteMeta
    spent,               \* the Set `nullifiers`
    credited             \* history: what each borrower has repaid

facilityVars == <<reserve, books, spentBooks, enrollments, initialEnrollments,
                  offers, claims, spent, credited>>

NoBook == [identity |-> Empty]

newBook(identity, limit, generation, expiry, flat, bps) ==
    [identity |-> identity, limit |-> limit, outstanding |-> 0, epoch |-> 0,
     generation |-> generation, expiry |-> expiry, flatFee |-> flat,
     basisPoints |-> bps, status |-> "OPEN"]

-----------------------------------------------------------------------------
(* The reserve and the books *)

lockedIn(r) == r.encumberedReserve + r.redeemedReserve + r.feeReserve
                 + r.pendingFeeReserve + r.refundReserve + r.reportedRefundReserve

\* The next reserve book keeps every budget a Uint<64> and is solvent.
rotateReserve(r) ==
    /\ \A f \in DOMAIN r : r[f] \in Uint64
    /\ lockedIn(r) <= r.totalReserve
    /\ reserve' = r

\* The caller opens a leaf of the current tree whose nullifier is unspent.
readBook(b) == b \in books /\ b \notin spentBooks

replaceBook(b, balance, next) ==
    /\ balance \in 0..b.limit
    /\ b.epoch < MaxUint64
    /\ Cardinality(books) < MaxBooks
    /\ spentBooks' = spentBooks \cup {b}
    /\ books' = books \cup {[b EXCEPT !.outstanding = balance,
                                      !.epoch = @ + 1, !.status = next]}

-----------------------------------------------------------------------------
(* Merchants and reserve *)

moveCapital(caller, total, earned) ==
    /\ requireIssuer(caller)
    /\ rotateReserve([reserve EXCEPT !.totalReserve = total, !.feeReserve = earned])
    /\ UNCHANGED <<books, spentBooks, enrollments, initialEnrollments,
                   offers, claims, spent, credited>>

fundPrivately(caller, a) ==
    /\ a > 0
    /\ moveCapital(caller, reserve.totalReserve + a, reserve.feeReserve)

withdrawPrivately(caller, a) ==
    /\ a > 0
    /\ a <= reserve.totalReserve - lockedIn(reserve)
    /\ moveCapital(caller, reserve.totalReserve - a, reserve.feeReserve)

withdrawFeesPrivately(caller) ==
    /\ reserve.feeReserve > 0
    /\ moveCapital(caller, reserve.totalReserve - reserve.feeReserve, 0)

-----------------------------------------------------------------------------
(* Opening a line *)

\* The predecessor of a reopened line is its borrower's closed book.
mayFollow(identity, prior) ==
    prior # NoBook =>
        /\ prior \in books
        /\ prior.identity = identity
        /\ prior.status = "CLOSED"
        /\ prior.outstanding = 0
        /\ prior.generation < MaxReopened

enrollment(identity, prior, limit, expiry, flat, bps) ==
    [book |-> newBook(identity, limit,
                      IF prior = NoBook THEN 1 ELSE prior.generation + 1,
                      expiry, flat, bps),
     predecessor |-> prior]

spendOf(request) == IF request.predecessor = NoBook THEN request ELSE request.predecessor

openable(request) ==
    /\ mayFollow(request.book.identity, request.predecessor)
    /\ request.book.limit > 0
    /\ blockTimeLt(request.book.expiry)
    /\ request.book.basisPoints <= 10000
    /\ spendOf(request) \notin spentBooks

\* Mode 0: the agent's consent to exactly this book.
requestLine(request) ==
    /\ openable(request)
    /\ request \notin DOMAIN enrollments
    /\ Cardinality(DOMAIN enrollments) < MaxEnrollments
    /\ enrollments' = Insert(enrollments, request, FALSE)
    /\ UNCHANGED <<reserve, books, spentBooks, initialEnrollments,
                   offers, claims, spent, credited>>

\* One issue of a generation to a borrower, by the issuer's nullifier key.
issuanceOfRequest(request) == request
issuance(request) == <<request.book.identity, request.book.generation>>

\* Mode 1: the issuer's acceptance.
acceptLine(caller, request) ==
    /\ requireIssuer(caller)
    /\ openable(request)
    /\ ~enrollments[request]
    /\ Cardinality(books) < MaxBooks
    /\ issuance(request) \notin initialEnrollments
    /\ initialEnrollments' = initialEnrollments \cup {issuance(request)}
    /\ spentBooks' = spentBooks \cup {spendOf(request)}
    /\ enrollments' = [enrollments EXCEPT ![request] = TRUE]
    /\ books' = books \cup {request.book}
    /\ UNCHANGED <<reserve, offers, claims, spent, credited>>

changeStatus(caller, b, next) ==
    /\ requireIssuer(caller)
    /\ readBook(b)
    /\ b.status \notin {"NONE", "CLOSED"}
    /\ next # "NONE"
    /\ next = "CLOSED" => b.outstanding = 0
    /\ replaceBook(b, b.outstanding, next)
    /\ UNCHANGED <<reserve, enrollments, initialEnrollments, offers,
                   claims, spent, credited>>

-----------------------------------------------------------------------------
(* Quotes and draws *)

\* A quote binds the facility by a commitment the merchant cannot open.
facilityBinding(identity, generation) == [identity |-> identity, generation |-> generation]

privateQuote(caller, binding, invoice, amount, expiry) ==
    LET Q == [merchant |-> caller, binding |-> binding, invoice |-> invoice,
              amount |-> amount, expiry |-> expiry]
    IN  /\ caller \in DOMAIN registeredMerchants
        /\ registeredMerchants[caller]
        /\ amount > 0
        /\ blockTimeLt(expiry)
        /\ Q \notin DOMAIN offers
        /\ Cardinality(DOMAIN offers) < MaxQuotes
        /\ offers' = Insert(offers, Q, FALSE)
        /\ UNCHANGED <<reserve, books, spentBooks, enrollments,
                       initialEnrollments, claims, spent, credited>>

privateNote(b, Q, fee) ==
    [identity |-> b.identity, lineGeneration |-> b.generation, quote |-> Q,
     merchant |-> Q.merchant, amount |-> Q.amount, fee |-> fee, expiry |-> Q.expiry]

privateMeta(amount, fee, expiry) ==
    [amount |-> amount, fee |-> fee, redeemed |-> FALSE, cancelled |-> FALSE,
     expiry |-> expiry, compensationAllocated |-> FALSE, refundCommitment |-> Empty,
     cashRefundOwed |-> FALSE, refundAcknowledged |-> FALSE]

\* The fee is computed from the private terms of the book.
privateFee(b, amount) == b.flatFee + ceilDiv(amount * b.basisPoints, 10000)

\* The quote's binding opens to the borrower and the generation of the book.
bindsTheBook(b, Q) == Q.binding = facilityBinding(b.identity, b.generation)

drawPrivately(caller, b, Q) ==
    LET fee == privateFee(b, Q.amount)
        price == Q.amount + fee
        N == drawNullifier(b.identity, Q)
        D == privateNote(b, Q, fee)
    IN  /\ readBook(b)
        /\ b.status = "OPEN"
        /\ Q.expiry <= b.expiry
        /\ caller = b.identity
        /\ ~offers[Q]
        /\ blockTimeLt(Q.expiry)
        /\ Q.merchant \in DOMAIN registeredMerchants
        /\ bindsTheBook(b, Q)
        /\ price <= reserve.totalReserve - lockedIn(reserve)
        /\ N \notin spent
        /\ D \notin DOMAIN claims
        /\ offers' = [offers EXCEPT ![Q] = TRUE]
        /\ claims' = Insert(claims, D, privateMeta(Q.amount, fee, Q.expiry))
        /\ spent' = spent \cup {N}
        /\ rotateReserve([reserve EXCEPT !.encumberedReserve = @ + Q.amount,
                                         !.pendingFeeReserve = @ + fee])
        /\ replaceBook(b, b.outstanding + price, b.status)
        /\ UNCHANGED <<enrollments, initialEnrollments, credited>>

redeemPrivately(caller, D) ==
    LET meta == claims[D]
        N == redeemNullifier(caller, D)
    IN  /\ ~meta.redeemed
        /\ ~meta.cancelled
        /\ blockTimeLt(meta.expiry)
        /\ caller = D.merchant
        /\ N \notin spent
        /\ spent' = spent \cup {N}
        /\ claims' = [claims EXCEPT ![D].redeemed = TRUE]
        /\ rotateReserve([reserve EXCEPT
                !.encumberedReserve = @ - meta.amount,
                !.redeemedReserve = @ + meta.amount,
                !.feeReserve = @ + meta.fee,
                !.pendingFeeReserve = @ - meta.fee])
        /\ UNCHANGED <<books, spentBooks, enrollments,
                       initialEnrollments, offers, credited>>

-----------------------------------------------------------------------------
(* Expiry, compensation and repayment *)

\* rotateReserve of cancelOrExpireNote: an expired claim's budgets become a
\* refund; a refund is released by a full credit, or reported and kept locked.
moveRefunds(meta, released, reported, kept) ==
    LET expiring == ~meta.cancelled
    IN  rotateReserve([reserve EXCEPT
            !.encumberedReserve = @ - (IF expiring THEN meta.amount ELSE 0),
            !.pendingFeeReserve = @ - (IF expiring THEN meta.fee ELSE 0),
            !.refundReserve = @ + (IF expiring THEN cost(meta) ELSE 0)
                                - released - reported,
            !.reportedRefundReserve = @ + kept])
refundFrees(meta, released, reported) == moveRefunds(meta, released, reported, 0)
refundMoves(meta, released, reported) == moveRefunds(meta, released, reported, reported)

\* Mode 0, with anybody's approval.
expirePrivately(D) ==
    LET meta == claims[D]
    IN  /\ ~meta.redeemed
        /\ ~meta.cancelled
        /\ noteExpired(meta)
        /\ refundMoves(meta, 0, 0)
        /\ claims' = [claims EXCEPT ![D].cancelled = TRUE]
        /\ UNCHANGED <<books, spentBooks, enrollments,
                       initialEnrollments, offers, spent, credited>>

\* Mode 1, by the issuer or the borrower: the debt of the note's own line is
\* credited, and the rest is owed in cash.
compensatePrivately(caller, D, b) ==
    LET meta == claims[D]
        same == D.lineGeneration = b.generation
        refund == IF same THEN cashRefundAmount(b.outstanding, cost(meta)) ELSE cost(meta)
    IN  /\ ~meta.redeemed
        /\ ~meta.compensationAllocated
        /\ meta.cancelled \/ noteExpired(meta)
        /\ requireIssuer(caller) \/ caller = D.identity
        /\ readBook(b)
        /\ b.identity = D.identity
        /\ D.lineGeneration <= b.generation
        /\ replaceBook(b, IF same THEN debtAfterCredit(b.outstanding, cost(meta))
                                  ELSE b.outstanding, b.status)
        /\ refundMoves(meta, IF refund > 0 THEN 0 ELSE cost(meta), 0)
        /\ claims' = [claims EXCEPT ![D] =
                [@ EXCEPT !.cancelled = TRUE, !.compensationAllocated = TRUE,
                          !.refundCommitment = refundCommit(D, refund),
                          !.cashRefundOwed = refund > 0]]
        /\ UNCHANGED <<enrollments, initialEnrollments, offers, spent,
                       credited>>

\* Mode 2: a zero obligation is acknowledged too, and moves nothing.
reportPrivately(caller, D, amount, payRef, receiptExpiry) ==
    LET meta == claims[D]
        P == paymentNullifier(payRef)
    IN  /\ ~meta.redeemed
        /\ requireIssuer(caller)
        /\ meta.cancelled /\ meta.compensationAllocated /\ ~meta.refundAcknowledged
        /\ blockTimeLt(receiptExpiry)
        /\ IF meta.cashRefundOwed THEN amount \in 1..cost(meta) ELSE amount = 0
        /\ refundCommit(D, amount) = meta.refundCommitment
        /\ payRef # Empty
        /\ P \notin spent
        /\ spent' = spent \cup {P}
        /\ refundMoves(meta, 0, IF meta.cashRefundOwed THEN cost(meta) ELSE 0)
        /\ claims' = [claims EXCEPT ![D].refundAcknowledged = TRUE]
        /\ UNCHANGED <<books, spentBooks, enrollments,
                       initialEnrollments, offers, credited>>

repayPrivately(caller, b, amount, payRef, receiptExpiry) ==
    LET P == paymentNullifier(payRef)
        N == repayNullifier(b, amount, payRef)
    IN  /\ requireIssuer(caller)
        /\ readBook(b)
        /\ b.status \in {"OPEN", "DEFAULTED"}
        /\ amount \in 1..b.outstanding
        /\ blockTimeLt(receiptExpiry)
        /\ payRef # Empty
        /\ {P, N} \cap spent = {}
        /\ spent' = spent \cup {P, N}
        /\ replaceBook(b, b.outstanding - amount, b.status)
        /\ credited' = [credited EXCEPT ![b.identity] = @ + amount]
        /\ UNCHANGED <<reserve, enrollments, initialEnrollments,
                       offers, claims>>

-----------------------------------------------------------------------------

facilityInit ==
    /\ reserve = [totalReserve |-> 0, encumberedReserve |-> 0, redeemedReserve |-> 0,
                  feeReserve |-> 0, pendingFeeReserve |-> 0, refundReserve |-> 0,
                  reportedRefundReserve |-> 0]
    /\ books = {} /\ spentBooks = {}
    /\ enrollments = [r \in {} |-> FALSE]
    /\ initialEnrollments = {}
    /\ offers = [Q \in {} |-> FALSE]
    /\ claims = [D \in {} |-> Empty]
    /\ spent = {}
    /\ credited = [a \in Borrowers |-> 0]

facilityNext ==
    \/ \E caller \in Principals, a \in Deposits :
           fundPrivately(caller, a) \/ withdrawPrivately(caller, a)
    \/ \E caller \in Principals : withdrawFeesPrivately(caller)
    \/ \E agent \in Borrowers, prior \in books \cup {NoBook}, limit \in Limits,
          expiry \in Times, flat \in FlatFees, bps \in Rates :
           requestLine(enrollment(agent, prior, limit, expiry, flat, bps))
    \/ \E caller \in Principals, request \in DOMAIN enrollments : acceptLine(caller, request)
    \/ \E caller \in Principals, b \in books, next \in Status : changeStatus(caller, b, next)
    \/ \E caller \in Suppliers, agent \in Borrowers, g \in 1..MaxReopened,
          invoice \in Invoices, amount \in Prices, expiry \in Times :
           privateQuote(caller, facilityBinding(agent, g), invoice, amount, expiry)
    \/ \E caller \in Principals, b \in books, Q \in DOMAIN offers : drawPrivately(caller, b, Q)
    \/ \E D \in DOMAIN claims :
        \/ \E caller \in Principals : redeemPrivately(caller, D)
        \/ expirePrivately(D)
        \/ \E caller \in Principals, b \in books : compensatePrivately(caller, D, b)
        \/ \E caller \in Principals, amount \in 0..cost(claims[D]),
              payRef \in Payments \cup {Empty}, receiptExpiry \in Times :
               reportPrivately(caller, D, amount, payRef, receiptExpiry)
    \/ \E caller \in Principals, b \in books : \E amount \in 0..b.outstanding,
          payRef \in Payments \cup {Empty}, receiptExpiry \in Times :
           repayPrivately(caller, b, amount, payRef, receiptExpiry)

-----------------------------------------------------------------------------
(* Properties *)

\* The books that can still be spent.
current(agent) == {b \in books \ spentBooks : b.identity = agent}

claimsOfAgent(agent) == {D \in DOMAIN claims : D.identity = agent}
sumOver(S, amount) == TotalOf(S, amount, MaxUint64)
owedBy(agent) ==
    sumOver(claimsOfAgent(agent), [D \in claimsOfAgent(agent) |-> owedFor(claims[D])])
promisedTo(agent) ==
    sumOver(claimsOfAgent(agent), [D \in claimsOfAgent(agent) |-> promisedBy(claims[D])])

\* A borrower has one book to spend from at most, whatever requests, acceptances
\* and reopenings were interleaved; and that book carries its whole debt: with
\* what it repaid, exactly what its own claims cost less what was credited.  So
\* there is no second book to hide a debt in, no borrower pays for another, and
\* no claim is both credited and refunded.
OneBookCarriesTheDebt ==
    \A agent \in Borrowers :
        /\ Cardinality(current(agent)) <= 1
        /\ claimsOfAgent(agent) # {} => current(agent) # {}
        /\ \A b \in current(agent) : b.outstanding + credited[agent] = owedBy(agent)
        /\ promisedTo(agent) <= credited[agent]

privateClaims == [D \in DOMAIN claims |-> [principal |-> claims[D].amount,
                                           fee |-> claims[D].fee,
                                           state |-> claimState(claims[D])]]

PrivateEscrow == INSTANCE ClaimEscrow WITH
    capital <- reserve.totalReserve, earned <- reserve.feeReserve,
    claims <- privateClaims, RefundsInKind <- FALSE

\* Behind its commitments the reserve is the same escrow: every claim of every
\* borrower keeps what it may still need, although a call proves its budgets
\* from openings no other call can see.
ImplementsPrivateEscrow == PrivateEscrow!Spec
=============================================================================
