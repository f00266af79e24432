------------------------- MODULE LineContractProofs -------------------------
(***************************************************************************)
(* What TLAPS proves about the canonical facility, for every value of the  *)
(* constants: the types of the ledger fields and the solvency of the       *)
(* reserve; the budgets, the debts and the claims behind them; what cannot *)
(* happen twice and what is not taken back; that every claim can be ended; *)
(* and that the facility implements the escrow of ClaimEscrow.             *)
(***************************************************************************)
EXTENDS LineContract, TotalsProofs

-----------------------------------------------------------------------------
(* Types *)

\* The assumptions every numeric step below needs.
LEMMA Bounds ==
    /\ Uint64 = 0..MaxUint64 /\ MaxUint64 \in Nat /\ MaxTime \in Nat
    /\ Times \subseteq Uint64
    /\ Deposits \subseteq Uint64 /\ Prices \subseteq Uint64
    /\ Limits \subseteq Uint64 /\ FlatFees \subseteq Uint64
    /\ Rates \subseteq Nat
BY InputsAreUint64 DEF Uint64, Times

\* The constructor's values have the declared types.
LEMMA InitType == Init => TypeOK
<1> SUFFICES ASSUME Init PROVE TypeOK
    OBVIOUS
<1>1. MerchantsOK
    BY KeysAreDistinct DEF Init, MerchantsOK
<1>2. CountersOK
    BY Bounds DEF Init, CountersOK
<1>3. DOMAIN notes = {} /\ DOMAIN quotes = {}
    BY DEF Init
<1>4. QuotesOK
    BY <1>3 DEF Init, QuotesOK
<1>5. NotesOK
    BY <1>3, FS_EmptySet DEF Init, NotesOK
<1>6. lineCommit \in Books
    BY Bounds DEF Init, lineStateCommit, Books
<1>7. LineOK
    BY <1>6, Bounds DEF Init, LineOK, Status
<1> QED
    BY <1>1, <1>2, <1>4, <1>5, <1>7, Bounds DEF Init, TypeOK

\* What an action leaves alone stays typed.
LEMMA UnchangedTypes ==
    ASSUME TypeOK
    PROVE  /\ UNCHANGED registeredMerchants => MerchantsOK'
           /\ UNCHANGED counters => CountersOK'
           /\ UNCHANGED <<terms, lineCommit, status>> => LineOK'
           /\ UNCHANGED quotes => QuotesOK'
           /\ UNCHANGED notes => NotesOK'
<1>1. UNCHANGED registeredMerchants => MerchantsOK'
    BY DEF TypeOK, MerchantsOK
<1>2. UNCHANGED counters => CountersOK'
    BY DEF TypeOK, CountersOK, counters
<1>3. UNCHANGED <<terms, lineCommit, status>> => LineOK'
    BY DEF TypeOK, LineOK, terms
<1>4. UNCHANGED quotes => QuotesOK'
    BY DEF TypeOK, QuotesOK
<1>5. UNCHANGED notes => NotesOK'
    BY DEF TypeOK, NotesOK
<1> QED
    BY <1>1, <1>2, <1>3, <1>4, <1>5

\* A held book is typed, and so is the book it is rotated into.
LEMMA HeldBookType ==
    ASSUME LineOK, NEW book \in HeldBooks
    PROVE  book \in Books
<1>1. lineCommit \in Books /\ 0 \in Uint64
    BY Bounds DEF LineOK
<1>2. [lineCommit EXCEPT !.outstanding = 0, !.epoch = 0] \in Books
    <2>1. [lineCommit EXCEPT !.outstanding = 0] \in Books
        BY <1>1 DEF Books
    <2> QED
        BY <1>1, <2>1 DEF Books
<1> QED
    BY <1>1, <1>2 DEF HeldBooks

LEMMA RotatedBookType ==
    ASSUME LineOK, NEW book \in HeldBooks, NEW out, rotateBook(book, out)
    PROVE  lineCommit' \in Books
BY HeldBookType, Bounds DEF LineOK, rotateBook, lineStateCommit, Books

\* A rotated book under unchanged terms keeps the line typed.
LEMMA RotatedLineType ==
    ASSUME TypeOK, NEW book \in HeldBooks, NEW out, rotateBook(book, out),
           UNCHANGED terms, UNCHANGED status
    PROVE  LineOK'
<1>1. lineCommit' \in Books
    BY RotatedBookType DEF TypeOK
<1> QED
    BY <1>1 DEF TypeOK, LineOK, terms

\* Every allocation leaves a typed note.
LEMMA AllocatedNoteType ==
    ASSUME TypeOK, NEW D \in DOMAIN notes, NEW refund \in Uint64
    PROVE  allocatedNote(D, refund) \in NoteMeta
<1>1. notes[D] \in NoteMeta /\ D \in NoteCommits
    BY DEF TypeOK, NotesOK
<1> QED
    BY <1>1, Bounds DEF allocatedNote, refundCommit, NoteMeta

\* Overwriting one note keeps the map of notes typed.
LEMMA UpdatedNotesType ==
    ASSUME TypeOK, NEW D \in DOMAIN notes, NEW n \in NoteMeta,
           notes' = [notes EXCEPT ![D] = n]
    PROVE  NotesOK'
BY DEF TypeOK, NotesOK

-----------------------------------------------------------------------------
(* One lemma per action: the types it could disturb. *)

LEMMA MerchantsStep ==
    ASSUME TypeOK, NEW caller \in Principals, NEW m \in Merchants,
           registerMerchant(caller, m) \/ disableMerchant(caller, m)
    PROVE  TypeOK'
<1>1. PICK b \in BOOLEAN : registeredMerchants' = Insert(registeredMerchants, m, b)
    BY DEF registerMerchant, disableMerchant
<1>2. /\ DOMAIN Insert(registeredMerchants, m, b) \subseteq Merchants
      /\ Insert(registeredMerchants, m, b)
           \in [DOMAIN Insert(registeredMerchants, m, b) -> BOOLEAN]
    BY InsertType DEF TypeOK, MerchantsOK
<1>3. MerchantsOK'
    BY <1>1, <1>2 DEF MerchantsOK
<1>4. UNCHANGED <<counters, terms, lineCommit, status, quotes, notes, blockTime, repaid>>
    BY DEF registerMerchant, disableMerchant
<1> QED
    BY <1>3, <1>4, UnchangedTypes DEF TypeOK

LEMMA ReserveStep ==
    ASSUME TypeOK, NEW caller \in Principals, NEW a,
           fundReserve(caller, a) \/ withdrawUnencumberedReserve(caller, a)
              \/ withdrawFees(caller)
    PROVE  TypeOK'
<1>1. CountersOK'
    BY DEF fundReserve, withdrawUnencumberedReserve, withdrawFees, castsHold
<1>2. UNCHANGED <<registeredMerchants, terms, lineCommit, status, quotes, notes,
                  blockTime, repaid>>
    BY DEF fundReserve, withdrawUnencumberedReserve, withdrawFees
<1> QED
    BY <1>1, <1>2, UnchangedTypes DEF TypeOK

LEMMA OpenLineStep ==
    ASSUME TypeOK, NEW caller \in Principals, NEW agent \in Agents, NEW limit \in Limits,
           NEW expiry \in Times, NEW flat \in FlatFees, NEW bps \in Rates,
           openLine(caller, agent, limit, expiry, flat, bps)
    PROVE  TypeOK'
<1>1. lineCommit' \in Books
    BY Bounds DEF openLine, lineStateCommit, Books
<1>2. lineGeneration' \in Uint64
    BY InputsAreUint64, Bounds DEF openLine, TypeOK, LineOK
<1>3. LineOK'
    BY <1>1, <1>2, Bounds DEF openLine, LineOK, Status
<1>4. UNCHANGED <<registeredMerchants, counters, quotes, notes, blockTime, repaid>>
    BY DEF openLine
<1> QED
    BY <1>3, <1>4, UnchangedTypes DEF TypeOK

LEMMA SetStatusStep ==
    ASSUME TypeOK, NEW caller \in Principals, NEW next \in Status, NEW book \in HeldBooks,
           setStatus(caller, next, book)
    PROVE  TypeOK'
<1>1. LineOK'
    BY DEF setStatus, TypeOK, LineOK, terms
<1>2. UNCHANGED <<registeredMerchants, counters, quotes, notes, blockTime, repaid>>
    BY DEF setStatus
<1> QED
    BY <1>1, <1>2, UnchangedTypes DEF TypeOK

LEMMA PostQuoteStep ==
    ASSUME TypeOK, NEW caller \in Principals, NEW invoice \in Invoices,
           NEW amount \in Prices, NEW expiry \in Times,
           postQuote(caller, invoice, amount, expiry)
    PROVE  TypeOK'
<1> DEFINE Q == quoteCommit(caller, invoice, amount, expiry, lineGeneration,
                            feeFlat, feeBps)
           meta == [expiry |-> expiry, lineGeneration |-> lineGeneration,
                    used |-> FALSE]
<1>1. caller \in Merchants
    BY DEF postQuote, TypeOK, MerchantsOK
<1>2. Q \in QuoteCommits
    BY <1>1, Bounds DEF TypeOK, LineOK, quoteCommit, QuoteCommits
<1>3. meta \in QuoteMeta
    BY Bounds DEF TypeOK, LineOK, QuoteMeta
<1>4. quotes' = Insert(quotes, Q, meta)
    BY DEF postQuote
<1> HIDE DEF Q, meta
<1>5. QuotesOK'
    BY <1>2, <1>3, <1>4, InsertType DEF TypeOK, QuotesOK
<1>6. UNCHANGED <<registeredMerchants, counters, terms, lineCommit, status, notes,
                  blockTime, repaid>>
    BY DEF postQuote
<1> QED
    BY <1>5, <1>6, UnchangedTypes DEF TypeOK

LEMMA DrawStep ==
    ASSUME TypeOK, NEW agent \in Agents, NEW book \in HeldBooks, NEW Q \in DOMAIN quotes,
           NEW fee \in Uint64, draw(agent, book, Q, fee)
    PROVE  TypeOK'
<1> DEFINE D == drawNoteCommit(lineGeneration, agent, Q, Q.merchant, Q.amount,
                               fee, quotes[Q].expiry)
           note == freshNote(Q.amount, fee, quotes[Q].expiry)
<1>1. Q \in QuoteCommits /\ quotes[Q] \in QuoteMeta
    BY DEF TypeOK, QuotesOK
<1>2. D \in NoteCommits
    BY <1>1 DEF TypeOK, LineOK, drawNoteCommit, NoteCommits, QuoteCommits, QuoteMeta
<1>3. note \in NoteMeta
    BY <1>1 DEF TypeOK, LineOK, freshNote, NoteMeta, QuoteCommits, QuoteMeta
<1>4. consumed(quotes[Q]) \in QuoteMeta
    BY <1>1 DEF consumed, QuoteMeta
<1>5. /\ quotes' = Insert(quotes, Q, consumed(quotes[Q]))
      /\ notes' = Insert(notes, D, note)
      /\ rotateBook(book, book.outstanding + (Q.amount + fee))
      /\ castsHold
      /\ UNCHANGED <<registeredMerchants, terms, status, blockTime, repaid>>
    BY DEF draw
<1> HIDE DEF D, note
<1>6. QuotesOK'
    BY <1>1, <1>4, <1>5, InsertType DEF TypeOK, QuotesOK
<1>7. /\ DOMAIN notes' = DOMAIN notes \cup {D}
      /\ DOMAIN notes' \subseteq NoteCommits
      /\ notes' \in [DOMAIN notes' -> NoteMeta]
    BY <1>2, <1>3, <1>5, InsertType, ZenonT(40) DEF TypeOK, NotesOK
<1>8. NotesOK'
    BY <1>7, FS_AddElement DEF TypeOK, NotesOK
<1>9. LineOK'
    BY <1>5, RotatedLineType
<1> QED
    BY <1>5, <1>6, <1>8, <1>9, UnchangedTypes DEF TypeOK, castsHold

LEMMA NoteFlagStep ==
    ASSUME TypeOK, NEW caller \in Principals, NEW D \in DOMAIN notes,
           redeemDraw(caller, D) \/ expireNote(D)
    PROVE  TypeOK'
<1>1. notes[D] \in NoteMeta
    BY DEF TypeOK, NotesOK
<1>2. /\ [notes[D] EXCEPT !.redeemed = TRUE] \in NoteMeta
      /\ [notes[D] EXCEPT !.cancelled = TRUE] \in NoteMeta
    BY <1>1 DEF NoteMeta
<1>3. \/ notes' = [notes EXCEPT ![D] = [notes[D] EXCEPT !.redeemed = TRUE]]
      \/ notes' = [notes EXCEPT ![D] = [notes[D] EXCEPT !.cancelled = TRUE]]
    BY <1>1 DEF redeemDraw, expireNote
<1>4. NotesOK'
    BY <1>2, <1>3, UpdatedNotesType
<1>5. castsHold /\ UNCHANGED <<registeredMerchants, terms, lineCommit, status, quotes,
                              blockTime, repaid>>
    BY DEF redeemDraw, expireNote
<1> QED
    BY <1>4, <1>5, UnchangedTypes DEF TypeOK, castsHold

LEMMA AllocateStep ==
    ASSUME TypeOK, NEW caller \in Principals, NEW D \in DOMAIN notes,
           NEW book \in HeldBooks, allocateCompensation(caller, D, book)
    PROVE  TypeOK'
<1>1. UNCHANGED <<registeredMerchants, terms, status, quotes, blockTime, repaid>>
    BY DEF allocateCompensation
<1>2. castsHold
    BY DEF allocateCompensation, moveToRefund
<1>3. book \in Books /\ notes[D] \in NoteMeta /\ cost(notes[D]) \in Uint64
    BY HeldBookType DEF allocateCompensation, TypeOK, NotesOK
<1>4. cashRefundAmount(book.outstanding, cost(notes[D])) \in Uint64
    BY <1>3, Bounds DEF cashRefundAmount, Books
<1>5. PICK refund \in Uint64 : notes' = [notes EXCEPT ![D] = allocatedNote(D, refund)]
    BY <1>3, <1>4 DEF allocateCompensation
<1>6. NotesOK'
    BY <1>5, AllocatedNoteType, UpdatedNotesType
<1>7. LineOK'
    <2>1. CASE UNCHANGED lineCommit
        BY <1>1, <2>1, UnchangedTypes
    <2>2. CASE \E out : rotateBook(book, out)
        BY <1>1, <2>2, RotatedLineType
    <2> QED
        BY <2>1, <2>2 DEF allocateCompensation
<1> QED
    BY <1>1, <1>2, <1>6, <1>7, UnchangedTypes DEF TypeOK, castsHold

LEMMA RefundStep ==
    ASSUME TypeOK, NEW caller \in Principals, NEW D \in DOMAIN notes, NEW amount \in Uint64,
           NEW payRef \in Payments \cup {Empty}, NEW receiptExpiry \in Times,
           acknowledgeRefund(caller, D, amount, payRef, receiptExpiry)
    PROVE  TypeOK'
<1> DEFINE n == acknowledgedNote(notes[D], paymentNullifier(payRef))
<1>1. notes[D] \in NoteMeta
    BY DEF TypeOK, NotesOK
<1>2. payRef \in Payments
    BY DEF acknowledgeRefund, reportRefund
<1>3. n \in NoteMeta
    BY <1>1, <1>2 DEF NoteMeta, paymentNullifier, acknowledgedNote
<1>4. notes' = [notes EXCEPT ![D] = n]
    BY DEF acknowledgeRefund, reportRefund
<1> HIDE DEF n
<1>5. NotesOK'
    BY <1>3, <1>4, UpdatedNotesType
<1>6. castsHold /\ UNCHANGED <<registeredMerchants, terms, lineCommit, status, quotes,
                              blockTime, repaid>>
    BY DEF acknowledgeRefund
<1> QED
    BY <1>5, <1>6, UnchangedTypes DEF TypeOK, castsHold

LEMMA RepaymentStep ==
    ASSUME TypeOK, NEW caller \in Principals, NEW book \in HeldBooks, NEW amount \in Uint64,
           NEW payRef \in Payments \cup {Empty}, NEW receiptExpiry \in Times,
           acknowledgeRepayment(caller, book, amount, payRef, receiptExpiry)
    PROVE  TypeOK'
<1>1. rotateBook(book, book.outstanding - amount) /\ repaid' = repaid + amount
    BY DEF acknowledgeRepayment, creditRepayment
<1>2. UNCHANGED <<registeredMerchants, counters, terms, status, quotes, notes, blockTime>>
    BY DEF acknowledgeRepayment
<1>3. LineOK'
    BY <1>1, <1>2, RotatedLineType
<1>4. repaid' \in Nat
    BY <1>1, Bounds DEF TypeOK
<1> QED
    BY <1>2, <1>3, <1>4, UnchangedTypes DEF TypeOK

LEMMA TickStep ==
    ASSUME TypeOK, Tick \/ UNCHANGED vars
    PROVE  TypeOK'
<1>1. UNCHANGED <<registeredMerchants, counters, terms, lineCommit, status, quotes,
                  notes, repaid>>
    BY DEF Tick, vars
<1>2. blockTime' \in 0..MaxTime
    BY Bounds DEF Tick, vars, TypeOK
<1> QED
    BY <1>1, <1>2, UnchangedTypes DEF TypeOK

\* Every step keeps the types.
LEMMA StepType == TypeOK /\ [Next]_vars => TypeOK'
<1> SUFFICES ASSUME TypeOK, [Next]_vars PROVE TypeOK'
    OBVIOUS
<1> QED
    BY MerchantsStep, ReserveStep, OpenLineStep, SetStatusStep, PostQuoteStep, DrawStep,
       NoteFlagStep, AllocateStep, RefundStep, RepaymentStep, TickStep DEF Next

\* Every field of the ledger keeps its declared type.
THEOREM TypeCorrect == Spec => []TypeOK
BY InitType, StepType, PTL DEF Spec

-----------------------------------------------------------------------------
(* Solvency of the reserve *)

\* The amounts of a claim are natural numbers.
LEMMA NoteAmounts ==
    ASSUME TypeOK, NEW D \in DOMAIN notes
    PROVE  /\ notes[D] \in NoteMeta
           /\ notes[D].amount \in Nat /\ notes[D].fee \in Nat
           /\ cost(notes[D]) = notes[D].amount + notes[D].fee
BY Bounds DEF TypeOK, NotesOK, NoteMeta, cost

\* The counters are natural numbers, before and after a typed step.
LEMMA CounterNats ==
    CountersOK => /\ totalReserve \in Nat /\ encumberedReserve \in Nat
                  /\ redeemedReserve \in Nat /\ feeReserve \in Nat
                  /\ pendingFeeReserve \in Nat /\ refundReserve \in Nat
                  /\ reportedRefundReserve \in Nat
BY Bounds DEF CountersOK

\* The calls that move a counter or a claim; the others leave both alone.
LEMMA StepCases ==
    ASSUME [Next]_vars
    PROVE  \/ UNCHANGED <<counters, notes>>
           \/ \E caller \in Principals, a \in Deposits :
                 fundReserve(caller, a) \/ withdrawUnencumberedReserve(caller, a)
           \/ \E caller \in Principals : withdrawFees(caller)
           \/ \E agent \in Agents, book \in HeldBooks, Q \in DOMAIN quotes,
                 fee \in Uint64 : draw(agent, book, Q, fee)
           \/ \E D \in DOMAIN notes :
                \/ \E caller \in Principals : redeemDraw(caller, D)
                \/ expireNote(D)
                \/ \E caller \in Principals, book \in HeldBooks :
                      allocateCompensation(caller, D, book)
                \/ \E caller \in Principals, amount \in Uint64,
                      payRef \in Payments \cup {Empty}, receiptExpiry \in Times :
                      acknowledgeRefund(caller, D, amount, payRef, receiptExpiry)
<1> DEFINE Idle == UNCHANGED <<counters, notes>>
<1>1. UNCHANGED vars \/ Tick => Idle
    BY DEF vars, Tick
<1>2. ASSUME NEW caller, NEW m, registerMerchant(caller, m) \/ disableMerchant(caller, m)
      PROVE  Idle
    BY <1>2 DEF registerMerchant, disableMerchant
<1>3. ASSUME NEW caller, NEW agent, NEW limit, NEW expiry, NEW flat, NEW bps,
             openLine(caller, agent, limit, expiry, flat, bps)
      PROVE  Idle
    BY <1>3 DEF openLine
<1>4. ASSUME NEW caller, NEW next, NEW book, setStatus(caller, next, book)
      PROVE  Idle
    BY <1>4 DEF setStatus
<1>5. ASSUME NEW caller, NEW invoice, NEW amount, NEW expiry,
             postQuote(caller, invoice, amount, expiry)
      PROVE  Idle
    BY <1>5 DEF postQuote
<1>6. ASSUME NEW caller, NEW book, NEW amount, NEW payRef, NEW receiptExpiry,
             acknowledgeRepayment(caller, book, amount, payRef, receiptExpiry)
      PROVE  Idle
    BY <1>6 DEF acknowledgeRepayment
<1> HIDE DEF Idle
<1>7. CASE Next
    BY <1>1, <1>2, <1>3, <1>4, <1>5, <1>6, <1>7 DEF Next, Idle
<1> QED
    BY <1>1, <1>7 DEF Idle

\* No step locks more than the reserve covers.
LEMMA SolventStep ==
    ASSUME TypeOK, TypeOK', ReserveSolvent, [Next]_vars
    PROVE  ReserveSolvent'
<1> USE DEF ReserveSolvent, locked
<1>0. CountersOK /\ CountersOK'
    BY DEF TypeOK
<1>1. CASE UNCHANGED counters
    BY <1>1 DEF counters
<1>2. ASSUME NEW caller \in Principals, NEW a \in Deposits,
             fundReserve(caller, a) \/ withdrawUnencumberedReserve(caller, a)
      PROVE  ReserveSolvent'
    <2>1. a \in Nat
        BY Bounds
    <2> QED
        BY <1>0, <1>2, <2>1, CounterNats
           DEF fundReserve, withdrawUnencumberedReserve, reserveCovers
<1>3. ASSUME NEW caller \in Principals, withdrawFees(caller)
      PROVE  ReserveSolvent'
    BY <1>0, <1>3, CounterNats DEF withdrawFees
<1>4. ASSUME NEW agent \in Agents, NEW book \in HeldBooks, NEW Q \in DOMAIN quotes,
             NEW fee \in Uint64, draw(agent, book, Q, fee)
      PROVE  ReserveSolvent'
    <2>1. Q.amount \in Nat /\ fee \in Nat
        BY Bounds DEF TypeOK, QuotesOK, QuoteCommits
    <2> QED
        BY <1>0, <1>4, <2>1, CounterNats DEF draw, reserveCovers
<1>5. ASSUME NEW caller \in Principals, NEW D \in DOMAIN notes, redeemDraw(caller, D)
      PROVE  ReserveSolvent'
    BY <1>0, <1>5, CounterNats, NoteAmounts DEF redeemDraw
<1>6. ASSUME NEW D \in DOMAIN notes, expireNote(D)
      PROVE  ReserveSolvent'
    BY <1>0, <1>6, CounterNats, NoteAmounts DEF expireNote
<1>7. ASSUME NEW caller \in Principals, NEW D \in DOMAIN notes, NEW book \in HeldBooks,
             allocateCompensation(caller, D, book)
      PROVE  ReserveSolvent'
    <2>1. PICK released \in {0, cost(notes[D])} : moveToRefund(notes[D], released)
        BY <1>7 DEF allocateCompensation
    <2>2. CASE notes[D].cancelled
        BY <1>0, <2>1, <2>2, CounterNats, NoteAmounts DEF moveToRefund
    <2>3. CASE ~notes[D].cancelled
        BY <1>0, <2>1, <2>3, CounterNats, NoteAmounts DEF moveToRefund
    <2> QED
        BY <2>2, <2>3
<1>8. ASSUME NEW caller \in Principals, NEW D \in DOMAIN notes, NEW amount \in Uint64,
             NEW payRef \in Payments \cup {Empty}, NEW receiptExpiry \in Times,
             acknowledgeRefund(caller, D, amount, payRef, receiptExpiry)
      PROVE  ReserveSolvent'
    BY <1>0, <1>8, CounterNats, NoteAmounts DEF acknowledgeRefund
<1> HIDE DEF ReserveSolvent, locked
<1> QED
    BY <1>1, <1>2, <1>3, <1>4, <1>5, <1>6, <1>7, <1>8, StepCases

\* line.compact:20, E + R + F + P + U + X <= T in every reachable state.
THEOREM Solvency == Spec => []ReserveSolvent
<1>1. Init => ReserveSolvent
    BY DEF Init, ReserveSolvent, locked
<1>2. TypeOK /\ TypeOK' /\ ReserveSolvent /\ [Next]_vars => ReserveSolvent'
    BY SolventStep
<1> QED
    BY <1>1, <1>2, TypeCorrect, PTL DEF Spec

-----------------------------------------------------------------------------
(***************************************************************************)
(* What TLAPS proves about the budgets, the debts and the claims of the    *)
(* canonical facility, for every value of the constants.                   *)
(***************************************************************************)

\* What holds of one claim, whatever happened to the others: its cost is a
\* Uint<64>, it is not both redeemed and cancelled, and its refund is a part of
\* its cost, owed exactly when it is not zero.
ClaimOK(n) ==
    /\ cost(n) \in Uint64
    /\ n.redeemed => ~n.cancelled
    /\ n.compensationAllocated =>
          /\ n.cancelled
          /\ n.refundCommitment \in [note : NoteCommits, amount : Uint64]
          /\ n.refundCommitment.amount <= cost(n)
          /\ n.cashRefundOwed <=> n.refundCommitment.amount > 0
    /\ n.cashRefundOwed => n.compensationAllocated
    /\ n.refundAcknowledged => n.cashRefundOwed

ClaimsOK == \A D \in DOMAIN notes : ClaimOK(notes[D])

\* What a claim contributes to each sum is a Uint<64>.
LEMMA Shares ==
    ASSUME NEW n \in NoteMeta, ClaimOK(n)
    PROVE  /\ encumberedBy(n) \in Uint64 /\ pendingFeeOf(n) \in Uint64
           /\ redeemedBy(n) \in Uint64 /\ refundLockOf(n) \in Uint64
           /\ reportedLockOf(n) \in Uint64
           /\ owedFor(n) \in Uint64 /\ promisedBy(n) \in Uint64
<1>1. n.amount \in Uint64 /\ n.fee \in Uint64 /\ 0 \in Uint64
    BY Bounds DEF NoteMeta
<1>2. n.compensationAllocated => n.refundCommitment.amount \in Uint64
    BY DEF ClaimOK
<1> QED
    BY <1>1, <1>2 DEF ClaimOK, encumberedBy, pendingFeeOf, redeemedBy, refundLockOf,
                      reportedLockOf, owedFor, promisedBy

\* A claim of the current line that was not compensated counts in full.
LEMMA UncompensatedShare ==
    ASSUME NEW n \in NoteMeta, ClaimOK(n)
    PROVE  uncompensatedBy(n) \in Uint64
BY Bounds DEF ClaimOK, uncompensatedBy

-----------------------------------------------------------------------------
(* The sums after a claim is added or moved *)

\* A new claim adds its share to every budget.
LEMMA BudgetsAdded ==
    ASSUME TypeOK, NEW D, D \notin DOMAIN notes, NEW n \in NoteMeta, ClaimOK(n),
           notes' = Insert(notes, D, n)
    PROVE  /\ Total(Encumbered)' = Total(Encumbered) + encumberedBy(n)
           /\ Total(PendingFees)' = Total(PendingFees) + pendingFeeOf(n)
           /\ Total(RedeemedAmounts)' = Total(RedeemedAmounts) + redeemedBy(n)
           /\ Total(RefundLocks)' = Total(RefundLocks) + refundLockOf(n)
           /\ Total(ReportedLocks)' = Total(ReportedLocks) + reportedLockOf(n)
<1> DEFINE S == DOMAIN notes
<1>1. IsFiniteSet(S) /\ MaxUint64 \in Nat
    BY Bounds DEF TypeOK, NotesOK
<1>2. /\ DOMAIN notes' = S \cup {D} /\ notes'[D] = n
      /\ \A x \in S : notes'[x] = notes[x]
    BY DEF Insert
<1>3. Total(Encumbered)' = Total(Encumbered) + encumberedBy(n)
    BY <1>1, <1>2, Shares, TotalInserted DEF Total, Encumbered, Uint64
<1>4. Total(PendingFees)' = Total(PendingFees) + pendingFeeOf(n)
    BY <1>1, <1>2, Shares, TotalInserted DEF Total, PendingFees, Uint64
<1>5. Total(RedeemedAmounts)' = Total(RedeemedAmounts) + redeemedBy(n)
    BY <1>1, <1>2, Shares, TotalInserted DEF Total, RedeemedAmounts, Uint64
<1>6. Total(RefundLocks)' = Total(RefundLocks) + refundLockOf(n)
    BY <1>1, <1>2, Shares, TotalInserted DEF Total, RefundLocks, Uint64
<1>7. Total(ReportedLocks)' = Total(ReportedLocks) + reportedLockOf(n)
    BY <1>1, <1>2, Shares, TotalInserted DEF Total, ReportedLocks, Uint64
<1> QED
    BY <1>3, <1>4, <1>5, <1>6, <1>7

\* A claim that changes moves every budget by the difference.
LEMMA BudgetsMoved ==
    ASSUME TypeOK, ClaimsOK, NEW D \in DOMAIN notes, NEW n \in NoteMeta, ClaimOK(n),
           notes' = [notes EXCEPT ![D] = n]
    PROVE  /\ Total(Encumbered)' = Total(Encumbered) - encumberedBy(notes[D]) + encumberedBy(n)
           /\ Total(PendingFees)' = Total(PendingFees) - pendingFeeOf(notes[D]) + pendingFeeOf(n)
           /\ Total(RedeemedAmounts)' = Total(RedeemedAmounts) - redeemedBy(notes[D]) + redeemedBy(n)
           /\ Total(RefundLocks)' = Total(RefundLocks) - refundLockOf(notes[D]) + refundLockOf(n)
           /\ Total(ReportedLocks)' = Total(ReportedLocks) - reportedLockOf(notes[D]) + reportedLockOf(n)
<1> DEFINE S == DOMAIN notes
<1>1. IsFiniteSet(S) /\ MaxUint64 \in Nat /\ notes[D] \in NoteMeta /\ ClaimOK(notes[D])
    BY Bounds DEF TypeOK, NotesOK, ClaimsOK
<1>2. /\ DOMAIN notes' = S /\ notes'[D] = n
      /\ \A x \in S \ {D} : notes'[x] = notes[x]
    BY DEF TypeOK, NotesOK
<1>3. Total(Encumbered)' = Total(Encumbered) - encumberedBy(notes[D]) + encumberedBy(n)
    BY <1>1, <1>2, Shares, TotalUpdate DEF Total, Encumbered, Uint64
<1>4. Total(PendingFees)' = Total(PendingFees) - pendingFeeOf(notes[D]) + pendingFeeOf(n)
    BY <1>1, <1>2, Shares, TotalUpdate DEF Total, PendingFees, Uint64
<1>5. Total(RedeemedAmounts)' = Total(RedeemedAmounts) - redeemedBy(notes[D]) + redeemedBy(n)
    BY <1>1, <1>2, Shares, TotalUpdate DEF Total, RedeemedAmounts, Uint64
<1>6. Total(RefundLocks)' = Total(RefundLocks) - refundLockOf(notes[D]) + refundLockOf(n)
    BY <1>1, <1>2, Shares, TotalUpdate DEF Total, RefundLocks, Uint64
<1>7. Total(ReportedLocks)' = Total(ReportedLocks) - reportedLockOf(notes[D]) + reportedLockOf(n)
    BY <1>1, <1>2, Shares, TotalUpdate DEF Total, ReportedLocks, Uint64
<1> QED
    BY <1>3, <1>4, <1>5, <1>6, <1>7

\* The same for the sums of the debts.
LEMMA DebtsAdded ==
    ASSUME TypeOK, NEW D, D \notin DOMAIN notes, NEW n \in NoteMeta, ClaimOK(n),
           notes' = Insert(notes, D, n), UNCHANGED lineGeneration
    PROVE  /\ Total(Owed)' = Total(Owed) + owedFor(n)
           /\ Total(Promised)' = Total(Promised) + promisedBy(n)
           /\ Total(Uncompensated)' = Total(Uncompensated) + uncompensatedBy(n)
<1> DEFINE S == DOMAIN notes
<1>1. IsFiniteSet(S) /\ MaxUint64 \in Nat
    BY Bounds DEF TypeOK, NotesOK
<1>2. /\ DOMAIN notes' = S \cup {D} /\ notes'[D] = n
      /\ \A x \in S : notes'[x] = notes[x]
    BY DEF Insert
<1>3. Total(Owed)' = Total(Owed) + owedFor(n)
    BY <1>1, <1>2, Shares, TotalInserted DEF Total, Owed, Uint64
<1>4. Total(Promised)' = Total(Promised) + promisedBy(n)
    BY <1>1, <1>2, Shares, TotalInserted DEF Total, Promised, Uint64
<1>5. Total(Uncompensated)' = Total(Uncompensated) + uncompensatedBy(n)
    BY <1>1, <1>2, UncompensatedShare, TotalInserted DEF Total, Uncompensated, Uint64, uncompensatedBy
<1> QED
    BY <1>3, <1>4, <1>5

\* The same for the sums of the debts, as long as no line is opened.
LEMMA DebtsMoved ==
    ASSUME TypeOK, ClaimsOK, NEW D \in DOMAIN notes, NEW n \in NoteMeta, ClaimOK(n),
           notes' = [notes EXCEPT ![D] = n], UNCHANGED lineGeneration
    PROVE  /\ Total(Owed)' = Total(Owed) - owedFor(notes[D]) + owedFor(n)
           /\ Total(Promised)' = Total(Promised) - promisedBy(notes[D]) + promisedBy(n)
           /\ Total(Uncompensated)'
                = Total(Uncompensated) - uncompensatedBy(notes[D]) + uncompensatedBy(n)
<1> DEFINE S == DOMAIN notes
<1>1. IsFiniteSet(S) /\ MaxUint64 \in Nat /\ notes[D] \in NoteMeta /\ ClaimOK(notes[D])
    BY Bounds DEF TypeOK, NotesOK, ClaimsOK
<1>2. /\ DOMAIN notes' = S /\ notes'[D] = n
      /\ \A x \in S \ {D} : notes'[x] = notes[x]
    BY DEF TypeOK, NotesOK
<1>3. Total(Owed)' = Total(Owed) - owedFor(notes[D]) + owedFor(n)
    BY <1>1, <1>2, Shares, TotalUpdate DEF Total, Owed, Uint64
<1>4. Total(Promised)' = Total(Promised) - promisedBy(notes[D]) + promisedBy(n)
    BY <1>1, <1>2, Shares, TotalUpdate DEF Total, Promised, Uint64
<1>5. Total(Uncompensated)'
        = Total(Uncompensated) - uncompensatedBy(notes[D]) + uncompensatedBy(n)
    BY <1>1, <1>2, UncompensatedShare, TotalUpdate DEF Total, Uncompensated, Uint64, uncompensatedBy
<1> QED
    BY <1>3, <1>4, <1>5

-----------------------------------------------------------------------------
(* What each call makes of its claim *)

\* What one claim keeps in the five budgets and in the three sums of debt.
budgetShares(n) == <<encumberedBy(n), pendingFeeOf(n), redeemedBy(n), refundLockOf(n),
                     reportedLockOf(n)>>
debtShares(n) == <<owedFor(n), promisedBy(n), uncompensatedBy(n)>>

\* A draw adds a live claim of its amount and its fee.
LEMMA DrawnClaim ==
    ASSUME TypeOK, NEW agent \in Agents, NEW book \in HeldBooks, NEW Q \in DOMAIN quotes,
           NEW fee \in Uint64, draw(agent, book, Q, fee)
    PROVE  \E D \in NoteCommits, n \in NoteMeta :
             /\ D \notin DOMAIN notes
             /\ notes' = Insert(notes, D, n)
             /\ ClaimOK(n)
             /\ n.amount = Q.amount /\ n.fee = fee
             /\ budgetShares(n) = <<Q.amount, fee, 0, 0, 0>>
             /\ debtShares(n) = <<Q.amount + fee, 0, Q.amount + fee>>
<1> DEFINE D == drawNoteCommit(lineGeneration, agent, Q, Q.merchant, Q.amount,
                               fee, quotes[Q].expiry)
           n == freshNote(Q.amount, fee, quotes[Q].expiry)
<1>1. Q \in QuoteCommits /\ quotes[Q] \in QuoteMeta
    BY DEF TypeOK, QuotesOK
<1>2. n \in NoteMeta
    BY <1>1 DEF TypeOK, LineOK, freshNote, NoteMeta, QuoteCommits, QuoteMeta
<1>0. D \in NoteCommits
    BY <1>1 DEF TypeOK, LineOK, drawNoteCommit, NoteCommits, QuoteCommits, QuoteMeta
<1>3. /\ D \notin DOMAIN notes /\ notes' = Insert(notes, D, n)
      /\ capacityHolds(book, Q.amount + fee)
    BY DEF draw
<1>4. Q.amount + fee \in Uint64
    <2>1. book.outstanding \in Uint64 /\ book.limit \in Uint64
        BY HeldBookType DEF TypeOK, Books
    <2>2. Q.amount \in Uint64
        BY <1>1 DEF QuoteCommits
    <2> QED
        BY <1>3, <2>1, <2>2, Bounds DEF capacityHolds
<1>5. /\ n.amount = Q.amount /\ n.fee = fee /\ n.lineGeneration = lineGeneration
      /\ n.redeemed = FALSE /\ n.cancelled = FALSE /\ n.compensationAllocated = FALSE
      /\ n.cashRefundOwed = FALSE /\ n.refundAcknowledged = FALSE
    BY DEF freshNote
<1> HIDE DEF n, D
<1>6. cost(n) = Q.amount + fee
    BY <1>5 DEF cost
<1>7. ClaimOK(n)
    BY <1>4, <1>5, <1>6 DEF ClaimOK
<1>8. budgetShares(n) = <<Q.amount, fee, 0, 0, 0>>
    BY <1>5 DEF budgetShares, encumberedBy, pendingFeeOf, redeemedBy, refundLockOf,
                reportedLockOf, live, awaitingRefund
<1>9. debtShares(n) = <<Q.amount + fee, 0, Q.amount + fee>>
    BY <1>5, <1>6 DEF debtShares, owedFor, promisedBy, uncompensatedBy
<1> QED
    BY <1>0, <1>2, <1>3, <1>5, <1>7, <1>8, <1>9

\* A redemption moves a live claim's amount and leaves its debt alone.
LEMMA RedeemedClaim ==
    ASSUME TypeOK, ClaimsOK, NEW caller \in Principals, NEW D \in DOMAIN notes,
           redeemDraw(caller, D)
    PROVE  \E n \in NoteMeta :
             /\ notes' = [notes EXCEPT ![D] = n]
             /\ ClaimOK(n)
             /\ budgetShares(notes[D]) = <<notes[D].amount, notes[D].fee, 0, 0, 0>>
             /\ budgetShares(n) = <<0, 0, notes[D].amount, 0, 0>>
             /\ debtShares(n) = debtShares(notes[D])
<1> DEFINE m == notes[D]
           n == [m EXCEPT !.redeemed = TRUE]
<1>1. m \in NoteMeta /\ ClaimOK(m)
    BY DEF TypeOK, NotesOK, ClaimsOK
<1>2. ~m.redeemed /\ ~m.cancelled
    BY DEF redeemDraw
<1>3. n \in NoteMeta
    BY <1>1 DEF NoteMeta
<1>4. notes' = [notes EXCEPT ![D] = n]
    BY <1>1 DEF redeemDraw
<1>5. /\ n.amount = m.amount /\ n.fee = m.fee /\ n.lineGeneration = m.lineGeneration
      /\ n.redeemed = TRUE /\ n.cancelled = m.cancelled
      /\ n.compensationAllocated = m.compensationAllocated
      /\ n.refundCommitment = m.refundCommitment
      /\ n.cashRefundOwed = m.cashRefundOwed
      /\ n.refundAcknowledged = m.refundAcknowledged
    BY <1>1 DEF NoteMeta
<1> HIDE DEF m, n
<1>6. cost(n) = cost(m)
    BY <1>5 DEF cost
<1>7. ClaimOK(n)
    BY <1>1, <1>2, <1>5, <1>6 DEF ClaimOK
<1>8. ~m.compensationAllocated /\ ~m.cashRefundOwed /\ ~m.refundAcknowledged
    BY <1>1, <1>2 DEF ClaimOK
<1>9. /\ budgetShares(m) = <<m.amount, m.fee, 0, 0, 0>>
      /\ budgetShares(n) = <<0, 0, m.amount, 0, 0>>
    BY <1>2, <1>5, <1>8 DEF budgetShares, encumberedBy, pendingFeeOf, redeemedBy,
       refundLockOf, reportedLockOf, live, awaitingRefund
<1>10. debtShares(n) = debtShares(m)
    BY <1>5, <1>6 DEF debtShares, owedFor, promisedBy, uncompensatedBy
<1> QED
    BY <1>3, <1>4, <1>7, <1>9, <1>10 DEF m

\* An expiry moves a live claim's whole cost to the refunds.
LEMMA ExpiredClaim ==
    ASSUME TypeOK, ClaimsOK, NEW D \in DOMAIN notes, expireNote(D)
    PROVE  \E n \in NoteMeta :
             /\ notes' = [notes EXCEPT ![D] = n]
             /\ ClaimOK(n)
             /\ budgetShares(notes[D]) = <<notes[D].amount, notes[D].fee, 0, 0, 0>>
             /\ budgetShares(n) = <<0, 0, 0, cost(notes[D]), 0>>
             /\ debtShares(n) = debtShares(notes[D])
<1> DEFINE m == notes[D]
           n == [m EXCEPT !.cancelled = TRUE]
<1>1. m \in NoteMeta /\ ClaimOK(m)
    BY DEF TypeOK, NotesOK, ClaimsOK
<1>2. ~m.redeemed /\ ~m.cancelled
    BY DEF expireNote
<1>3. n \in NoteMeta
    BY <1>1 DEF NoteMeta
<1>4. notes' = [notes EXCEPT ![D] = n]
    BY <1>1 DEF expireNote
<1>5. /\ n.amount = m.amount /\ n.fee = m.fee /\ n.lineGeneration = m.lineGeneration
      /\ n.redeemed = m.redeemed /\ n.cancelled = TRUE
      /\ n.compensationAllocated = m.compensationAllocated
      /\ n.refundCommitment = m.refundCommitment
      /\ n.cashRefundOwed = m.cashRefundOwed
      /\ n.refundAcknowledged = m.refundAcknowledged
    BY <1>1 DEF NoteMeta
<1> HIDE DEF m, n
<1>6. cost(n) = cost(m)
    BY <1>5 DEF cost
<1>7. ClaimOK(n)
    BY <1>1, <1>2, <1>5, <1>6 DEF ClaimOK
<1>8. ~m.compensationAllocated /\ ~m.cashRefundOwed /\ ~m.refundAcknowledged
    BY <1>1, <1>2 DEF ClaimOK
<1>9. /\ budgetShares(m) = <<m.amount, m.fee, 0, 0, 0>>
      /\ budgetShares(n) = <<0, 0, 0, cost(m), 0>>
    BY <1>2, <1>5, <1>6, <1>8 DEF budgetShares, encumberedBy, pendingFeeOf, redeemedBy,
       refundLockOf, reportedLockOf, live, awaitingRefund
<1>10. debtShares(n) = debtShares(m)
    BY <1>5, <1>6 DEF debtShares, owedFor, promisedBy, uncompensatedBy
<1> QED
    BY <1>3, <1>4, <1>7, <1>9, <1>10 DEF m

\* A compensation takes a claim that was live or expired out of its budgets,
\* and keeps its whole cost as a refund when the book cannot credit all of it.
LEMMA AllocatedClaim ==
    ASSUME TypeOK, ClaimsOK, NEW D \in DOMAIN notes, NEW refund \in Uint64,
           ~notes[D].redeemed, ~notes[D].compensationAllocated,
           refund <= cost(notes[D]), notes' = [notes EXCEPT ![D] = allocatedNote(D, refund)]
    PROVE  \E n \in NoteMeta :
             /\ notes' = [notes EXCEPT ![D] = n]
             /\ ClaimOK(n)
             /\ budgetShares(notes[D]) =
                   IF notes[D].cancelled THEN <<0, 0, 0, cost(notes[D]), 0>>
                   ELSE <<notes[D].amount, notes[D].fee, 0, 0, 0>>
             /\ budgetShares(n) = <<0, 0, 0, IF refund > 0 THEN cost(notes[D]) ELSE 0, 0>>
             /\ owedFor(notes[D]) = cost(notes[D]) /\ owedFor(n) = refund
             /\ promisedBy(notes[D]) = 0 /\ promisedBy(n) = refund
             /\ uncompensatedBy(notes[D]) =
                   IF notes[D].lineGeneration = lineGeneration THEN cost(notes[D]) ELSE 0
             /\ uncompensatedBy(n) = 0
             /\ n.compensationAllocated
<1> DEFINE m == notes[D]
           n == allocatedNote(D, refund)
<1>1. m \in NoteMeta /\ ClaimOK(m) /\ D \in NoteCommits
    BY DEF TypeOK, NotesOK, ClaimsOK
<1>2. ~m.redeemed /\ ~m.compensationAllocated /\ refund <= cost(m)
    OBVIOUS
<1>3. n \in NoteMeta
    BY AllocatedNoteType
<1>4. notes' = [notes EXCEPT ![D] = n]
    OBVIOUS
<1>5. /\ n.amount = m.amount /\ n.fee = m.fee /\ n.lineGeneration = m.lineGeneration
      /\ n.redeemed = FALSE /\ n.cancelled = TRUE
      /\ n.compensationAllocated = TRUE
      /\ n.refundCommitment = [note |-> D, amount |-> refund]
      /\ n.cashRefundOwed = (refund > 0)
      /\ n.refundAcknowledged = FALSE
    BY DEF allocatedNote, refundCommit
<1>6. cost(n) = cost(m)
    BY <1>5 DEF cost
<1> HIDE DEF m, n
<1>7. /\ n.refundCommitment \in [note : NoteCommits, amount : Uint64]
      /\ n.refundCommitment.amount = refund
    BY <1>1, <1>5
<1>8. ClaimOK(n)
    BY <1>1, <1>2, <1>5, <1>6, <1>7 DEF ClaimOK
<1>9. ~m.cashRefundOwed /\ ~m.refundAcknowledged
    BY <1>1, <1>2 DEF ClaimOK
<1>10. budgetShares(m) = IF m.cancelled THEN <<0, 0, 0, cost(m), 0>>
                         ELSE <<m.amount, m.fee, 0, 0, 0>>
    BY <1>2, <1>9 DEF budgetShares, encumberedBy, pendingFeeOf, redeemedBy,
       refundLockOf, reportedLockOf, live, awaitingRefund
<1>11. budgetShares(n) = <<0, 0, 0, IF refund > 0 THEN cost(m) ELSE 0, 0>>
    BY <1>5, <1>6 DEF budgetShares, encumberedBy, pendingFeeOf, redeemedBy,
       refundLockOf, reportedLockOf, live, awaitingRefund
<1>12. /\ owedFor(m) = cost(m) /\ owedFor(n) = refund
       /\ promisedBy(m) = 0 /\ promisedBy(n) = refund
       /\ uncompensatedBy(m) = IF m.lineGeneration = lineGeneration THEN cost(m) ELSE 0
       /\ uncompensatedBy(n) = 0
    BY <1>2, <1>5, <1>7 DEF owedFor, promisedBy, uncompensatedBy
<1> QED
    BY <1>3, <1>4, <1>5, <1>8, <1>10, <1>11, <1>12 DEF m

\* A reported refund keeps the claim's cost, in the budget of the reported ones.
LEMMA RefundedClaim ==
    ASSUME TypeOK, ClaimsOK, NEW caller \in Principals, NEW D \in DOMAIN notes,
           NEW amount \in Uint64, NEW payRef \in Payments \cup {Empty},
           NEW receiptExpiry \in Times,
           reportRefund(caller, D, amount, payRef, receiptExpiry)
    PROVE  \E n \in NoteMeta :
             /\ notes' = [notes EXCEPT ![D] = n]
             /\ ClaimOK(n)
             /\ budgetShares(notes[D]) = <<0, 0, 0, cost(notes[D]), 0>>
             /\ budgetShares(n) = <<0, 0, 0, 0, cost(notes[D])>>
             /\ debtShares(n) = debtShares(notes[D])
<1> DEFINE m == notes[D]
           n == acknowledgedNote(m, paymentNullifier(payRef))
<1>1. m \in NoteMeta /\ ClaimOK(m)
    BY DEF TypeOK, NotesOK, ClaimsOK
<1>2. /\ ~m.redeemed /\ m.cancelled /\ m.compensationAllocated /\ m.cashRefundOwed
      /\ ~m.refundAcknowledged /\ payRef \in Payments
      /\ notes' = [notes EXCEPT ![D] = n]
    BY DEF reportRefund
<1>3. n \in NoteMeta
    BY <1>1, <1>2 DEF NoteMeta, paymentNullifier, acknowledgedNote
<1>4. /\ n.amount = m.amount /\ n.fee = m.fee /\ n.lineGeneration = m.lineGeneration
      /\ n.redeemed = FALSE /\ n.cancelled = TRUE
      /\ n.compensationAllocated = TRUE
      /\ n.refundCommitment = m.refundCommitment
      /\ n.cashRefundOwed = TRUE
      /\ n.refundAcknowledged = TRUE
    BY DEF acknowledgedNote
<1> HIDE DEF m, n
<1>5. cost(n) = cost(m)
    BY <1>4 DEF cost
<1>6. ClaimOK(n)
    BY <1>1, <1>2, <1>4, <1>5 DEF ClaimOK
<1>7. /\ budgetShares(m) = <<0, 0, 0, cost(m), 0>>
      /\ budgetShares(n) = <<0, 0, 0, 0, cost(m)>>
    BY <1>2, <1>4, <1>5 DEF budgetShares, encumberedBy, pendingFeeOf, redeemedBy,
       refundLockOf, reportedLockOf, live, awaitingRefund
<1>8. debtShares(n) = debtShares(m)
    BY <1>2, <1>4, <1>5 DEF debtShares, owedFor, promisedBy, uncompensatedBy
<1> QED
    BY <1>2, <1>3, <1>6, <1>7, <1>8 DEF m

-----------------------------------------------------------------------------
(* Every budget is the sum of its claims *)

\* A new claim that is well formed keeps the claims well formed.
LEMMA ClaimsAfterDraw ==
    ASSUME TypeOK, ClaimsOK, NEW D \in NoteCommits, NEW n, ClaimOK(n),
           notes' = Insert(notes, D, n)
    PROVE  ClaimsOK'
<1>1. \A x \in DOMAIN notes' : x = D \/ x \in DOMAIN notes
    BY DEF Insert
<1>2. \A x \in DOMAIN notes' : notes'[x] = IF x = D THEN n ELSE notes[x]
    BY DEF Insert
<1> QED
    BY <1>1, <1>2 DEF ClaimsOK

\* So does a claim that moves to a well-formed one.
LEMMA ClaimsAfterMove ==
    ASSUME TypeOK, ClaimsOK, NEW D \in DOMAIN notes, NEW n, ClaimOK(n),
           notes' = [notes EXCEPT ![D] = n]
    PROVE  ClaimsOK'
<1>1. /\ DOMAIN notes' = DOMAIN notes
      /\ \A x \in DOMAIN notes : notes'[x] = IF x = D THEN n ELSE notes[x]
    BY DEF TypeOK, NotesOK
<1> QED
    BY <1>1 DEF ClaimsOK

\* The sums are naturals.
LEMMA TotalNats ==
    ASSUME TypeOK
    PROVE  /\ Total(Encumbered) \in Nat /\ Total(PendingFees) \in Nat
           /\ Total(RedeemedAmounts) \in Nat /\ Total(RefundLocks) \in Nat
           /\ Total(ReportedLocks) \in Nat
           /\ Total(Owed) \in Nat /\ Total(Promised) \in Nat
           /\ Total(Uncompensated) \in Nat
BY UnitsFinite, Bounds DEF TypeOK, NotesOK, Total

\* The sums only depend on the claims.
LEMMA SameTotals ==
    ASSUME UNCHANGED notes
    PROVE  /\ Total(Encumbered)' = Total(Encumbered)
           /\ Total(PendingFees)' = Total(PendingFees)
           /\ Total(RedeemedAmounts)' = Total(RedeemedAmounts)
           /\ Total(RefundLocks)' = Total(RefundLocks)
           /\ Total(ReportedLocks)' = Total(ReportedLocks)
           /\ Total(Owed)' = Total(Owed) /\ Total(Promised)' = Total(Promised)
BY DEF Total, Encumbered, PendingFees, RedeemedAmounts, RefundLocks, ReportedLocks, Owed,
       Promised

AccountingInv == ClaimsOK /\ ReserveAccounting

\* A draw adds its amount and its fee to their budgets.
LEMMA DrawAccounts ==
    ASSUME TypeOK, AccountingInv, NEW agent \in Agents, NEW book \in HeldBooks,
           NEW Q \in DOMAIN quotes, NEW fee \in Uint64, draw(agent, book, Q, fee)
    PROVE  AccountingInv'
<1>1. PICK D \in NoteCommits, n \in NoteMeta :
          /\ D \notin DOMAIN notes
          /\ notes' = Insert(notes, D, n)
          /\ ClaimOK(n)
          /\ budgetShares(n) = <<Q.amount, fee, 0, 0, 0>>
    BY DrawnClaim DEF AccountingInv
<1>2. ClaimsOK'
    BY <1>1, ClaimsAfterDraw DEF AccountingInv
<1>3. /\ encumberedBy(n) = Q.amount /\ pendingFeeOf(n) = fee
      /\ redeemedBy(n) = 0 /\ refundLockOf(n) = 0 /\ reportedLockOf(n) = 0
    BY <1>1 DEF budgetShares
<1>4. /\ encumberedReserve' = encumberedReserve + Q.amount
      /\ pendingFeeReserve' = pendingFeeReserve + fee
      /\ UNCHANGED <<redeemedReserve, refundReserve, reportedRefundReserve>>
    BY DEF draw
<1>5. ReserveAccounting'
    BY <1>1, <1>3, <1>4, BudgetsAdded, TotalNats DEF AccountingInv, ReserveAccounting
<1> QED
    BY <1>2, <1>5 DEF AccountingInv

\* A claim whose shares move as its counters do keeps every budget exact.
LEMMA MoveAccounts ==
    ASSUME TypeOK, AccountingInv, NEW D \in DOMAIN notes, NEW n \in NoteMeta,
           ClaimOK(n), notes' = [notes EXCEPT ![D] = n],
           encumberedReserve' = encumberedReserve - encumberedBy(notes[D]) + encumberedBy(n),
           pendingFeeReserve' = pendingFeeReserve - pendingFeeOf(notes[D]) + pendingFeeOf(n),
           redeemedReserve' = redeemedReserve - redeemedBy(notes[D]) + redeemedBy(n),
           refundReserve' = refundReserve - refundLockOf(notes[D]) + refundLockOf(n),
           reportedRefundReserve' =
              reportedRefundReserve - reportedLockOf(notes[D]) + reportedLockOf(n)
    PROVE  AccountingInv'
<1>1. ClaimsOK'
    BY ClaimsAfterMove DEF AccountingInv
<1>2. ReserveAccounting'
    BY BudgetsMoved DEF AccountingInv, ReserveAccounting
<1> QED
    BY <1>1, <1>2 DEF AccountingInv

\* A redemption moves the claim's amount and fee to the paid budgets.
LEMMA RedeemAccounts ==
    ASSUME TypeOK, AccountingInv, NEW caller \in Principals, NEW D \in DOMAIN notes,
           redeemDraw(caller, D)
    PROVE  AccountingInv'
<1>1. PICK n \in NoteMeta :
          /\ notes' = [notes EXCEPT ![D] = n] /\ ClaimOK(n)
          /\ budgetShares(notes[D]) = <<notes[D].amount, notes[D].fee, 0, 0, 0>>
          /\ budgetShares(n) = <<0, 0, notes[D].amount, 0, 0>>
    BY RedeemedClaim DEF AccountingInv
<1>2. /\ encumberedReserve' = encumberedReserve - notes[D].amount
      /\ redeemedReserve' = redeemedReserve + notes[D].amount
      /\ pendingFeeReserve' = pendingFeeReserve - notes[D].fee
      /\ UNCHANGED <<refundReserve, reportedRefundReserve>>
    BY DEF redeemDraw
<1>3. CountersOK /\ notes[D].amount \in Nat /\ notes[D].fee \in Nat
    BY NoteAmounts DEF TypeOK
<1>4. /\ encumberedReserve' = encumberedReserve - encumberedBy(notes[D]) + encumberedBy(n)
      /\ pendingFeeReserve' = pendingFeeReserve - pendingFeeOf(notes[D]) + pendingFeeOf(n)
      /\ redeemedReserve' = redeemedReserve - redeemedBy(notes[D]) + redeemedBy(n)
      /\ refundReserve' = refundReserve - refundLockOf(notes[D]) + refundLockOf(n)
      /\ reportedRefundReserve' =
            reportedRefundReserve - reportedLockOf(notes[D]) + reportedLockOf(n)
    BY <1>1, <1>2, <1>3, CounterNats DEF budgetShares
<1> QED
    BY <1>1, <1>4, MoveAccounts

\* An expiry moves both to the refund budget.
LEMMA ExpireAccounts ==
    ASSUME TypeOK, AccountingInv, NEW D \in DOMAIN notes, expireNote(D)
    PROVE  AccountingInv'
<1>1. PICK n \in NoteMeta :
          /\ notes' = [notes EXCEPT ![D] = n] /\ ClaimOK(n)
          /\ budgetShares(notes[D]) = <<notes[D].amount, notes[D].fee, 0, 0, 0>>
          /\ budgetShares(n) = <<0, 0, 0, cost(notes[D]), 0>>
    BY ExpiredClaim DEF AccountingInv
<1>2. /\ encumberedReserve' = encumberedReserve - notes[D].amount
      /\ pendingFeeReserve' = pendingFeeReserve - notes[D].fee
      /\ refundReserve' = refundReserve + cost(notes[D])
      /\ UNCHANGED <<redeemedReserve, reportedRefundReserve>>
    BY DEF expireNote
<1>3. /\ CountersOK /\ notes[D].amount \in Nat /\ notes[D].fee \in Nat
      /\ cost(notes[D]) \in Nat
    BY NoteAmounts DEF TypeOK
<1>4. /\ encumberedReserve' = encumberedReserve - encumberedBy(notes[D]) + encumberedBy(n)
      /\ pendingFeeReserve' = pendingFeeReserve - pendingFeeOf(notes[D]) + pendingFeeOf(n)
      /\ redeemedReserve' = redeemedReserve - redeemedBy(notes[D]) + redeemedBy(n)
      /\ refundReserve' = refundReserve - refundLockOf(notes[D]) + refundLockOf(n)
      /\ reportedRefundReserve' =
            reportedRefundReserve - reportedLockOf(notes[D]) + reportedLockOf(n)
    BY <1>1, <1>2, <1>3, CounterNats DEF budgetShares
<1> QED
    BY <1>1, <1>4, MoveAccounts

\* Both branches of a compensation: what the book credits is released.
LEMMA AllocationTerms ==
    ASSUME TypeOK, NEW caller \in Principals, NEW D \in DOMAIN notes,
           NEW book \in HeldBooks, allocateCompensation(caller, D, book)
    PROVE  \E refund \in Uint64 :
             /\ ~notes[D].redeemed /\ ~notes[D].compensationAllocated
             /\ refund <= cost(notes[D])
             /\ notes' = [notes EXCEPT ![D] = allocatedNote(D, refund)]
             /\ moveToRefund(notes[D], IF refund > 0 THEN 0 ELSE cost(notes[D]))
             /\ UNCHANGED <<terms, repaid, status>>
             /\ \/ /\ notes[D].lineGeneration = lineGeneration
                   /\ opensLineCommit(identityCommit, book)
                   /\ refund = cashRefundAmount(book.outstanding, cost(notes[D]))
                   /\ rotateBook(book, debtAfterCredit(book.outstanding, cost(notes[D])))
                \/ /\ notes[D].lineGeneration # lineGeneration
                   /\ refund = cost(notes[D])
                   /\ UNCHANGED lineCommit
<1> DEFINE c == cost(notes[D])
<1>1. book \in Books /\ c \in Uint64 /\ c \in Nat /\ book.outstanding \in Nat
    BY HeldBookType, Bounds DEF allocateCompensation, TypeOK, Books
<1>2. /\ cashRefundAmount(book.outstanding, c) \in Uint64
      /\ cashRefundAmount(book.outstanding, c) <= c
    BY <1>1, Bounds DEF cashRefundAmount
<1>3. /\ ~notes[D].redeemed /\ ~notes[D].compensationAllocated
      /\ UNCHANGED <<terms, repaid, status>>
    BY DEF allocateCompensation
<1> HIDE DEF c
<1>4. CASE /\ notes[D].lineGeneration = lineGeneration
           /\ opensLineCommit(identityCommit, book)
           /\ moveToRefund(notes[D], IF cashRefundAmount(book.outstanding, c) > 0
                                     THEN 0 ELSE c)
           /\ rotateBook(book, debtAfterCredit(book.outstanding, c))
           /\ notes' = [notes EXCEPT ![D] =
                           allocatedNote(D, cashRefundAmount(book.outstanding, c))]
    BY <1>2, <1>3, <1>4 DEF c
<1>5. CASE /\ notes[D].lineGeneration < lineGeneration
           /\ moveToRefund(notes[D], 0)
           /\ notes' = [notes EXCEPT ![D] = allocatedNote(D, c)]
           /\ UNCHANGED lineCommit
    <2>1. (IF c > 0 THEN 0 ELSE c) = 0
        BY <1>1
    <2>2. notes[D].lineGeneration # lineGeneration
        BY <1>5, Bounds DEF TypeOK, NotesOK, NoteMeta, LineOK
    <2>3. moveToRefund(notes[D], IF c > 0 THEN 0 ELSE c)
        BY <1>5, <2>1 DEF moveToRefund
    <2>4. c <= c
        BY <1>1
    <2> QED
        BY <1>1, <1>3, <1>5, <2>2, <2>3, <2>4 DEF c
<1> QED
    BY <1>4, <1>5 DEF allocateCompensation, c

\* A compensation leaves in the refund budget what is still owed in cash.
LEMMA AllocateAccounts ==
    ASSUME TypeOK, AccountingInv, NEW caller \in Principals, NEW D \in DOMAIN notes,
           NEW book \in HeldBooks, allocateCompensation(caller, D, book)
    PROVE  AccountingInv'
<1>1. PICK refund \in Uint64 :
          /\ ~notes[D].redeemed /\ ~notes[D].compensationAllocated
          /\ refund <= cost(notes[D])
          /\ notes' = [notes EXCEPT ![D] = allocatedNote(D, refund)]
          /\ moveToRefund(notes[D], IF refund > 0 THEN 0 ELSE cost(notes[D]))
    BY AllocationTerms
<1>2. PICK n \in NoteMeta :
          /\ notes' = [notes EXCEPT ![D] = n] /\ ClaimOK(n)
          /\ budgetShares(notes[D]) = IF notes[D].cancelled THEN <<0, 0, 0, cost(notes[D]), 0>>
                                      ELSE <<notes[D].amount, notes[D].fee, 0, 0, 0>>
          /\ budgetShares(n) = <<0, 0, 0, IF refund > 0 THEN cost(notes[D]) ELSE 0, 0>>
    BY <1>1, AllocatedClaim DEF AccountingInv
<1>3. /\ CountersOK /\ notes[D].amount \in Nat /\ notes[D].fee \in Nat
      /\ cost(notes[D]) \in Nat /\ refund \in Nat
    BY NoteAmounts, Bounds DEF TypeOK
<1>4. /\ encumberedReserve' = encumberedReserve - encumberedBy(notes[D]) + encumberedBy(n)
      /\ pendingFeeReserve' = pendingFeeReserve - pendingFeeOf(notes[D]) + pendingFeeOf(n)
      /\ redeemedReserve' = redeemedReserve - redeemedBy(notes[D]) + redeemedBy(n)
      /\ refundReserve' = refundReserve - refundLockOf(notes[D]) + refundLockOf(n)
      /\ reportedRefundReserve' =
            reportedRefundReserve - reportedLockOf(notes[D]) + reportedLockOf(n)
    <2>1. CASE notes[D].cancelled
        BY <1>1, <1>2, <1>3, <2>1, CounterNats DEF budgetShares, moveToRefund
    <2>2. CASE ~notes[D].cancelled
        BY <1>1, <1>2, <1>3, <2>2, CounterNats DEF budgetShares, moveToRefund
    <2> QED
        BY <2>1, <2>2
<1> QED
    BY <1>2, <1>4, MoveAccounts

\* A refund report moves the claim's cost to the reported refunds.
LEMMA RefundAccounts ==
    ASSUME TypeOK, AccountingInv, NEW caller \in Principals, NEW D \in DOMAIN notes,
           NEW amount \in Uint64, NEW payRef \in Payments \cup {Empty},
           NEW receiptExpiry \in Times,
           acknowledgeRefund(caller, D, amount, payRef, receiptExpiry)
    PROVE  AccountingInv'
<1>1. reportRefund(caller, D, amount, payRef, receiptExpiry)
    BY DEF acknowledgeRefund
<1>2. PICK n \in NoteMeta :
          /\ notes' = [notes EXCEPT ![D] = n] /\ ClaimOK(n)
          /\ budgetShares(notes[D]) = <<0, 0, 0, cost(notes[D]), 0>>
          /\ budgetShares(n) = <<0, 0, 0, 0, cost(notes[D])>>
    BY <1>1, RefundedClaim DEF AccountingInv
<1>3. /\ refundReserve' = refundReserve - cost(notes[D])
      /\ reportedRefundReserve' = reportedRefundReserve + cost(notes[D])
      /\ UNCHANGED <<encumberedReserve, redeemedReserve, pendingFeeReserve>>
    BY DEF acknowledgeRefund
<1>4. CountersOK /\ cost(notes[D]) \in Nat
    BY NoteAmounts DEF TypeOK
<1>5. /\ encumberedReserve' = encumberedReserve - encumberedBy(notes[D]) + encumberedBy(n)
      /\ pendingFeeReserve' = pendingFeeReserve - pendingFeeOf(notes[D]) + pendingFeeOf(n)
      /\ redeemedReserve' = redeemedReserve - redeemedBy(notes[D]) + redeemedBy(n)
      /\ refundReserve' = refundReserve - refundLockOf(notes[D]) + refundLockOf(n)
      /\ reportedRefundReserve' =
            reportedRefundReserve - reportedLockOf(notes[D]) + reportedLockOf(n)
    BY <1>2, <1>3, <1>4, CounterNats DEF budgetShares
<1> QED
    BY <1>2, <1>5, MoveAccounts

\* Calls that move no claim and none of the five budgets.
LEMMA IdleAccounts ==
    ASSUME AccountingInv, UNCHANGED notes,
           UNCHANGED <<encumberedReserve, pendingFeeReserve, redeemedReserve, refundReserve,
                       reportedRefundReserve>>
    PROVE  AccountingInv'
<1>1. ClaimsOK'
    BY DEF AccountingInv, ClaimsOK
<1> QED
    BY <1>1, SameTotals DEF AccountingInv, ReserveAccounting

\* Every step keeps the budgets exact.
LEMMA AccountingStep == TypeOK /\ AccountingInv /\ [Next]_vars => AccountingInv'
<1> SUFFICES ASSUME TypeOK, AccountingInv, [Next]_vars PROVE AccountingInv'
    OBVIOUS
<1>1. CASE UNCHANGED <<counters, notes>>
    BY <1>1, IdleAccounts DEF counters
<1>2. ASSUME NEW caller \in Principals, NEW a \in Deposits,
             \/ fundReserve(caller, a) \/ withdrawUnencumberedReserve(caller, a)
             \/ withdrawFees(caller)
      PROVE  AccountingInv'
    BY <1>2, IdleAccounts DEF fundReserve, withdrawUnencumberedReserve, withdrawFees
<1>3. ASSUME NEW caller \in Principals, withdrawFees(caller)
      PROVE  AccountingInv'
    BY <1>3, IdleAccounts DEF withdrawFees
<1> QED
    BY <1>1, <1>2, <1>3, DrawAccounts, RedeemAccounts, ExpireAccounts, AllocateAccounts,
       RefundAccounts, StepCases

\* The claims and the budgets they keep are invariant along every behaviour.
LEMMA AccountsInvariant == Spec => []AccountingInv
<1>1. Init => AccountingInv
    <2> SUFFICES ASSUME Init PROVE AccountingInv
        OBVIOUS
    <2>1. DOMAIN notes = {}
        BY DEF Init
    <2>2. /\ Total(Encumbered) = 0 /\ Total(PendingFees) = 0
          /\ Total(RedeemedAmounts) = 0 /\ Total(RefundLocks) = 0
          /\ Total(ReportedLocks) = 0
        BY <2>1, TotalEmpty, Bounds DEF Total
    <2> QED
        BY <2>1, <2>2 DEF AccountingInv, ClaimsOK, ReserveAccounting, Init
<1> QED
    BY <1>1, AccountingStep, TypeCorrect, PTL DEF Spec

\* Each budget of the reserve is exactly what its claims keep in it.
THEOREM BudgetsAreClaims == Spec => []ReserveAccounting
<1>1. AccountingInv => ReserveAccounting
    BY DEF AccountingInv
<1> QED
    BY <1>1, AccountsInvariant, PTL

-----------------------------------------------------------------------------
(* Every debt is backed by claims *)

\* The debt of the book is below the uncompensated claims of its line and below
\* its limit, is none when the line is not open, and is, with every repayment,
\* what all the claims cost.
DebtInv ==
    /\ lineCommit.outstanding <= Total(Uncompensated)
    /\ lineCommit.outstanding <= lineCommit.limit
    /\ status \in {"NONE", "CLOSED"} => lineCommit.outstanding = 0
    /\ lineCommit.outstanding + repaid = Total(Owed)

\* The numbers of the book.
LEMMA BookNats ==
    ASSUME TypeOK
    PROVE  /\ lineCommit.outstanding \in Nat /\ lineCommit.limit \in Nat
           /\ repaid \in Nat
BY Bounds DEF TypeOK, LineOK, Books

\* A book that opens the commitment is the book.
LEMMA OpenedBook ==
    ASSUME TypeOK, NEW book, opensLineCommit(identityCommit, book)
    PROVE  /\ book.outstanding = lineCommit.outstanding
           /\ book.limit = lineCommit.limit
BY DEF opensLineCommit, lineStateCommit

\* A rotation changes the debt, and keeps the limit.
LEMMA RotatedDebt ==
    ASSUME NEW book, NEW out, rotateBook(book, out)
    PROVE  lineCommit'.outstanding = out /\ lineCommit'.limit = book.limit
BY DEF rotateBook, lineStateCommit

\* The sums of the debts only depend on the claims and the generation.
LEMMA SameDebts ==
    ASSUME UNCHANGED <<notes, lineGeneration>>
    PROVE  /\ Total(Owed)' = Total(Owed) /\ Total(Promised)' = Total(Promised)
           /\ Total(Uncompensated)' = Total(Uncompensated)
BY DEF Total, Owed, Promised, Uncompensated, uncompensatedBy

\* A draw adds its price to the debt and to what the claims cost.
LEMMA DrawDebts ==
    ASSUME TypeOK, ClaimsOK, DebtInv, NEW agent \in Agents, NEW book \in HeldBooks,
           NEW Q \in DOMAIN quotes, NEW fee \in Uint64, draw(agent, book, Q, fee)
    PROVE  DebtInv'
<1>1. PICK D \in NoteCommits, n \in NoteMeta :
          /\ D \notin DOMAIN notes /\ notes' = Insert(notes, D, n) /\ ClaimOK(n)
          /\ debtShares(n) = <<Q.amount + fee, 0, Q.amount + fee>>
    BY DrawnClaim
<1>2. /\ UNCHANGED <<lineGeneration, status, repaid>>
      /\ status = "OPEN" /\ agent = identityCommit
      /\ opensLineCommit(agent, book)
      /\ capacityHolds(book, Q.amount + fee)
      /\ rotateBook(book, book.outstanding + (Q.amount + fee))
    BY DEF draw, terms
<1>3. Q.amount \in Nat /\ fee \in Nat
    BY Bounds DEF TypeOK, QuotesOK, QuoteCommits
<1>4. owedFor(n) = Q.amount + fee /\ uncompensatedBy(n) = Q.amount + fee
    BY <1>1 DEF debtShares
<1>5. /\ Total(Owed)' = Total(Owed) + (Q.amount + fee)
      /\ Total(Uncompensated)' = Total(Uncompensated) + (Q.amount + fee)
    BY <1>1, <1>2, <1>4, DebtsAdded
<1>6. /\ lineCommit'.outstanding = lineCommit.outstanding + (Q.amount + fee)
      /\ lineCommit'.limit = lineCommit.limit
      /\ lineCommit.outstanding + (Q.amount + fee) <= lineCommit.limit
    BY <1>2, OpenedBook, RotatedDebt DEF capacityHolds
<1> QED
    BY <1>2, <1>3, <1>5, <1>6, BookNats, TotalNats DEF DebtInv

\* A call that moves a claim but not its debt.
LEMMA NeutralDebts ==
    ASSUME TypeOK, ClaimsOK, DebtInv, NEW D \in DOMAIN notes, NEW n \in NoteMeta,
           ClaimOK(n), notes' = [notes EXCEPT ![D] = n],
           debtShares(n) = debtShares(notes[D]),
           UNCHANGED <<terms, lineCommit, status, repaid>>
    PROVE  DebtInv'
<1>1. /\ owedFor(n) = owedFor(notes[D]) /\ uncompensatedBy(n) = uncompensatedBy(notes[D])
      /\ UNCHANGED lineGeneration
    BY DEF debtShares, terms
<1>2. /\ Total(Owed)' = Total(Owed) - owedFor(n) + owedFor(n)
      /\ Total(Uncompensated)'
           = Total(Uncompensated) - uncompensatedBy(n) + uncompensatedBy(n)
    BY <1>1, DebtsMoved
<1>3. owedFor(n) \in Nat /\ uncompensatedBy(n) \in Nat
    BY Shares, UncompensatedShare, Bounds
<1>4. Total(Owed)' = Total(Owed) /\ Total(Uncompensated)' = Total(Uncompensated)
    BY <1>2, <1>3, TotalNats
<1> QED
    BY <1>4 DEF DebtInv

\* A compensation credits the debt with what it does not owe in cash.
LEMMA AllocateDebts ==
    ASSUME TypeOK, ClaimsOK, DebtInv, NEW caller \in Principals, NEW D \in DOMAIN notes,
           NEW book \in HeldBooks, allocateCompensation(caller, D, book)
    PROVE  DebtInv'
<1> DEFINE c == cost(notes[D])
           out == lineCommit.outstanding
<1>1. PICK refund \in Uint64 :
          /\ ~notes[D].redeemed /\ ~notes[D].compensationAllocated
          /\ refund <= c
          /\ notes' = [notes EXCEPT ![D] = allocatedNote(D, refund)]
          /\ UNCHANGED <<terms, repaid, status>>
          /\ \/ /\ notes[D].lineGeneration = lineGeneration
                /\ opensLineCommit(identityCommit, book)
                /\ refund = cashRefundAmount(book.outstanding, c)
                /\ rotateBook(book, debtAfterCredit(book.outstanding, c))
             \/ /\ notes[D].lineGeneration # lineGeneration
                /\ refund = c
                /\ UNCHANGED lineCommit
    BY AllocationTerms
<1>2. PICK n \in NoteMeta :
          /\ notes' = [notes EXCEPT ![D] = n] /\ ClaimOK(n)
          /\ owedFor(notes[D]) = c /\ owedFor(n) = refund
          /\ uncompensatedBy(notes[D]) =
                IF notes[D].lineGeneration = lineGeneration THEN c ELSE 0
          /\ uncompensatedBy(n) = 0
    <2>1. /\ ~notes[D].redeemed /\ ~notes[D].compensationAllocated
          /\ refund <= cost(notes[D])
          /\ notes' = [notes EXCEPT ![D] = allocatedNote(D, refund)]
        BY <1>1
    <2>2. PICK n \in NoteMeta :
             /\ notes' = [notes EXCEPT ![D] = n]
             /\ ClaimOK(n)
             /\ budgetShares(notes[D]) =
                   IF notes[D].cancelled THEN <<0, 0, 0, cost(notes[D]), 0>>
                   ELSE <<notes[D].amount, notes[D].fee, 0, 0, 0>>
             /\ budgetShares(n) = <<0, 0, 0, IF refund > 0 THEN cost(notes[D]) ELSE 0, 0>>
             /\ owedFor(notes[D]) = cost(notes[D]) /\ owedFor(n) = refund
             /\ promisedBy(notes[D]) = 0 /\ promisedBy(n) = refund
             /\ uncompensatedBy(notes[D]) =
                   IF notes[D].lineGeneration = lineGeneration THEN cost(notes[D]) ELSE 0
             /\ uncompensatedBy(n) = 0
             /\ n.compensationAllocated
        BY <2>1, AllocatedClaim
    <2> QED
        BY <2>2
<1>3. c \in Nat /\ refund \in Nat /\ out \in Nat /\ repaid \in Nat /\ lineCommit.limit \in Nat
    BY NoteAmounts, BookNats, Bounds
<1>4. UNCHANGED lineGeneration
    BY <1>1 DEF terms
<1>5. /\ Total(Owed)' = Total(Owed) - c + refund
      /\ Total(Uncompensated)' = Total(Uncompensated)
            - (IF notes[D].lineGeneration = lineGeneration THEN c ELSE 0) + 0
    BY <1>2, <1>4, DebtsMoved
<1>6. Total(Uncompensated)' \in Nat /\ Total(Uncompensated) \in Nat /\ Total(Owed) \in Nat
    <2>1. TypeOK'
        BY AllocateStep
    <2> QED
        BY <2>1, TotalNats, UnitsFinite, Bounds DEF TypeOK, NotesOK, Total
<1>7. CASE /\ notes[D].lineGeneration = lineGeneration
           /\ opensLineCommit(identityCommit, book)
           /\ refund = cashRefundAmount(book.outstanding, c)
           /\ rotateBook(book, debtAfterCredit(book.outstanding, c))
    <2>1. /\ refund = cashRefundAmount(out, c)
          /\ lineCommit'.outstanding = debtAfterCredit(out, c)
          /\ lineCommit'.limit = lineCommit.limit
        BY <1>7, OpenedBook, RotatedDebt
    <2>2. CASE out >= c
        <3>1. refund = 0 /\ lineCommit'.outstanding = out - c
            BY <2>1, <2>2 DEF cashRefundAmount, debtAfterCredit
        <3> QED
            BY <1>1, <1>3, <1>5, <1>6, <1>7, <2>1, <2>2, <3>1 DEF DebtInv
    <2>3. CASE ~(out >= c)
        <3>1. refund = c - out /\ lineCommit'.outstanding = 0
            BY <2>1, <2>3 DEF cashRefundAmount, debtAfterCredit
        <3> QED
            BY <1>1, <1>3, <1>5, <1>6, <1>7, <2>1, <2>3, <3>1 DEF DebtInv
    <2> QED
        BY <2>2, <2>3
<1>8. CASE /\ notes[D].lineGeneration # lineGeneration
           /\ refund = c
           /\ UNCHANGED lineCommit
    BY <1>1, <1>3, <1>5, <1>6, <1>8 DEF DebtInv
<1> QED
    BY <1>1, <1>7, <1>8

\* A repayment moves its amount from the debt to what was repaid.
LEMMA RepayDebts ==
    ASSUME TypeOK, DebtInv, NEW caller \in Principals, NEW book \in HeldBooks,
           NEW amount \in Uint64, NEW payRef \in Payments \cup {Empty},
           NEW receiptExpiry \in Times,
           acknowledgeRepayment(caller, book, amount, payRef, receiptExpiry)
    PROVE  DebtInv' /\ repaid' > repaid
<1>1. /\ opensLineCommit(identityCommit, book) /\ amount > 0 /\ amount <= book.outstanding
      /\ rotateBook(book, book.outstanding - amount)
      /\ repaid' = repaid + amount
    BY DEF acknowledgeRepayment, creditRepayment
<1>2. UNCHANGED <<notes, lineGeneration, status>>
    BY DEF acknowledgeRepayment, terms
<1>3. /\ lineCommit'.outstanding = lineCommit.outstanding - amount
      /\ lineCommit'.limit = lineCommit.limit /\ amount <= lineCommit.outstanding
    BY <1>1, OpenedBook, RotatedDebt
<1>4. amount \in Nat
    BY Bounds
<1> QED
    BY <1>1, <1>2, <1>3, <1>4, BookNats, TotalNats, SameDebts DEF DebtInv

\* A line is opened without debt.
LEMMA OpenDebts ==
    ASSUME TypeOK, DebtInv, NEW caller, NEW agent \in Agents, NEW limit \in Limits,
           NEW expiry, NEW flat, NEW bps, openLine(caller, agent, limit, expiry, flat, bps)
    PROVE  DebtInv' /\ lineCommit.outstanding = 0
<1>1. /\ lineCommit.outstanding = 0 /\ UNCHANGED <<notes, repaid>> /\ limit > 0
      /\ lineCommit'.outstanding = 0 /\ lineCommit'.limit = limit
    BY DEF openLine, lineStateCommit, DebtInv
<1>2. Total(Owed)' = Total(Owed)
    BY <1>1, SameTotals
<1>3. Total(Uncompensated)' \in Nat
    BY <1>1, UnitsFinite, Bounds DEF TypeOK, NotesOK, Total
<1>4. limit \in Nat
    BY Bounds
<1> QED
    BY <1>1, <1>2, <1>3, <1>4, BookNats DEF DebtInv

\* A line is closed without debt.
LEMMA StatusDebts ==
    ASSUME TypeOK, DebtInv, NEW caller, NEW next, NEW book, setStatus(caller, next, book)
    PROVE  DebtInv'
<1>1. UNCHANGED <<notes, lineCommit, repaid, lineGeneration>>
    BY DEF setStatus, terms
<1>2. status' \in {"NONE", "CLOSED"} => lineCommit.outstanding = 0
    BY OpenedBook DEF setStatus
<1> QED
    BY <1>1, <1>2, SameDebts DEF DebtInv

\* Calls that touch neither the claims, the book nor the status of the line.
LEMMA IdleDebts ==
    ASSUME DebtInv, UNCHANGED <<notes, lineCommit, repaid, status, lineGeneration>>
    PROVE  DebtInv'
BY SameDebts DEF DebtInv

\* What every step does to the claims, the book and the debts.
LEMMA DebtStep ==
    ASSUME TypeOK, ClaimsOK, DebtInv, [Next]_vars
    PROVE  /\ DebtInv'
           /\ lineCommit.outstanding > 0 => lineGeneration' = lineGeneration
           /\ lineCommit'.outstanding < lineCommit.outstanding =>
                 \/ repaid' > repaid
                 \/ lineCommit.outstanding = 0
                 \/ Allocated' # Allocated
<1> DEFINE Goal == /\ DebtInv'
                   /\ lineCommit.outstanding > 0 => lineGeneration' = lineGeneration
                   /\ lineCommit'.outstanding < lineCommit.outstanding =>
                         \/ repaid' > repaid
                         \/ lineCommit.outstanding = 0
                         \/ Allocated' # Allocated
<1> SUFFICES Goal
    OBVIOUS
<1>0. lineCommit.outstanding \in Nat
    BY BookNats
<1>1. CASE UNCHANGED <<notes, lineCommit, repaid, status, lineGeneration>>
    <2>1. lineCommit'.outstanding = lineCommit.outstanding
        BY <1>1
    <2> QED
        BY <1>0, <1>1, <2>1, IdleDebts
<1>2. CASE Tick \/ UNCHANGED vars
    BY <1>1, <1>2 DEF Tick, vars, terms
<1>3. ASSUME NEW caller \in Principals, NEW m \in Merchants,
             registerMerchant(caller, m) \/ disableMerchant(caller, m)
      PROVE  Goal
    BY <1>1, <1>3 DEF registerMerchant, disableMerchant, terms
<1>4. ASSUME NEW caller \in Principals, NEW a \in Deposits,
             fundReserve(caller, a) \/ withdrawUnencumberedReserve(caller, a)
      PROVE  Goal
    BY <1>1, <1>4 DEF fundReserve, withdrawUnencumberedReserve, terms
<1>5. ASSUME NEW caller \in Principals, withdrawFees(caller)
      PROVE  Goal
    BY <1>1, <1>5 DEF withdrawFees, terms
<1>6. ASSUME NEW caller \in Principals, NEW agent \in Agents, NEW limit \in Limits,
             NEW expiry \in Times, NEW flat \in FlatFees, NEW bps \in Rates,
             openLine(caller, agent, limit, expiry, flat, bps)
      PROVE  Goal
    BY <1>0, <1>6, OpenDebts
<1>7. ASSUME NEW caller \in Principals, NEW next \in Status, NEW book \in HeldBooks,
             setStatus(caller, next, book)
      PROVE  Goal
    <2>1. UNCHANGED <<lineCommit, lineGeneration>>
        BY <1>7 DEF setStatus, terms
    <2>2. lineCommit'.outstanding = lineCommit.outstanding
        BY <2>1
    <2> QED
        BY <1>0, <1>7, <2>1, <2>2, StatusDebts
<1>8. ASSUME NEW caller \in Principals, NEW invoice \in Invoices, NEW amount \in Prices,
             NEW expiry \in Times, postQuote(caller, invoice, amount, expiry)
      PROVE  Goal
    BY <1>1, <1>8 DEF postQuote, terms
<1>9. ASSUME NEW agent \in Agents, NEW book \in HeldBooks, NEW Q \in DOMAIN quotes,
             NEW fee \in Uint64, draw(agent, book, Q, fee)
      PROVE  Goal
    <2>1. /\ opensLineCommit(identityCommit, book) /\ UNCHANGED lineGeneration
          /\ rotateBook(book, book.outstanding + (Q.amount + fee))
        BY <1>9 DEF draw, terms
    <2>2. lineCommit'.outstanding = lineCommit.outstanding + (Q.amount + fee)
        BY <2>1, OpenedBook, RotatedDebt
    <2>3. Q.amount \in Nat /\ fee \in Nat
        BY Bounds DEF TypeOK, QuotesOK, QuoteCommits
    <2> QED
        BY <1>0, <1>9, <2>1, <2>2, <2>3, DrawDebts
<1>10. ASSUME NEW D \in DOMAIN notes, NEW n \in NoteMeta, ClaimOK(n),
              notes' = [notes EXCEPT ![D] = n],
              debtShares(n) = debtShares(notes[D]),
              UNCHANGED <<terms, lineCommit, status, repaid>>
       PROVE  Goal
    <2>1. lineCommit'.outstanding = lineCommit.outstanding /\ UNCHANGED lineGeneration
        BY <1>10 DEF terms
    <2>2. DebtInv'
        BY <1>10, NeutralDebts
    <2> QED
        BY <1>0, <2>1, <2>2
<1>11. ASSUME NEW caller \in Principals, NEW D \in DOMAIN notes, redeemDraw(caller, D)
       PROVE  Goal
    <2>1. UNCHANGED <<terms, lineCommit, status, repaid>>
        BY <1>11 DEF redeemDraw
    <2> QED
        BY <1>10, <1>11, <2>1, RedeemedClaim
<1>12. ASSUME NEW D \in DOMAIN notes, expireNote(D)
       PROVE  Goal
    <2>1. UNCHANGED <<terms, lineCommit, status, repaid>>
        BY <1>12 DEF expireNote
    <2> QED
        BY <1>10, <1>12, <2>1, ExpiredClaim
<1>13. ASSUME NEW caller \in Principals, NEW D \in DOMAIN notes, NEW book \in HeldBooks,
              allocateCompensation(caller, D, book)
       PROVE  Goal
    <2>1. PICK refund \in Uint64 :
              /\ ~notes[D].compensationAllocated
              /\ notes' = [notes EXCEPT ![D] = allocatedNote(D, refund)]
              /\ UNCHANGED terms
        BY <1>13, AllocationTerms
    <2>2. D \in Allocated' /\ D \notin Allocated
        BY <2>1 DEF Allocated, allocatedNote, TypeOK, NotesOK
    <2>3. UNCHANGED lineGeneration
        BY <2>1 DEF terms
    <2> QED
        BY <1>13, <2>2, <2>3, AllocateDebts
<1>14. ASSUME NEW caller \in Principals, NEW D \in DOMAIN notes, NEW amount \in Uint64,
              NEW payRef \in Payments \cup {Empty}, NEW receiptExpiry \in Times,
              acknowledgeRefund(caller, D, amount, payRef, receiptExpiry)
       PROVE  Goal
    <2>1. /\ reportRefund(caller, D, amount, payRef, receiptExpiry)
          /\ UNCHANGED <<terms, lineCommit, status, repaid>>
        BY <1>14 DEF acknowledgeRefund
    <2> QED
        BY <1>10, <2>1, RefundedClaim
<1>15. ASSUME NEW caller \in Principals, NEW book \in HeldBooks, NEW amount \in Uint64,
              NEW payRef \in Payments \cup {Empty}, NEW receiptExpiry \in Times,
              acknowledgeRepayment(caller, book, amount, payRef, receiptExpiry)
       PROVE  Goal
    <2>1. UNCHANGED lineGeneration
        BY <1>15 DEF acknowledgeRepayment, terms
    <2> QED
        BY <1>15, <2>1, RepayDebts
<1> HIDE DEF Goal
<1>16. CASE Next
    BY <1>2, <1>3, <1>4, <1>5, <1>6, <1>7, <1>8, <1>9, <1>11, <1>12, <1>13, <1>14, <1>15,
       <1>16 DEF Next
<1> QED
    BY <1>2, <1>16

\* There is no debt before the first line.
LEMMA DebtsInitially == Init => DebtInv
<1> SUFFICES ASSUME Init PROVE DebtInv
    OBVIOUS
<1>1. DOMAIN notes = {}
    BY DEF Init
<1>2. Total(Owed) = 0 /\ Total(Uncompensated) = 0
    BY <1>1, TotalEmpty, Bounds DEF Total
<1> QED
    BY <1>2 DEF Init, DebtInv, lineStateCommit

\* A claim is either compensated, and then promised what it is owed for, or may
\* still be owed for in full: so the promises and the uncompensated claims share
\* no unit of what is owed.
LEMMA PromisesBesideDebts ==
    ASSUME TypeOK, ClaimsOK
    PROVE  Total(Promised) + Total(Uncompensated) <= Total(Owed)
<1> DEFINE P == Units(DOMAIN notes, Promised, MaxUint64)
           U == Units(DOMAIN notes, Uncompensated, MaxUint64)
           O == Units(DOMAIN notes, Owed, MaxUint64)
<1>1. IsFiniteSet(P) /\ IsFiniteSet(U) /\ IsFiniteSet(O)
    BY UnitsFinite, Bounds DEF TypeOK, NotesOK
<1>2. \A D \in DOMAIN notes :
        \/ Promised[D] = 0 /\ Uncompensated[D] <= Owed[D]
        \/ Uncompensated[D] = 0 /\ Promised[D] = Owed[D]
    <2>1. ASSUME NEW D \in DOMAIN notes
          PROVE  \/ Promised[D] = 0 /\ Uncompensated[D] <= Owed[D]
                 \/ Uncompensated[D] = 0 /\ Promised[D] = Owed[D]
        <3>1. cost(notes[D]) \in Nat
            BY NoteAmounts
        <3> QED
            BY <3>1 DEF Promised, Uncompensated, Owed, promisedBy, uncompensatedBy, owedFor
    <2> QED
        BY <2>1
<1>3. \A D \in DOMAIN notes :
        Owed[D] \in Nat /\ Promised[D] \in Nat /\ Uncompensated[D] \in Nat
    <2>1. ASSUME NEW D \in DOMAIN notes
          PROVE  /\ owedFor(notes[D]) \in Nat /\ promisedBy(notes[D]) \in Nat
                 /\ uncompensatedBy(notes[D]) \in Nat
        BY Shares, UncompensatedShare, Bounds DEF TypeOK, NotesOK, ClaimsOK
    <2> QED
        BY <2>1 DEF Owed, Promised, Uncompensated
<1>4. P \cap U = {}
    BY <1>2 DEF Units
<1>5. P \cup U \in SUBSET O
    <2>1. ASSUME NEW u \in DOMAIN notes, NEW k \in 1..MaxUint64,
                 k <= Promised[u] \/ k <= Uncompensated[u]
          PROVE  k <= Owed[u]
        BY <1>2, <1>3, <2>1
    <2> QED
        BY <2>1 DEF Units
<1> HIDE DEF P, U, O
<1>6. Cardinality(P \cup U) = Cardinality(P) + Cardinality(U)
    BY <1>1, <1>4, DisjointUnion
<1>7. Cardinality(P \cup U) <= Cardinality(O)
    BY <1>1, <1>5, FS_Subset
<1> QED
    BY <1>6, <1>7 DEF P, U, O, Total, TotalOf

\* The debts are invariant along every behaviour.
LEMMA DebtsInvariant == Spec => []DebtInv
<1>1. TypeOK /\ AccountingInv /\ DebtInv /\ [Next]_vars => DebtInv'
    BY DebtStep DEF AccountingInv
<1> QED
    BY <1>1, DebtsInitially, AccountsInvariant, TypeCorrect, PTL DEF Spec

\* The debt never exceeds the claims of its own line that were not compensated,
\* nor its limit.
THEOREM DebtsAreBacked == Spec => []DebtBackedByClaims
<1>1. DebtInv => DebtBackedByClaims
    BY DEF DebtInv, DebtBackedByClaims
<1> QED
    BY <1>1, DebtsInvariant, PTL

\* Across every generation, the debt and the repayments together are what the
\* claims cost less what was credited to the book, and the cash refunds promised
\* never exceed what was repaid.
THEOREM BorrowersAreConserved == Spec => []BorrowerConservation
<1>1. TypeOK /\ AccountingInv /\ DebtInv => BorrowerConservation
    <2> SUFFICES ASSUME TypeOK, AccountingInv, DebtInv PROVE BorrowerConservation
        OBVIOUS
    <2>1. /\ lineCommit.outstanding + repaid = Total(Owed)
          /\ lineCommit.outstanding <= Total(Uncompensated)
        BY DEF DebtInv
    <2>2. Total(Promised) + Total(Uncompensated) <= Total(Owed)
        BY PromisesBesideDebts DEF AccountingInv
    <2>3. /\ lineCommit.outstanding \in Nat /\ repaid \in Nat
          /\ Total(Promised) \in Nat /\ Total(Uncompensated) \in Nat
        BY BookNats, UnitsFinite, Bounds DEF TypeOK, NotesOK, Total
    <2> QED
        BY <2>1, <2>2, <2>3 DEF BorrowerConservation
<1> QED
    BY <1>1, DebtsInvariant, AccountsInvariant, TypeCorrect, PTL

\* A line with a debt is not reopened, and its debt only shrinks by a repayment or
\* by a compensation.
THEOREM DebtsAreNotForgiven == Spec => NoDebtForgiven
<1>1. TypeOK /\ AccountingInv /\ DebtInv /\ [Next]_vars =>
        [lineCommit.outstanding > 0 =>
            /\ lineGeneration' = lineGeneration
            /\ lineCommit'.outstanding < lineCommit.outstanding =>
                  repaid' > repaid \/ Allocated' # Allocated]_vars
    <2> SUFFICES ASSUME TypeOK, AccountingInv, DebtInv, [Next]_vars,
                        lineCommit.outstanding > 0
                 PROVE  /\ lineGeneration' = lineGeneration
                        /\ lineCommit'.outstanding < lineCommit.outstanding =>
                              repaid' > repaid \/ Allocated' # Allocated
        OBVIOUS
    <2>1. lineCommit.outstanding # 0
        BY BookNats
    <2> QED
        BY <2>1, DebtStep DEF AccountingInv
<1> QED
    BY <1>1, DebtsInvariant, AccountsInvariant, TypeCorrect, PTL DEF Spec, NoDebtForgiven

-----------------------------------------------------------------------------
(***************************************************************************)
(* What TLAPS proves about the history of the canonical facility: what     *)
(* happened once cannot happen again, and what a merchant or a payer was   *)
(* promised is not taken back, for every value of the constants.           *)
(***************************************************************************)

\* A draw is the only step that adds a claim or consumes a quote; the others keep
\* the set of claims and every claim's terms.
Draws == \E agent \in Agents, book \in HeldBooks, Q \in DOMAIN quotes, fee \in Uint64 :
            draw(agent, book, Q, fee)

SameTerms(n, m) ==
    /\ n.amount = m.amount /\ n.fee = m.fee /\ n.expiry = m.expiry
    /\ n.lineGeneration = m.lineGeneration

\* One claim moves, and keeps its terms.
ClaimMoves ==
    \E D \in DOMAIN notes, n \in NoteMeta :
        notes' = [notes EXCEPT ![D] = n] /\ SameTerms(n, notes[D])

\* The step of a claim keeps the claims and their terms.
LEMMA MovedTerms ==
    ASSUME TypeOK, ClaimMoves \/ UNCHANGED notes
    PROVE  /\ DOMAIN notes' = DOMAIN notes
           /\ \A D \in DOMAIN notes : SameTerms(notes'[D], notes[D])
BY DEF ClaimMoves, SameTerms, TypeOK, NotesOK

\* What a step does to the claims.
LEMMA ClaimSteps ==
    ASSUME TypeOK, ClaimsOK, [Next]_vars
    PROVE  Draws \/ ClaimMoves \/ UNCHANGED notes
<1> DEFINE Goal == Draws \/ ClaimMoves \/ UNCHANGED notes
<1> SUFFICES Goal
    OBVIOUS
<1>1. ASSUME NEW caller \in Principals, NEW a \in Deposits,
             \/ fundReserve(caller, a) \/ withdrawUnencumberedReserve(caller, a)
             \/ withdrawFees(caller)
      PROVE  Goal
    BY <1>1 DEF fundReserve, withdrawUnencumberedReserve, withdrawFees
<1>2. ASSUME NEW caller \in Principals, withdrawFees(caller)
      PROVE  Goal
    BY <1>2 DEF withdrawFees
<1>3. ASSUME NEW caller \in Principals, NEW D \in DOMAIN notes, redeemDraw(caller, D)
      PROVE  Goal
    <2> DEFINE n == [notes[D] EXCEPT !.redeemed = TRUE]
    <2>1. notes[D] \in NoteMeta
        BY DEF TypeOK, NotesOK
    <2>2. notes' = [notes EXCEPT ![D] = n]
        BY <1>3, <2>1 DEF redeemDraw
    <2>3. n \in NoteMeta /\ SameTerms(n, notes[D])
        BY <2>1 DEF NoteMeta, SameTerms
    <2> QED
        BY <2>2, <2>3 DEF ClaimMoves
<1>4. ASSUME NEW D \in DOMAIN notes, expireNote(D)
      PROVE  Goal
    <2> DEFINE n == [notes[D] EXCEPT !.cancelled = TRUE]
    <2>1. notes[D] \in NoteMeta
        BY DEF TypeOK, NotesOK
    <2>2. notes' = [notes EXCEPT ![D] = n]
        BY <1>4, <2>1 DEF expireNote
    <2>3. n \in NoteMeta /\ SameTerms(n, notes[D])
        BY <2>1 DEF NoteMeta, SameTerms
    <2> QED
        BY <2>2, <2>3 DEF ClaimMoves
<1>5. ASSUME NEW caller \in Principals, NEW D \in DOMAIN notes, NEW book \in HeldBooks,
             allocateCompensation(caller, D, book)
      PROVE  Goal
    <2>1. PICK refund \in Uint64 : notes' = [notes EXCEPT ![D] = allocatedNote(D, refund)]
        BY <1>5, AllocationTerms
    <2>2. allocatedNote(D, refund) \in NoteMeta
        BY AllocatedNoteType
    <2>3. SameTerms(allocatedNote(D, refund), notes[D])
        BY DEF allocatedNote, SameTerms
    <2> QED
        BY <2>1, <2>2, <2>3 DEF ClaimMoves
<1>6. ASSUME NEW caller \in Principals, NEW D \in DOMAIN notes, NEW amount \in Uint64,
             NEW payRef \in Payments \cup {Empty}, NEW receiptExpiry \in Times,
             acknowledgeRefund(caller, D, amount, payRef, receiptExpiry)
      PROVE  Goal
    <2> DEFINE n == acknowledgedNote(notes[D], paymentNullifier(payRef))
    <2>1. /\ notes' = [notes EXCEPT ![D] = n] /\ payRef \in Payments
          /\ notes[D].compensationAllocated
        BY <1>6 DEF acknowledgeRefund, reportRefund
    <2>2. n \in NoteMeta
        BY <2>1 DEF TypeOK, NotesOK, NoteMeta, ClaimsOK, ClaimOK, acknowledgedNote,
                    paymentNullifier
    <2>3. SameTerms(n, notes[D])
        BY DEF acknowledgedNote, SameTerms
    <2> QED
        BY <2>1, <2>2, <2>3 DEF ClaimMoves
<1> HIDE DEF Goal
<1>7. UNCHANGED <<counters, notes>> => Goal
    BY DEF Goal
<1>8. Draws => Goal
    BY DEF Goal
<1> QED
    BY <1>1, <1>2, <1>3, <1>4, <1>5, <1>6, <1>7, <1>8, StepCases DEF Draws

-----------------------------------------------------------------------------
(* The fee of a claim *)

\* Dividing up by the denominator of a basis-point rate.
LEMMA CeilOfRate ==
    ASSUME NEW N \in Nat, NEW v \in Nat, v > 0, (v - 1) * 10000 < N, N <= v * 10000
    PROVE  ceilDiv(N, 10000) = v
BY DEF ceilDiv

\* Nothing rounds up to nothing.
LEMMA CeilOfZero == ceilDiv(0, 10000) = 0
BY DEF ceilDiv

\* The fee proved without division is the quote's policy rounded up.
LEMMA FeeOfDraw ==
    ASSUME TypeOK, NEW agent \in Agents, NEW book \in HeldBooks, NEW Q \in DOMAIN quotes,
           NEW fee \in Uint64, draw(agent, book, Q, fee)
    PROVE  /\ Q.lineGeneration = lineGeneration
           /\ fee = Q.feeFlat + ceilDiv(Q.amount * Q.feeBps, 10000)
<1>1. quotePreimageHolds(Q) /\ quotes[Q].lineGeneration = lineGeneration
    BY DEF draw
<1>2. /\ Q.feeFlat = feeFlat /\ Q.feeBps = feeBps
      /\ Q.lineGeneration = quotes[Q].lineGeneration
    <2> DEFINE q == quoteCommit(Q.merchant, Q.invoice, Q.amount, quotes[Q].expiry,
                                quotes[Q].lineGeneration, feeFlat, feeBps)
    <2>1. /\ q.feeFlat = feeFlat /\ q.feeBps = feeBps
          /\ q.lineGeneration = quotes[Q].lineGeneration
        BY DEF quoteCommit
    <2> QED
        BY <1>1, <2>1 DEF quotePreimageHolds
<1>3. feePolicyHolds(Q.amount, fee)
    BY DEF draw
<1>4. Q.amount \in Nat /\ fee \in Nat /\ feeFlat \in Nat /\ feeBps \in Nat
    <2>1. Q \in QuoteCommits /\ feeFlat \in Uint64 /\ feeBps \in 0..10000
        BY DEF TypeOK, LineOK, QuotesOK
    <2>2. Q.amount \in Uint64
        BY <2>1 DEF QuoteCommits
    <2> QED
        BY <2>1, <2>2, Bounds
<1>5. CASE feeBps = 0
    <2>1. fee = feeFlat
        BY <1>3, <1>4, <1>5 DEF feePolicyHolds
    <2>2. Q.amount * Q.feeBps = 0
        BY <1>2, <1>4, <1>5
    <2> QED
        BY <1>1, <1>2, <1>4, <2>1, <2>2, CeilOfZero
<1>6. CASE feeBps # 0
    <2> DEFINE v == fee - feeFlat
               N == Q.amount * feeBps
    <2>1. v > 0 /\ (v - 1) * 10000 < N /\ N <= v * 10000
        BY <1>3, <1>6 DEF feePolicyHolds
    <2>2. N \in Nat
        BY <1>4
    <2> HIDE DEF N
    <2>3. v \in Nat
        BY <1>4, <2>1
    <2> HIDE DEF v
    <2>4. ceilDiv(N, 10000) = v
        BY <2>1, <2>2, <2>3, CeilOfRate
    <2>5. ceilDiv(Q.amount * Q.feeBps, 10000) = v
        BY <1>2, <2>4 DEF N
    <2> QED
        BY <1>1, <1>2, <1>4, <2>3, <2>5 DEF v
<1> QED
    BY <1>5, <1>6

\* The claim a draw adds, and what it leaves.
LEMMA DrawnNote ==
    ASSUME NEW agent, NEW book, NEW Q, NEW fee, draw(agent, book, Q, fee)
    PROVE  \E D : /\ D.quote = Q /\ D.lineGeneration = lineGeneration
                  /\ D \notin DOMAIN notes
                  /\ DOMAIN notes' = DOMAIN notes \cup {D}
                  /\ notes'[D] = freshNote(Q.amount, fee, quotes[Q].expiry)
                  /\ \A E \in DOMAIN notes : notes'[E] = notes[E]
                  /\ quotes' = Insert(quotes, Q, consumed(quotes[Q]))
<1> DEFINE D == drawNoteCommit(lineGeneration, agent, Q, Q.merchant, Q.amount, fee,
                               quotes[Q].expiry)
<1>1. D.quote = Q /\ D.lineGeneration = lineGeneration
    BY DEF drawNoteCommit
<1>2. /\ D \notin DOMAIN notes
      /\ notes' = Insert(notes, D, freshNote(Q.amount, fee, quotes[Q].expiry))
      /\ quotes' = Insert(quotes, Q, consumed(quotes[Q]))
    BY DEF draw
<1> HIDE DEF D
<1> QED
    BY <1>1, <1>2 DEF Insert

\* What the fee of a claim has to be.
Quoted(D, fee) ==
    /\ D.quote.lineGeneration = D.lineGeneration
    /\ fee = D.quote.feeFlat + ceilDiv(D.quote.amount * D.quote.feeBps, 10000)

\* FeeAsQuoted says so of every claim.
LEMMA QuotedIsAsQuoted == FeeAsQuoted <=> \A D \in DOMAIN notes : Quoted(D, notes[D].fee)
BY DEF FeeAsQuoted, Quoted

\* A draw adds a claim whose fee is as quoted.
LEMMA FeeAfterDraw ==
    ASSUME TypeOK, FeeAsQuoted, NEW agent \in Agents, NEW book \in HeldBooks,
           NEW Q \in DOMAIN quotes, NEW fee \in Uint64, draw(agent, book, Q, fee)
    PROVE  FeeAsQuoted'
<1>1. PICK D : /\ D.quote = Q /\ D.lineGeneration = lineGeneration
               /\ DOMAIN notes' = DOMAIN notes \cup {D}
               /\ notes'[D] = freshNote(Q.amount, fee, quotes[Q].expiry)
               /\ \A E \in DOMAIN notes : notes'[E] = notes[E]
    BY DrawnNote
<1>2. notes'[D].fee = fee
    BY <1>1 DEF freshNote
<1>3. Quoted(D, notes'[D].fee)
    BY <1>1, <1>2, FeeOfDraw DEF Quoted
<1>4. \A E \in DOMAIN notes : Quoted(E, notes'[E].fee)
    BY <1>1, QuotedIsAsQuoted
<1>5. \A E \in DOMAIN notes' : Quoted(E, notes'[E].fee)
    BY <1>1, <1>3, <1>4
<1> QED
    BY <1>5 DEF FeeAsQuoted, Quoted

\* The fee of every claim is the one its quote was made under.
THEOREM FeesAreQuoted == Spec => []FeeAsQuoted
<1>1. Init => FeeAsQuoted
    BY DEF Init, FeeAsQuoted
<1>2. TypeOK /\ AccountingInv /\ FeeAsQuoted /\ [Next]_vars => FeeAsQuoted'
    <2> SUFFICES ASSUME TypeOK, AccountingInv, FeeAsQuoted, [Next]_vars
                 PROVE  FeeAsQuoted'
        OBVIOUS
    <2>1. CASE ClaimMoves \/ UNCHANGED notes
        BY <2>1, MovedTerms DEF FeeAsQuoted, SameTerms
    <2>2. CASE Draws
        BY <2>2, FeeAfterDraw DEF Draws
    <2> QED
        BY <2>1, <2>2, ClaimSteps DEF AccountingInv
<1> QED
    BY <1>1, <1>2, TypeCorrect, AccountsInvariant, PTL DEF Spec

-----------------------------------------------------------------------------
(* A quote becomes one claim *)

\* Every claim keeps the quote it was drawn from on the ledger.
DrawnOnceInv ==
    /\ \A D \in DOMAIN notes : D.quote \in DOMAIN quotes
    /\ QuoteDrawnOnce

\* A new quote is used by no claim.
LEMMA PostedQuote ==
    ASSUME DrawnOnceInv, NEW caller, NEW invoice, NEW amount, NEW expiry,
           postQuote(caller, invoice, amount, expiry)
    PROVE  DrawnOnceInv'
<1>1. PICK Q, meta : /\ Q \notin DOMAIN quotes /\ meta.used = FALSE
                     /\ quotes' = Insert(quotes, Q, meta) /\ UNCHANGED notes
    <2> DEFINE Q == quoteCommit(caller, invoice, amount, expiry, lineGeneration,
                                feeFlat, feeBps)
               meta == [expiry |-> expiry, lineGeneration |-> lineGeneration,
                        used |-> FALSE]
    <2>1. /\ Q \notin DOMAIN quotes /\ quotes' = Insert(quotes, Q, meta)
          /\ UNCHANGED notes
        BY DEF postQuote
    <2>2. meta.used = FALSE
        OBVIOUS
    <2> HIDE DEF Q, meta
    <2> QED
        BY <2>1, <2>2
<1>2. /\ DOMAIN quotes' = DOMAIN quotes \cup {Q} /\ quotes'[Q] = meta
      /\ \A R \in DOMAIN quotes : quotes'[R] = quotes[R]
    BY <1>1 DEF Insert
<1>3. ~\E D \in DOMAIN notes : D.quote = Q
    BY <1>1 DEF DrawnOnceInv
<1> QED
    BY <1>1, <1>2, <1>3 DEF DrawnOnceInv, QuoteDrawnOnce

\* A draw consumes a quote no claim used, and adds its only claim.
LEMMA ConsumedQuote ==
    ASSUME TypeOK, DrawnOnceInv, NEW agent \in Agents, NEW book \in HeldBooks,
           NEW Q \in DOMAIN quotes, NEW fee \in Uint64, draw(agent, book, Q, fee)
    PROVE  DrawnOnceInv'
<1>1. PICK D : /\ D.quote = Q /\ D \notin DOMAIN notes
               /\ DOMAIN notes' = DOMAIN notes \cup {D}
               /\ quotes' = Insert(quotes, Q, consumed(quotes[Q]))
    BY DrawnNote
<1>2. /\ DOMAIN quotes' = DOMAIN quotes /\ quotes'[Q].used
      /\ \A R \in DOMAIN quotes \ {Q} : quotes'[R] = quotes[R]
    <2>1. consumed(quotes[Q]).used
        BY DEF consumed, TypeOK, QuotesOK, QuoteMeta
    <2> QED
        BY <1>1, <2>1 DEF Insert
<1>3. \A E \in DOMAIN notes : E.quote # Q
    <2>1. ~quotes[Q].used
        BY DEF draw
    <2> QED
        BY <2>1 DEF DrawnOnceInv, QuoteDrawnOnce
<1>4. \A R \in DOMAIN quotes' :
        /\ quotes'[R].used <=> \E E \in DOMAIN notes' : E.quote = R
        /\ \A D1, D2 \in DOMAIN notes' : D1.quote = R /\ D2.quote = R => D1 = D2
    <2>1. ASSUME NEW R \in DOMAIN quotes, R # Q
          PROVE  /\ quotes'[R].used <=> \E E \in DOMAIN notes' : E.quote = R
                 /\ \A D1, D2 \in DOMAIN notes' :
                        D1.quote = R /\ D2.quote = R => D1 = D2
        BY <1>1, <1>2, <2>1 DEF DrawnOnceInv, QuoteDrawnOnce
    <2> QED
        BY <1>1, <1>2, <1>3, <2>1
<1> QED
    BY <1>1, <1>2, <1>4 DEF DrawnOnceInv, QuoteDrawnOnce

\* Only postQuote and draw touch the quotes.
LEMMA QuoteSteps ==
    ASSUME [Next]_vars
    PROVE  \/ UNCHANGED quotes
           \/ Draws
           \/ \E caller \in Principals, invoice \in Invoices, amount \in Prices,
                 expiry \in Times : postQuote(caller, invoice, amount, expiry)
<1>1. CASE UNCHANGED vars \/ Tick
    BY <1>1 DEF vars, Tick
<1>2. ASSUME NEW caller, NEW m, registerMerchant(caller, m) \/ disableMerchant(caller, m)
      PROVE  UNCHANGED quotes
    BY <1>2 DEF registerMerchant, disableMerchant
<1>3. ASSUME NEW caller, NEW a, fundReserve(caller, a) \/ withdrawUnencumberedReserve(caller, a)
      PROVE  UNCHANGED quotes
    BY <1>3 DEF fundReserve, withdrawUnencumberedReserve
<1>4. ASSUME NEW caller, withdrawFees(caller) PROVE UNCHANGED quotes
    BY <1>4 DEF withdrawFees
<1>5. ASSUME NEW caller, NEW agent, NEW limit, NEW expiry, NEW flat, NEW bps,
             openLine(caller, agent, limit, expiry, flat, bps)
      PROVE  UNCHANGED quotes
    BY <1>5 DEF openLine
<1>6. ASSUME NEW caller, NEW next, NEW book, setStatus(caller, next, book)
      PROVE  UNCHANGED quotes
    BY <1>6 DEF setStatus
<1>7. ASSUME NEW caller, NEW D, redeemDraw(caller, D) PROVE UNCHANGED quotes
    BY <1>7 DEF redeemDraw
<1>8. ASSUME NEW D, expireNote(D) PROVE UNCHANGED quotes
    BY <1>8 DEF expireNote
<1>9. ASSUME NEW caller, NEW D, NEW book, allocateCompensation(caller, D, book)
      PROVE  UNCHANGED quotes
    BY <1>9 DEF allocateCompensation
<1>10. ASSUME NEW caller, NEW D, NEW amount, NEW payRef, NEW receiptExpiry,
              acknowledgeRefund(caller, D, amount, payRef, receiptExpiry)
       PROVE  UNCHANGED quotes
    BY <1>10 DEF acknowledgeRefund
<1>11. ASSUME NEW caller, NEW book, NEW amount, NEW payRef, NEW receiptExpiry,
              acknowledgeRepayment(caller, book, amount, payRef, receiptExpiry)
       PROVE  UNCHANGED quotes
    BY <1>11 DEF acknowledgeRepayment
<1>12. CASE Next
    BY <1>1, <1>2, <1>3, <1>4, <1>5, <1>6, <1>7, <1>8, <1>9, <1>10, <1>11, <1>12
       DEF Next, Draws
<1> QED
    BY <1>1, <1>12

\* A quote is consumed exactly when it became a claim, and becomes only one.
THEOREM QuotesAreDrawnOnce == Spec => []QuoteDrawnOnce
<1>1. Init => DrawnOnceInv
    BY DEF Init, DrawnOnceInv, QuoteDrawnOnce
<1>2. TypeOK /\ AccountingInv /\ DrawnOnceInv /\ [Next]_vars => DrawnOnceInv'
    <2> SUFFICES ASSUME TypeOK, AccountingInv, DrawnOnceInv, [Next]_vars
                 PROVE  DrawnOnceInv'
        OBVIOUS
    <2>1. CASE Draws
        BY <2>1, ConsumedQuote DEF Draws
    <2>2. ASSUME NEW caller, NEW invoice, NEW amount, NEW expiry,
                 postQuote(caller, invoice, amount, expiry)
          PROVE  DrawnOnceInv'
        BY <2>2, PostedQuote
    <2>3. CASE UNCHANGED quotes /\ (ClaimMoves \/ UNCHANGED notes)
        BY <2>3, MovedTerms DEF DrawnOnceInv, QuoteDrawnOnce
    <2> QED
        BY <2>1, <2>2, <2>3, QuoteSteps, ClaimSteps DEF AccountingInv
<1>3. DrawnOnceInv => QuoteDrawnOnce
    BY DEF DrawnOnceInv
<1> QED
    BY <1>1, <1>2, <1>3, TypeCorrect, AccountsInvariant, PTL DEF Spec

-----------------------------------------------------------------------------
(* A payment reference authorizes one effect *)

\* Every credit spent the nullifier of its payment.
PaymentInv ==
    /\ \A N \in nullifiers : N.kind = "repay" => paymentNullifier(N.ref) \in nullifiers
    /\ \A D \in Refunded : notes[D].refundPaymentNullifier \in nullifiers
    /\ PaymentUsedOnce

\* The effects of a reference are its repayments and its refund reports.
LEMMA EffectsOf ==
    ASSUME NEW payRef
    PROVE  /\ \A x \in paymentEffects(payRef) :
                \/ x \in nullifiers /\ x.kind = "repay" /\ x.ref = payRef
                \/ \E D \in Refunded : /\ x = [kind |-> "refund", note |-> D]
                                       /\ notes[D].refundPaymentNullifier
                                             = paymentNullifier(payRef)
           /\ PaymentInv /\ paymentNullifier(payRef) \notin nullifiers
                => paymentEffects(payRef) = {}
<1>1. \A x \in paymentEffects(payRef) :
        \/ x \in nullifiers /\ x.kind = "repay" /\ x.ref = payRef
        \/ \E D \in Refunded : /\ x = [kind |-> "refund", note |-> D]
                               /\ notes[D].refundPaymentNullifier
                                     = paymentNullifier(payRef)
    BY DEF paymentEffects, paymentNullifier
<1>2. ASSUME PaymentInv, paymentNullifier(payRef) \notin nullifiers
      PROVE  paymentEffects(payRef) = {}
    BY <1>1, <1>2 DEF PaymentInv
<1> QED
    BY <1>1, <1>2

\* Nullifiers of other kinds, and claims that are not reported refunded, change no
\* effect.
LEMMA SameEffects ==
    ASSUME PaymentInv, nullifiers \subseteq nullifiers',
           \A N \in nullifiers' \ nullifiers : N.kind \in {"draw", "redeem"},
           Refunded' = Refunded,
           \A D \in Refunded :
              notes'[D].refundPaymentNullifier = notes[D].refundPaymentNullifier
    PROVE  PaymentInv'
<1>1. \A payRef : paymentEffects(payRef)' = paymentEffects(payRef)
    BY DEF paymentEffects
<1>2. PaymentUsedOnce'
    BY <1>1 DEF PaymentInv, PaymentUsedOnce
<1> QED
    BY <1>2 DEF PaymentInv, paymentNullifier

\* A repayment is the only effect of its reference.
LEMMA RepaidOnce ==
    ASSUME PaymentInv, NEW caller, NEW book, NEW amount, NEW payRef, NEW receiptExpiry,
           acknowledgeRepayment(caller, book, amount, payRef, receiptExpiry)
    PROVE  PaymentInv'
<1> DEFINE P == paymentNullifier(payRef)
           N == repayNullifier(lineCommit, amount, payRef)
<1>1. /\ P \notin nullifiers /\ nullifiers' = nullifiers \cup {P, N} /\ UNCHANGED notes
    BY DEF acknowledgeRepayment, creditRepayment
<1>2. /\ P.kind = "payment" /\ N.kind = "repay" /\ N.ref = payRef
    BY DEF paymentNullifier, repayNullifier
<1>3. Refunded' = Refunded
    BY <1>1 DEF Refunded
<1>4. paymentEffects(payRef) = {}
    BY <1>1, EffectsOf
<1> HIDE DEF P, N
<1>5. \A r : r # payRef => paymentEffects(r)' = paymentEffects(r)
    BY <1>1, <1>2, <1>3 DEF paymentEffects
<1>6. paymentEffects(payRef)' = {N}
    BY <1>1, <1>2, <1>3, <1>4 DEF paymentEffects
<1>7. PaymentUsedOnce'
    BY <1>5, <1>6 DEF PaymentInv, PaymentUsedOnce
<1>8. \A M \in nullifiers' : M.kind = "repay" => paymentNullifier(M.ref) \in nullifiers'
    BY <1>1, <1>2 DEF PaymentInv, P
<1>9. \A D \in Refunded' : notes'[D].refundPaymentNullifier \in nullifiers'
    BY <1>1, <1>3 DEF PaymentInv
<1>10. (\A M \in nullifiers : M.kind = "repay" => paymentNullifier(M.ref) \in nullifiers)'
    BY <1>8 DEF paymentNullifier
<1> QED
    BY <1>7, <1>9, <1>10 DEF PaymentInv

\* A reported refund is the only effect of its reference.
LEMMA RefundedOnce ==
    ASSUME TypeOK, PaymentInv, NEW caller, NEW D \in DOMAIN notes, NEW amount, NEW payRef,
           NEW receiptExpiry, acknowledgeRefund(caller, D, amount, payRef, receiptExpiry)
    PROVE  PaymentInv'
<1> DEFINE P == paymentNullifier(payRef)
<1>1. /\ P \notin nullifiers /\ nullifiers' = nullifiers \cup {P}
      /\ notes' = [notes EXCEPT ![D] = acknowledgedNote(notes[D], P)]
      /\ ~notes[D].refundAcknowledged
    BY DEF acknowledgeRefund, reportRefund
<1>2. P.kind = "payment" /\ P = [kind |-> "payment", ref |-> payRef]
    BY DEF paymentNullifier
<1>3. /\ Refunded' = Refunded \cup {D} /\ D \notin Refunded
      /\ notes'[D].refundPaymentNullifier = P
      /\ \A E \in Refunded : notes'[E] = notes[E]
    BY <1>1 DEF Refunded, acknowledgedNote, TypeOK, NotesOK
<1>4. paymentEffects(payRef) = {}
    BY <1>1, EffectsOf
<1>5. \A r : r # payRef => [kind |-> "payment", ref |-> r] # P
    BY <1>2
<1> HIDE DEF P
<1>6. \A r : r # payRef => paymentEffects(r)' = paymentEffects(r)
    BY <1>1, <1>2, <1>3, <1>5 DEF paymentEffects
<1>7. paymentEffects(payRef)' = {[kind |-> "refund", note |-> D]}
    BY <1>1, <1>2, <1>3, <1>4 DEF paymentEffects
<1>8. PaymentUsedOnce'
    BY <1>6, <1>7 DEF PaymentInv, PaymentUsedOnce
<1>9. (\A M \in nullifiers : M.kind = "repay" => paymentNullifier(M.ref) \in nullifiers)'
    BY <1>1, <1>2 DEF PaymentInv, paymentNullifier
<1>10. (\A E \in Refunded : notes[E].refundPaymentNullifier \in nullifiers)'
    BY <1>1, <1>3 DEF PaymentInv
<1> QED
    BY <1>8, <1>9, <1>10 DEF PaymentInv

\* A draw spends a draw nullifier and reports no refund.
LEMMA DrawnEffects ==
    ASSUME PaymentInv, NEW agent, NEW book, NEW Q, NEW fee, draw(agent, book, Q, fee)
    PROVE  PaymentInv'
<1>1. PICK D : /\ D \notin DOMAIN notes
               /\ DOMAIN notes' = DOMAIN notes \cup {D}
               /\ notes'[D] = freshNote(Q.amount, fee, quotes[Q].expiry)
               /\ \A E \in DOMAIN notes : notes'[E] = notes[E]
    BY DrawnNote
<1>2. ~notes'[D].refundAcknowledged
    BY <1>1 DEF freshNote
<1>3. Refunded' = Refunded
    BY <1>1, <1>2 DEF Refunded
<1>4. nullifiers' = nullifiers \cup {drawNullifier(agent, Q)}
    BY DEF draw
<1>5. drawNullifier(agent, Q).kind = "draw"
    BY DEF drawNullifier
<1>6. \A E \in Refunded : notes'[E].refundPaymentNullifier = notes[E].refundPaymentNullifier
    BY <1>1 DEF Refunded
<1> QED
    BY <1>3, <1>4, <1>5, <1>6, SameEffects

\* Every other call spends at most a redeem nullifier and reports no refund.
LEMMA PaymentStep ==
    ASSUME TypeOK, ClaimsOK, PaymentInv, [Next]_vars
    PROVE  PaymentInv'
<1> DEFINE Quiet == /\ nullifiers \subseteq nullifiers'
                    /\ \A N \in nullifiers' \ nullifiers : N.kind \in {"draw", "redeem"}
                    /\ Refunded' = Refunded
                    /\ \A D \in Refunded : notes'[D].refundPaymentNullifier
                                               = notes[D].refundPaymentNullifier
<1>1. Quiet => PaymentInv'
    BY SameEffects
<1>2. UNCHANGED <<notes, nullifiers>> => Quiet
    BY DEF Refunded
<1> HIDE DEF Quiet
<1>3. CASE UNCHANGED vars \/ Tick
    BY <1>1, <1>2, <1>3 DEF vars, Tick
<1>4. ASSUME NEW caller, NEW m, registerMerchant(caller, m) \/ disableMerchant(caller, m)
      PROVE  PaymentInv'
    BY <1>1, <1>2, <1>4 DEF registerMerchant, disableMerchant
<1>5. ASSUME NEW caller, NEW a, fundReserve(caller, a) \/ withdrawUnencumberedReserve(caller, a)
      PROVE  PaymentInv'
    BY <1>1, <1>2, <1>5 DEF fundReserve, withdrawUnencumberedReserve
<1>6. ASSUME NEW caller, withdrawFees(caller) PROVE PaymentInv'
    BY <1>1, <1>2, <1>6 DEF withdrawFees
<1>7. ASSUME NEW caller, NEW agent, NEW limit, NEW expiry, NEW flat, NEW bps,
             openLine(caller, agent, limit, expiry, flat, bps)
      PROVE  PaymentInv'
    BY <1>1, <1>2, <1>7 DEF openLine
<1>8. ASSUME NEW caller, NEW next, NEW book, setStatus(caller, next, book)
      PROVE  PaymentInv'
    BY <1>1, <1>2, <1>8 DEF setStatus
<1>9. ASSUME NEW caller, NEW invoice, NEW amount, NEW expiry,
             postQuote(caller, invoice, amount, expiry)
      PROVE  PaymentInv'
    BY <1>1, <1>2, <1>9 DEF postQuote
<1>10. ASSUME NEW agent, NEW book, NEW Q, NEW fee, draw(agent, book, Q, fee)
       PROVE  PaymentInv'
    BY <1>10, DrawnEffects
<1>11. ASSUME NEW caller, NEW D \in DOMAIN notes, redeemDraw(caller, D)
       PROVE  PaymentInv'
    <2>1. /\ nullifiers' = nullifiers \cup {redeemNullifier(caller, D)}
          /\ notes' = [notes EXCEPT ![D].redeemed = TRUE]
        BY <1>11 DEF redeemDraw
    <2>2. redeemNullifier(caller, D).kind = "redeem"
        BY DEF redeemNullifier
    <2>3. \A E \in DOMAIN notes :
            /\ notes'[E].refundAcknowledged = notes[E].refundAcknowledged
            /\ notes'[E].refundPaymentNullifier = notes[E].refundPaymentNullifier
        BY <2>1 DEF TypeOK, NotesOK, NoteMeta
    <2>4. Refunded' = Refunded
        BY <2>1, <2>3 DEF Refunded
    <2>5. Quiet
        BY <2>1, <2>2, <2>3, <2>4 DEF Quiet, Refunded
    <2> QED
        BY <1>1, <2>5
<1>12. ASSUME NEW D \in DOMAIN notes, expireNote(D)
       PROVE  PaymentInv'
    <2>1. notes' = [notes EXCEPT ![D].cancelled = TRUE] /\ UNCHANGED nullifiers
        BY <1>12 DEF expireNote
    <2>2. \A E \in DOMAIN notes :
            /\ notes'[E].refundAcknowledged = notes[E].refundAcknowledged
            /\ notes'[E].refundPaymentNullifier = notes[E].refundPaymentNullifier
        BY <2>1 DEF TypeOK, NotesOK, NoteMeta
    <2>3. Refunded' = Refunded
        BY <2>1, <2>2 DEF Refunded
    <2>4. Quiet
        BY <2>1, <2>2, <2>3 DEF Quiet, Refunded
    <2> QED
        BY <1>1, <2>4
<1>13. ASSUME NEW caller \in Principals, NEW D \in DOMAIN notes,
              NEW book \in HeldBooks, allocateCompensation(caller, D, book)
       PROVE  PaymentInv'
    <2>1. PICK refund \in Uint64 : /\ notes' = [notes EXCEPT ![D] = allocatedNote(D, refund)]
                                   /\ ~notes[D].compensationAllocated
        BY <1>13, AllocationTerms
    <2>2. UNCHANGED nullifiers
        BY <1>13 DEF allocateCompensation
    <2>3. ~notes[D].refundAcknowledged
        BY <2>1 DEF ClaimsOK, ClaimOK
    <2>4. /\ ~allocatedNote(D, refund).refundAcknowledged
          /\ \A E \in DOMAIN notes \ {D} : notes'[E] = notes[E]
          /\ notes'[D] = allocatedNote(D, refund) /\ DOMAIN notes' = DOMAIN notes
        BY <2>1 DEF allocatedNote, TypeOK, NotesOK
    <2>5. Refunded' = Refunded
        BY <2>3, <2>4 DEF Refunded
    <2>6. \A E \in Refunded : notes'[E] = notes[E]
        BY <2>3, <2>4 DEF Refunded
    <2>7. Quiet
        BY <2>2, <2>5, <2>6 DEF Quiet
    <2> QED
        BY <1>1, <2>7
<1>14. CASE Next
    BY <1>3, <1>4, <1>5, <1>6, <1>7, <1>8, <1>9, <1>10, <1>11, <1>12, <1>13, <1>14,
       RepaidOnce, RefundedOnce DEF Next
<1> QED
    BY <1>3, <1>14

\* One payment reference authorizes one repayment or one refund report, in any
\* generation.
THEOREM PaymentsAreUsedOnce == Spec => []PaymentUsedOnce
<1>1. Init => PaymentInv
    BY DEF Init, PaymentInv, Refunded, PaymentUsedOnce, paymentEffects
<1>2. TypeOK /\ AccountingInv /\ PaymentInv /\ [Next]_vars => PaymentInv'
    BY PaymentStep DEF AccountingInv
<1>3. PaymentInv => PaymentUsedOnce
    BY DEF PaymentInv
<1> QED
    BY <1>1, <1>2, <1>3, TypeCorrect, AccountsInvariant, PTL DEF Spec

-----------------------------------------------------------------------------
(* A merchant's claim *)

\* Before a claim expires, only its redemption ends it.
LEMMA LiveClaimStep ==
    ASSUME TypeOK, ClaimsOK, [Next]_vars, NEW D \in Live, blockTime < notes[D].expiry
    PROVE  D \in DOMAIN notes' /\ (live(notes'[D]) \/ notes'[D].redeemed)
<1> DEFINE Goal == D \in DOMAIN notes' /\ (live(notes'[D]) \/ notes'[D].redeemed)
<1> SUFFICES Goal
    OBVIOUS
<1>0. D \in DOMAIN notes /\ live(notes[D]) /\ ~notes[D].redeemed /\ ~notes[D].cancelled
    BY DEF Live, live
<1>1. ~noteExpired(notes[D])
    <2>1. notes[D].expiry \in Nat /\ blockTime \in Nat
        BY <1>0, Bounds DEF TypeOK, NotesOK, NoteMeta
    <2> QED
        BY <2>1 DEF noteExpired, blockTimeGte
<1>2. (D \in DOMAIN notes' /\ notes'[D] = notes[D]) => Goal
    BY <1>0
<1>3. ASSUME NEW caller \in Principals, NEW E \in DOMAIN notes, redeemDraw(caller, E)
      PROVE  Goal
    <2>1. notes' = [notes EXCEPT ![E].redeemed = TRUE]
        BY <1>3 DEF redeemDraw
    <2>2. CASE E = D
        BY <1>0, <2>1, <2>2 DEF TypeOK, NotesOK, NoteMeta
    <2>3. CASE E # D
        BY <1>0, <1>2, <2>1, <2>3 DEF TypeOK, NotesOK
    <2> QED
        BY <2>2, <2>3
<1>4. ASSUME NEW E \in DOMAIN notes, NEW n, E # D, notes' = [notes EXCEPT ![E] = n]
      PROVE  Goal
    BY <1>0, <1>2, <1>4 DEF TypeOK, NotesOK
<1>5. ASSUME NEW E \in DOMAIN notes, expireNote(E)
      PROVE  Goal
    <2>1. E # D
        BY <1>1, <1>5 DEF expireNote
    <2>2. notes' = [notes EXCEPT ![E].cancelled = TRUE]
        BY <1>5 DEF expireNote
    <2> QED
        BY <1>0, <1>2, <2>1, <2>2 DEF TypeOK, NotesOK
<1>6. ASSUME NEW caller \in Principals, NEW E \in DOMAIN notes, NEW book \in HeldBooks,
             allocateCompensation(caller, E, book)
      PROVE  Goal
    <2>1. PICK refund \in Uint64 :
              /\ notes' = [notes EXCEPT ![E] = allocatedNote(E, refund)]
              /\ moveToRefund(notes[E], IF refund > 0 THEN 0 ELSE cost(notes[E]))
        BY <1>6, AllocationTerms
    <2>2. E # D
        BY <1>0, <1>1, <2>1 DEF moveToRefund
    <2> QED
        BY <1>4, <2>1, <2>2
<1>7. ASSUME NEW caller \in Principals, NEW E \in DOMAIN notes, NEW amount \in Uint64,
             NEW payRef \in Payments \cup {Empty}, NEW receiptExpiry \in Times,
             acknowledgeRefund(caller, E, amount, payRef, receiptExpiry)
      PROVE  Goal
    <2>1. /\ notes[E].cancelled
          /\ notes' = [notes EXCEPT ![E] = acknowledgedNote(notes[E], paymentNullifier(payRef))]
        BY <1>7 DEF acknowledgeRefund, reportRefund
    <2>2. E # D
        BY <1>0, <2>1
    <2> QED
        BY <1>4, <2>1, <2>2
<1>8. ASSUME NEW agent \in Agents, NEW book \in HeldBooks, NEW Q \in DOMAIN quotes,
             NEW fee \in Uint64, draw(agent, book, Q, fee)
      PROVE  Goal
    <2>1. PICK E : /\ DOMAIN notes' = DOMAIN notes \cup {E}
                   /\ \A F \in DOMAIN notes : notes'[F] = notes[F]
        BY <1>8, DrawnNote
    <2> QED
        BY <1>0, <1>2, <2>1
<1>9. ASSUME NEW caller \in Principals, NEW a \in Deposits,
             fundReserve(caller, a) \/ withdrawUnencumberedReserve(caller, a)
      PROVE  Goal
    BY <1>0, <1>2, <1>9 DEF fundReserve, withdrawUnencumberedReserve
<1>10. ASSUME NEW caller \in Principals, withdrawFees(caller)
       PROVE  Goal
    BY <1>0, <1>2, <1>10 DEF withdrawFees
<1>11. CASE UNCHANGED <<counters, notes>>
    BY <1>0, <1>2, <1>11
<1> HIDE DEF Goal
<1> QED
    BY <1>3, <1>5, <1>6, <1>7, <1>8, <1>9, <1>10, <1>11, StepCases

\* No step takes an unexpired claim from its merchant.
THEOREM ClaimsSurvive == Spec => ClaimSurvives
<1>1. TypeOK /\ AccountingInv /\ [Next]_vars =>
        [\A D \in Live :
           blockTime < notes[D].expiry =>
              /\ D \in DOMAIN notes'
              /\ live(notes[D])' \/ notes'[D].redeemed]_vars
    <2> SUFFICES ASSUME TypeOK, AccountingInv, [Next]_vars,
                        NEW D \in Live, blockTime < notes[D].expiry
                 PROVE  /\ D \in DOMAIN notes'
                        /\ live(notes[D])' \/ notes'[D].redeemed
        OBVIOUS
    <2>1. D \in DOMAIN notes' /\ (live(notes'[D]) \/ notes'[D].redeemed)
        BY LiveClaimStep DEF AccountingInv
    <2> QED
        BY <2>1 DEF live
<1> QED
    BY <1>1, TypeCorrect, AccountsInvariant, PTL DEF Spec, ClaimSurvives

-----------------------------------------------------------------------------
(* A claim is never stuck *)

\* The guards of a redemption by the claim's merchant and its casts, which are
\* what the ledger must satisfy for the call to succeed.
redemptionOpen(D) ==
    LET n == notes[D]
    IN  /\ live(n)
        /\ blockTimeLt(n.expiry)
        /\ opensNoteAs(D, D.merchant)
        /\ redeemNullifier(D.merchant, D) \notin nullifiers
        /\ encumberedReserve - n.amount \in Uint64
        /\ redeemedReserve + n.amount \in Uint64
        /\ pendingFeeReserve - n.fee \in Uint64
        /\ feeReserve + n.fee \in Uint64

\* The ledger it leaves: the new value of every field.
redemptionWrites(D) ==
    /\ nullifiers' = nullifiers \cup {redeemNullifier(D.merchant, D)}
    /\ notes' = [notes EXCEPT ![D].redeemed = TRUE]
    /\ encumberedReserve' = encumberedReserve - notes[D].amount
    /\ redeemedReserve' = redeemedReserve + notes[D].amount
    /\ pendingFeeReserve' = pendingFeeReserve - notes[D].fee
    /\ feeReserve' = feeReserve + notes[D].fee
    /\ UNCHANGED <<totalReserve, refundReserve, reportedRefundReserve, registeredMerchants,
                   terms, lineCommit, status, quotes, blockTime, repaid>>

\* The same of an expiry.
expiryOpen(D) ==
    LET n == notes[D]
    IN  /\ live(n)
        /\ noteExpired(n)
        /\ cost(n) \in Uint64
        /\ encumberedReserve - n.amount \in Uint64
        /\ pendingFeeReserve - n.fee \in Uint64
        /\ refundReserve + cost(n) \in Uint64

expiryWrites(D) ==
    /\ notes' = [notes EXCEPT ![D].cancelled = TRUE]
    /\ encumberedReserve' = encumberedReserve - notes[D].amount
    /\ pendingFeeReserve' = pendingFeeReserve - notes[D].fee
    /\ refundReserve' = refundReserve + cost(notes[D])
    /\ UNCHANGED <<totalReserve, redeemedReserve, feeReserve, reportedRefundReserve,
                   registeredMerchants, terms, lineCommit, status, quotes, nullifiers,
                   blockTime, repaid>>

\* Before its expiry a live claim can be redeemed, and then it can be expired.
ClaimsOpen ==
    \A D \in Live : IF blockTime < notes[D].expiry THEN redemptionOpen(D) ELSE expiryOpen(D)

\* A redemption is its guards and its writes, one new value for each field: it is
\* enabled exactly when redemptionOpen holds.
LEMMA RedemptionIsItsGuards ==
    ASSUME CountersOK, NEW D
    PROVE  redeemDraw(D.merchant, D) <=> redemptionOpen(D) /\ redemptionWrites(D)
<1>1. redeemDraw(D.merchant, D) => redemptionOpen(D) /\ redemptionWrites(D)
    BY DEF redeemDraw, redemptionOpen, redemptionWrites, castsHold, CountersOK, live
<1>2. redemptionOpen(D) /\ redemptionWrites(D) => redeemDraw(D.merchant, D)
    BY DEF redeemDraw, redemptionOpen, redemptionWrites, castsHold, CountersOK, live
<1> QED
    BY <1>1, <1>2

\* So is an expiry.
LEMMA ExpiryIsItsGuards ==
    ASSUME CountersOK, NEW D
    PROVE  expireNote(D) <=> expiryOpen(D) /\ expiryWrites(D)
<1>1. expireNote(D) => expiryOpen(D) /\ expiryWrites(D)
    BY DEF expireNote, expiryOpen, expiryWrites, castsHold, CountersOK, live
<1>2. expiryOpen(D) /\ expiryWrites(D) => expireNote(D)
    BY DEF expireNote, expiryOpen, expiryWrites, castsHold, CountersOK, live
<1> QED
    BY <1>1, <1>2

\* The note on the ledger still says what its commitment binds, and the redeem
\* nullifier of a claim is only ever spent by the claim's own redemption: two claims
\* share none, and a claim that is drawn later finds its own unspent.
OpeningInv ==
    /\ \A D \in DOMAIN notes : opensNoteAs(D, D.merchant)
    /\ \A D \in NoteCommits : redeemNullifier(D.merchant, D) \in nullifiers =>
          D \in DOMAIN notes /\ notes[D].redeemed

\* What was redeemed stays redeemed.
LEMMA RedemptionIsFinal ==
    ASSUME TypeOK, [Next]_vars, NEW D \in DOMAIN notes, notes[D].redeemed
    PROVE  D \in DOMAIN notes' /\ notes'[D].redeemed
<1> DEFINE Goal == D \in DOMAIN notes' /\ notes'[D].redeemed
<1>1. (D \in DOMAIN notes' /\ notes'[D] = notes[D]) => Goal
    OBVIOUS
<1>2. ASSUME NEW E \in DOMAIN notes, NEW n, notes' = [notes EXCEPT ![E] = n],
             ~notes[E].redeemed
      PROVE  Goal
    <2>1. E # D
        BY <1>2
    <2>2. D \in DOMAIN notes' /\ notes'[D] = notes[D]
        BY <1>2, <2>1 DEF TypeOK, NotesOK
    <2> QED
        BY <1>1, <2>2
<1>3. UNCHANGED notes => Goal
    OBVIOUS
<1> HIDE DEF Goal
<1>4. ASSUME NEW caller, NEW a,
             fundReserve(caller, a) \/ withdrawUnencumberedReserve(caller, a)
      PROVE  Goal
    BY <1>3, <1>4 DEF fundReserve, withdrawUnencumberedReserve
<1>5. ASSUME NEW caller, withdrawFees(caller)
      PROVE  Goal
    BY <1>3, <1>5 DEF withdrawFees
<1>6. ASSUME NEW agent, NEW book, NEW Q, NEW fee, draw(agent, book, Q, fee)
      PROVE  Goal
    <2>1. PICK E : /\ DOMAIN notes' = DOMAIN notes \cup {E}
                   /\ \A F \in DOMAIN notes : notes'[F] = notes[F]
        BY <1>6, DrawnNote
    <2> QED
        BY <1>1, <2>1
<1>7. ASSUME NEW caller, NEW E \in DOMAIN notes, redeemDraw(caller, E)
      PROVE  Goal
    BY <1>2, <1>7 DEF redeemDraw
<1>8. ASSUME NEW E \in DOMAIN notes, expireNote(E)
      PROVE  Goal
    BY <1>2, <1>8 DEF expireNote
<1>9. ASSUME NEW caller, NEW E \in DOMAIN notes, NEW book,
             allocateCompensation(caller, E, book)
      PROVE  Goal
    BY <1>2, <1>9 DEF allocateCompensation
<1>10. ASSUME NEW caller, NEW E \in DOMAIN notes, NEW amount, NEW payRef, NEW receiptExpiry,
              acknowledgeRefund(caller, E, amount, payRef, receiptExpiry)
       PROVE  Goal
    BY <1>2, <1>10 DEF acknowledgeRefund, reportRefund
<1>11. UNCHANGED <<counters, notes>> => Goal
    BY <1>3
<1> QED
    BY <1>4, <1>5, <1>6, <1>7, <1>8, <1>9, <1>10, <1>11, StepCases DEF Goal

\* Only a redemption spends a redeem nullifier.
LEMMA NullifierSteps ==
    ASSUME [Next]_vars
    PROVE  \/ \E caller \in Principals, D \in DOMAIN notes : redeemDraw(caller, D)
           \/ \A N \in nullifiers' \ nullifiers : N.kind # "redeem"
<1> DEFINE Others == \A N \in nullifiers' \ nullifiers : N.kind # "redeem"
<1>1. UNCHANGED nullifiers => Others
    OBVIOUS
<1>2. ASSUME NEW agent, NEW book, NEW Q, NEW fee, draw(agent, book, Q, fee)
      PROVE  Others
    BY <1>2 DEF draw, drawNullifier
<1>3. ASSUME NEW caller, NEW D, NEW amount, NEW payRef, NEW receiptExpiry,
             acknowledgeRefund(caller, D, amount, payRef, receiptExpiry)
      PROVE  Others
    BY <1>3 DEF acknowledgeRefund, reportRefund, paymentNullifier
<1>4. ASSUME NEW caller, NEW book, NEW amount, NEW payRef, NEW receiptExpiry,
             acknowledgeRepayment(caller, book, amount, payRef, receiptExpiry)
      PROVE  Others
    BY <1>4 DEF acknowledgeRepayment, creditRepayment, paymentNullifier, repayNullifier
<1> HIDE DEF Others
<1>5. CASE UNCHANGED vars \/ Tick
    BY <1>1, <1>5 DEF vars, Tick, Others
<1>6. ASSUME NEW caller, NEW m, registerMerchant(caller, m) \/ disableMerchant(caller, m)
      PROVE  Others
    BY <1>1, <1>6 DEF registerMerchant, disableMerchant
<1>7. ASSUME NEW caller, NEW a, fundReserve(caller, a) \/ withdrawUnencumberedReserve(caller, a)
      PROVE  Others
    BY <1>1, <1>7 DEF fundReserve, withdrawUnencumberedReserve
<1>8. ASSUME NEW caller, withdrawFees(caller) PROVE Others
    BY <1>1, <1>8 DEF withdrawFees
<1>9. ASSUME NEW caller, NEW agent, NEW limit, NEW expiry, NEW flat, NEW bps,
             openLine(caller, agent, limit, expiry, flat, bps)
      PROVE  Others
    BY <1>1, <1>9 DEF openLine
<1>10. ASSUME NEW caller, NEW next, NEW book, setStatus(caller, next, book)
       PROVE  Others
    BY <1>1, <1>10 DEF setStatus
<1>11. ASSUME NEW caller, NEW invoice, NEW amount, NEW expiry,
              postQuote(caller, invoice, amount, expiry)
       PROVE  Others
    BY <1>1, <1>11 DEF postQuote
<1>12. ASSUME NEW D, expireNote(D) PROVE Others
    BY <1>1, <1>12 DEF expireNote
<1>13. ASSUME NEW caller, NEW D, NEW book, allocateCompensation(caller, D, book)
       PROVE  Others
    BY <1>1, <1>13 DEF allocateCompensation
<1>14. CASE Next
    BY <1>2, <1>3, <1>4, <1>5, <1>6, <1>7, <1>8, <1>9, <1>10, <1>11, <1>12, <1>13, <1>14
       DEF Next, Others
<1> QED
    BY <1>5, <1>14 DEF Others

\* A step that draws nothing keeps the openings, when the redeem nullifiers it
\* spends are those of the claims it redeems.
LEMMA OpeningKept ==
    ASSUME OpeningInv, DOMAIN notes' = DOMAIN notes,
           \A D \in DOMAIN notes : /\ SameTerms(notes'[D], notes[D])
                                   /\ notes[D].redeemed => notes'[D].redeemed,
           \A N \in nullifiers' \ nullifiers : N.kind = "redeem" =>
              \E D \in DOMAIN notes : /\ N = redeemNullifier(D.merchant, D)
                                      /\ notes'[D].redeemed
    PROVE  OpeningInv'
<1>1. \A D \in DOMAIN notes' : opensNoteAs(D, D.merchant)'
    BY DEF OpeningInv, opensNoteAs, drawNoteCommit, SameTerms
<1>2. ASSUME NEW D \in NoteCommits, redeemNullifier(D.merchant, D) \in nullifiers'
      PROVE  D \in DOMAIN notes' /\ notes'[D].redeemed
    <2> DEFINE N == redeemNullifier(D.merchant, D)
    <2>1. N.kind = "redeem" /\ N.note = D
        BY DEF redeemNullifier
    <2>2. \A E : redeemNullifier(E.merchant, E).note = E
        BY DEF redeemNullifier
    <2>3. CASE N \in nullifiers
        BY <2>3 DEF OpeningInv
    <2>4. CASE N \notin nullifiers
        <3>1. PICK E \in DOMAIN notes : /\ N = redeemNullifier(E.merchant, E)
                                        /\ notes'[E].redeemed
            BY <1>2, <2>1, <2>4
        <3>2. E = D
            BY <2>1, <2>2, <3>1
        <3> QED
            BY <3>1, <3>2
    <2> QED
        BY <2>3, <2>4
<1>3. (\A D \in NoteCommits : redeemNullifier(D.merchant, D) \in nullifiers =>
          D \in DOMAIN notes /\ notes[D].redeemed)'
    BY <1>2 DEF redeemNullifier
<1>4. (\A D \in DOMAIN notes : opensNoteAs(D, D.merchant))'
    BY <1>1
<1> QED
    BY <1>3, <1>4 DEF OpeningInv

\* A draw adds a claim that its note opens, and whose redeem nullifier is unspent.
LEMMA OpeningDrawn ==
    ASSUME TypeOK, OpeningInv, NEW agent, NEW book, NEW Q \in DOMAIN quotes, NEW fee,
           draw(agent, book, Q, fee)
    PROVE  OpeningInv'
<1>1. PICK D, n : /\ D \notin DOMAIN notes /\ notes' = Insert(notes, D, n)
                  /\ D = drawNoteCommit(n.lineGeneration, D.identity, D.quote, D.merchant,
                                        n.amount, n.fee, D.expiry)
    <2> DEFINE D == drawNoteCommit(lineGeneration, agent, Q, Q.merchant, Q.amount, fee,
                                   quotes[Q].expiry)
               n == freshNote(Q.amount, fee, quotes[Q].expiry)
    <2>1. D \notin DOMAIN notes /\ notes' = Insert(notes, D, n)
        BY DEF draw
    <2>2. D = drawNoteCommit(n.lineGeneration, D.identity, D.quote, D.merchant,
                             n.amount, n.fee, D.expiry)
        BY DEF drawNoteCommit, freshNote
    <2> HIDE DEF D, n
    <2> QED
        BY <2>1, <2>2
<1>2. nullifiers' = nullifiers \cup {drawNullifier(agent, Q)}
    BY DEF draw
<1>3. /\ DOMAIN notes' = DOMAIN notes \cup {D} /\ notes'[D] = n
      /\ \A x \in DOMAIN notes : notes'[x] = notes[x]
    BY <1>1 DEF Insert
<1>4. \A x \in DOMAIN notes : opensNoteAs(x, x.merchant)'
    BY <1>3 DEF OpeningInv, opensNoteAs
<1>5. opensNoteAs(D, D.merchant)'
    BY <1>1, <1>3 DEF opensNoteAs
<1>6. (\A x \in DOMAIN notes : opensNoteAs(x, x.merchant))'
    BY <1>3, <1>4, <1>5
<1>7. ASSUME NEW x \in NoteCommits, redeemNullifier(x.merchant, x) \in nullifiers'
      PROVE  x \in DOMAIN notes' /\ notes'[x].redeemed
    <2>1. redeemNullifier(x.merchant, x).kind = "redeem" /\ drawNullifier(agent, Q).kind = "draw"
        BY DEF redeemNullifier, drawNullifier
    <2>2. redeemNullifier(x.merchant, x) \in nullifiers
        BY <1>2, <1>7, <2>1
    <2> QED
        BY <1>3, <2>2 DEF OpeningInv
<1>8. (\A x \in NoteCommits : redeemNullifier(x.merchant, x) \in nullifiers =>
          x \in DOMAIN notes /\ notes[x].redeemed)'
    BY <1>7 DEF redeemNullifier
<1> QED
    BY <1>6, <1>8 DEF OpeningInv

\* A redemption spends the nullifier of the claim it redeems.
LEMMA OpeningRedeemed ==
    ASSUME TypeOK, NEW caller, NEW D \in DOMAIN notes, redeemDraw(caller, D)
    PROVE  /\ notes'[D].redeemed
           /\ nullifiers' \ nullifiers \subseteq {redeemNullifier(D.merchant, D)}
<1>1. D.merchant = caller
    BY DEF redeemDraw, opensNoteAs, drawNoteCommit
<1>2. notes' = [notes EXCEPT ![D].redeemed = TRUE]
    BY DEF redeemDraw
<1>3. notes'[D].redeemed
    BY <1>2 DEF TypeOK, NotesOK, NoteMeta
<1> QED
    BY <1>1, <1>3 DEF redeemDraw

\* Every step keeps the openings.
LEMMA OpeningStep ==
    ASSUME TypeOK, ClaimsOK, OpeningInv, [Next]_vars
    PROVE  OpeningInv'
<1>1. CASE Draws
    BY <1>1, OpeningDrawn DEF Draws
<1>2. CASE ClaimMoves \/ UNCHANGED notes
    <2>1. /\ DOMAIN notes' = DOMAIN notes
          /\ \A D \in DOMAIN notes : SameTerms(notes'[D], notes[D])
        BY <1>2, MovedTerms
    <2>2. \A D \in DOMAIN notes : notes[D].redeemed => notes'[D].redeemed
        BY RedemptionIsFinal
    <2>3. ASSUME NEW caller \in Principals, NEW D \in DOMAIN notes, redeemDraw(caller, D)
          PROVE  OpeningInv'
        BY <2>1, <2>2, <2>3, OpeningRedeemed, OpeningKept
    <2>4. CASE \A N \in nullifiers' \ nullifiers : N.kind # "redeem"
        BY <2>1, <2>2, <2>4, OpeningKept
    <2> QED
        BY <2>3, <2>4, NullifierSteps
<1> QED
    BY <1>1, <1>2, ClaimSteps

LEMMA OpeningInvariant == Spec => []OpeningInv
<1>1. Init => OpeningInv
    BY DEF Init, OpeningInv
<1>2. TypeOK /\ AccountingInv /\ OpeningInv /\ [Next]_vars => OpeningInv'
    BY OpeningStep DEF AccountingInv
<1> QED
    BY <1>1, <1>2, TypeCorrect, AccountsInvariant, PTL DEF Spec

\* What one claim keeps is within its budget.
LEMMA ShareOfTotal ==
    ASSUME TypeOK, NEW D \in DOMAIN notes, NEW f, NEW v \in Uint64, f[D] = v
    PROVE  v <= Total(f)
<1> DEFINE S == DOMAIN notes
           R == S \ {D}
<1>1. IsFiniteSet(S) /\ MaxUint64 \in Nat
    BY Bounds DEF TypeOK, NotesOK
<1>2. IsFiniteSet(R) /\ D \notin R /\ S = R \cup {D}
    BY <1>1, FS_RemoveElement
<1> HIDE DEF R
<1>3. TotalOf(R, f, MaxUint64) \in Nat
    BY <1>1, <1>2, UnitsFinite
<1>4. TotalOf(R \cup {D}, f, MaxUint64) = TotalOf(R, f, MaxUint64) + v
    BY <1>1, <1>2, TotalAdd DEF Uint64
<1> QED
    BY <1>1, <1>2, <1>3, <1>4 DEF Total, Uint64

\* A live claim whose note opens, and which its two budgets hold, is open.
LEMMA LiveIsOpen ==
    ASSUME TypeOK, ClaimsOK, ReserveSolvent, OpeningInv, NEW D \in Live,
           encumberedReserve = Total(Encumbered), pendingFeeReserve = Total(PendingFees)
    PROVE  IF blockTime < notes[D].expiry THEN redemptionOpen(D) ELSE expiryOpen(D)
<1>1. /\ D \in DOMAIN notes /\ D \in NoteCommits /\ live(notes[D]) /\ ~notes[D].redeemed
      /\ cost(notes[D]) \in Uint64 /\ notes[D].amount \in Uint64 /\ notes[D].fee \in Uint64
      /\ notes[D].expiry \in Nat /\ blockTime \in Nat
    BY Bounds DEF Live, live, TypeOK, NotesOK, NoteMeta, ClaimsOK, ClaimOK
<1>2. /\ notes[D].amount \in Nat /\ notes[D].fee \in Nat
      /\ cost(notes[D]) = notes[D].amount + notes[D].fee
    BY <1>1, NoteAmounts
<1>3. notes[D].amount <= encumberedReserve
    <2>1. Encumbered[D] = notes[D].amount
        BY <1>1 DEF Encumbered, encumberedBy
    <2> QED
        BY <1>1, <2>1, ShareOfTotal
<1>4. notes[D].fee <= pendingFeeReserve
    <2>1. PendingFees[D] = notes[D].fee
        BY <1>1 DEF PendingFees, pendingFeeOf
    <2> QED
        BY <1>1, <2>1, ShareOfTotal
<1>5. CountersOK /\ totalReserve \in 0..MaxUint64 /\ locked <= totalReserve
    BY Bounds DEF TypeOK, CountersOK, ReserveSolvent
<1>6. /\ encumberedReserve - notes[D].amount \in Uint64
      /\ redeemedReserve + notes[D].amount \in Uint64
      /\ pendingFeeReserve - notes[D].fee \in Uint64
      /\ feeReserve + notes[D].fee \in Uint64
      /\ refundReserve + cost(notes[D]) \in Uint64
    <2>1. encumberedReserve - notes[D].amount \in Uint64
        BY <1>2, <1>3, <1>5, CounterNats, Bounds DEF CountersOK
    <2>2. pendingFeeReserve - notes[D].fee \in Uint64
        BY <1>2, <1>4, <1>5, CounterNats, Bounds DEF CountersOK
    <2>0. /\ encumberedReserve + redeemedReserve + feeReserve + pendingFeeReserve
                + refundReserve + reportedRefundReserve <= MaxUint64
          /\ encumberedReserve \in Nat /\ redeemedReserve \in Nat /\ feeReserve \in Nat
          /\ pendingFeeReserve \in Nat /\ refundReserve \in Nat
          /\ reportedRefundReserve \in Nat /\ MaxUint64 \in Nat
        BY <1>5, CounterNats, Bounds DEF locked
    <2>3. redeemedReserve + notes[D].amount <= MaxUint64
        BY <1>2, <1>3, <2>0
    <2>4. feeReserve + notes[D].fee <= MaxUint64
        BY <1>2, <1>4, <2>0
    <2>5. refundReserve + cost(notes[D]) <= MaxUint64
        BY <1>2, <1>3, <1>4, <2>0
    <2>6. \A x \in Nat : x <= MaxUint64 => x \in Uint64
        BY Bounds
    <2> QED
        BY <1>2, <1>5, <2>1, <2>2, <2>3, <2>4, <2>5, <2>6, CounterNats
<1>7. opensNoteAs(D, D.merchant) /\ redeemNullifier(D.merchant, D) \notin nullifiers
    BY <1>1 DEF OpeningInv
<1>8. CASE blockTime < notes[D].expiry
    BY <1>1, <1>6, <1>7, <1>8 DEF redemptionOpen, blockTimeLt
<1>9. CASE ~(blockTime < notes[D].expiry)
    <2>1. noteExpired(notes[D])
        BY <1>1, <1>9 DEF noteExpired, blockTimeGte
    <2> QED
        BY <1>1, <1>6, <1>9, <2>1 DEF expiryOpen
<1> QED
    BY <1>8, <1>9

\* No claim is ever stuck: until it expires its merchant can redeem it, and then
\* anyone can expire it, whatever happened to the other claims.
THEOREM ClaimsAreOpen == Spec => []ClaimsOpen
<1>1. TypeOK /\ AccountingInv /\ ReserveSolvent /\ OpeningInv => ClaimsOpen
    BY LiveIsOpen DEF AccountingInv, ReserveAccounting, ClaimsOpen
<1> QED
    BY <1>1, TypeCorrect, AccountsInvariant, Solvency, OpeningInvariant, PTL DEF Spec

-----------------------------------------------------------------------------
(***************************************************************************)
(* The canonical facility implements the escrow of ClaimEscrow, for every  *)
(* value of the constants: its counters and note flags back every claim    *)
(* with exactly what that claim may still need.                            *)
(***************************************************************************)

-----------------------------------------------------------------------------
(* What the escrow holds *)

\* What a claim holds is the sum of what it keeps in the five budgets.
holdOf(n) == encumberedBy(n) + pendingFeeOf(n) + redeemedBy(n) + refundLockOf(n)
               + reportedLockOf(n)
Holds == [D \in DOMAIN notes |-> holdOf(notes[D])]
BudgetTotals == Total(Encumbered) + Total(PendingFees) + Total(RedeemedAmounts)
                  + Total(RefundLocks) + Total(ReportedLocks)

\* The states of a claim exclude each other and cover all its flags.
LEMMA ClaimStates ==
    ASSUME NEW n \in NoteMeta, ClaimOK(n)
    PROVE  /\ n.redeemed => claimState(n) = "paid"
           /\ live(n) => claimState(n) = "live"
           /\ n.cancelled /\ ~n.compensationAllocated => claimState(n) = "expired"
           /\ n.compensationAllocated /\ ~n.cashRefundOwed => claimState(n) = "released"
           /\ n.cashRefundOwed /\ ~n.refundAcknowledged => claimState(n) = "owed"
           /\ n.refundAcknowledged => claimState(n) = "settled"
BY DEF ClaimOK, claimState, live

\* The escrow's hold of a claim.
LEMMA HoldOfClaim ==
    ASSUME NEW n \in NoteMeta, ClaimOK(n)
    PROVE  /\ Escrow!hold([principal |-> n.amount, fee |-> n.fee, state |-> claimState(n)])
                = holdOf(n)
           /\ holdOf(n) \in 0..MaxUint64
<1> DEFINE c == [principal |-> n.amount, fee |-> n.fee, state |-> claimState(n)]
<1>1. /\ n.amount \in Nat /\ n.fee \in Nat /\ cost(n) = n.amount + n.fee
      /\ cost(n) \in 0..MaxUint64 /\ n.amount \in 0..MaxUint64
      /\ n.redeemed \in BOOLEAN /\ n.cancelled \in BOOLEAN
      /\ n.compensationAllocated \in BOOLEAN /\ n.cashRefundOwed \in BOOLEAN
      /\ n.refundAcknowledged \in BOOLEAN
    BY Bounds DEF NoteMeta, ClaimOK, cost, Uint64
<1>2. c.principal = n.amount /\ c.fee = n.fee /\ c.state = claimState(n)
    OBVIOUS
<1> HIDE DEF c
<1>3. CASE n.redeemed
    <2>1. /\ ~n.cancelled /\ ~n.compensationAllocated /\ ~n.cashRefundOwed
          /\ ~n.refundAcknowledged /\ c.state = "paid"
        BY <1>2, <1>3, ClaimStates DEF ClaimOK
    <2>2. Escrow!hold(c) = n.amount
        BY <1>2, <2>1 DEF Escrow!hold
    <2>3. holdOf(n) = n.amount
        BY <1>1, <1>3, <2>1 DEF holdOf, encumberedBy, pendingFeeOf, redeemedBy, refundLockOf,
           reportedLockOf, live, awaitingRefund
    <2> QED
        BY <1>1, <2>2, <2>3 DEF c
<1>4. CASE live(n)
    <2>1. /\ ~n.redeemed /\ ~n.cancelled /\ ~n.compensationAllocated /\ ~n.cashRefundOwed
          /\ ~n.refundAcknowledged /\ c.state = "live"
        BY <1>2, <1>4, ClaimStates DEF ClaimOK, live
    <2>2. Escrow!hold(c) = n.amount + n.fee
        BY <1>2, <2>1 DEF Escrow!hold
    <2>3. holdOf(n) = n.amount + n.fee
        BY <1>1, <1>4, <2>1 DEF holdOf, encumberedBy, pendingFeeOf, redeemedBy, refundLockOf,
           reportedLockOf, awaitingRefund
    <2> QED
        BY <1>1, <2>2, <2>3 DEF c
<1>5. CASE n.cancelled /\ (n.compensationAllocated => n.cashRefundOwed)
    <2>1. ~n.redeemed /\ ~live(n) /\ c.state \in {"expired", "owed", "settled"}
        BY <1>1, <1>2, <1>5, ClaimStates DEF ClaimOK, live
    <2>2. Escrow!hold(c) = n.amount + n.fee
        BY <1>2, <2>1 DEF Escrow!hold
    <2>3. CASE n.refundAcknowledged
        <3>1. ~awaitingRefund(n)
            BY <2>3 DEF ClaimOK, awaitingRefund
        <3>2. holdOf(n) = n.amount + n.fee
            BY <1>1, <2>1, <2>3, <3>1 DEF holdOf, encumberedBy, pendingFeeOf, redeemedBy,
               refundLockOf, reportedLockOf
        <3> QED
            BY <1>1, <2>2, <3>2 DEF c
    <2>4. CASE ~n.refundAcknowledged
        <3>1. awaitingRefund(n)
            BY <1>5, <2>4 DEF awaitingRefund
        <3>2. holdOf(n) = n.amount + n.fee
            BY <1>1, <2>1, <2>4, <3>1 DEF holdOf, encumberedBy, pendingFeeOf, redeemedBy,
               refundLockOf, reportedLockOf
        <3> QED
            BY <1>1, <2>2, <3>2 DEF c
    <2> QED
        BY <1>1, <2>3, <2>4
<1>6. CASE n.compensationAllocated /\ ~n.cashRefundOwed
    <2>1. /\ ~n.redeemed /\ ~live(n) /\ ~awaitingRefund(n) /\ ~n.refundAcknowledged
          /\ c.state = "released"
        BY <1>2, <1>6, ClaimStates DEF ClaimOK, live, awaitingRefund
    <2>2. Escrow!hold(c) = 0
        BY <1>2, <2>1 DEF Escrow!hold
    <2>3. holdOf(n) = 0
        BY <1>1, <2>1 DEF holdOf, encumberedBy, pendingFeeOf, redeemedBy, refundLockOf,
           reportedLockOf
    <2> QED
        BY <2>2, <2>3, Bounds DEF c
<1>7. n.redeemed \/ live(n) \/ n.cancelled
    BY DEF live
<1> QED
    BY <1>3, <1>4, <1>5, <1>6, <1>7

\* The escrow counts as the facility does.
LEMMA CountedAlike == \A S : Escrow!Cardinality(S) = Cardinality(S)
BY DEF Escrow!Cardinality, Cardinality

\* The escrow holds the sum of the holds, and the fees earned.
LEMMA HeldOfClaims ==
    ASSUME TypeOK, ClaimsOK
    PROVE  Escrow!Held = Total(Holds) + feeReserve
<1> DEFINE escrowHolds == [c \in DOMAIN claimsOf |-> Escrow!hold(claimsOf[c])]
<1>1. DOMAIN claimsOf = DOMAIN notes
    BY DEF claimsOf
<1>2. \A D \in DOMAIN notes : escrowHolds[D] = Holds[D]
    <2>1. ASSUME NEW D \in DOMAIN notes
          PROVE  escrowHolds[D] = Holds[D]
        <3>1. notes[D] \in NoteMeta /\ ClaimOK(notes[D])
            BY DEF TypeOK, NotesOK, ClaimsOK
        <3>2. claimsOf[D] = [principal |-> notes[D].amount, fee |-> notes[D].fee,
                             state |-> claimState(notes[D])]
            BY DEF claimsOf
        <3> QED
            BY <1>1, <3>1, <3>2, HoldOfClaim DEF Holds
    <2> QED
        BY <2>1
<1> HIDE DEF escrowHolds
<1>3. MaxUint64 \in Nat
    BY Bounds
<1>4. TotalOf(DOMAIN notes, escrowHolds, MaxUint64) = TotalOf(DOMAIN notes, Holds, MaxUint64)
    BY <1>2, <1>3, TotalSame
<1>5. Escrow!TotalOf(DOMAIN claimsOf, escrowHolds, MaxUint64)
        = TotalOf(DOMAIN notes, escrowHolds, MaxUint64)
    BY <1>1, CountedAlike DEF Escrow!TotalOf, Escrow!Units, TotalOf, Units
<1>6. Escrow!Held = Escrow!TotalOf(DOMAIN claimsOf, escrowHolds, MaxUint64) + feeReserve
    BY DEF Escrow!Held, escrowHolds
<1>7. Total(Holds) = TotalOf(DOMAIN notes, Holds, MaxUint64)
    BY DEF Total
<1> QED
    BY <1>4, <1>5, <1>6, <1>7

\* The holds and the budgets are the same sum.
HeldInv == Total(Holds) = BudgetTotals

\* A new claim adds its hold to the escrow and to the budgets alike.
LEMMA HoldsAdded ==
    ASSUME TypeOK, HeldInv, NEW D, D \notin DOMAIN notes, NEW n \in NoteMeta, ClaimOK(n),
           notes' = Insert(notes, D, n)
    PROVE  HeldInv'
<1> DEFINE S == DOMAIN notes
<1>1. IsFiniteSet(S) /\ MaxUint64 \in Nat
    BY Bounds DEF TypeOK, NotesOK
<1>2. /\ DOMAIN notes' = S \cup {D} /\ notes'[D] = n
      /\ \A x \in S : notes'[x] = notes[x]
    BY DEF Insert
<1>3. holdOf(n) \in 0..MaxUint64
    BY HoldOfClaim
<1>4. Total(Holds)' = Total(Holds) + holdOf(n)
    BY <1>1, <1>2, <1>3, TotalInserted DEF Total, Holds
<1>5. /\ encumberedBy(n) \in Nat /\ pendingFeeOf(n) \in Nat /\ redeemedBy(n) \in Nat
      /\ refundLockOf(n) \in Nat /\ reportedLockOf(n) \in Nat
    BY Shares, Bounds
<1>6. BudgetTotals' = BudgetTotals + holdOf(n)
    BY <1>5, BudgetsAdded, TotalNats DEF BudgetTotals, holdOf
<1> QED
    BY <1>4, <1>6 DEF HeldInv

\* A claim that moves changes both by the same difference.
LEMMA HoldsMoved ==
    ASSUME TypeOK, ClaimsOK, HeldInv, NEW D \in DOMAIN notes, NEW n \in NoteMeta, ClaimOK(n),
           notes' = [notes EXCEPT ![D] = n]
    PROVE  HeldInv'
<1> DEFINE S == DOMAIN notes
<1>1. IsFiniteSet(S) /\ MaxUint64 \in Nat /\ notes[D] \in NoteMeta /\ ClaimOK(notes[D])
    BY Bounds DEF TypeOK, NotesOK, ClaimsOK
<1>2. /\ DOMAIN notes' = S /\ notes'[D] = n
      /\ \A x \in S \ {D} : notes'[x] = notes[x]
    BY DEF TypeOK, NotesOK
<1>3. holdOf(n) \in 0..MaxUint64 /\ holdOf(notes[D]) \in 0..MaxUint64
    BY <1>1, HoldOfClaim
<1>4. Total(Holds)' = Total(Holds) - holdOf(notes[D]) + holdOf(n)
    BY <1>3, <1>1, <1>2, TotalUpdate DEF Total, Holds
<1>5. /\ encumberedBy(n) \in Nat /\ pendingFeeOf(n) \in Nat /\ redeemedBy(n) \in Nat
      /\ refundLockOf(n) \in Nat /\ reportedLockOf(n) \in Nat
    BY Shares, Bounds
<1>6. /\ encumberedBy(notes[D]) \in Nat /\ pendingFeeOf(notes[D]) \in Nat
      /\ redeemedBy(notes[D]) \in Nat /\ refundLockOf(notes[D]) \in Nat
      /\ reportedLockOf(notes[D]) \in Nat
    BY <1>1, Shares, Bounds
<1>7. /\ Total(Encumbered)' = Total(Encumbered) - encumberedBy(notes[D]) + encumberedBy(n)
      /\ Total(PendingFees)' = Total(PendingFees) - pendingFeeOf(notes[D]) + pendingFeeOf(n)
      /\ Total(RedeemedAmounts)' = Total(RedeemedAmounts) - redeemedBy(notes[D]) + redeemedBy(n)
      /\ Total(RefundLocks)' = Total(RefundLocks) - refundLockOf(notes[D]) + refundLockOf(n)
      /\ Total(ReportedLocks)' = Total(ReportedLocks) - reportedLockOf(notes[D]) + reportedLockOf(n)
    BY BudgetsMoved
<1>8. BudgetTotals' = BudgetTotals - holdOf(notes[D]) + holdOf(n)
    BY <1>5, <1>6, <1>7, TotalNats DEF BudgetTotals, holdOf
<1> QED
    BY <1>4, <1>8 DEF HeldInv

\* The two sums stay equal along every behaviour.
LEMMA HoldsInvariant == Spec => []HeldInv
<1>1. Init => HeldInv
    <2> SUFFICES ASSUME Init PROVE HeldInv
        OBVIOUS
    <2>1. DOMAIN notes = {}
        BY DEF Init
    <2> QED
        BY <2>1, TotalEmpty, Bounds DEF Total, HeldInv, BudgetTotals
<1>2. TypeOK /\ AccountingInv /\ AccountingInv' /\ TypeOK' /\ HeldInv /\ [Next]_vars => HeldInv'
    <2> SUFFICES ASSUME TypeOK, AccountingInv, AccountingInv', TypeOK', HeldInv, [Next]_vars
                 PROVE  HeldInv'
        OBVIOUS
    <2>1. CASE UNCHANGED notes
        <3>1. Total(Holds)' = Total(Holds)
            BY <2>1 DEF Total, Holds
        <3> QED
            BY <2>1, <3>1, SameTotals DEF HeldInv, BudgetTotals
    <2>2. CASE ClaimMoves
        <3>1. PICK D \in DOMAIN notes, n \in NoteMeta : notes' = [notes EXCEPT ![D] = n]
            BY <2>2 DEF ClaimMoves
        <3>2. D \in DOMAIN notes' /\ notes'[D] = n
            BY <3>1 DEF TypeOK, NotesOK
        <3>3. ClaimOK(n)
            BY <3>2 DEF AccountingInv, ClaimsOK, ClaimOK, cost
        <3> QED
            BY <3>1, <3>3, HoldsMoved DEF AccountingInv
    <2>3. ASSUME NEW agent \in Agents, NEW book \in HeldBooks, NEW Q \in DOMAIN quotes,
                 NEW fee \in Uint64, draw(agent, book, Q, fee)
          PROVE  HeldInv'
        <3>1. \E D \in NoteCommits, n \in NoteMeta :
                /\ D \notin DOMAIN notes /\ notes' = Insert(notes, D, n) /\ ClaimOK(n)
            BY <2>3, DrawnClaim DEF AccountingInv
        <3> QED
            BY <3>1, HoldsAdded
    <2> QED
        BY <2>1, <2>2, <2>3, ClaimSteps DEF AccountingInv, Draws
<1> QED
    BY <1>1, <1>2, TypeCorrect, AccountsInvariant, PTL DEF Spec

\* So the escrow holds exactly what the reserve locks.
LEMMA HeldIsLocked ==
    ASSUME TypeOK, AccountingInv, HeldInv
    PROVE  Escrow!Held = locked
<1>1. Escrow!Held = Total(Holds) + feeReserve
    BY HeldOfClaims DEF AccountingInv
<1>2. Total(Holds) = encumberedReserve + pendingFeeReserve + redeemedReserve + refundReserve
                       + reportedRefundReserve
    BY DEF HeldInv, BudgetTotals, AccountingInv, ReserveAccounting
<1>3. /\ encumberedReserve \in Nat /\ pendingFeeReserve \in Nat /\ redeemedReserve \in Nat
      /\ refundReserve \in Nat /\ reportedRefundReserve \in Nat /\ feeReserve \in Nat
    BY Bounds DEF TypeOK, CountersOK
<1> QED
    BY <1>1, <1>2, <1>3 DEF locked

-----------------------------------------------------------------------------
(* Every step of the facility is a step of the escrow *)

\* A claim that moves and keeps its terms changes state in the escrow, and
\* nothing else does.
LEMMA EscrowMove ==
    ASSUME TypeOK, NEW D \in DOMAIN notes, NEW n \in NoteMeta,
           notes' = [notes EXCEPT ![D] = n], SameTerms(n, notes[D])
    PROVE  /\ D \in DOMAIN claimsOf
           /\ claimsOf[D].state = claimState(notes[D]) /\ claimsOf[D].fee = notes[D].fee
           /\ claimsOf' = [claimsOf EXCEPT ![D].state = claimState(n)]
<1> DEFINE entry(m) == [principal |-> m.amount, fee |-> m.fee, state |-> claimState(m)]
<1>1. claimsOf = [E \in DOMAIN notes |-> entry(notes[E])]
    BY DEF claimsOf
<1>2. claimsOf' = [E \in DOMAIN notes' |-> entry(notes'[E])]
    BY DEF claimsOf, claimState, live
<1>3. entry(n) = [entry(notes[D]) EXCEPT !.state = claimState(n)]
    BY DEF SameTerms
<1>4. entry(notes[D]).state = claimState(notes[D]) /\ entry(notes[D]).fee = notes[D].fee
    OBVIOUS
<1> HIDE DEF entry
<1>5. /\ DOMAIN notes' = DOMAIN notes /\ notes'[D] = n
      /\ \A E \in DOMAIN notes \ {D} : notes'[E] = notes[E]
    BY DEF TypeOK, NotesOK
<1>6. claimsOf' = [claimsOf EXCEPT ![D] = entry(n)]
    BY <1>1, <1>2, <1>5
<1>7. claimsOf[D] = entry(notes[D])
    BY <1>1
<1> QED
    BY <1>1, <1>3, <1>4, <1>6, <1>7

\* A drawn claim is a new live one, within what the reserve does not lock.
LEMMA PromisedClaim ==
    ASSUME TypeOK, NEW agent, NEW book, NEW Q \in DOMAIN quotes, NEW fee,
           draw(agent, book, Q, fee)
    PROVE  \E c \in DOMAIN claimsOf' \ DOMAIN claimsOf :
              /\ claimsOf'[c].state = "live"
              /\ claimsOf'[c].principal + claimsOf'[c].fee <= totalReserve - locked
              /\ claimsOf' = Insert(claimsOf, c, claimsOf'[c])
              /\ UNCHANGED <<totalReserve, feeReserve>>
<1> DEFINE D == drawNoteCommit(lineGeneration, agent, Q, Q.merchant, Q.amount, fee,
                               quotes[Q].expiry)
           n == freshNote(Q.amount, fee, quotes[Q].expiry)
           entry == [principal |-> n.amount, fee |-> n.fee, state |-> claimState(n)]
<1>1. /\ D \notin DOMAIN notes /\ notes' = Insert(notes, D, n)
      /\ reserveCovers(Q.amount + fee) /\ UNCHANGED <<totalReserve, feeReserve>>
    BY DEF draw
<1>2. n.amount = Q.amount /\ n.fee = fee /\ claimState(n) = "live"
    BY DEF freshNote, claimState, live
<1> HIDE DEF D, n
<1>3. DOMAIN claimsOf = DOMAIN notes /\ DOMAIN claimsOf' = DOMAIN notes \cup {D}
    BY <1>1 DEF claimsOf, Insert
<1>4. claimsOf'[D] = entry
    BY <1>1 DEF claimsOf, claimState, live, Insert
<1>5. claimsOf' = Insert(claimsOf, D, claimsOf'[D])
    <2>1. \A E \in DOMAIN notes : claimsOf'[E] = claimsOf[E]
        BY <1>1 DEF claimsOf, claimState, live, Insert
    <2>2. claimsOf' = [E \in DOMAIN claimsOf' |-> claimsOf'[E]]
        BY DEF claimsOf
    <2> QED
        BY <1>3, <2>1, <2>2 DEF Insert
<1>6. /\ claimsOf'[D].state = "live"
      /\ claimsOf'[D].principal + claimsOf'[D].fee <= totalReserve - locked
    BY <1>1, <1>2, <1>4 DEF reserveCovers
<1>7. D \in DOMAIN claimsOf' \ DOMAIN claimsOf
    BY <1>1, <1>3
<1> QED
    BY <1>1, <1>5, <1>6, <1>7

\* A drawn claim is promised out of what the escrow does not hold.
LEMMA EscrowPromise ==
    ASSUME TypeOK, AccountingInv, HeldInv, NEW agent \in Agents, NEW book \in HeldBooks,
           NEW Q \in DOMAIN quotes, NEW fee \in Uint64, draw(agent, book, Q, fee)
    PROVE  Escrow!Promise
<1>1. Escrow!Held = locked
    BY HeldIsLocked
<1> QED
    BY <1>1, PromisedClaim DEF Escrow!Promise, Escrow!Insert, Insert

\* A redeemed claim is paid, and its fee earned.
LEMMA EscrowPay ==
    ASSUME TypeOK, ClaimsOK, NEW caller \in Principals, NEW D \in DOMAIN notes,
           redeemDraw(caller, D)
    PROVE  D \in DOMAIN claimsOf /\ Escrow!Pay(D)
<1> DEFINE n == [notes[D] EXCEPT !.redeemed = TRUE]
<1>1. notes[D] \in NoteMeta /\ ClaimOK(notes[D])
    BY DEF TypeOK, NotesOK, ClaimsOK
<1>2. notes' = [notes EXCEPT ![D] = n] /\ live(notes[D])
    BY <1>1 DEF redeemDraw, live
<1>3. n \in NoteMeta /\ SameTerms(n, notes[D])
    BY <1>1 DEF NoteMeta, SameTerms
<1>4. /\ n.redeemed /\ ~n.cancelled /\ ~n.compensationAllocated /\ ~n.cashRefundOwed
      /\ ~n.refundAcknowledged
    BY <1>1, <1>2 DEF NoteMeta, ClaimOK, live
<1>5. feeReserve' = feeReserve + notes[D].fee /\ UNCHANGED totalReserve
    BY DEF redeemDraw
<1> HIDE DEF n
<1>6. claimState(n) = "paid"
    BY <1>4 DEF claimState, live
<1>7. claimState(notes[D]) = "live"
    BY <1>1, <1>2, ClaimStates
<1> QED
    BY <1>2, <1>3, <1>5, <1>6, <1>7, EscrowMove, ZenonT(40) DEF Escrow!Pay, Escrow!Move

\* An expired note's claim expires.
LEMMA EscrowExpire ==
    ASSUME TypeOK, ClaimsOK, NEW D \in DOMAIN notes, expireNote(D)
    PROVE  D \in DOMAIN claimsOf /\ Escrow!Expire(D)
<1> DEFINE n == [notes[D] EXCEPT !.cancelled = TRUE]
<1>1. notes[D] \in NoteMeta /\ ClaimOK(notes[D])
    BY DEF TypeOK, NotesOK, ClaimsOK
<1>2. ~notes[D].redeemed /\ ~notes[D].cancelled /\ notes' = [notes EXCEPT ![D] = n]
    BY <1>1 DEF expireNote
<1>3. n \in NoteMeta /\ SameTerms(n, notes[D])
    BY <1>1 DEF NoteMeta, SameTerms
<1>4. /\ ~n.redeemed /\ n.cancelled /\ ~n.compensationAllocated /\ ~n.cashRefundOwed
      /\ ~n.refundAcknowledged
    BY <1>1, <1>2 DEF NoteMeta, ClaimOK
<1>5. claimState(notes[D]) = "live"
    BY <1>1, <1>2, ClaimStates DEF live
<1>6. UNCHANGED <<totalReserve, feeReserve>>
    BY DEF expireNote
<1> HIDE DEF n
<1>7. claimState(n) = "expired"
    BY <1>4 DEF claimState, live
<1>8. /\ D \in DOMAIN claimsOf /\ claimsOf[D].state = "live"
      /\ claimsOf' = [claimsOf EXCEPT ![D].state = "expired"]
    BY <1>2, <1>3, <1>5, <1>7, EscrowMove, ZenonT(40)
<1> QED
    BY <1>6, <1>8 DEF Escrow!Expire, Escrow!Move

\* A compensated claim is released, or owed in cash.
LEMMA EscrowCompensate ==
    ASSUME TypeOK, ClaimsOK, NEW caller \in Principals, NEW D \in DOMAIN notes,
           NEW book \in HeldBooks, allocateCompensation(caller, D, book)
    PROVE  D \in DOMAIN claimsOf /\ Escrow!Expire(D)
<1>1. PICK refund \in Uint64 :
          /\ ~notes[D].redeemed /\ ~notes[D].compensationAllocated
          /\ notes' = [notes EXCEPT ![D] = allocatedNote(D, refund)]
          /\ moveToRefund(notes[D], IF refund > 0 THEN 0 ELSE cost(notes[D]))
    BY AllocationTerms
<1> DEFINE n == allocatedNote(D, refund)
<1>2. n \in NoteMeta /\ SameTerms(n, notes[D])
    BY AllocatedNoteType DEF allocatedNote, SameTerms
<1>3. /\ ~n.redeemed /\ n.cancelled /\ n.compensationAllocated /\ ~n.refundAcknowledged
      /\ n.cashRefundOwed \in BOOLEAN
    BY DEF allocatedNote
<1>4. UNCHANGED <<totalReserve, feeReserve>>
    BY <1>1 DEF moveToRefund
<1>5. claimState(notes[D]) \in {"live", "expired"}
    <2>1. notes[D] \in NoteMeta /\ ClaimOK(notes[D])
        BY DEF TypeOK, NotesOK, ClaimsOK
    <2> QED
        BY <1>1, <2>1, ClaimStates DEF live
<1> HIDE DEF n
<1>6. claimState(n) \in {"released", "owed"}
    BY <1>3 DEF claimState, live
<1>7. notes' = [notes EXCEPT ![D] = n]
    BY <1>1 DEF n
<1>8. /\ D \in DOMAIN claimsOf /\ claimsOf[D].state \in {"live", "expired"}
      /\ claimsOf' = [claimsOf EXCEPT ![D].state = claimState(n)]
    BY <1>2, <1>5, <1>7, EscrowMove
<1>9. CASE claimState(n) = "released"
    BY <1>4, <1>8, <1>9 DEF Escrow!Expire, Escrow!Move
<1>10. CASE claimState(n) = "owed"
    BY <1>4, <1>8, <1>10 DEF Escrow!Expire, Escrow!Move
<1> QED
    BY <1>6, <1>9, <1>10

\* A reported refund settles an owed claim, out of no capital.
LEMMA EscrowSettle ==
    ASSUME TypeOK, ClaimsOK, NEW caller \in Principals, NEW D \in DOMAIN notes,
           NEW amount \in Uint64, NEW payRef \in Payments \cup {Empty},
           NEW receiptExpiry \in Times,
           acknowledgeRefund(caller, D, amount, payRef, receiptExpiry)
    PROVE  D \in DOMAIN claimsOf /\ Escrow!Settle(D)
<1> DEFINE n == acknowledgedNote(notes[D], paymentNullifier(payRef))
<1>1. /\ notes' = [notes EXCEPT ![D] = n] /\ payRef \in Payments
      /\ notes[D].compensationAllocated /\ notes[D].cashRefundOwed /\ notes[D].cancelled
      /\ ~notes[D].redeemed /\ ~notes[D].refundAcknowledged
    BY DEF acknowledgeRefund, reportRefund
<1>2. n \in NoteMeta /\ SameTerms(n, notes[D])
    BY <1>1 DEF TypeOK, NotesOK, NoteMeta, ClaimsOK, ClaimOK, acknowledgedNote,
                paymentNullifier, SameTerms
<1>3. /\ ~n.redeemed /\ n.cancelled /\ n.compensationAllocated /\ n.cashRefundOwed
      /\ n.refundAcknowledged
    BY DEF acknowledgedNote
<1>4. UNCHANGED <<totalReserve, feeReserve>>
    BY DEF acknowledgeRefund
<1>5. claimState(notes[D]) = "owed"
    BY <1>1 DEF claimState, live
<1> HIDE DEF n
<1>6. claimState(n) = "settled"
    BY <1>3 DEF claimState, live
<1> QED
    BY <1>1, <1>2, <1>4, <1>5, <1>6, EscrowMove DEF Escrow!Settle, Escrow!Move

\* The issuer's deposits, and its withdrawals of what the escrow does not hold.
LEMMA EscrowCapital ==
    ASSUME TypeOK, AccountingInv, HeldInv, NEW caller, NEW a \in Deposits,
           fundReserve(caller, a) \/ withdrawUnencumberedReserve(caller, a)
    PROVE  Escrow!Fund \/ Escrow!Withdraw
<1>1. a \in Nat /\ totalReserve \in Nat
    BY Bounds DEF TypeOK, CountersOK
<1>2. Escrow!Held = locked
    BY HeldIsLocked
<1>3. UNCHANGED notes => UNCHANGED claimsOf
    BY DEF claimsOf, claimState, live
<1>4. CASE fundReserve(caller, a)
    BY <1>1, <1>3, <1>4 DEF fundReserve, Escrow!Fund
<1>5. CASE withdrawUnencumberedReserve(caller, a)
    <2>1. /\ a > 0 /\ a <= totalReserve - locked /\ totalReserve' = totalReserve - a
          /\ UNCHANGED <<feeReserve, notes>>
        BY <1>5 DEF withdrawUnencumberedReserve, reserveCovers
    <2>2. locked \in Int
        BY Bounds DEF TypeOK, CountersOK, locked
    <2> QED
        BY <1>1, <1>2, <1>3, <2>1, <2>2 DEF Escrow!Withdraw
<1> QED
    BY <1>4, <1>5

\* The facility starts as the escrow does, and each of its steps moves the escrow
\* as the escrow allows, or not at all.
THEOREM EscrowIsImplemented == Spec => ImplementsEscrow
<1>1. Init => Escrow!Init
    BY DEF Init, Escrow!Init, claimsOf
<1>2. TypeOK /\ AccountingInv /\ HeldInv /\ [Next]_vars => [Escrow!Next]_(Escrow!vars)
    <2> DEFINE Goal == Escrow!Next \/ UNCHANGED Escrow!vars
    <2> SUFFICES ASSUME TypeOK, AccountingInv, HeldInv, [Next]_vars
                 PROVE  Goal
        OBVIOUS
    <2>0. ClaimsOK
        BY DEF AccountingInv
    <2>1. CASE UNCHANGED <<counters, notes>>
        BY <2>1 DEF Escrow!vars, counters, claimsOf, claimState, live
    <2>2. ASSUME NEW caller \in Principals, NEW a \in Deposits,
                 fundReserve(caller, a) \/ withdrawUnencumberedReserve(caller, a)
          PROVE  Goal
        BY <2>2, EscrowCapital DEF Escrow!Next
    <2>3. ASSUME NEW caller \in Principals, withdrawFees(caller)
          PROVE  Goal
        <3>1. UNCHANGED claimsOf
            BY <2>3 DEF withdrawFees, claimsOf, claimState, live
        <3> QED
            BY <2>3, <3>1 DEF withdrawFees, Escrow!CollectFees, Escrow!Next
    <2>4. ASSUME NEW agent \in Agents, NEW book \in HeldBooks, NEW Q \in DOMAIN quotes,
                 NEW fee \in Uint64, draw(agent, book, Q, fee)
          PROVE  Goal
        BY <2>4, EscrowPromise DEF Escrow!Next
    <2>5. ASSUME NEW D \in DOMAIN notes, NEW caller \in Principals, redeemDraw(caller, D)
          PROVE  Goal
        BY <2>0, <2>5, EscrowPay DEF Escrow!Next
    <2>6. ASSUME NEW D \in DOMAIN notes, expireNote(D)
          PROVE  Goal
        BY <2>0, <2>6, EscrowExpire DEF Escrow!Next
    <2>7. ASSUME NEW D \in DOMAIN notes, NEW caller \in Principals, NEW book \in HeldBooks,
                 allocateCompensation(caller, D, book)
          PROVE  Goal
        BY <2>0, <2>7, EscrowCompensate DEF Escrow!Next
    <2>8. ASSUME NEW D \in DOMAIN notes, NEW caller \in Principals, NEW amount \in Uint64,
                 NEW payRef \in Payments \cup {Empty}, NEW receiptExpiry \in Times,
                 acknowledgeRefund(caller, D, amount, payRef, receiptExpiry)
          PROVE  Goal
        BY <2>0, <2>8, EscrowSettle DEF Escrow!Next
    <2> HIDE DEF Goal
    <2> QED
        BY <2>1, <2>2, <2>3, <2>4, <2>5, <2>6, <2>7, <2>8, StepCases
<1> QED
    BY <1>1, <1>2, TypeCorrect, AccountsInvariant, HoldsInvariant, PTL
       DEF Spec, ImplementsEscrow, Escrow!Spec
=============================================================================
