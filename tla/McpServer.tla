----------------------------- MODULE McpServer -----------------------------
(***************************************************************************)
(* The MCP server (mcp/line-mcp.mjs): thirteen tools over one JSON file    *)
(* that holds a mirror ledger with everybody's private records.  A request *)
(* is a line of stdin; its handler is asynchronous and does not wait for   *)
(* the handlers before it.  Most tools read and write the file without a   *)
(* wait in between, which makes them one step; line.compensate and         *)
(* line.refund.acknowledge read the file, wait for an import, and then     *)
(* compute from what they read.  line.seed runs the scripted demo          *)
(* (src/dev/demo.ts).  line.status, line.reserve.status and                *)
(* line.note.status change nothing.                                        *)
(***************************************************************************)
EXTENDS ProtocolMirror

CONSTANTS
    Slots,           \* tool calls that may wait at the same time
    MerchantA, MerchantB, Agent,
    DemoReserve, DemoLimit, SmallPrice, LargePrice, Withdrawal,
    DemoFees,        \* flat fees line.seed is called with
    DemoRates,       \* fee rates line.seed is called with
    SeedSteps,       \* demo steps line.seed is called with
    Lag              \* the 10_000 seconds every deadline lies ahead

\* 500, 150, 40, 120 and 400 in the script.
ASSUME DemoAmounts ==
    /\ SeedSteps \subseteq 0..18
    /\ LargePrice <= DemoLimit /\ DemoLimit < SmallPrice + LargePrice
    /\ DemoReserve < SmallPrice + LargePrice + Withdrawal
    /\ DemoReserve <= MaxSafe /\ Lag > 0

VARIABLES
    file,     \* the state file
    waiting,  \* per slot: the call that waits for its import, and what it read
    answers   \* history, since the last seed: compensations of a note answered ok

mcpVars == <<file, waiting, answers, now>>

NoAgent == NoBook
Absent == [text |-> "absent"]
Torn == [text |-> "torn"]      \* truncated by a crash inside writeFileSync
None == [tool |-> "none"]
NoAnswers == [D \in {} |-> 0]

\* What a tool call sees: readState() found a file that it accepts.
readable == file # Absent /\ file # Torn

-----------------------------------------------------------------------------
(* The scripted demo.  Like a function of the mirror, a step of the script *)
(* is the set of snapshots it may leave: empty when the script throws.     *)

\* A call that must succeed, and one that must fail.
must(s, ledgers) == {[s EXCEPT !.ledger = next] : next \in ledgers}
blocked(s, ledgers) == IF ledgers = {} THEN {s} ELSE {}

genesis == [ledger |-> [createLedger(Issuer) EXCEPT
                          !.registeredMerchants = [m \in {MerchantA} |-> TRUE]],
            agent |-> NoAgent, invoices |-> {}, notes |-> {},
            refunds |-> [D \in {} |-> Empty]]

\* The records of a call that replaces the book, of a post, and of a draw, beside
\* the ledger it returned.
rebooked(s, next) == [s EXCEPT !.ledger = next, !.agent = next.lineCommitment]

quoteResults(s, m, invoice, amount, deadline) ==
    postQuote(s.ledger, m, invoice, amount, deadline)
quoted(s, m, invoice, amount, deadline, next) ==
    [s EXCEPT !.ledger = next,
              !.invoices = @ \cup {quoteOf(s.ledger, m, invoice, amount, deadline)}]

drawResults(s, Q, fee) ==
    draw(s.ledger, Agent, s.agent, Q, Q, fee, s.ledger.quotes[Q].expiry)
drawn(s, Q, fee, next) ==
    [s EXCEPT !.ledger = next, !.agent = next.lineCommitment,
              !.notes = @ \cup {noteOf(s.ledger, Agent, Q, Q, fee, s.ledger.quotes[Q].expiry)}]

feeFor(s, Q) == requiredDrawFee(Q.amount, s.ledger.feeFlat, s.ledger.feeBps)
demoQuote(s, m, invoice, amount, deadline) ==
    {quoted(s, m, invoice, amount, deadline, next) :
        next \in quoteResults(s, m, invoice, amount, deadline)}
demoDraw(s, Q) == {drawn(s, Q, feeFor(s, Q), next) : next \in drawResults(s, Q, feeFor(s, Q))}

receiptFor(s, amount) == [identity |-> s.agent.identity,
                          currentC |-> s.ledger.lineCommitment, amount |-> amount]

\* The invoices, and the claims, by the merchant and price the script gives them.
invoiceOf(s, invoice) == CHOOSE Q \in s.invoices : Q.invoice = invoice
claimOf(s, m) == CHOOSE D \in s.notes : D.merchant = m
redeemResults(s, m, D) == redeemDraw(s.ledger, m, D, [D EXCEPT !.merchant = m])

\* Step n of the script, on a snapshot of step n - 1.
demoStep(n, s, deadline, flat, bps) ==
    LET L == s.ledger IN
    CASE n = 1 -> must(s, registerMerchant(L, Issuer, MerchantB))
      [] n = 2 -> must(s, fundReserve(L, Issuer, DemoReserve))
      [] n = 3 -> {rebooked(s, next) :
                      next \in openLine(L, Issuer, Agent, DemoLimit, deadline, flat, bps)}
      [] n = 4 -> demoQuote(s, MerchantA, "40", SmallPrice, deadline)
      [] n = 5 -> demoDraw(s, invoiceOf(s, "40"))
      [] n = 6 -> blocked(s, redeemDraw(L, MerchantB, claimOf(s, MerchantA),
                                        claimOf(s, MerchantA)))
      [] n = 7 -> must(s, redeemResults(s, MerchantA, claimOf(s, MerchantA)))
      [] n = 8 -> blocked(s, redeemResults(s, MerchantA, claimOf(s, MerchantA)))
      [] n = 9 -> demoQuote(s, MerchantB, "120a", LargePrice, deadline)
      [] n = 10 -> blocked(s, drawResults(s, invoiceOf(s, "120a"),
                                          feeFor(s, invoiceOf(s, "120a"))))
      [] n = 11 -> {rebooked(s, next) :
                      next \in acknowledgeRepayment(L, Issuer, s.agent,
                              receiptFor(s, s.agent.outstanding), "demo-pay-40", deadline)}
      [] n = 12 -> demoQuote(s, MerchantB, "120b", LargePrice, deadline)
      [] n = 13 -> demoDraw(s, invoiceOf(s, "120b"))
      [] n = 14 -> blocked(s, withdrawUnencumberedReserve(L, Issuer, Withdrawal))
      [] n = 15 -> must(s, redeemResults(s, MerchantB, claimOf(s, MerchantB)))
      [] n = 16 -> must(s, setStatus(L, Issuer, "DEFAULTED", s.agent))
      [] n = 17 -> blocked(s, draw(L, Agent, s.agent,
                        quoteOf(L, MerchantA, "post-def", SmallPrice, deadline),
                        quoteOf(L, MerchantA, "post-def", SmallPrice, deadline),
                        requiredDrawFee(SmallPrice, flat, bps), deadline))
      [] OTHER -> {s}

snapshotAt(step, flat, bps) ==
    LET snap[n \in 0..18] ==
            IF n = 0 THEN {genesis}
            ELSE UNION {demoStep(n, s, now + Lag, flat, bps) : s \in snap[n - 1]}
    IN  snap[step]

-----------------------------------------------------------------------------
(* Tools that run in one step *)

\* A script that throws, on a fee that exceeds the limit for one, ends the process
\* before it writes: that is McpCrash.
lineSeed ==
    /\ \E step \in SeedSteps, flat \in DemoFees, bps \in DemoRates :
          /\ safe(flat) /\ safe(bps) /\ bps <= 10000
          /\ file' \in snapshotAt(step, flat, bps)
    /\ answers' = NoAnswers
    /\ UNCHANGED <<waiting, now>>

\* writeState of a tool that is answered ok.
write(new) ==
    /\ file' = new
    /\ UNCHANGED <<waiting, answers, now>>
writeLedger(results) == \E next \in results : write([file EXCEPT !.ledger = next])

lineQuote(m, invoice, amount) ==
    /\ readable
    /\ Cardinality(file.invoices) < MaxQuotes
    /\ \E next \in quoteResults(file, m, invoice, amount, now + Lag) :
          write(quoted(file, m, invoice, amount, now + Lag, next))

\* The fee is the agreed one, or the caller's.
lineDraw(Q, fee) ==
    /\ readable /\ file.agent # NoAgent
    /\ Q \in file.invoices
    /\ \E next \in drawResults(file, Q, fee) : write(drawn(file, Q, fee, next))

lineRedeem(D, m) ==
    /\ readable /\ D \in file.notes
    /\ writeLedger(redeemDraw(file.ledger, m, D, D))

lineExpireNote(D) == readable /\ writeLedger(expireNote(file.ledger, D))
lineWithdrawFees == readable /\ writeLedger(withdrawFees(file.ledger, Issuer))
lineDisableMerchant(m) == readable /\ writeLedger(disableMerchant(file.ledger, Issuer, m))

lineRepay(amount, payRef) ==
    /\ readable /\ file.agent # NoAgent
    /\ \E next \in acknowledgeRepayment(file.ledger, Issuer, file.agent,
                        receiptFor(file, amount), payRef, now + Lag) :
          write(rebooked(file, next))

-----------------------------------------------------------------------------
(* The two tools that wait for an import between reading and computing *)

\* line.compensate and line.refund.acknowledge up to their import: the state is
\* read, and the note's opening found in it.
startWaiting(slot, call) ==
    /\ readable /\ waiting[slot] = None
    /\ call.note \in file.notes
    /\ waiting' = [waiting EXCEPT ![slot] = call]
    /\ UNCHANGED <<file, answers, now>>
callCompensate(slot, D) ==
    startWaiting(slot, [tool |-> "compensate", note |-> D, read |-> file])
callAcknowledge(slot, D, payRef) ==
    startWaiting(slot, [tool |-> "acknowledge", note |-> D, read |-> file, ref |-> payRef])

\* Mutant of withRefund: the book the compensation rotated is not kept.
withRefundOnly(s, D, next) ==
    [s EXCEPT !.ledger = next,
       !.refunds = Insert(@, D, [amount |-> next.notes[D].refundCommitment.amount,
                                 status |-> "allocated"])]
\* result.witness is returned for a note of the current generation only.
withRefund(s, D, next) ==
    [s EXCEPT !.ledger = next,
       !.agent = IF D.lineGeneration = next.lineGeneration THEN next.lineCommitment ELSE @,
       !.refunds = Insert(@, D, [amount |-> next.notes[D].refundCommitment.amount,
                                 status |-> "allocated"])]

\* The note's ok answers; a third is not told from a second.
counted(D) ==
    Insert(answers, D, IF D \notin DOMAIN answers THEN 1 ELSE 2)

lineCompensate(slot) ==
    LET call == waiting[slot]
        s == call.read
        D == call.note
        results == allocateCompensation(s.ledger, Issuer, D, s.agent)
    IN  /\ call.tool = "compensate"
        /\ waiting' = [waiting EXCEPT ![slot] = None]
        /\ IF results = {} THEN UNCHANGED <<file, answers>>
           ELSE /\ \E next \in results : file' = withRefund(s, D, next)
                /\ answers' = counted(D)
        /\ UNCHANGED now

lineAcknowledgeRefund(slot) ==
    LET call == waiting[slot]
        s == call.read
        D == call.note
        results == IF D \in DOMAIN s.refunds
                   THEN acknowledgeRefund(s.ledger, Issuer, D, s.refunds[D].amount,
                                          call.ref, now + Lag)
                   ELSE {}
    IN  /\ call.tool = "acknowledge"
        /\ waiting' = [waiting EXCEPT ![slot] = None]
        /\ IF results = {} THEN UNCHANGED file
           ELSE \E next \in results :
                   file' = [s EXCEPT !.ledger = next,
                                     !.refunds[D].status = "issuer-reported"]
        /\ UNCHANGED <<answers, now>>

-----------------------------------------------------------------------------
\* The process dies and is started again; a write it was in is cut short.
McpCrash ==
    /\ file # Absent
    /\ waiting' = [slot \in Slots |-> None]
    /\ file' \in {file, Torn}
    /\ UNCHANGED <<answers, now>>

McpTick ==
    /\ now < MaxTime
    /\ now' = now + 1
    /\ UNCHANGED <<file, waiting, answers>>

McpInit ==
    /\ file = Absent
    /\ waiting = [slot \in Slots |-> None]
    /\ answers = NoAnswers
    /\ now = 0

\* What a client can name: the notes and invoices of the file.
knownNotes == IF readable THEN file.notes ELSE {}
knownInvoices == IF readable THEN file.invoices ELSE {}

McpNext ==
    \/ McpTick
    \/ McpCrash
    \/ lineSeed
    \/ \E m \in {MerchantA, MerchantB} :
        \/ \E invoice \in Invoices, amount \in Prices : lineQuote(m, invoice, amount)
        \/ \E D \in knownNotes : lineRedeem(D, m)
        \/ lineDisableMerchant(m)
    \/ \E Q \in knownInvoices, fee \in 0..MaxSafe : lineDraw(Q, fee)
    \/ lineWithdrawFees
    \/ \E amount \in Prices, payRef \in Payments : lineRepay(amount, payRef)
    \/ \E D \in knownNotes :
        \/ lineExpireNote(D)
        \/ \E slot \in Slots : callCompensate(slot, D)
        \/ \E slot \in Slots, payRef \in Payments : callAcknowledge(slot, D, payRef)
    \/ \E slot \in Slots : lineCompensate(slot) \/ lineAcknowledgeRefund(slot)

McpSpec == McpInit /\ [][McpNext]_mcpVars

(***************************************************************************)
(* Properties                                                              *)
(***************************************************************************)
\* The counters that readState checks.
Counters == {"totalReserve", "encumberedReserve", "redeemedReserve", "feeReserve",
             "pendingFeeReserve", "refundReserve", "reportedRefundReserve"}

\* The private records always open the public ledger they are stored with: the
\* agent's books open its commitment, every claim and every open cash obligation
\* has its opening, and the budgets pass readState's own check.  So whatever the
\* calls overlap with, no tool locks the agent out of its line or a merchant out
\* of its claim, or leaves a file that only line.seed accepts.
RecordsOpenLedger ==
    readable =>
        /\ file.agent = file.ledger.lineCommitment
        /\ file.invoices = DOMAIN file.ledger.quotes
        /\ file.notes = DOMAIN file.ledger.notes
        /\ \A counter \in Counters : safe(file.ledger[counter])
        /\ lockedReserve(file.ledger) <= file.ledger.totalReserve
        /\ \A D \in file.notes :
              LET note == file.ledger.notes[D] IN
              /\ note.compensationAllocated =>
                    note.refundCommitment = [note |-> D, amount |-> file.refunds[D].amount]
              /\ note.refundAcknowledged <=>
                    D \in DOMAIN file.refunds /\ file.refunds[D].status = "issuer-reported"
              /\ note.refundAcknowledged =>
                    note.refundPaymentNullifier \in file.ledger.nullifiers

\* "Allocate compensation for an expired unredeemed note once" (the tool's own
\* description): no note's compensation is answered ok twice.
CompensatedOnce == \A D \in DOMAIN answers : answers[D] = 1
=============================================================================
