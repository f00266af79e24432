---------------------------- MODULE LocalRuntime ----------------------------
(***************************************************************************)
(* The browser's local development runtime (src/lib/runtime/local.ts): one *)
(* mirror ledger in the memory of the page.  A method runs to its end, so  *)
(* calls never overlap; a failed call leaves the ledger, but may already   *)
(* have bound its issuer.                                                  *)
(***************************************************************************)
EXTENDS ProtocolMirror

VARIABLES
    ledger,          \* this.ledger
    unboundGenesis,  \* the random issuer key was not replaced yet
    repaid,          \* history: every repayment credited to a book
    rounded          \* history: the reserve has exceeded Number.MAX_SAFE_INTEGER

localVars == <<ledger, unboundGenesis, now, repaid, rounded>>

\* Nobody holds the random merchant key of createLedger().
MerchantKeys == Merchants \ {InitialMerchant}

\* A public key passed where a secret belongs is hashed like one: it acts for a
\* key of its own.  The genesis key, which a page may read, is such a secret.
textOf(key) == [text |-> key]
PageCallers == (Callers \ {InitialMerchant}) \cup {textOf(Nobody)}

LocalInit ==
    /\ ledger = createLedger(Nobody)
    /\ unboundGenesis = TRUE
    /\ now \in 0..MaxTime
    /\ repaid = 0
    /\ rounded = FALSE

\* The book a console may still hold: the current one, or the opening one.
HeldBooks == {ledger.lineCommitment, [ledger.lineCommitment EXCEPT
                                        !.outstanding = 0, !.epoch = 0]}

-----------------------------------------------------------------------------
\* bindGenesisIssuer: the first caller with a key becomes the issuer.
bindGenesisIssuer(caller) ==
    IF unboundGenesis THEN [ledger EXCEPT !.issuerPubKey = caller] ELSE ledger

\* A method of the issuer: the results of its call on the ledger L that it bound.
callBound(L, results) ==
    /\ ledger' \in IF results = {} THEN {L} ELSE results
    /\ unboundGenesis' = FALSE
    /\ UNCHANGED <<now, repaid>>

\* A method that binds no issuer.
callMirror(results) ==
    /\ ledger' \in results
    /\ UNCHANGED <<unboundGenesis, now, repaid>>

\* withdrawFees and disableMerchant take the issuer's public key for an omitted
\* secret.  An unbound genesis binds the key that hashes to, and whoever passes the
\* old key as a secret stays the issuer; a bound issuer's key hashes to another.
omitted == textOf(ledger.issuerPubKey)

localRegisterMerchant(caller, m) ==
    LET L == bindGenesisIssuer(caller)
    IN  callBound(L, registerMerchant(L, caller, m))
localDisableMerchant(caller, m) ==
    LET L == bindGenesisIssuer(caller)
    IN  callBound(L, disableMerchant(L, caller, m))
localFundReserve(caller, amount) ==
    LET L == bindGenesisIssuer(caller)
    IN  callBound(L, fundReserve(L, caller, amount))
localWithdrawReserve(caller, amount) ==
    LET L == bindGenesisIssuer(caller)
    IN  callBound(L, withdrawUnencumberedReserve(L, caller, amount))
localWithdrawFees(caller) ==
    LET L == bindGenesisIssuer(caller)
    IN  callBound(L, withdrawFees(L, caller))
localOpenLine(caller, agent, limit, expiry, flat, bps) ==
    /\ ledger.lineGeneration < MaxGenerations
    /\ LET L == bindGenesisIssuer(caller)
       IN  callBound(L, openLine(L, caller, agent, limit, expiry, flat, bps))

localPostQuote(caller, invoice, amount, expiry) ==
    /\ Cardinality(DOMAIN ledger.quotes) < MaxQuotes
    /\ callMirror(postQuote(ledger, caller, invoice, amount, expiry))

\* draw: the quote commitment is looked up only for its generation; what is
\* drawn is the commitment of the given invoice and deadline, under the identity
\* and the fee policy of the ledger.
localDraw(agent, held, quoteCommit, invoice, expiry, fee) ==
    LET Q == quoteCommitment(invoice.merchant, invoice.invoice, invoice.amount, expiry,
                             ledger.quotes[quoteCommit].lineGeneration,
                             ledger.feeFlat, ledger.feeBps)
        books == [held EXCEPT !.identity = ledger.identityCommitment]
    IN  /\ expiry > 0
        /\ callMirror(draw(ledger, agent, books, Q, Q, fee, expiry))

\* redeemDraw: the preimage names the caller as the merchant and takes generation
\* and fee from the note's record.
localRedeemDraw(caller, D, expiry) ==
    callMirror(redeemDraw(ledger, caller, D,
        [D EXCEPT !.merchant = caller, !.expiry = expiry,
                  !.lineGeneration = ledger.notes[D].lineGeneration,
                  !.fee = ledger.notes[D].fee]))

\* cancelOrExpireNote, by its options.
localExpireNote(D) == callMirror(expireNote(ledger, D))
localCompensate(caller, D, held) ==
    callMirror(allocateCompensation(ledger, caller, D,
        [held EXCEPT !.identity = ledger.identityCommitment]))
localAcknowledgeRefund(caller, D, amount, payRef, receiptExpiry) ==
    callMirror(acknowledgeRefund(ledger, caller, D, amount, payRef, receiptExpiry))

\* acknowledgeRepayment: the receipt names the ledger's identity and commitment.
localAcknowledgeRepayment(caller, held, amount, payRef, receiptExpiry) ==
    /\ ledger' \in acknowledgeRepayment(ledger, caller,
          [held EXCEPT !.identity = ledger.identityCommitment],
          [identity |-> ledger.identityCommitment,
           currentC |-> ledger.lineCommitment, amount |-> amount],
          payRef, receiptExpiry)
    /\ repaid' = repaid + amount
    /\ UNCHANGED <<unboundGenesis, now>>

localSetStatus(caller, status, held) ==
    callMirror(setStatus(ledger, caller, status,
        [held EXCEPT !.identity = ledger.identityCommitment]))

\* Time passes.
LocalTick ==
    /\ now < MaxTime
    /\ now' = now + 1
    /\ UNCHANGED <<ledger, unboundGenesis, repaid>>

IssuerCall(caller) ==
    \/ \E m \in MerchantKeys : localRegisterMerchant(caller, m)
    \/ \E m \in Merchants : localDisableMerchant(caller, m)
    \/ \E a \in Deposits : localFundReserve(caller, a) \/ localWithdrawReserve(caller, a)
    \/ localWithdrawFees(caller)
    \/ \E agent \in Agents, limit \in Limits, expiry \in Times,
          flat \in FlatFees, bps \in Rates :
            localOpenLine(caller, agent, limit, expiry, flat, bps)
    \/ \E status \in {"OPEN", "DEFAULTED", "CLOSED"}, held \in HeldBooks :
            localSetStatus(caller, status, held)
    \/ \E held \in HeldBooks, amount \in 1..ledger.lineCommitment.outstanding,
          payRef \in Payments, receiptExpiry \in Times :
            localAcknowledgeRepayment(caller, held, amount, payRef, receiptExpiry)

RefundCall(caller, D) ==
    \/ \E held \in HeldBooks : localCompensate(caller, D, held)
    \/ \E amount \in 1..cost(D), payRef \in Payments, receiptExpiry \in Times :
            localAcknowledgeRefund(caller, D, amount, payRef, receiptExpiry)

\* As the secret of a merchant or of an agent the text opens nothing: the key it
\* hashes to is none of those that are registered or opened here.
LocalCall ==
    \/ LocalTick
    \/ \E caller \in PageCallers :
        \/ IssuerCall(caller)
        \/ \E D \in DOMAIN ledger.notes : RefundCall(caller, D)
    \/ \E m \in Merchants : localDisableMerchant(omitted, m)
    \/ localWithdrawFees(omitted)
    \/ \E caller \in PageCallers \cap Callers :
        \/ \E invoice \in Invoices, amount \in Prices, expiry \in Times :
               localPostQuote(caller, invoice, amount, expiry)
        \/ \E held \in HeldBooks, quoteCommit, invoice \in DOMAIN ledger.quotes,
              expiry \in Times, fee \in 0..MaxSafe :
               localDraw(caller, held, quoteCommit, invoice, expiry, fee)
        \/ \E D \in DOMAIN ledger.notes, expiry \in Times : localRedeemDraw(caller, D, expiry)
    \/ \E D \in DOMAIN ledger.notes : localExpireNote(D)

LocalNext ==
    /\ LocalCall
    /\ rounded' = (rounded \/ ledger'.totalReserve > MaxSafe)

LocalSpec == LocalInit /\ [][LocalNext]_localVars

(***************************************************************************)
(* Properties                                                              *)
(***************************************************************************)
C == INSTANCE LineContract WITH
    registeredMerchants <- ledger.registeredMerchants,
    totalReserve <- ledger.totalReserve,
    encumberedReserve <- ledger.encumberedReserve,
    redeemedReserve <- ledger.redeemedReserve,
    feeReserve <- ledger.feeReserve,
    pendingFeeReserve <- ledger.pendingFeeReserve,
    refundReserve <- ledger.refundReserve,
    reportedRefundReserve <- ledger.reportedRefundReserve,
    feeFlat <- ledger.feeFlat, feeBps <- ledger.feeBps,
    identityCommit <- ledger.identityCommitment,
    lineCommit <- ledger.lineCommitment,
    lineExpiry <- ledger.lineExpiry,
    status <- ledger.status,
    lineGeneration <- ledger.lineGeneration,
    quotes <- ledger.quotes,
    notes <- ledger.notes,
    nullifiers <- ledger.nullifiers,
    blockTime <- now

\* The two places where the mirror leaves the contract: a disabled merchant is
\* registered again, and a reserve beyond Number.MAX_SAFE_INTEGER rounds, and with
\* it every budget it covers.
Reenabled ==
    /\ \E m \in DOMAIN ledger.registeredMerchants :
          /\ ~ledger.registeredMerchants[m]
          /\ ledger' = [ledger EXCEPT !.registeredMerchants[m] = TRUE,
                                     !.issuerPubKey = ledger'.issuerPubKey]
    /\ UNCHANGED <<now, repaid>>

\* Apart from these two, whatever the local runtime accepts the contract accepts,
\* with the same effect: a flow rehearsed on the mirror never succeeds there and
\* fails, or ends elsewhere, on the ledger ("Mirror of the Compact ... circuit").
MirrorFollowsContract ==
    /\ C!Init
    /\ [][~rounded' => C!Next \/ Reenabled]_(C!vars)
=============================================================================
