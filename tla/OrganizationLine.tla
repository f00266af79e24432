-------------------------- MODULE OrganizationLine --------------------------
(***************************************************************************)
(* The organization profile, contracts/organization/line.compact: the same *)
(* circuits over a reserve that is a real token balance.  Deposits and     *)
(* repayments bring tokens in; redemptions, withdrawals and refunds send   *)
(* them out.  Each action is the canonical circuit of LineContract with    *)
(* the asset checks and effects this profile adds to it; the two circuits  *)
(* whose counters differ (the refund and the repayment) set their own.     *)
(***************************************************************************)
EXTENDS LineContract

CONSTANT
    Recipients   \* unshielded addresses of merchants

VARIABLES
    merchantPayoutRecipients,  \* Map: merchant key -> address
    custody,                   \* the contract's balance of the settlement token
    received                   \* what each merchant address has been sent

assets == <<merchantPayoutRecipients, custody, received>>
orgVars == <<vars, assets>>

\* receiveUnshielded and sendUnshielded move the settlement token; a send is
\* preceded by the unshieldedBalanceGte assert.
notReceived(amount) == UNCHANGED custody
receive(amount) == custody' = custody + amount
send(amount) == custody >= amount /\ custody' = custody - amount

orgInit ==
    /\ Init
    /\ \E r \in Recipients : merchantPayoutRecipients = [m \in {InitialMerchant} |-> r]
    /\ custody = 0
    /\ received = [r \in Recipients |-> 0]

orgRegisterMerchant(caller, m, recipient) ==
    /\ registerMerchant(caller, m)
    /\ merchantPayoutRecipients' = Insert(merchantPayoutRecipients, m, recipient)
    /\ UNCHANGED <<custody, received>>

orgFundReserve(caller, amount) ==
    /\ fundReserve(caller, amount)
    /\ receive(amount)
    /\ UNCHANGED <<merchantPayoutRecipients, received>>

orgWithdrawUnencumberedReserve(caller, amount) ==
    /\ withdrawUnencumberedReserve(caller, amount)
    /\ send(amount)
    /\ UNCHANGED <<merchantPayoutRecipients, received>>

orgWithdrawFees(caller) ==
    /\ withdrawFees(caller)
    /\ send(feeReserve)
    /\ UNCHANGED <<merchantPayoutRecipients, received>>

\* Redeemed principal has left custody; everything else locked must be there.
assetBackingRequired(price) == (locked - redeemedReserve) + price

orgDraw(agent, book, Q, fee) ==
    /\ custody >= assetBackingRequired(Q.amount + fee)
    /\ draw(agent, book, Q, fee)
    /\ UNCHANGED assets

\* The address fixed at registration is paid, whoever relays the transaction.
orgRedeemDraw(caller, D) ==
    /\ redeemDraw(caller, D)
    /\ caller \in DOMAIN merchantPayoutRecipients
    /\ send(notes[D].amount)
    /\ received' = [received EXCEPT ![merchantPayoutRecipients[caller]] =
                                        @ + notes[D].amount]
    /\ UNCHANGED merchantPayoutRecipients

\* Mode 2 returns the exact overpayment to the organization and frees the rest
\* of the claim's budget.
orgRefund(caller, D, amount, payRef, receiptExpiry) ==
    /\ reportRefund(caller, D, amount, payRef, receiptExpiry)
    /\ refundReserve' = refundReserve - cost(notes[D])
    /\ totalReserve' = totalReserve - amount
    /\ UNCHANGED <<encumberedReserve, redeemedReserve, feeReserve,
                   pendingFeeReserve, reportedRefundReserve>>
    /\ castsHold
    /\ send(amount)
    /\ UNCHANGED <<registeredMerchants, terms, lineCommit, status, quotes,
                   blockTime, repaid, merchantPayoutRecipients, received>>

\* A repayment is a deposit of the same amount.
orgAcknowledgeRepayment(caller, book, amount, payRef, receiptExpiry) ==
    /\ creditRepayment(caller, book, amount, payRef, receiptExpiry)
    /\ totalReserve' = totalReserve + amount
    /\ UNCHANGED <<encumberedReserve, redeemedReserve, feeReserve,
                   pendingFeeReserve, refundReserve, reportedRefundReserve>>
    /\ castsHold
    /\ receive(amount)
    /\ UNCHANGED <<registeredMerchants, terms, status, quotes, notes, blockTime,
                   merchantPayoutRecipients, received>>

\* The circuits this profile leaves as they are.
orgUnchanged(caller) ==
    /\ \/ \E m \in Merchants : disableMerchant(caller, m)
       \/ \E agent \in Agents, limit \in Limits, expiry \in Times,
             flat \in FlatFees, bps \in Rates :
              openLine(caller, agent, limit, expiry, flat, bps)
       \/ \E next \in Status, book \in HeldBooks : setStatus(caller, next, book)
       \/ \E invoice \in Invoices, amount \in Prices, expiry \in Times :
              postQuote(caller, invoice, amount, expiry)
       \/ \E D \in DOMAIN notes :
            \/ expireNote(D)
            \/ \E book \in HeldBooks : allocateCompensation(caller, D, book)
    /\ UNCHANGED assets

orgNext ==
    \/ Tick /\ UNCHANGED assets
    \/ \E caller \in Principals :
        \/ orgUnchanged(caller)
        \/ \E m \in Merchants, r \in Recipients : orgRegisterMerchant(caller, m, r)
        \/ \E a \in Deposits :
               orgFundReserve(caller, a) \/ orgWithdrawUnencumberedReserve(caller, a)
        \/ orgWithdrawFees(caller)
        \/ \E book \in HeldBooks, Q \in DOMAIN quotes, fee \in Uint64 :
               caller \in Agents /\ orgDraw(caller, book, Q, fee)
        \/ \E D \in DOMAIN notes :
            \/ orgRedeemDraw(caller, D)
            \/ \E amount \in 0..cost(notes[D]), payRef \in Payments \cup {Empty},
                  receiptExpiry \in Times :
                   orgRefund(caller, D, amount, payRef, receiptExpiry)
        \/ \E book \in HeldBooks : \E amount \in 0..book.outstanding,
              payRef \in Payments \cup {Empty}, receiptExpiry \in Times :
               orgAcknowledgeRepayment(caller, book, amount, payRef, receiptExpiry)

orgSpec == orgInit /\ [][orgNext]_orgVars

-----------------------------------------------------------------------------
(* Properties *)

\* organization/line.compact:493-494: every locked budget but the redeemed
\* principal, which has left, is in the contract's own token balance.  So no
\* redemption, fee withdrawal or refund is ever refused for want of tokens.
CustodyBacksClaims ==
    /\ custody = totalReserve - redeemedReserve
    /\ custody >= encumberedReserve + feeReserve + pendingFeeReserve + refundReserve

\* Every merchant address holds exactly the principal of the claims its merchants
\* redeemed, each paid once and to the address fixed at registration.
MerchantsPaid ==
    \A r \in Recipients :
        received[r] = Total([D \in DOMAIN notes |->
                                IF merchantPayoutRecipients[D.merchant] = r
                                THEN redeemedBy(notes[D]) ELSE 0])

\* No claim waits for tokens: until it expires its merchant's redemption, and then
\* its expiry, can always be executed; so can every refund that is owed.
OrgClaimsNeverStuck ==
    /\ \A D \in Live :
        IF blockTime < notes[D].expiry THEN ENABLED orgRedeemDraw(D.merchant, D)
                                       ELSE ENABLED expireNote(D)
    /\ \A D \in Allocated \ Refunded :
        notes[D].cashRefundOwed =>
            notes[D].refundCommitment.amount <= custody

\* The organization profile implements the escrow whose refunds are paid in kind.
OrgEscrow == INSTANCE ClaimEscrow WITH
    capital <- totalReserve, earned <- feeReserve, claims <- claimsOf,
    RefundsInKind <- TRUE

ImplementsCustodyEscrow == OrgEscrow!Spec
=============================================================================
