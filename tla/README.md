# LINE: specifications, model checking and proofs

LINE is a credit facility for software agents on the Midnight ledger. An issuer
funds a reserve and opens a credit line for an agent. A merchant quotes a
service; the agent draws on its line, which makes a claim (a note) that the
merchant redeems; the agent repays. A claim that expires unredeemed is
compensated by crediting the debt or by a cash refund. The rules are zero-knowledge
circuits (`contracts/*.compact`); around them stand browser programs that keep
private openings and unsettled transactions in encrypted records, and servers
that do the same on disk.

This directory holds TLA+ modules translated from the source, the TLC
configurations that check them, and TLAPS proofs. `PROJECT.json` maps every
definition to the lines it models, and lists runs, mutants (how each property
can be broken by a change of the code), findings, hazards and theorems.

Run `tlc -config <run>.cfg <module>.tla` for a run, and `tlapm <module>.tla` for
each of `TotalsProofs`, `LineContractProofs`, `LedgerProfilesProofs`,
`MirrorHostsProofs`, `ServicePurchaseProofs`, `ConsoleJournalProofs`,
`CheckoutEvaluationProofs` and `OwnerCoordinatorProofs`.

## 1. The system

### 1.1 Components

| component | state | operations | status |
|---|---|---|---|
| **Credit contract** `contracts/line.compact` | merchants, seven reserve counters, fee policy, line commitment, quotes, notes, nullifiers | twelve circuits: register and disable merchant, fund and withdraw, open line, set status, post quote, draw, redeem, cancel/expire/compensate (three modes), repay | `LineContract` |
| **Organization contract** `contracts/organization/line.compact` | the same, and a token balance and payout addresses | the same circuits with token effects | `OrganizationLine` |
| **Console journal** `security/operation-journal.ts`, `app/console-recovery.ts`, `app/reconcile-console.ts`, parts of `app/store.ts` and `runtime/network.ts` | a list of operations with status, candidate and recovery snapshot, in the vault; the older `agent-line` mirror; volatile store of every tab | prepare, mark submitting, prove, record transaction, submit, settle, reconcile, restore, acknowledge, compact | `ConsoleJournal` |
| **Organization account** `organization/account.ts`, `network.ts`, `transactions.ts`, `finality.ts`, `recovery.ts`, `expired-compensation.ts` | one encrypted record: snapshot and pending operation with its signed bytes; history of archived operations | edit, prepare, prove, sign, save, send, wait, complete, reconcile, resubmit, archive | `OrganizationAccount` |
| **Supplier server** `server/native-operation-journal.mjs`, `organization-merchants.mjs`, `organization-api.mjs`, `scripts/finalized-contract-receipt.mjs` | orders, one pending operation, bytes files, one job slot | create, quote, redeem, fulfil, recover | `SupplierJournal` over `ServiceRequests` |
| **Service purchase** `organization/orders.ts`, `network.ts` | the saved purchase in the account; what a tab captured before a wait | buy, continue, requote, cancel | `ServicePurchase` |
| **Checkout evaluation** `server/checkout-engine.ts`, `checkout-http.ts` | a session: book, orders, contract state, openings; a map of sessions | configure, purchase, acknowledge, report refund; look up, read body, sweep | `CheckoutEvaluation` |
| **Checkout storage** `server/checkout-storage.ts` | encrypted files and the lease of their directory | open, take over, save, load, remove, close | `CheckoutLease`, and save/load/remove in `CheckoutEvaluation` |
| **Private facility** `contracts/experimental/line-private-offer-addressed.compact` | a tree of borrowers' books, one reserve book, quotes and notes, all as commitments; nullifiers | the canonical operations, with enrollment in two calls and reopening | `PrivateFacility`; the seven narrower candidates beside it are not modelled |
| **Approval signer** `scripts/durable-approval-*.mjs`, `approval-owner-service.mjs` | saved answers, authorized cost | approve, repeat, refuse | `OwnerCoordinator` |
| **Private finance journal and coordinator** `scripts/private-finance-journal.mjs`, `private-owner-coordinator.mjs` | confirmed checkpoint, intent, candidate, completed operations; one lease | initialize, prepare, restore, prove, confirm, advance time | `OwnerCoordinator` over `CheckoutLease`; the network lane of the journal is not modelled |
| **Protocol mirror** `src/lib/line/protocol.ts` | none: functions from a ledger object to a ledger object | every circuit of the canonical contract, in JavaScript numbers | `ProtocolMirror` |
| **Local runtime** `src/lib/runtime/local.ts` | one mirror ledger in the memory of a page | the same, one call at a time | `LocalRuntime` |
| **MCP server** `mcp/line-mcp.mjs`, `src/dev/demo.ts` | one JSON file: a mirror ledger and everybody's private records | thirteen tools; a scripted demo | `McpServer` |
| Tab session `organization/tab-session*.ts` | unlocked sessions in a shared worker, one Web Lock per token | remember, resume, forget | planned |
| Backup and restore `organization/backup.ts`, `recovery.ts` | an exported record | export, match against the ledger, restore | the matching rule is in `OrganizationAccount`; the restore is planned |
| Expired quote, opening, disabling `organization/expired-*.ts` | as the archive of an expired compensation | inspect, archive | `OrganizationAccount` has the compensation; siblings planned |
| Simulator `src/dev/simulator-store.ts` | a store over the mirror | buttons that call it | not modelled (section 6) |
| Network runtime, wallet, prover, endpoints `src/lib/runtime/` | connections | connect, prove, submit, observe | the journalled path only |
| Vault `security/vault*.ts` | encrypted storage, unlock timer | read, write, lock | an atomic write per save |
| Organization server `server/organization-*.mjs` | wallet cache, sign-in challenges | proxy, sign in, submit | what the supplier journal uses |
| Preprod and settlement servers, user interface, native verifiers, deployment and build scripts, generated code | none, or none shared | | out of scope: input and output, presentation, cryptography, or sequential tools |

### 1.2 How the parts interact

Every program that spends goes through the same four points: a candidate private
state is computed, saved, submitted as a transaction, and published only when
the ledger has shown it. Between any two of these the process may stop and the
transaction may still succeed. The ledger orders all transactions; the programs
share nothing else but their encrypted record, which the tabs of one browser
guard by a Web Lock and the servers by a lease or an exclusive job slot. The
organization and the supplier talk over HTTP, but what one believes of the other
comes from the ledger only.

### 1.3 What is hard, and what correct means

* *The contract.* Seven counters move in nine circuits. A claim must stay
  payable whatever happens to other claims, the line and the issuer; debt must
  neither vanish nor be credited twice, across closed and reopened lines; a
  payment reference counts once; the private book is a witness and may be stale.
* *The journals.* A lost answer is not a failure. A second intent must not start
  while the first may still happen; what the journal calls rejected never
  happens; the only opening of the current book must never be overwritten.
* *The account.* Tabs share one record; sections are long (wallet prompts,
  proofs, finality) and any may end by a timeout while the bytes live on.
* *The purchase.* A tab acts on what it read before a wait; the order may since
  have been replaced. One purchase is charged at most once.
* *The supplier.* Never sends the same bytes twice, never forgets bytes it may
  have sent, delivers only what was paid.
* *The checkout.* What was answered survives any crash or failed save; a file
  never stops the next start; a retry counts once; an indebted session stays
  reachable. One process owns the directory.
* *The coordinator.* Its workers are killed at any step and publish without
  knowing whether it happened; the owner may answer a worker that is dead. An
  approval counts against a cap for ever, so none may be stranded, and no
  operation may happen twice.
* *The mirror.* It restates twelve circuits by hand, in numbers that round. It
  must accept what the contract accepts and nothing else. The handlers of the
  MCP server overlap, and a crash may cut its file short.
* *The private facility.* Nobody sees the reserve or the books: a call proves its
  budgets from openings. A borrower must have one book only, and it must carry
  all its debt.

`PROJECT.json` lists forty hazards at their lines, each with the properties
that cover it or the reason that none does.

## 2. The modules

| module | extends / instantiates | models |
|---|---|---|
| `Totals` | | Compact maps, and sums over a set defined by cardinality |
| `LineContract` | `Totals` | the canonical contract: one action per circuit (and per mode), and the advance of block time |
| `ClaimEscrow` | `Totals` | abstract: what a reserve promises, claim by claim |
| `OrganizationLine` | `LineContract`, `ClaimEscrow` | each circuit with its token checks and effects |
| `ConsoleJournal` | | tabs, journal, mirror, chain |
| `OrganizationAccount` | | tabs, record, lock, transactions, facility |
| `SupplierJournal` | | orders, entry, bytes, job, crashes |
| `ServiceRequests` | | the request IDs two programs share; extended by `OrganizationAccount` and `SupplierJournal` |
| `ServicePurchase` | `OrganizationAccount`, `SupplierJournal` | two programs over one facility |
| `CheckoutEvaluation` | `Totals` | session, file, server, callers |
| `CheckoutLease` | | processes that race for a directory |
| `OwnerCoordinator` | `CheckoutLease` | the workers of one operator, the journal they share, the owner who signs, the public ledger |
| `ProtocolMirror` | `Totals` | each function of the mirror, as the set of ledgers a call may return |
| `LocalRuntime`, `McpServer` | `ProtocolMirror`; the former also `LineContract` | the page, compared with the contract step by step; the server, its file and its overlapping handlers |
| `MirrorHosts` | `LocalRuntime`, `McpServer` | one or the other, over one clock |
| `PrivateFacility` | `LineContract`, `ClaimEscrow` | the circuits of the private facility |
| `LedgerProfiles` | `OrganizationLine`, `PrivateFacility` | a ledger of one profile or the other |
| `TotalsProofs` | `Totals` | the laws of maps and of sums as cardinalities |
| `LineContractProofs` | `LineContract`, `ClaimEscrow`, `TotalsProofs` | theorems of the canonical contract: types, solvency, budgets, debts, history, claims that can always end, escrow |
| `LedgerProfilesProofs` | `LedgerProfiles`, `LineContractProofs` | theorems of the two other profiles |
| `MirrorHostsProofs` | `MirrorHosts`, `TotalsProofs` | theorems of the MCP server, and of the page against the contract |
| `ServicePurchaseProofs` | `ServicePurchase` | theorems of the supplier, of the account, and of the purchase over both |
| `ConsoleJournalProofs`, `CheckoutEvaluationProofs`, `OwnerCoordinatorProofs` | their component | theorems of the console's journal, the checkout session, the coordinator and its lease |
| `MC*` | | symmetry sets |

### 2.1 How code becomes state and actions

* **A circuit is one action.** The ledger executes a transaction wholly or not
  at all; asserts are guards, ledger writes primed variables. A Compact map is a
  function on its keys. A hash or commitment is the record of what it binds; a
  secret key is the principal that holds it; fresh nonces and salts make values
  new, so a book is named after the operation that made it. `Uint<64>` is
  `0..MaxUint64`: a cast of a sum that does not fit, or a subtraction below
  zero, makes the call abort, so its action is not enabled (`castsHold`).
  `blockTime` is a counter; `blockTimeLt/Gte` are comparisons with it.
* **A stale witness.** `HeldBooks` is the current opening and the one kept from
  the opening of the line: a caller may use either where the code does not
  compare the witness with the commitment.
* **A wait ends a step.** In the programs an action runs from one `await` (or
  Web Lock callback, file operation) to the next. Encrypted saves are atomic, as
  the vault and the rename of a file provide. What a program read before a wait
  is kept in its own volatile state (`tab`, `client`, `job`, `seen`).
* **Transactions** have a fate: signed, in the pool, succeeded, failed,
  succeeded in part (the guaranteed section only), lost or expired. The network
  may take any of them at any time after submission, whatever the submitter was
  told. Receipts exist only for included transactions.
* **Crashes.** A tab may close, a vault may lock and a server may stop between
  any two steps; volatile state is lost, the record and the ledger are not.
  A failed save stops the supplier and the checkout session, as in the code.

`SupplierJournal` finishes the handling of an HTTP request in its job slot; the
caller's view of the answer is in `ServicePurchase`. In `CheckoutEvaluation` a
request is looked up and counted (`Arrive`), its body is awaited (`waiting`),
then it is queued; at most one waits, which the two admitted requests of a
session allow in the order that matters.

In `OwnerCoordinator` a financial state is the set of calls that led to it, and
a call is named by its operation, the worker that drew its salts and the request
the owner signed first; so two candidates are equal exactly when the code would
compute equal openings. A killed worker leaves its lease and the requests it
sent; the owner may answer them at any later time.

In `ProtocolMirror` a function of `protocol.ts` is the set of results of a call,
empty when it returns `ok: false`. Amounts are doubles: exact up to `MaxSafe`,
and then rounded to the nearest multiple of a gap that doubles with each power of
two (`double`); a book whose numbers `u64` refuses is not committed (`mayRotate`).
`LocalRuntime` and `McpServer` use the same functions;
the former runs a method to its end, the latter reads, waits and writes.
`bindGenesisIssuer` hashes whatever string it is given as a secret. A page may pass
the text of the genesis key it read, and the methods that take no secret pass the
issuer's own key: both are secrets of their own (`textOf`, `omitted`), so the first
such call on a fresh ledger makes an issuer whose part whoever repeats that text plays.
`line.seed` takes any flat fee and rate that `line-mcp.mjs:300-303` accepts.

`PrivateFacility` keeps the commitments' openings in the state and lets a call
bring any opening its caller could hold: the current books and the spent ones,
which the nullifiers then refuse. An approval signs what a circuit reads and
writes, so who may call is checked when the call executes.

## 3. The runs

| run | instance | states (distinct) | properties |
|---|---|---|---|
| `line_purchase` | 2 agents, 2 merchants, 2 payments, 2 quotes, 2 openings, price 2, rates 0 and 25 %, largest integer 4 | 390,012 | `TypeOK`, `ReserveSolvent`, `ReserveAccounting`, `BorrowerConservation`, `DebtBackedByClaims`, `ClaimsNeverStuck`, `QuoteDrawnOnce`, `PaymentUsedOnce`, `FeeAsQuoted`, `ImplementsEscrow`, `ClaimSurvives`, `NoDebtForgiven` |
| `ledger_profiles` | organization: 2 agents, 2 addresses, token balance; private: 2 borrowers, 1 supplier, 5 leaves, 2 enrollments; largest integer 5 | 460,270 | `CustodyBacksClaims`, `MerchantsPaid`, `OrgClaimsNeverStuck`, `ImplementsCustodyEscrow`, `OneBookCarriesTheDebt`, `ImplementsPrivateEscrow` |
| `journal_tabs` | 2 tabs, journal of 2 | 1,287,696 | `JournalReadable`, `JournalTruthful`, `EarlierOutcomesKnown` |
| `journal_stale_mirror` | 1 tab, journal of 2 | violation | `BookRecoverable` (finding 1) |
| `account_safety` | 2 tabs, 2 requests, 5 transactions, limit 2 | 528,668 | `NoOrphanTransaction`, `BackupRestorable`, `ArchivedNeverApplied` |
| `account_lock` | 2 tabs, 1 request, 2 transactions | 340 | `LockReleased`, under `FairSpec` |
| `service_tabs` | 2 tabs, 2 requests, 2 transactions, the supplier with crashes anywhere | 1,983,030 | `ChargedOnce`, `DeliveredIsPaid`, `UndecidedIsPending`, `StatusFollowsReceipts`, `NeverRebroadcast` |
| `checkout_session` | 2 purchases, 2 payment references, price 2, limit 3, reserve 4 | 1,156,588 | `AnswersSurvive`, `CheckpointsRecover`, `ChargedAndCreditedOnce` |
| `checkout_swept_request` | 1 purchase, 1 reference | violation | `ObligationsReachable` (finding 2) |
| `owner_coordinator` | 5 workers, 2 operations, cost cap 2, 1 advance of time | 356,388 | `LeaseExclusive`, `HolderIsCurrent`, `ApprovalRecoverable`, `PublicOpened`, `JournalReopens` |
| `mirror_hosts` | page: 2 generations, 1 quote; server: 1 waiting call, seeds of 5 and 18 steps with a fee by rate; doubles exact up to 8 | 210,601 | `RecordsOpenLedger`, `MirrorFollowsContract` |
| `mcp_overlap` | 2 waiting calls | violation | `CompensatedOnce` (finding 3) |

### 3.1 What the properties say

* **Reserve.** `ReserveSolvent` is the header's `E + R + F + P + U + X <= T`.
  `ReserveAccounting` is stronger: each budget is the sum over exactly the
  claims it stands for, so no call about one claim can eat the budget of
  another. `ImplementsEscrow` says it again as refinement: the counters and the
  flags of the notes implement an escrow with one capital and one life cycle per
  claim. The custody profile implements the same escrow with refunds paid in
  kind, its balance covering everything the escrow holds; the private facility
  implements it behind its commitments (`ImplementsPrivateEscrow`).
* **Borrower.** `BorrowerConservation`: debt plus repayments is what the claims
  cost less what compensation credited, and cash refunds never exceed what was
  repaid. `NoDebtForgiven`, `DebtBackedByClaims` and `PaymentUsedOnce` carry it
  across generations.
* **Claims.** `ClaimsNeverStuck` is enabledness: no overflow, short budget or
  spent nullifier can ever prevent a claim from being redeemed in time or expired
  afterwards. `ClaimSurvives` is its action form.
* **Journal.** `EarlierOutcomesKnown` is the point of the journal;
  `JournalTruthful` is what makes its records worth reading.
* **Account.** `NoOrphanTransaction`: live bytes are the pending ones, so no
  second payment is prepared beside them. `BackupRestorable`: what the record
  holds, snapshot or candidate, opens the facility as it is.
* **Purchase.** `ChargedOnce`: every charge, made or under way, belongs to the
  attempt the saved order names.
* **Supplier.** `UndecidedIsPending` and `NeverRebroadcast` are the two sides of
  at-most-once: nothing sent is forgotten, nothing sent is sent again.
* **Checkout.** `AnswersSurvive` relates a history of answers to the file and to
  every later process; an order nobody was answered about is not its subject.
  `CheckpointsRecover` evaluates the validation of `recover` on every file a crash
  can leave: the books against the ledger, the locked budgets against the funded
  reserve, each order against its claim. Sessions open their line without fees.
* **Coordinator.** `LeaseExclusive` and `HolderIsCurrent`: one worker at work, on
  the record that is in the file. `ApprovalRecoverable`: whatever the owner
  signed, and whenever, the journal still holds the request for it, so the
  cost counted is never lost. `PublicOpened`: checkpoint or candidate opens
  the public ledger, and nothing executes twice. `JournalReopens`: the checks of the next open pass.
* **Mirror.** `MirrorFollowsContract` is a refinement with two named exceptions
  (section 4): every step of the page is a step of `LineContract`, whose
  variables are read off the ledger object. `RecordsOpenLedger`: after any overlap or
  crash, the private records of the MCP server open the ledger beside them, and
  the ledger's counters pass the checks of `readState`.
* **Private facility.** `OneBookCarriesTheDebt`: requests, acceptances and
  reopenings in any order leave each borrower one spendable book, and it carries
  exactly what the borrower's claims cost less what was repaid and credited.

### 3.2 Bounds, and why they are enough

* `MaxUint64` of 4 and 5 puts the overflow of every counter within reach of two
  claims and a deposit, so aborted casts happen; real width only makes them rarer.
  Two quotes are enough for one claim to meet another claim's budget, two payments
  for a reference to be used again, two openings for a claim to outlive its
  line, one tick of block time for a deadline to pass between any two calls.
* Two tabs give every race over a lock with one holder. A journal of two
  operations has an earlier and a later one, is full, and must compact. Five
  transactions of the account take one claim from its draw to its refund beside
  the draw of another.
* The supplier has one pending entry, so three orders cover entry, predecessor
  and successor. It runs inside `service_tabs` with the two requests of the
  organization, the retried and the next; the proofs remove the bound.
* `Limit = 3` and `Price = 2` make the second purchase exceed the limit, be
  compensated in part by credit and in part in cash; `Reserve = 4` allows two.
  `MaxWaiting = 1` is enough to have a request arrive before and execute after
  any other step.
* Five workers allow an owner, one that takes over, one that races it, one that
  starts later and one that repeats a command after all of them. Two operations
  are a completed one and the next; the proofs remove these bounds.
* `MaxSafe = 7` with `MaxUint64 = 16` leaves room for sums that round and are
  still `Uint<64>`. One waiting call besides the calls that run to their end is
  every overlap of two handlers. The page's ledger meets two generations of its line.
  The server's fee is a rate that rounds up to one; with one quote its own quote and
  draw never run after a seed, and any other policy or number of quotes is left to
  `RecordsAlwaysOpen`.
* Five leaves of the private tree are two enrollments and three replacements of a
  book. Compensating a claim after its borrower's line was reopened needs seven
  and is outside this bound: there the theorems of `LedgerProfilesProofs`, which
  bound nothing, take over.

`Symmetry` is used for safety runs only, over interchangeable tabs, requests,
references, merchants or processes.

`CHECK_DEADLOCK FALSE`: the contract modules and the mirror stop when block time
and quotes are used up; account, purchase and journal when their operations are;
the checkout may end with all requests answered and the server down; a worker
process runs once.

### 3.3 Fairness

Only `account_lock` assumes any. `FairSpec` gives weak fairness to each tab's
timeouts: every wait under the account lock is wrapped in `withinDeadline`
(25 s reads, 180 s wallet approval, 300 s proofs, 30 s submission, 45 s
finality), whose timer the browser runs, and the Web Lock is released when the
section throws. Nothing is assumed of wallet, prover, indexer, network or user.
No other liveness is claimed: the console holds its lease through a wait for
finality without a deadline, and a supplier entry that failed or vanished keeps
the supplier blocked until an operator acts. Both are listed as hazards.

## 4. Findings

1. **The journal's only copy of the book** (`journal_stale_mirror`). An unlock
   that recovery blocks still loads the book of the older `agent-line` record
   into the store. If the tab stopped between the journal's confirmation and the
   save of that record, the store continues with the previous book; the snapshot of the next
   confirmed operation replaces the journal's copy of the current book, which
   is then in neither place.
2. **The swept request** (`checkout_swept_request`). The handler finds its
   session, then awaits the request's body. A sweep in between may drop the
   session as free of obligations and delete its file; the request then still
   executes, and the exact retry of an interrupted purchase draws. The debt
   belongs to a session the server no longer finds until a restart reads the
   file its checkpoint wrote again.

3. **Two compensations of one note** (`mcp_overlap`). `line.compensate` is
   described as allocating "once", and a test asserts that a second call fails.
   The handler reads the state file, awaits an import and only then computes and
   writes, and the server does not wait for one handler before it starts the
   next. Two requests sent together are both answered "Compensation allocated
   once."; the later write replaces the file. With one line of stdin at a
   time, as the tests send them, the second call is refused.

The traces need nothing but a few requests or tab actions and, in the first two, one
closed tab or crash. Claims on the ledger stay payable in all; what is lost is, in
the first, the opening of the line's book, in the second, for a while, the
only way to report the repayment, and in the third a write of another tool, if
it finished between the two.

`MirrorFollowsContract` excepts two differences of the mirror from the contract.
`Reenabled`: `registerMerchant` of the mirror (`protocol.ts:326`) sets a disabled
merchant active again, where the circuit refuses a registered key
(`line.compact:305-310`). `rounded`: `fundReserve` (`protocol.ts:377`) checks the
deposit and not the sum, which is rounded beyond 2^53, although the comment at
`protocol.ts:118-126` speaks of amounts kept in the safe range; from then on the
budgets need not add up, so nothing is claimed of the page any more. Neither is in
reach of the console's own forms.

The simulator's lab (`simulator-store.ts`) passes the absolute time `10_000` as
the expiry of the line it seeds, which is in the past on any clock of today: the
line is refused, and the button reports success. The lab is not modelled.

## 5. The proofs

All theorems hold for every value of the constants that the named assumptions
allow. An invariant that a run checks is seldom inductive as it stands: for each,
the text names what had to be added and why.

`TotalsProofs` holds what the proofs about money share. A sum over a map is the
cardinality of a set of units; it is empty, unchanged, monotone, grown by one
element or changed in one, as that set is.

**The canonical contract** (assuming `KeysAreDistinct` and `InputsAreUint64`):

* `LineContractProofs!TypeCorrect`: `Spec => []TypeOK`. `TypeOK` is
  inductive: one lemma per circuit or group of circuits. It is where the
  `Uint<64>` discipline matters: a counter stays in range because each call
  asserts or casts before it writes.
* `LineContractProofs!Solvency`: `Spec => []ReserveSolvent`, with `TypeOK`. Draw and
  withdrawal keep it because they compare with the unlocked rest
  (`reserveCovers`); redemption, expiry, compensation and refund because what one
  budget releases another takes over.
* `LineContractProofs!BudgetsAreClaims`: `Spec => []ReserveAccounting`. The
  strengthening is the shape of one claim (`ClaimOK`: which flags exclude which,
  and what the refund commitment holds) for all of them. Each circuit adds a
  claim or moves one; the laws of sums then say that each sum changes
  by the difference of that claim's share, which is what the circuit writes to the
  counter.
* `LineContractProofs!DebtsAreBacked`, `BorrowersAreConserved`,
  `DebtsAreNotForgiven`. `DebtInv` adds: a line that is not open has no debt, the
  debt is at most the uncompensated claims of its generation and at most the
  limit, and debt plus repayments is the total owed. A compensation that credits
  needs that the claim is one of the debt's own generation, and one that pays out
  that promises and uncompensated claims share no unit of what is owed.
* `LineContractProofs!FeesAreQuoted`, `QuotesAreDrawnOnce`, `PaymentsAreUsedOnce`,
  `ClaimsSurvive`. `ClaimSteps`: only a draw adds a claim, and no other step
  changes a claim's terms. `DrawnOnceInv`: the quote of every
  claim is on the ledger, so that a newly posted one is named by none. `PaymentInv`: every repayment and report
  credited has spent the nullifier of its payment reference. `FeesAreQuoted` is
  the arithmetic of the circuit: the fee it takes as a witness and checks by two
  inequalities is the quotient rounded up.
* `LineContractProofs!ClaimsAreOpen`: `Spec => []ClaimsOpen`, what `ClaimsNeverStuck`
  says of enabledness without its operator. `redemptionOpen` and `expiryOpen` are the
  guards and casts of the two calls that end a live claim; `RedemptionIsItsGuards` and
  `ExpiryIsItsGuards` prove that each call is these guards and one new value for every
  field, so it is enabled exactly when they hold. `OpeningInv` is the strengthening: a
  note still says what its commitment binds, and a redeem nullifier is spent only by
  the redemption of its own claim. That the counters can move is the budgets, which
  hold the claim's share (`ShareOfTotal`), and solvency, which keeps their sum a
  `Uint<64>`.
* `LineContractProofs!EscrowIsImplemented`: `Spec => ImplementsEscrow`, the
  refinement. `HeldInv`: what the escrow holds is the sum of the five budgets,
  so the escrow's guard (it promises no more than its capital) is
  `ReserveSolvent`. Initial states map to initial states, and each circuit is a
  step of the escrow on one claim, a movement of free capital, or a stutter.

**The organization profile** (the same assumptions, any set of addresses). All its
steps but the refund and the repayment are steps of the canonical facility, so
`TypeOK` and `ReserveSolvent` carry over from their lemmas (`CanonicalSteps`).

* `LedgerProfilesProofs!CustodyIsBacked`: `orgSpec => []CustodyBacksClaims`. The
  balance moves with the reserve, or with the redeemed principal (`CustodyInv`);
  that it covers the other budgets is then solvency.
* `MerchantsArePaid`: `orgSpec => []MerchantsPaid`. `PaidInv` adds that every claim
  is of a registered merchant, and that registration, which is once for each
  merchant, is where the address is written: so no later registration moves a past
  payment to another address.
* `OrgClaimsAreOpen`: `orgSpec => []OrgClaimsOpen`, the counterpart of
  `OrgClaimsNeverStuck`: the canonical guards, an address for the merchant (`PaidInv`),
  and tokens for every live principal and every refund that is owed (`CustodyCovers`).
  The refund leaves the canonical sum of reported refunds behind, so the three budgets
  it needs are an invariant of their own (`ClaimBudgets`).
* `CustodyEscrowIsImplemented`: `orgSpec => ImplementsCustodyEscrow`. `BackedInv`: the
  claims hold together exactly what the four budgets lock, and the canonical budget
  of reported refunds stays empty. The refund is the step that differs: it takes at
  most what the claim held out of the capital and leaves it nothing.

**The private facility** (the same assumptions, any number of borrowers, books and
claims; `LedgerProfilesProofs`). Nothing on the ledger names a borrower here: the
argument has to say which of the committed books is the one that counts.

* `OneBookForEachBorrower`: `profileSpec => []OneBookCarriesTheDebt`. `BooksOK`: any
  other book of a borrower is of an earlier generation, or of an earlier epoch of
  the same one (`OneCurrent`), who ever had a book has one (`StaysEnrolled`), and the
  first is issued once (`IssuedOnce`). So what replaces a book is new (`Succession`),
  and a spent one cannot return. `DebtsOK`: what a book owes and what was credited to
  its borrower are together what was drawn; the book owes at most its open claims of
  its own generation; and no more cash is promised than was credited. The last needs
  that a claim that promises cash is no longer open (`PromisesBesideOpen`).
* `PrivateEscrowIsImplemented`: `profileSpec => ImplementsPrivateEscrow`. `HoldsOK`:
  what the claims hold is what the reserve keeps for them (`kept`, all that is locked
  but earned fees), and the reserve covers all that is locked. The attempt showed
  that two arms of `claimState` overlapped for an acknowledged refund of nothing,
  which only this profile reaches; they are now exclusive.

**The supplier** (for any set of orders): `ServicePurchaseProofs!AtMostOneUndecided`,
`PaidBeforeDelivered`, `SentOnce`. None is inductive alone. `SupplierInv` adds that
an operation the journal does not hold was never signed or has succeeded with its
order past it (`Retired`), so that a new entry always starts without bytes; that
the order of the pending entry waits for it, and its bytes are still on disk only
until the attempt was marked (`EntryOK`); and that a process that executes or sends
has such an entry (`StepOK`).

**The account** (for any number of tabs, requests and operations;
`ServicePurchaseProofs`): `OnePaymentAtATime` (`NoOrphanTransaction`),
`RecordOpensLedger` (`BackupRestorable`) and `ArchivedStaysUnapplied`
(`ArchivedNeverApplied`). They hold together or not at all, in `AccountInv`: names are
given out in order (`NamesInOrder`); a signed operation has its own call as its
transaction, and its candidate is that call's effect on the snapshot (`PendingOK`);
the tab that holds the lock is at a step the record agrees with (`LockOK`); the
ledger is where the snapshot is until the pending transaction succeeds, and where
the candidate is from then on (`Opens`); and only transactions whose intents have
expired are archived (`Expired`). `Opens` is why a completed candidate can be saved
without reading the ledger again, and it would fail if a second transaction could
be signed beside the first.

**The purchase** (the same module, over both parts): `OneCharge` (`ChargedOnce`) and
`DeliveryIsPaid` (`DeliveredIsPaid`), which neither part promises alone. `ServiceInv`
is the two invariants and what joins them: every claim on the ledger is known to the
record that opens it (`ClaimsKnown`); a pending draw belongs to the saved attempt
(`OrderOK`); what the ledger still charges is the claim of that attempt, which is not
cancelled (`ChargesAttempt`); a finalized redemption shows on the ledger (`PaidOut`);
and what a tab learnt before a wait still holds after it (`ClientOK`), because a
settled claim stays settled. `SupplierOfAPurchase` is a refinement:
`SpecService => SpecSupplier`, so `SupplierKeepsItsWord` follows from the supplier's own
theorems; `AccountOfAPurchase` restates the account's three for the purchase.

**The console's journal** (for any number of tabs and any capacity;
`ConsoleJournalProofs`): `RecordAlwaysReadable` (`JournalReadable`),
`JournalTellsTheTruth` (`JournalTruthful`), `OldOperationsAreOver`
(`EarlierOutcomesKnown`). `ConsoleInv`: all operations but the last are settled, and
those that recovery may need kept their snapshot (`RecordOK`, which also survives
compaction); each status implies what the transaction did (`TruthOK`); and the holder
of the lease knows the last operation at its step (`HolderOK`). The last makes the
proof go through a crash at any step: a tab without the lease may be anywhere, and
nothing is assumed of it. The partial success of a book transition, and the
cancellation a merchant shows in public, count as having happened (`Happened`).

**The checkout session** (for any number of purchases and payments;
`CheckoutEvaluationProofs`; assuming that both are finite, and that the value for "no
job" is not a job): `AnswersAreKept` (`AnswersSurvive`), `FilesRecover`
(`CheckpointsRecover`), `BookIsCharges` (`ChargedAndCreditedOnce`). `CheckoutInv` says of
the session in memory and of the session in the file the same (`Sound`): each order
agrees with its claim, and the book is the price of every claim less credits less
repayments (`Balanced`); what the claims lock is funded (`Backed`).
Between jobs memory is what the file holds
(`FileUpToDate`), so a session that a crash throws away had promised nothing more.
A job changes one order or adds one repayment, and the sums by that.

**The lease** (for any set of processes): `OwnerCoordinatorProofs!SingleOwner`. The
invariant adds three facts: who writes or owns is named in the lease (`Holders`);
who has checked the lease holds the guard (`Guarded`); a lease that was probed
stale is still the same while the guard is held, since only its dead owner or
the guard's holder could remove it (`Probed`). Without the guard the third
fails, which is the mutant.

**The coordinator** (for any workers, operations, cap and clock):
`OwnerCoordinatorProofs!SpecApprovalRecoverable`, `SpecPublicOpened`,
`SpecHolderIsCurrent`, `SpecJournalReopens`, and the lease again over the larger
state. `CoordinatorInv` stands on the lease's invariant: who works owns
(`Owning`), hence works on the file's record (`HolderIsCurrent`). A request on its
way to the owner is the intent of the journal or was signed before (`Requested`,
`AskedOnce`), so a late signature is usable (`Signed`); what was proven or seen of
the public ledger is not ahead of the candidate (`Proven`, `Observed`, `Opened`).

**The MCP server** (for any prices, fee policies, tool calls and steps of the demo;
`MirrorHostsProofs`; assuming of the numbers that every exact double is a `Uint<64>`
and every `Uint<64>` within the eleven powers of two above, and of the script's amounts only that it funds within that range): `RecordsAlwaysOpen`,
`HostSpec => []RecordsOpenLedger`. `SnapshotOK` says of a ledger with its private
records what the property says of the file, and more: the counters are the sums of
what the claims still hold (`CountersOK`), so that every addition of the mirror is of
numbers whose sum is an exact double. `McpInv` says it of the file and of what every
waiting handler has read: a handler writes from what it read, and each function of
the mirror leads from an opened ledger to an opened one. The demo is a recursive
function; that it exists and that each of its snapshots opens is shown by induction
over its steps (`DemoRecursion`, `DemoOpens`), from the library's fact that every set
of naturals has a least element (`TotalsProofs!NatSetInduction`).

**The page** (for any keys, amounts, terms and times; the same module, the same
assumption on the numbers and nothing else): `MirrorFollows`, `HostSpec =>
MirrorFollowsContract`, the refinement of `LineContract` by the mirror. `PageInv` says
of a page whose reserve has been exact what the contract's guards and casts need
and the mirror never computes: the counters are the sums of the claims and lie within
the reserve (`LedgerOK`), so the mirror's nested additions are the contract's exact ones
(`LockedAlike`) and no cast of the contract aborts (`CastsPass`); the book is the
commitment of the ledger's own identity with safe numbers (`BookOK`); and a note's
commitment binds what its entry holds and names a borrower (`Binds`), which is what the
contract recomputes.
One lemma for each method (`RegisterFollows` ... `DrawFollows`) then takes the mirror's
call apart and puts the circuit together: the same guards, the same record written,
the fee by division equal to the one checked by inequalities (`FeeHolds`), the stale
book refused on both sides. A refused call of the issuer may still have bound the
issuer's key, which the contract does not see (`BoundCall`). The proof found two
inaccuracies of the model, now corrected: doubles lose more than one bit beyond twice
the safe range, and a book at the last safe epoch cannot be rotated.

Every invariant was model-checked before it was proved. These stay with TLC:

* `ClaimsNeverStuck` and `OrgClaimsNeverStuck` as they stand, with `ENABLED`, and
  `LockReleased`, a liveness property: the prover reasons about neither operator.
  The guards that make the first two true are proved (`ClaimsAreOpen`,
  `OrgClaimsAreOpen`).
* The runs that expect a violation refute a claim; there is nothing to prove.

## 6. Not modelled, and why

* Cryptography: proofs, hashes, signatures, encryption. They are taken as
  perfect; what binds what is in the records that stand for commitments.
* The compiled contracts under `contracts/managed/`: output of the compiler,
  whose input is modelled.
* Wording, views, tokens, HTTP status codes, route tables, user interface, the
  browser vault's codec.
* Limits met one at a time: body sizes, twenty sessions, name lengths.
* Operations of the account without effect on books and claims (funding,
  registration, deployment, keys): they take the same steps through record
  and network, and would multiply the states without a new interleaving. The
  three siblings of the expired compensation follow its protocol.
* The restore of a backup. It goes only into an empty workspace and is verified
  against public state (`network.ts:131-158`); what it needs of the record is
  `BackupRestorable`. That an older backup and a transaction still in flight meet
  on two devices is listed as a hazard.
* The tab session (`tab-session*.ts`): copies of a tab, their Web Lock and the shared worker.
* The volatile checkout without storage; several sessions of one server.
* The network lane of the finance journal, which waits for finalized receipts:
  only tests drive it. The receipt registry and the harness around it.
* A crash of the signer before it saves: the request is lost, as if it were never
  delivered. A coordinator that finds a saved request refused, or a recovery guard
  left behind, stops by design until an operator acts.
* The seven other candidates under `contracts/experimental/`: the circuits of
  `PrivateFacility` with more of their state public; the test settlement differs
  from the organization profile by minting what is funded, and has the canonical
  refund and repayment.
* The simulator's store and lab; the finished demo is the server's `line.seed`.
* A prover or node that lies: receipts are what the ledger holds.

## 7. The plan

Done, in this order, most important first: contract and escrow; organization
contract; console journal; account; supplier; the purchase that composes the last
two; checkout session; lease; coordinator with its signer; mirror, page and MCP
server; private facility; the proofs of section 5.

Left, modules:

1. `CheckoutSessions`: several sessions over one directory: the limit of twenty,
   a failed creation, and a failed session that blocks the sweep for all.
2. `BackupRestore`: a backup older than a transaction in flight, restored on
   another device over the same facility, on top of `OrganizationAccount`.
3. The three other expired operations, as instances of the archive protocol.
4. `TabSession`.

