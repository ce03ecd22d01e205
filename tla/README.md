# Verification of the crypto payment gateway

TLA+ models, TLC runs and TLAPS proofs about the gateway's ledger of deposits
and the processes that write it, the wallets and explorer keys these use, the
webhooks that tell merchants of it, and the money that leaves: payouts,
settlements and sweeps. Paths below are relative to `src/`.

## The system

Six long-running programs share one PostgreSQL database and nothing else
(`docs/split-services.md`): the Express API (`server/src`), the ERC20 and TRC20
scanner workers, the maintenance cron (wallet holds, checkout expiry, payout
drain), the sweep cron and the deposit full-scan cron (`cron/src`). The React
client talks to the API only. There is no lock service and no queue: what keeps
concurrent writers apart is unique keys, conditional updates and short database
transactions.

| Part | State | Operations | Interacts by | What is hard | What makes it correct |
| --- | --- | --- | --- | --- | --- |
| Deposit ingestion (`server/src/services/payment/transaction-upsert.js`) | `transactions` rows of a wallet | read by key, bind to newest open checkout, judge amount, merge or upsert, tidy, release wallet, notify | called by every scanner | each `await` lets other scanners, the cron and the API in | a transfer is credited once, stays where it was credited, is judged once |
| Scanners (`cron/src/services/tracker/`, `deposit-full-scan-pass.js`, `server/src/services/admin-tron-deposit-rescan.js`) | block cursor, one-shot scan flag | fetch transfers, ingest each, advance, clear the flag | explorers' HTTP answers; the ledger | lost, late and repeated answers; crash in mid-scan; two processes at once | no transfer is lost or doubled |
| Checkouts (`server/src/api/gateway-routes.js`, `cron/src/services/wallet-pool/`) | placeholders, wallet holds, assignment events | open, reuse, release | one database transaction per request | first calls of one user racing; derivation collisions | one wallet per user and rail |
| Checkout expiry (`server/src/services/checkout-session-expiry.js`) | none of its own | find stale, fail, release, notify | conditional update on the row | races with a merge | a failed checkout carries no money; a stale one does not stay open |
| Payment webhooks (`server/src/services/callback-service.js`, `callback-retry.js`) | attempt count, last attempt, delivered mark | claim, POST, mark, retry, redeliver | merchant's HTTP server | duplicate and lost calls, crash between POST and mark | bounded attempts; every terminal status is told |
| Payouts (`server/src/services/merchant-withdrawal-request.js`, `payout/`, `withdrawal-admin-patch.js`) | `withdrawals` rows, hot wallets | request, execute, drain, time out, patch | chain RPC; merchant balance | check-then-insert; a timeout racing a late answer | one send per payout; a terminal row stays terminal |
| Settlement and fees (`settlement-batch.js`, `merchant-fee-math.js`, `merchant-balance.js`) | settlements, settled marks; the balance is added up each time | preview, execute, balance | database transaction | marks not re-checked; nothing reserved; rounding | a deposit is settled once; parts add up; nobody is overdrawn |
| Explorer keys (`deposit-scanner-explorer-key-pool.js`) | requests of the day per key (row), leases of the second and a cached count of keys (memory) | lease, peek, count an answer, invalidate | module-level state; one SQL statement nobody awaits | restarts, midnight, several processes | limits are kept; changes are noticed |
| Sweeps (`server/src/services/sweep/`, `cron/src/jobs/tron-usdt-auto-sweep-cron.js`) | rows of a swap run in memory; balances on the chain | preview, top up TRX for the fee, transfer, poll | chain RPC | late transactions, outdated balances, overlapping runs | the funder keeps its reserve; rows tell what happened |
| Routes for admins, merchants, resellers; settings; keys; client | CRUD tables | - | - | - | - |

`PROJECT.json` lists the parts, also those not modelled, and every hazard with
its line.

## Modules

| Module | Role |
| --- | --- |
| `DepositLedger` | abstract: what the ledger promises, without scanners, awaits or crons |
| `DepositIngest` | the code: rows of one wallet, scanners, API calls, expiry cron; states the properties and the refinement of `DepositLedger` |
| `MCDepositIngest` | amounts and symmetry for the runs |
| `DepositIngestProofs` | invariants and the refinement, proved |
| `WebhookPromise` | abstract: one automatic call at a time, a bounded number, none after delivery |
| `PaymentWebhook` | the code: notify functions, retry loop and manual resend over rows whose status the ledger changes; refines `WebhookPromise` |
| `PaymentWebhookProofs` | type correctness and the refinement, proved |
| `PayoutPromise` | abstract: a payout is paid at most once, completed only if paid, never reopened; references are unique |
| `Payout` | the code: requests, their execution, drain ticks, stuck marker, admin patch; refines `PayoutPromise` |
| `PayoutProofs` | type correctness, the idempotency key and the refinement, proved |
| `AddressBook` | abstract: an address once given stays its user's, and a checkout is open once, on its user's address |
| `WalletAssign` | the code of a deposit-address call: user, cooldown, and the transaction that picks or derives a wallet and opens a checkout; refines `AddressBook` |
| `WalletAssignProofs` | its invariants and the refinement, proved |
| `EvmScanner` | the code of the ERC20 scan: worker and full scan on one block cursor, the one-shot scan flag |
| `EvmScannerProofs` | its safety properties, proved |
| `ExplorerKeys` | the code of the key pool, its callers in two processes, the admin's changes |
| `ExplorerKeysProofs` | its invariants, proved |
| `MCDepositSide` | instances of these three and of PaymentWebhook for one run |
| `FeeMath` | the money arithmetic: percentages, fee split, limits |
| `Settlement` | the code of batch settlements and of payout requests over one balance |
| `SettlementProofs` | the fee split and the limits for all amounts, the settlement's invariants and the balance, proved |
| `TokenSweep` | the code of the TRC20 sweeps: swap runs, cron rounds, sweep of all wallets |
| `TokenSweepProofs` | its invariants, proved |
| `MCBackOffice` | instances of Settlement and TokenSweep for one run |

### DepositIngest and the code

One wallet with one payer. A row is named by what it started as: a checkout
placeholder by its session (`gateway-created:<key>`), an inserted row by its
transfer. `row[r].tx` is the hash the row carries now, so a merge is a change of
`tx` on a placeholder. `RowsOf(c) = {}` before an insert is the unique key
`tx_chain_log_unique`.

* `upsertIncomingTransaction` runs outside a database transaction. Its awaits
  are the actions `ReadPrior`, `BindCheckout`, `Judge`, `FindPlaceholder`,
  `WriteRow` (or `FailWrite` when the merge hits the unique key and the
  exception ends the scan), `Tidy` and `ReleaseWallet`. What it read lives in
  `job[p]` and may be stale when it writes. The amount check uses one read of
  the session's rows; the expected amount of a session never changes. The notify
  calls at the end write the callback columns only and belong to the webhook
  component.
* `StartScan` and `StartRescan` fetch. The explorer answers with any subset of
  the mined transfers (a page, a block range, or nothing on a failed call), each
  as confirmed as it was then. TRC20 ingests everything as confirmed
  (`Instant`), ERC20 by threshold. The worker scans wallets on its hot path, the
  full scan those with a timer set, a rescan the wallet of one placeholder.
* `Crash` and `CrashExpiry` lose the locals of a process at any await.
* `LoadStale`, `MarkFailed`, `ReleaseLapsed` and `EndExpiry` are the cron's
  loop; `MarkFailed` repeats the condition as the code's `updateMany` does.
* Time is abstract: `GrowStale` ages open checkouts oldest first, a reuse resets
  the age, and `newer` keeps the order of `created_at` that LIFO needs.

Left out of it: the payer filter and reference ids (one payer per wallet), the
recipient-mismatch exit, block numbers and symbols, and the raw-SQL twins of
queries for an outdated database client.

### PaymentWebhook and the code

`notifyPaymentSuccess`, `notifyPaymentUnderpaid` and `notifyPaymentFailed` are
one protocol that serves three statuses. `job[p]` holds the row a process serves
and the status it serves it as.

* `Load` is the read with the early returns; `Claim` the conditional
  `updateMany`, `ClaimNothing` its count of 0; `Accepted` and `Refused` end the
  POST, and a refused or timed-out POST may have reached the merchant;
  `MarkDelivered` sets `callback_delivered_at` by id, `MarkFails` is the
  exception of that update, which the catch block logs as a failed call. `Crash`
  loses the job at any await.
* `FindDue`, `RetryRow` and `EndBatch` are the three retry queries, run one
  after the other after each TRC20 tick. `older` keeps the order of
  `updated_at`, by which a query takes its first `Limit` rows; every update of a
  row moves it to the end.
* `Resend` is the redeliver request: it reads, POSTs without a claim, and marks
  the row only when the read did not find it delivered.
* `MinutePasses` is the time between two attempts. Its guard, no POST in flight for the row, holds
  because a POST is aborted after 15 s.
* Of the ledger only what writes a status is kept: `ReadPrior` and `WriteRow` (a
  scanner's upsert, which writes what it decided on earlier), `Lapse` and
  `OpenCheckout`. `EditUrl` is the merchant changing `callback_url`.

Left out: the payload and its signature, other users of the redeliver tool, and
the sandbox routes that call the same functions.

### Payout and the code

The payouts of one merchant on the live environment. A POST inserts one row and
executes it in the same request, so a row stands for its request too.

* `CheckPending`, `CheckReference`, `Insert` and `InsertFails` are
  `createMerchantWithdrawalRequest`: two checks, then an insert that only the
  unique index on the reference can refuse. `FirstStatus` leaves open whether
  the limits and the balance are met.
* `Load`, `Claim`, `NotSent`, `Broadcast`, `Receipt`, `MarkCompleted`,
  `MarkFailed` and `MarkThrows` are `executeAutoPayout`. `NotSent` is every way
  to fail before the money moves; `payments` counts what the chain carried out,
  whether or not the receipt is ever read. Marks go by id, and a mark that
  throws ends in the catch block, which marks the row failed.
* `FindStuck`, `MarkStuck`, `FindPending`, `Take` and `EndTick` are
  `processPendingAutoPayouts`. The cron starts a tick each minute and waits for
  none, so ticks are processes that overlap.
* `ReadForPatch` and `WritePatch` are the admin's patch, with the status it read
  written back when none is given. `patched` records the rows it touched; the
  promise stops there, since the patch may reopen anything.
* `Abandon` is a process that dies or waits for an answer that never comes.

Left out: sandbox rows, which send nothing; the order and the limit of the
drain's queries, since every row a query takes leaves it; network fees, written
after the row has its hash.

What the promise does not cover: a row an admin set back to pending (or that was
pending before automatic payouts existed) may be executed by two overlapping
ticks, and then it is paid twice. A payout that was sent may end as failed, when
its receipt or its mark is lost.

### WalletAssign and the code

`POST /api/v1/gateway/deposit-address` on one rail. PostgreSQL runs the
transaction at READ COMMITTED: a call sees what is committed (`wallets`, `open`)
and its own `draft`, the one row it updated, locked or inserted.

* `FindUser` and `CreateUser` are before the transaction, with the cooldown
  look. `UseDedicated` locks the user's row, `NoDedicated` finds none,
  `PickFree` takes a free row under `FOR UPDATE SKIP LOCKED`, `NonePickable` is
  its empty answer.
* `ReadMaxIndex`, `ProbeAddress` and `InsertWallet` derive a row;
  `InsertCollides` is the unique violation, with the savepoint and the second
  look at the pool, up to `MaxCreateAttempts`.
* `FindSession` looks for a checkout to reuse; `CommitCall` publishes the row
  and the session together; `AbortCall` is a timeout or an exception.
* `Overlapped` compares what was answered when each call began. The four
  properties that use it say what strictly successive calls are promised; that
  overlapping ones may get two wallets, or one address twice, is reachable.

Left out: the payer's details and rails other than the call's own.

### EvmScanner and the code

`scanEvmChain` as the worker's tick and as a pass of the full scan, in processes
of their own. `LoadWallets` reads the list (the worker: hot wallets and flagged
ones), `ReadTip` and `ReadTipFails` the chain's tip, `ReadCursor`,
`CreateCursor` and `WarmCursor` decide where to start, `ApplyBlock` stores a
block's transfers or, on a failed fetch, none, `AdvanceScanner` writes the
cursor, `ClearFlags` ends the worker's tick. `Heat`, `Release` and `RequestScan`
are what other parts do to a wallet; `ScanThrows` ends a scan anywhere while
there is an `outage`.

* The full scan starts at the same cursor as the worker, so it never visits a
  block behind it: what a scan went past (`missed`) no later scan finds, and a
  block is scanned at the tip, before its transfers have many confirmations.
* A cursor of 0 is moved by two scans over each other only while the chain is no
  longer than `ZeroWarmup`.
* A request to scan (`flagged`) is kept by a tick only under conditions.
  `ClearFlags` clears all flags of the chain: those of wallets on the tick's
  list, whether or not the explorer answered (`failed`), and those set since the
  list was loaded (`late`). So the comments `worker.js:61` ("after a successful
  chain tick") and `server/prisma/schema.prisma:249` ("include on the next
  worker tick once, then cleared") do not hold, which the run `scan_flag` shows.
  What does hold is `FlagServedOrExcused`: a tick of which no call failed drops
  an earlier request only after a scan of the wallet in each of its blocks.
* `Release` drops a request that no tick has read as well; neither property is
  about it.

### ExplorerKeys and the code

The keys of one rail and the flows that use them, in the API and in a worker.

* `Look`, `CountKeys` and `KeepCount` are `hasActiveDepositScannerExplorerPool`.
  `KeepCount` writes the nonce of the moment it runs: an invalidation since the
  query is lost (`overtaken`).
* `TakeDay` and `ReadRows` read the rows, with the date taken before; `Pick`
  takes a second's slot of the first key that has one, or polls again; a balance
  probe (`Probes`) takes the first key and no slot. `SecondPasses` lets a lease
  age.
* `GetAnswer` is a successful call; its count is a statement nobody awaits, so
  it runs later (`Count`), fails (`CountFails`) or dies with the process
  (`Restart`). `GiveUp` is a failed call or two minutes without a slot.
* `ChangeKey` and `Invalidate` are the two steps of the admin's routes, in the
  process `Api`. No other process hears of it: a worker keeps the count it read
  first until it restarts, so one that found no key scans nothing, although the
  comment at `deposit-scanner-explorer-key-pool.js:20` has the workers pick up
  changes quickly. `CacheOutdatedOnlyByOverlap` is therefore about the API.

Left out: the second rail (the two counts are read one after the other), keys
that cannot be decrypted, changes of a key's limits or order (they are constants
here), and the counting of calls with the key of the environment.

### Settlement, FeeMath and the code

One asset of one merchant. `FeeMath` is arithmetic on integers: amounts are
`BigInt` in the code, percentages `Decimal(7,4)`. Percentages that lie half-way
between two basis points are left out (`Percents`), since the direction in which
`Math.round` takes them depends on the floating-point product.

* `Preview`, `ReadMerchant`, `LoadUnsettled` or `RefuseBatch`, the three
  balance queries (`ReadInbound`, `ReadOutbound`, `ReadSettled`), then `Settle`
  or `RefuseSettlement`. What others can see of the transaction is its row and
  its marks, which come last.
* `Terms` are the merchant's columns that the portals may change at any time:
  rates, minimum, hold period. The preview reads the hold period, and
  `ReadMerchant` reads all four again before the transaction
  (`settlement-batch.js:268-287`); each may find any of `Terms`. A deposit has
  an age in days, and is unsettled under a hold period no longer than that.
* The operator pays before the request is posted. A request that is then
  refused, or a hold period raised after the preview, leaves a payment without
  its row; the code has no answer to that, and `PreviewIsSettled` is about
  requests that made a row on a hold period no longer than the preview's.
* The minimum is compared with the net, in token units, strictly, and a minimum
  of 0 asks for a positive net (`server/src/lib/merchant-fee-math.js:120`,
  `190-192`; the portals answer so, `admin-routes.js:2929`). The comment on the
  column, `schema.prisma:124`, says "Minimum gross (atomic integer string)" and
  "0 = no minimum". `RowsAddUp` states what the code and its answers say, and so
  contradicts that comment on all three counts.
* A payout request makes the same queries (`CheckOpenPayout`, `InsertPayout`).
  What ends an accepted payout (executor, catch block, stuck marker) writes its
  status by id and looks at none, so `EndPayout` may take place any number of
  times, also from failed to completed. Nothing is reserved: a settlement and a
  payout that read the balance before either is entered overdraw it, and so do
  payouts accepted while an earlier one was marked as failed that ends as
  completed. `OverdrawnOnlyByOverlap` allows that and nothing else: the debits
  that saw each other, with one of those that did not, are always covered.

Left out: `withdrawal-admin-patch.js`, by which an admin may set any payout to
completed, also one that was refused at once for want of balance; that is
another way to a debit, which nothing compares with the balance (`Payout` models
the patch). Also the proof file, and the bound of 100 % on the sum of the rates
which the portals enforce and the fee split does not need.

### TokenSweep and the code

One merchant's wallets, one funder, and a chain that executes a transaction some
time later or not at all. The funder is the account whose key the run uses: the
funder of the settings, or the reseller's main wallet, which is the preferred
one in a swap run and the last resort of the others
(`merchant-trx-fee-funding.js:114-245`).

* `StartSwap`, `PreviewWallet`, `Register` and `LoadTargets` start the three
  kinds of run. The job map is read by `StartSwap` and written by `Register`;
  between them are awaits.
* `ReadUsdt`, `ReadAmount`, `ReadTrx`, `CheckFunder`, `SendTopUp`,
  `SendTransfer`, `NotBroadcast`, `Poll` and `RpcThrows` are the loop over the
  wallets. `Gap` is what is missing and the cushion.
* `Deposit`, `ExecuteTopUp`, `ExecuteTransfer` and `DropTx` are the chain;
  `RunsDie` ends the processes.
* A top-up costs its sender one of `SendCosts` besides its amount (bandwidth,
  or the activation of a new account). The code compares amount and reserve with
  the balance and leaves that cost out, so the comment at `tron-trx-topup.js:19`
  ("keep this much sun on funder after each outbound") fails by it: what is kept
  is the reserve less the cost of the send, and "approx. one more fee" is what
  the reserve is for.
* `FunderTransfers` is a transfer out of the funder that is no top-up: TRON
  payouts leave from the main wallet (`execute-auto-payout.js:138-186`), and
  cron rounds and admin sweeps also sweep it where it is a deposit wallet of the
  merchant. Nothing compares these with the reserve. `ownFees` counts what they
  took since the last top-up, and `ReserveKeptUnlessStale` is about top-ups, net
  of it.
* `stale` notes a top-up that was sent on a balance that had changed or was
  about to. Two runs on one funder, or a top-up that lands after the wait of 12
  seconds, reach that; then reserve and cushion are not kept.
* With three runs, a start that overlaps the first can let a third join the
  first once the second has ended; hence `StartsOverlapped` is about any two
  registered runs.

Left out: how the fee is estimated (it is any of `TrxFees`, anew at each read),
SunSwap funding, by which a main wallet buys TRX for itself, the ERC20 sweep and
the directional send.

## Runs

| Run | Instance | Shows |
| --- | --- | --- |
| `deposit_worker` | worker; 2 checkouts, 2 transfers, confirmations, crashes | `PaidRowsAreKept`, `PaidRowsKeepTheirTransfer`, refinement `LedgerKept` |
| `deposit_concurrent` | worker, full scan, rescan, expiry cron; 1 checkout, 1 transfer | `OneRowPerTransfer`, `FailedMeansUnpaid`, `StaleCheckoutsLapse` |
| `deposit_judged_early` | worker; 1 and 1 | violated: `SuccessMeansSessionTotalMet` |
| `deposit_two_scanners` | worker and full scan; 1 checkout, 2 transfers | violated: `PaidRowsKeepTheirTransfer` |
| `deposit_top_up` | worker; 1 checkout, 2 transfers | violated: `ToppedUpCheckoutSucceeds` |
| `webhook_status` | scanner, expiry cron, retry loop; 1 row | violated: `DeliveredAsIs` |
| `webhook_blank` | expiry cron, retry loop; 2 rows, blank and real URLs | violated: `FinalStatusIsAnnounced` |
| `payout_requests` | 2 requests, 1 tick, admin; 1 reference | refinement `PromiseKept`, `OnePaymentPerReference`, `StuckPayoutsEnd` |
| `payout_two_open` | 2 requests, 1 tick | violated: `OneOpenPayout` |
| `deposit_side`, assign | 3 calls, 3 users, 2 merchants with one seed, 1 free pool row | `OneWalletUnlessOverlapped`, `OneUserPerAddressUnlessOverlapped`, `DraftsAreExclusive`, `CooldownUnlessOverlapped`, `ExhaustedOnlyByOthers`, refinement `AddressBookKept`, `EveryCallEnds` |
| `deposit_side`, scan | worker, full scan; 2 blocks, 1 wallet, outage | `NoBlockSkippedBehindCursor`, `FlagServedOrExcused`, `EveryTransferMet` |
| `deposit_side`, keys | probe in the API, scanner in the cron; 2 keys, 2 days, 1 change, restarts | `CacheOutdatedOnlyByOverlap`, `LimitOverrunOnlyByOverlap` |
| `deposit_side`, notify | scanner, expiry cron, retry loop, resend; 1 row, URL edited, crashes | refinement `PromiseKept`, `FinalStatusIsAnnounced` |
| `scan_flag` | worker, full scan; 1 wallet, outage | violated: `FlagDroppedOnlyBySuccess` |
| `back_office`, settle | 2 settlements, 1 payout, 2 deposits, 2 terms | `SettledTwiceOnlyByOverlap`, `RowsAddUp`, `MarksMatchRows`, `OverdrawnOnlyByOverlap`, `PreviewIsSettled` |
| `back_office`, sweep and funder | 2 runs (two swaps; all and auto), 1 wallet, fees of 1 and 2, costs of 0 and 1 | `ReserveKeptUnlessStale`, `NoExcessTrxUnlessStale`, `OneSwapRunUnlessOverlapped`, `RowsTellTheTruth`, `EveryRunEnds` |

Type invariants are checked along with them, but `KeysTypeOK`, which is proved;
so is `OneOpenCheckoutPerRequest`, which `AddressBookKept` contains. In the
settle part the equation of `RowsAddUp` on the balance meets one settlement at a
time or two that overlap; the theorem covers every sequence.
In `deposit_side` and `back_office` a variable `part` says in the first state
which component moves; the others stay in one state, so the parts are checked
each on its own.

Bounds. Two checkouts are needed for LIFO and for a refreshed checkout to
overtake another; two transfers for a second credit, an orphan and a top-up;
three scanners for every pair of roles to race, on one transfer, where every
race for a key is. Webhook calls of different rows meet only in the retry query,
so one row shows the races of the processes that serve it and two rows, with a
query of one (`Limit`; 30 in the code), the starvation. `MaxAttempts` is 2
instead of 5: a first attempt, a repeated one, and the limit. `MaxRestarts`
bounds the restarts of the retry worker by one. Payouts meet in the checks of
the request, for which two rows are enough; one tick of the drain races with the
requests, and one patched row (`MaxPatches`) makes it execute. Amounts: each
transfer is 4, session `s1` asks for 6 and the other for 3, so a credit can be
short, enough, or enough only together. In these runs nothing else is counted,
so no bound limits how often a scanner, cron or request runs or crashes.

Three deposit-address calls are two that ask for the same and a third that comes
in between; their users are one, two of one merchant, or of two merchants with
one seed, one of which has a free row. `MaxCreateAttempts` is 2 (4 in the code):
an index is lost to a call, and again to another. Two blocks and batches of one
(`MaxBatch`) let each scan fall behind the other; a warm-up of 1 starts one
block behind the tip. One key with a limit of one (`MaxPerDay`, `MaxPerSecond`)
is overrun by the second call and leaves the second key; `MaxAnswers`,
`MaxChanges` and `LastDay` bound the answers, the admin and the calendar. Of the
two deposits each is short of what the payout or a settlement needs, and both
together cover one debit, not two. Of the two terms one has rates, a hold period
of a day and no minimum, the other no rates, no hold and a minimum that the
smaller deposit equals and so fails; `MaxDays` is 1, where an age is capped.
Preview, load and each request may meet either. The payout takes part where the
terms stay the same (`agreed`), since it reads none of them. One wallet shows
the race of two runs; `FunderTrx` of 7 allows two top-ups with their costs and
shows the third refused; with `MaxTopUps` 1 a wallet is topped up, found short
and given up. `MaxOwnFees` lets the funder pay one transfer of its own between
two top-ups, in a part of the run (`funder`) that has swap runs and one token
only. The proofs remove
the bounds for all safety properties of the passing runs.

Fairness. `FairExpiry` is weak fairness of the cron's own steps (node-cron fires
every minute) and strong fairness of its updates: a process that is restarted
again and again still reaches its next update at times. Nothing is assumed of
merchants, explorers or scanners. `FairSpec` of the webhooks is weak fairness of
the retry loop (an endless loop of ticks), of the passing of a minute, and of
the end of a POST (its abort timer); it supposes that merchants stop editing
their URL at some time, and that the worker is restarted a bounded number of
times. Nothing makes a merchant accept a call, and nothing is assumed of the
process that should make the first one: the retry loop alone must pick the row
up. `FairSpec` of payouts is weak fairness of the drain (the cron starts a tick
each minute; one that waits for ever is given up and another goes on) and of
time, and strong fairness of the stuck mark: ticks may be cut short, but not
each before its first update. Requests may die or wait for ever.
`AssignFairness` carries on each call that has begun; that a call waits for no
lock for ever is then shown, not assumed. `ScannerFairness` is weak fairness of
the worker's timer and of every scan that has begun; `EveryTransferMet` supposes
that failures end. `SweepFairness` carries on each run, whose RPC calls and polls
all time out; the chain is not obliged to execute anything. Settlement and
ExplorerKeys have no liveness property and no fairness.

Findings. Seven sentences of the documentation or comments fail; `PROJECT.json`
quotes them. A transfer judged while no checkout was open may be stored as a
success of a checkout it does not pay for. With two scanners a paid placeholder
may be overwritten by a second transfer, and the first credit is lost from the
ledger. A top-up never completes a fixed-amount session, since the first short
transfer closes it. A row records that some webhook was accepted, not which:
when the `failed` webhook of an expired checkout is accepted while a late
transfer makes the row a success, the success is never sent. Rows of a merchant
whose `callback_url` is empty pass the filter of the retry query but are never
claimed, so thirty of them fill it for ever and no other row is retried. Two
payout requests at once both find no open payout, and both insert and send one.
A tick whose explorer call failed clears the requests to scan as one that
succeeded does.

## Proofs

`DepositIngestProofs` proves for all finite or infinite sets of sessions,
transfers and scanners, and all amounts:

* `TypeCorrect`: `TypeOK` always holds.
* `OneRowPerTransferAlways`, `FailedMeansUnpaidAlways`, `PaidRowsAreKeptAlways`:
  with any number of scanners.
* `SoleScannerKeepsTransfers`, `SoleScannerKeepsLedger`: assuming `SoleScanner`
  (no full scans and no rescans), `PaidRowsKeepTheirTransfer` and the refinement
  of `DepositLedger`. Without that assumption both are false, as the run
  `deposit_two_scanners` shows.

The safety properties of the ledger are not inductive: whether a merge may write
depends on what the upsert read earlier. `IInv` adds what a suspended upsert may
rely on. `JobInv` relates the locals to the program counter, `KeyInv` ties a
row's session key to its name and gives each transfer at most one row, `ReadInv`
relates what was read to what the rows can have become. `SoleInv` adds, for a
single scanner, that no row carries the transfer in hand until it writes, and
that a placeholder it holds is unpaid: the cron may have failed it, but nobody
has paid it. From `IInv` the soft-delete after an upsert never finds a row
(`TidyIsIdle`), which is why paid rows are kept.

`PaymentWebhookProofs` proves for all sets of rows and processes and all limits:

* `TypeCorrect`: `TypeOK`, with it the bound on attempts.
* `PromiseAlwaysKept`: the refinement of `WebhookPromise`. `calling` is the set
  of rows some process is posting a claimed call for.

Two processes may hold the same row at once, so that calls do not overlap rests
on time: `CallInv` says that a row in flight was claimed within the minute, and
by one process. `MarkInv` says that whoever is about to mark has been answered.

`PayoutProofs` proves for any number of rows, overlapping ticks and admins:

* `TypeCorrect`, and `OnePaymentPerReferenceAlways`: `client_reference_id` is an
  idempotency key.
* `PromiseAlwaysKept`: the refinement of `PayoutPromise`.

That a row is paid once rests on who executes it: `TickInv` says that ticks
execute patched rows only, since nothing else is ever pending; `RowInv` that a
request asks for its row once; `PaidInv` that it has not been paid before the
request sends. `KeyInv` is the unique index.

`SettlementProofs`, for all amounts, terms, requests and deposits:

* `FeesAddUp`, `BatchingIsFair`: the split of any gross amount at any two
  percentages consists of natural numbers that add up, and two batches pay at
  most two of the smallest units more than one. `NetNeverFalls`: one more unit
  of gross never costs the merchant a unit of net.
* `MinimumIsExact`, `PayoutLimitsAreExact`: how far comparing in smallest units
  decides as comparing the amounts people typed, for tokens with any decimals.
  `Pow10Equation` shows first that the recursive function exists.
* `NoDepositSettledTwiceInSequence`, `MarksAlwaysMatchRows`,
  `PreviewAlwaysSettled`. `EntryInv` says that a request with a row is done;
  `MarkInv` that a mark names a row that was computed from the deposit;
  `BeforeInv` what a request that has loaded knows of the rows there were;
  `PreviewInv` that what was previewed is old enough for the preview's hold
  period, and loaded or marked by then if the period read is no longer.
* `RowsAlwaysAddUp`. `SumInv` says that a row is of what its request loaded, and
  `MinInv` that a request past its check still has a net above the minimum it
  read.
  `BalanceInSequence` counts the batches of settlements in sequence, which are
  disjoint, as parts of the credited deposits.
* `NeverOverdrawnInSequence`. What is debited now is not inductive, since a
  payout may be failed, and completed again after others were accepted. `CoverInv`
  is about all that was ever `Entered` (rows, and payouts accepted): the deposits
  cover any of these debits that were decided on in turn, each seeing those
  before (`InTurn`), whichever are failed at the moment. A debit that is entered
  was seen by nobody yet (`ReadInv`), so of any debits in turn with it it saw all
  the others, and could afford itself beside them (`CoverEntered`).

Sums over sets need an induction. The lemmas on `Total` get it from
`MinimalOfSets`: of the finite sets for which an equation failed, take one that
is smallest under inclusion and remove an element. `FiniteInv` says that what
has been credited and entered so far is finite, though the constants may not be.

`WalletAssignProofs`, for any calls, users, pools and numbers of attempts: one
wallet per user, one user per address, exclusive drafts, one open checkout per
request, the cooldown, and:

* `ExhaustedOnlyByRivals`: a call gives up only if others took each index it
  tried. `RivalInv` counts the rows that calls still unanswered when it began
  have put on its merchant's indices: each attempt that failed saw one more.
* `AddressBookAlwaysKept`: the refinement of `AddressBook`. A commit gives an
  address nobody had (`CommitGives`) and asks for a checkout that is not open
  (`CommitAsks`); every other step stutters, or closes a checkout.

Each rests on a read that others may outrun: `SearchInv`
and `AddressInv` say that what a call did not find was not committed by a call
answered before it began. `DraftInv`, `LockInv` and `KeyInv` are the row locks
and the unique key; `SessionInv`, `OpenInv` follow a checkout to its commit;
`CoolInv` and `HeardInv` the answers; `BoundInv` keeps the indices finite, so
that the largest exists.

`EvmScannerProofs`, for any number of full scans: no block behind the cursor is
passed over, and a tick whose calls succeed drops only requests it has served,
or that were made while it ran. `CursorInv` is the property at the cursor,
`CoverInv` the same for the block each scan is about to write, `FlagInv` that
each flag is on the worker's list or was set since, `ServedInv` that a tick
without a failure has stored what its list received in the blocks behind it.

`TokenSweepProofs`, for any runs, wallets and fees: reserve, cushion, one swap
run, true rows. `FunderInv` and `WalletInv` count what is on its way together
with the balance, the funder's with the dearest cost of each send; `QueueInv` and `NeedInv` relate a run's locals to its rows;
`SwapInv` and `StartInv` the job map to the runs; `SentInv` and `SeenInv` the
rows to the transfers executed.

`ExplorerKeysProofs`, for any keys, limits, processes and clients: the API's
cache and the overrun of a limit. `DayInv` says that a row below its limit
misses only answers that wait to be counted or never will be; `WayInv` bounds
the calls under way by the most there were; with both, whoever reads the row
below the limit adds one to a sum that `LimitInv` bounds. `CountInv` follows the
count from the query to the cache.

The proofs assume of the constants `SeparateNames`, `RailIsKnown` and
`AmountsAreNat`; `RolesAreApart` and `LimitsArePositive`; `NamesAreApart`;
`DigitsAreNat`, `SettlementConstants` and `RowsAreRows`; `AssignConstants` and `NoRowIsNone`; `ScannerConstants` and
`OffIsNoScan`; `SweepConstants`; `KeyConstants`. TLC evaluates them on every
run. Only model-checked: liveness under fairness, which tlapm's provers do not
reach, and the violated properties, which are false.

## Not modelled

* Routes of admins, merchants and resellers, authentication, settings: each
  request reads, checks its input and writes one table; nothing spans requests
  beyond what is modelled (payout patch, redeliver, rescans, settlement, swap
  runs, explorer keys).
* Key derivation and encryption: `SeedOf` stands for what derives an address.
* Sandbox deposits: one call into the upsert of the live ledger, without a
  chain.
* `network-rpc-rate-limit.js` and `run-with-concurrency.js` only delay calls
  whose timing the models leave open already.
* Parsing and formatting of amounts, beyond the limits of payouts and
  settlements: pure functions over strings.
* The ERC20 sweep (one transfer, no top-up), SunSwap funding, the directional
  send and the stub `sweep-service.js`.
* Wallet transfers of payouts: a chain that carries out a transfer or does not,
  and an answer that may be lost, is what `Payout` keeps of them.
* The web client keeps no state of the gateway.
