# Formal model of the transfer back end

TLA+ specifications, TLC runs and TLAPS proofs about the money-moving core of this
repository: how a customer's transfer is paid out, by an API provider or by a human
executor, without paying, charging or refunding twice.

Paths below are relative to the repository root.

## 1. The system and its parts

A Node.js monolith (`app.js`, pm2 with one instance, or several pods sharing Redis) over
MongoDB. All money of a transfer hangs on one `Transaction` document; everything that
matters is concurrency between processes, jobs, timers and people on that document.

| Part | State | Operations | Talks to | What is hard | What makes it correct |
| --- | --- | --- | --- | --- | --- |
| Provider dispatch: `services/providerDispatchClaimService.js`, `queueService.js`, `externalApiService.js` | `Transaction.status`, `executorGroupId`, `apiResultData` | guard, read, claim, Payment, release, hold, complete, mark unresolved, exception handler | BullMQ, provider HTTP API, ledger | crash after Payment, timeouts that may have paid, redelivered jobs, full-document saves of stale copies | one payout; paid rows held; refunds only of unpaid rows |
| BullMQ queue: `services/bullQueueService.js` | jobs, deduplication ids, stalled counts | add, start, retry, redeliver, fail | dispatch | at-least-once delivery, dropped duplicates | every queued row settles |
| API completion: `services/apiExecutionLifecycleService.js` | ledger debits, completed rows | find debit, post debit, save | wallet ledger | find-then-insert; failing save | at most one debit, only for a payment |
| Provider result resolution: `services/providerResolutionService.js` | `providerResolutionOutcome`, `…EffectStartedAt` | review, claim, effect, paid / not paid | completion, release | races with workers and other administrators; crash between claim and effect | evidence decides, exactly once |
| Administrator routes: `routes/adminTransactions.js`, `services/autoRouteService.js` | routing fields | assign, pull, automatic route | queue, reversal | stale documents saved; conditional update on status only | held rows are not routed, pulled, refunded |
| Refunds: `src/Application/Services/ReversalService.ts` | status, `reversalLock`, wallets, journal | reverse (MongoDB transaction, or claim, refund, finalize, compensate) | wallet ledger | fallback with compensations; a lock a stop leaves behind | refund once, of unpaid or completed rows |
| Transfer creation: `src/Application/Services/TransferService.ts`, `controllers/clientTransactionController.js`, `routes/merchantApi.js` | new row, customer debit, idempotency key | lookup, lock, check the cooldown, charge, create, compensate | wallet, lock service, auto-route | three channels with three protections; uncertain commits; charges without MongoDB transactions | one transfer per key; charged iff created; true refusals |
| Merchant API idempotency: `services/merchantIdempotencyService.js`, `financialSafety.js` | key and fingerprint of a request | prepare, lookup, replay, conflict, recover | transfer creation | retry of a request whose answer was lost | one transfer per key; a repeated request is replayed |
| Executor tasks: `services/executorTaskRoutingService.js`, `executorTransactionMutationService.js`, `executorCompletionService.js`, and the application's `routes/mobileApi.js`, `services/mobileWebParityService.js` | accepted rows, operator fields, locks, proofs | accept, route, return, cancel, edit, complete | lock service, outbox, reversal | check-then-act under an expiring lock; the application's read-then-act without one; optional MongoDB transactions | one active task per executor; money follows status |
| Completion outbox: `services/executorCompletionOutboxService.js`, `eventBus.js` | outbox records | enqueue, claim, load, audit, publish, finish, reschedule, recover | executor completion, audit log, listeners of `transfer:completed` | overlapping ticks; claims that go stale under their holder and carry no token; repeated effects | completed means effects done; no record lost; nothing announced after a reversal |
| Receipt delivery: `services/whatsappReceiptDeliveryService.js` | `WhatsAppDelivery` rows, receipt lock | lock, check, mark, send, record, release | completion outbox, lock service, messaging provider | lost answers, expiring lock, a receipt that outlives its tick | a repeated receipt only for a fault; none forgotten |
| Lock service: `services/lockService.js` | Redis or in-memory locks with TTL | acquire, fall through, release, expire | executor tasks, transfer creation | expiry while held; release of another holder's key; fall-through of a held Redlock | mutual exclusion within the TTL |
| Merchant webhooks: `services/merchantWebhookOutboxService.js`, `merchantWebhookService.js`, `routes/merchantWebhooks.js` | slots of a transfer, deliveries, leases, endpoints | stage, drain, claim, post, retry, pause, delete | status changes, HTTP | a slot staged anew during a drain; leases that lapse under their holder | no staged event lost; duplicates only for faults |
| Deposits: `services/clientDepositRequestService.js`, `executorDepositRequestService.js`, `balanceAdjustmentService.js`, `routes/clients.js` | deposit rows, void tokens | ask, submit, add, review on two pages, edit, void | wallet ledger, executor pools | credit and row saved apart; two reviewers; tokens that go stale; edits the ledger does not see | credited once; balance and pool follow the rows |
| Wallet ledger: `services/walletService.js` | balances, `Ledger` rows | debit / credit with entry | everything with money | fallback without transactions | balance equals sum of entries |
| Executor pools: `utils/helpers.js`, `services/executorBalancePoolService.js` | `ExecutorGroup.balance` | synchronise from the rows | deposits, completions | read and written apart without MongoDB transactions | the sum of the rows |
| Provider reconciliation, pending monitor: `services/apiProviderReconciliationService.js`, `apiPendingMonitorService.js` | provider returns, per-executor chains | sync, review, serialize | provider API | reads while a Payment runs | never offers an unresolved row for refund |
| Runtime recovery: `services/apiRuntimeRecoveryPolicy.js` | fence on a row | fence, release | dispatch claim | races a live worker | fence or Payment, not both |
| Balance transfers, rates, settlement, agencies, notifications, auth, front ends | — | — | — | — | see `PROJECT.json` for the status of each |

## 2. Modules

| Module | Content |
| --- | --- |
| `ProviderRow` | The part of a `Transaction` document the dispatch decides on, and the predicates over it: `needsUnresolvedHold`, `providerMoneyHold`, `automaticPaymentBlocked`, `canReviewProviderOperation`, `notPaidEvidenceConflict`. |
| `ProviderDispatch` | Everybody who acts on such a row: the job queue and its workers, the provider, administrators, human executors, crashes. One action per step between two awaits. |
| `TransferPromise` | The abstract specification: what is promised of a transfer's money, whoever carries it out. |
| `ProviderCalm` | The inductive invariant of the environment in which actors take turns, and the refinement mapping to `TransferPromise`. |
| `CompletionEffects` | What follows an executor's completion: the outbox record, the overlapping ticks of its worker, the receipt each tick starts, time, stops and restarts. |
| `LockService` | The locks, in the three deployments, as actions the next two modules conjoin with their own. |
| `ExecutorTask` | One group's transfers in the hands of its employees, on the web portal and in the application, and of the administration; reversals with and without MongoDB transactions. |
| `TransferCreation` | Requests for a transfer from one wallet to one recipient through the three channels. |
| `WebhookOutbox` | One slot of a transfer, its drain and its deliveries. |
| `DepositRequest` | Deposits of a customer and of a company from request to void. |
| `ProviderDispatch_proofs`, `ProviderCalm_proofs`, `CompletionEffects_proofs`, `ExecutorTask_proofs`, `TransferCreation_proofs`, `WebhookOutbox_proofs`, `DepositRequest_proofs` | TLAPS proofs about the module of that name. |
| `LockService_proofs` | Lemmas about the locks for the two modules that take them. |
| `MC...` | Model values, symmetry and the bounds of a run for TLC. |

The modules meet in the transfer's row and are checked separately, each with as much of the
row as its guards read: `TransferCreation` ends where `ProviderDispatch` (API groups) and
`ExecutorTask` (people) begin, a completion in one of these stages the slot `WebhookOutbox`
starts from, and a completion in `ExecutorTask` writes the record `CompletionEffects` starts
from. The four steps of a task that touch an API row are in `ProviderDispatch` too, because
staff of a parent group can take such a row.

Deployments. `production` has Redis and MongoDB transactions; `optional` has both, but a
Redlock that cannot be had falls through to a lock of the process
(`services/lockService.js:103`); `single` has neither, and runs the statements of each
MongoDB transaction one after the other. The deployment is a variable chosen in the initial
state, so every run covers the three; `DepositRequest`, which takes no lock, has only the
choice `transactions`.

### State and actions of `ProviderDispatch`

`row[t]` is the document (status, executor group, operator, manager group, Mongoose's
`__v`, and the six fields of `apiResultData` that any guard reads). `job[t][g]` is the
BullMQ job for a transfer and a group; the deduplication id makes it at most one. `act[a]`
is what an actor (a job run or an administrator's request) is in the middle of: its
program counter and the document *it loaded*, which may be stale. `paid`, `handed`,
`debits`, `refunded` are history: what the provider executed, what people paid by hand,
the ledger's executor debits, the customer's refund.

A Mongoose `save()` writes the modified paths only. So a save action writes a field only
if the code assigned it and the assignment changed the loaded value (`SetStatus`,
`UnsetGroup`); `apiResultData` is a mixed object assigned as a whole and is written as a
whole. Only the completing save is versioned, because it assigns the array `proofImages`.
`Transaction.collection` updates go through no document and are conditional steps
(`Claim`, `Release`, `MarkCas`, `RouteCas`, `ResClaim`, `ResEffect`).

| Action | Code |
| --- | --- |
| `StartJob`, `Redeliver`, `EndJob`, `JobThrows`, `Crash` | BullMQ worker (`bullQueueService.js`): `attempts: 3`, one stall tolerated |
| `Guard` | `guardAutomaticProviderRedispatch` |
| `Read` | `processSingleJobSerialized` up to the claim: status, group, hold, service match, configuration, login, inquiry |
| `Claim` | `claimProviderDispatch` |
| `Pay` | the Payment call and the reading of its answer: masked reference (success), full or no reference (hold), refusal or error before sending (release), anything else (unresolved) |
| `Release`, `SaveRelease`, `SaveMismatch`, `SaveHold` | the worker's writes after each answer |
| `FindDebit`, `PostDebit`, `SaveDone` | `completeApiTransactionWithReference` and the save that follows, for a worker and for an administrator's `provider_paid` |
| `Exc`, `ExcSave` | the catch block |
| `Mark`, `MarkCas` | `markProviderResultUnresolved`, called from four places |
| `Route`, `RouteCas`, `Enqueue` | assign-executor and `addTransferJob` |
| `Pull`, `PullSave` | pull-task |
| `Reverse` | `reverseTransaction` |
| `Resolve`, `ResClaim`, `ResEffect`, `ResRead`, `SaveNotPaid` | `resolveProviderResult` |
| `AcceptTask`, `CompleteTask`, `CancelTask`, `ReturnTask` | the human executors |
| `RequestDies` | the web process stops in the middle of a request |

The environment is a constant: `Env` lists which behaviours may happen (`overlap`,
`adminRace`, `parentStaff`, `reject`, `readError`, `writeError`, `ackLost`, `crash`,
`recrash`; the module says what each means). A run states the environment its property is
about, so a property that fails in one environment can still be stated, and proved, in
the ones where it holds.

### State and actions of `CompletionEffects`

Per transfer: its status `tx`, its record `outbox` with the two time comparisons the
claim's filter makes (`due`, `stale`), its audit entry and listeners' keyed work
(`audited`, `posted`), its `WhatsAppDelivery` row `delivery`, the receipts the provider
accepted (`receipts`, history), and the receipt `lock` with its holder. Per tick: `pc` and
`task` for `runCompletionOutboxTick`, `rpc` and `unsaved` for the receipt it started, which
may outlive the tick. `queue` is the order of `createdAt`.

| Action | Code |
| --- | --- |
| `Complete`, `CompleteUntransacted` | `completeExecutorTask`: save, balance sync and enqueue in one MongoDB transaction, or one after the other where `withOptionalMongoTransaction` falls back |
| `Claim` | `claimNext`: one atomic `findOneAndUpdate`, oldest first, pending and due or claimed over five minutes ago |
| `Load`, `Audit`, `Journal`, `AwaitReceipt`, `Finish` | `processCompletionEffects` and the `transfer:completed` listeners it awaits |
| `Fail` | the catch block: back to pending, due after a delay, if still `processing` |
| `LockReceipt` ... `ReleaseReceipt` | `sendTransactionReceipt`, one action between two awaits |
| `BecomeDue`, `BecomeStale`, `LockExpires` | time |
| `Crash`, `Restart` | a stop; `startExecutorCompletionOutboxWorker` |

Every write may fail without effect or with it (`FaultOf("error")`): a failed audit, finish
or provider request may have happened. A tick that is still at work after five minutes needs
`slow` in `Env`; the lock of a holder still sending expires only with `lockExpires`.

### State and actions of `LockService` and `ExecutorTask`

`redis[k]`, `memory` and `grip[r][k]` are the two lock tables and what each request believes
it holds; an in-memory lock is a string without an owner, so a holder whose time has lapsed
still deletes it (`Release`). `loose` counts locks that lapsed under their holder or were
fallen through.

Per task: the row (`status`, `owner`, `assigned`, `routed`, `amount`, `version`,
`reversing`), the state of its completion's `proof` and outbox record, and `held`, what the
customer has paid for it, net. Amount and cost are one number: the price is a constant
factor. `req[r]` is a request: its program counter and what it has read.

| Action | Code |
| --- | --- |
| `Accept`, `AcceptCheck`, `AcceptClaim`, `Route`, `RouteCheck`, `RouteClaim`, `Unlock` | `acceptExecutorTask` and `routeExecutorTask`: lock of the employee, busy check, conditional update, release |
| `Complete`, `CompleteRead`, `CompleteSave`, `CommitUncertain`, `CompleteSync` | `completeExecutorTask`: read and proofs, then save, sync and outbox record in one MongoDB transaction, or one after the other; the clean-up of proofs after an error |
| `Edit`, `EditSave`, `Cancel`, `CancelRefund`, `Return` | `executorTransactionMutationService.js` |
| `AppComplete`, `AppEdit`, `AppReturn`, `AppCancel` and their `...Save`, `AppReverse` | the application's versions, which read in one step and act in another |
| `AppReverse`, `AdminReverse`, `ReverseRefund`, `ReverseFinish`, `ReverseUndo` | `reverseTransaction` in one MongoDB transaction, and its fallback under `reversalLock` |
| `AdminRoute`, `AdminEdit`, `AdminSave` | assign-executor, `editTransactionAmount`, repricing |
| `LockLapses`, `KeyLapses`, `Stop` | time; a stop of one process (`production`) or of the only one |

A Mongoose save that sets an array also asks for, and raises, `__v`. Completing saves set
`proofImages`, no other does: that version is all that stands between the application's
completion and a task completed meanwhile.

### State and actions of `TransferCreation`

A request creates at most one transfer, so `row[r]`, `age[r]`, `charged[r]` are of the
transfer that request `r` created: nothing, in flight (its commit's outcome is open), live,
or closed. `ask` and `answer` are what it asked and what it told its client.

| Action | Code |
| --- | --- |
| `Start` | a request over a channel, with a key or without |
| `Lookup` | the merchants' lookup before anything else; replay or conflict |
| `LockKey`, `Relook` | `beginIdempotentFinancialRequest` of the portal, the application's lock and second lookup |
| `LockPay`, `LockBusy`, `Check` | `transferCooldownService`: lock, two and five minutes |
| `Commit`, `CommitRefused`, `CommitFails`, `CommitUncertain`, `Land`, `Recover` | the MongoDB transaction, the unique index on the key, and a commit without an answer, which may still land |
| `Debit`, `DebitRefused`, `Save`, `Undo` | the same one statement after the other, with its compensations |
| `Close`, `Age`, `LockLapses`, `KeyLapses`, `Stop` | a reversal, time, stops |

### State and actions of `WebhookOutbox`

`slot` is the transfer's slot for one kind of event, `row[e][v]` the delivery of an event to
an endpoint, `work[w]` what a worker is in the middle of. `received` (requests an endpoint
accepted) and `owed` (endpoints that have been on since the slot was staged) are history.

| Action | Code |
| --- | --- |
| `Stage` | the status change's `$set` of the slot (`merchantWebhookOutboxSchema.js`) |
| `DrainRead`, `DrainFind`, `DrainUpsert`, `DrainAck`, `DrainFails` | `drain` and `enqueueTransactionWebhook` |
| `Claim`, `Look`, `Forbidden`, `Send`, `SaveDelivered`, `SaveFailed` | `claimDelivery`, `deliverWebhook` |
| `RequestRetry`, `Create`, `Pause`, `Resume`, `Delete`, `Permit` | owner and administrator |
| `BecomeDue`, `LeaseLapses`, `Stop` | time; the end of a worker in the middle |

### State and actions of `DepositRequest`

Per deposit: its `kind` (a customer's request, the administration's direct deposit, a
company's), the amount asked for and the row's present one, the row's status, whether its
ticket is linked, the void token with its age, and `balance`, `entries`, `reversals`: what
the customer's balance has of it and what the ledger says. `pool` is the company's balance.

| Action | Code |
| --- | --- |
| `Ask`, `Create`, `Link` | `createClientDepositRequest`: pending check, row, ticket, ticket id on the row |
| `Submit` | `createDepositRequest`, in one MongoDB transaction |
| `AddBalance`, `Credit`, `Enter` | add-balance: one transaction, or balance, entry and row apart |
| `Review`, `Credit`, `Save` | `resolveClientDepositTicket`: `updateBalanceWithLedger` in a transaction of its own, then an unconditional save |
| `ReviewCompany` | `resolveDepositTicket`, `reviewAdminDepositRequest`: conditional update and pool |
| `WebReview`, `WebSave`, `Sync`, `SyncWrite` | accept-deposit-web and reject-deposit-web for all but linked customers' requests; `syncBotBalance` |
| `EditAmount`, `EditSave` | `editTransactionAmount` of a deposit |
| `Void`, `VoidClaim`, `VoidLook`, `VoidPay`, `VoidSave`, `TokenLapses` | `voidBalanceAdjustment` with and without a transaction |
| `Stop` | the request ends where it is |

`late` counts writes to a row that was not as it had been read; `faults` the rest. The
properties allow what the code allows for each: one credit more per fault, for instance.

## 3. Runs

Deadlock is not checked: the systems stop when everything is finished or their faults are
spent. Times are for two workers on a small machine.

| Run | Module, environment | Bounds | Result |
| --- | --- | --- | --- |
| `overlap` | `ProviderDispatch`: overlap, crash, recrash | 2 workers, 1 administrator, 2 API groups, 2 routes; 100 thousand states | `OnePayout`, `OneDebit`, `FlaggedNeedsEvidence`, and the refinement `KeepsPromise`, when a stalled job runs twice |
| `adminrace` | adminRace, parentStaff, ackLost, reject, readError, writeError | 1 API group, 1 route; 1.9 million | `CompletedMeansPaidOut` whatever people do in the middle of a job and whichever read or write fails |
| `settle` | parentStaff, reject, crash; fair | as `overlap`, 1 worker; 53 thousand | `RefundOnlyUnpaid`, `PaidRowsHeld`, `RefundedStays` although people accept API rows; a queued row is completed, back in the pool, or flagged |
| `effects` | `CompletionEffects`: noTransactions, reverse, slow, crash, error; fair | 1 transfer, 2 ticks, 2 faults | effects done before a record is, receipts bounded by faults and not forgotten, completed records stay, reversed transfers are left alone, every record is settled |
| `tasks` | `ExecutorTask`, all deployments | 2 tasks, 2 employees, 2 requests, amounts 1 and 2, 1 fault, within `Small`; 1.7 million | one active task per employee and lapsed lock; the customer even; completions whole and once; one reversal; closed tasks stay closed |
| `creation` | `TransferCreation`, all deployments | 2 requests, 1 key, 2 payloads, 3 channels, 2 faults; 5.6 million | one transfer per key; charged iff live; cooldown; true refusals; repeats replayed |
| `webhooks` | `WebhookOutbox`; fair | 1 endpoint, 2 workers, 2 attempts, 2 stagings, 2 changes, 1 fault; 0.5 million | no staged event lost, duplicates only for faults, delivered means received, events arrive |
| `deposits` | `DepositRequest`, with and without MongoDB transactions | 2 deposits of any kinds, 2 requests, amounts 1 and 2, 2 faults; 3.7 million | credited and taken back once per fault at most; balance and pool follow the rows |
| `stalled_job` | `ProviderDispatch`: overlap, reject | 2 workers | violated: finding 1 |
| `lost_ack` | ackLost | 1 worker | violated: finding 2 |
| `late_cancel` | `ExecutorTask`, web and app | 1 task, 1 employee | violated: finding 3 |
| `edited_void` | `DepositRequest` | 1 deposit, no fault | violated: finding 4 |

Why the bounds are enough. In `ProviderDispatch` transfers share nothing but workers (a
job's run touches its own row and its own debits), so one transfer shows every interleaving
on a row; the theorems hold for any number. Two workers are what BullMQ's redelivery of a
stalled job can produce; a third run needs a second stall, which fails the job. Two API
groups are needed for a row that is rerouted while the first group's job is still there;
with two routes a row can go to a group, come back and go again. Attempt ids are bounded by
the routes and the redeliveries, not by a constraint. `MaxRoutes` is the only bound in a
guard.

For `effects`, two ticks are an old holder and the one that took the record over; a third
changes nothing in the properties, by the theorems. Two faults allow a stop or an error and
another one during what recovers from it. Records of different transfers share only the
ticks, so one transfer shows the effects. That two records do not starve each other is no
longer run; with many records that are retried for ever they could
(`services/executorCompletionOutboxService.js:54` takes the oldest first).

The races of `tasks`, `creation` and `deposits` are between two requests: every check in
this code reads one row, one lock or one key, and what a third request could add is what the
second leaves behind, which it may do itself, one after the other. `tasks` needs two
employees for a task that changes hands, or two tasks for an employee who is busy; both at
once multiply the states without a new interaction, so `MCExecutorTask!Small` lets one of
the two happen, and leaves the application's unlocked acts, which look at one task only, to
the first. One fault is enough to lapse a lock, lose a commit or stop a process at each
step; the tolerances in the properties (`1 + loose`, `1 + late`) are for any number. In
`creation`, one key for two requests is the case of interest, the other being no key; two
payloads tell a repeated request from a conflicting one. In `webhooks`, endpoints share the
slot's acknowledgement only, which `owed` follows for each; two attempts of the code's six
are one that fails and one that must not be the last too early. `MaxFaults`, `MaxStages` and
`MaxChanges` are the bounds in guards.

Fairness of `settle`: weak for a running job and for a request being served (Node keeps
running them; every provider call has a timeout), strong for the start of a waiting job,
because outside `adminRace` the model keeps a job from starting while a request is on its
row, and requests end. Nothing is assumed of people: they may never act.

Fairness of `effects`: weak for a started tick and for a started receipt (their process
runs, every call has a timeout), for time, and for the restart of a stopped process (pm2).
Strong, per record, for its claim: the timer polls every five seconds, and a record that
keeps failing waits up to sixty seconds between its attempts, so a due record is the oldest
claimable one again and again until it is claimed. Faults are finitely many.

Fairness of `webhooks`: weak for a started drain or delivery (a request has a timeout) and
for time; strong for the drain and for the claim of each delivery, which the thirty-second
timer attempts for ever while other workers may have it. Owner, administrator and status
changes need not act. `EventsArrive` assumes that stale claims are reclaimed, which the code
does only if `MERCHANT_WEBHOOK_STALE_SENDING_RECLAIM_AFTER` is set.

`EffectsHappen` and `DoneMeansDone` settle the question `docs/runtime-handoff-review.md:18`
leaves open (claims carry no fencing token and are recovered after a while): a late holder's
update can complete or reschedule a record that another tick works on, but a completed
record always had its effects and stays completed. What the missing token costs is a second
run of the keyed effects, and receipts only as `ReceiptsBounded` counts them. That bound
needs the receipt lock to outlive its holder's work: with `lockExpires` and three ticks, one
expiry gives three receipts.

### Findings

1. `stalled_job` — `releaseFailedApiExecutionToPending` (`services/queueService.js:57`)
   saves without comparing the dispatch attempt. Run 1's Payment is refused; its marker is
   released; its job stalls and run 2 claims and pays; run 1's save puts the row back in the
   pool and erases run 2's marker. The paid row can be refunded or routed.
2. `lost_ack` — the catch block (`services/queueService.js:303`) reopens a completed row
   when the completing save was applied but reported an error.
3. `late_cancel` — the application's cancel-task (`routes/mobileApi.js:2276`) checks the
   task and then reverses it by id: a task completed, or returned, in between is rejected
   and refunded, and the executor is told that it was cancelled.
4. `edited_void` — an edit of a deposit's amount changes the balance without a ledger entry
   (`services/adminFinancialMutationService.js:177`); a void reverses the ledger's amount
   (`services/balanceAdjustmentService.js:113`), so the difference stays, or is taken.

### What the models show beyond the runs

These were met while modelling and are left out of the properties' preconditions on
purpose; none has a run of its own.

Provider dispatch. With `overlap` and `adminRace` together, the executor's debit, which is
looked up and then inserted (`services/apiExecutionLifecycleService.js:253`), is inserted by
a delayed worker and by a `provider_paid` resolution (`OneDebit`). A row resolved as not
paid and routed again is held for ever (`services/providerDispatchClaimService.js:91`,
against the comment at line 94): its job is refused, and so are pull, reversal and another
resolution. With `overlap` and `writeError`, an overlapping run whose marking of the row
fails goes to the catch block, which reopens the row the first run has completed
(`OnePayout`: people may then carry it out again). With `readError`, the catch block returns a
cancelled row to the pool (`RefundedStays`). With `parentStaff` and `overlap`, staff of an
API group's parent accept a flagged row (`FlaggedNeedsEvidence`,
`services/executorTaskRoutingService.js:262`). With `adminRace`, pull-task's save reopens a
completed or reversed row (`routes/adminTransactions.js:778`), and a row released and routed
again to the same group before the first job ends gets no job
(`services/bullQueueService.js:185`).

Executor tasks in `single`. An edit's charge is kept when the save after it fails; a web
cancellation rejects the row and may stop before the refund, and a reversal under way
refunds it a second time; a stop leaves `reversalLock` set, and every later reversal is
refused; a failing sync or outbox record deletes the proofs of a completed row; a reversal's
last step writes over a completion. In `optional` the locks order nothing between processes
whenever Redlock is refused.

Transfer creation. The portal's lock of the key falls through in production too, unless
Redis is told to fail closed (`services/financialSafety.js:175`): the unique index is what
holds. Without MongoDB transactions a merchant's request without a key has no
compensation, one with a key is refused, and a stop in the middle leaves the charge. A
commit without an answer may land after the cooldown's lock was released.

Webhooks. A stop on a delivery's last attempt leaves it `sending` for ever; a late failure
writes over `delivered`; a paused endpoint uses up its deliveries' attempts; an event whose
id comes back is not delivered again; a rejected event that is not drained is replaced by a
cancellation that follows it.

Deposits. The pending check of `createClientDepositRequest` races with itself. Until its
ticket is linked, a customer's request is taken for a company's on the transactions page and
accepted without a credit (`routes/adminTransactions.js:858`). After the credit of an
approval the row is saved apart from it, unconditionally: a stop makes the next approval
credit again. A rejection on the transactions page does not synchronise the pool of a
company deposit that was accepted meanwhile. Nothing marks the ticket's `metadata` as
modified when a customer's request is resolved, so Mongoose does not save the ticket's part
of the decision.

## 4. Proofs

`TypeCorrect`: `Spec => []TypeOK` for every value of the constants and every environment.

The theorems of `ProviderCalm_proofs` assume `Env \subseteq CalmEnv` (`reject`,
`writeError`, `crash`, `recrash`) and nothing else: any number of transfers, workers,
administrators and groups, any `MaxRoutes`. They are

* `CalmInvariant`: `Spec => []CalmInv`;
* `CalmOnePayout`, `CalmRefundOnlyUnpaid`, `CalmOneDebit`, `CalmPaidRowsHeld`,
  `CalmCompletedMeansPaidOut`: the safety invariants;
* `CalmCompletedStays`, `CalmRefundedStays`, `CalmFlaggedNeedsEvidence`: the action
  properties;
* `CalmKeepsPromise`: the dispatch implements `TransferPromise`.

None of the safety properties is inductive. Whether a completing save is right depends on
what the worker loaded, on the marker it wrote and on the Payment it made; so `CalmInv` has
three parts. `Exclusive`: one actor on a row. `RowsOK`: for a row nobody reads stale, what
the money history and the document say of each other (a Payment implies a marker; a marker
implies processing or paid; a manual payout implies no marker; a refund matches the status;
an outcome matches the payments). `ActorsOK`: at each step of an actor, what it loaded is
still the row, and what it is about to write is allowed. A step of actor `a` on row `t`
changes one row and one record; the others are untouched by exclusion. The proof is one
lemma per action, each with one step for the row and one for the actor. The refinement is
proved from the same invariant: each action changes the money as one action of
`TransferPromise` or not at all.

The theorems of `CompletionEffects_proofs` hold for any number of transfers, ticks and
faults and any `Env`:

* `EffectsTypeCorrect`, `EffectsDoneMeansDone`, from the invariant `EffectsInv`: a tick past
  an effect finds it done (`Progress`), whoever did it, because effects are never undone; so
  whichever tick completes the record does so rightly.
* `EffectsDoneStaysDone` and `EffectsUndoneIsLeftAlone`, action properties from `EffectsInv`.
* `EffectsReceiptsBounded`, if `"lockExpires" \notin Env`, from `ReceiptInv`. The bound
  `receipts <= 1 + faults` is not inductive: one needs to know that only one receipt of a
  transfer is past the lock (`Holding`), that a tick about to send, or to send again, has
  seen no receipt that was not paid for by a fault (`Unsent`), and that a row that does not
  say `sent` either is about to (`Recording`) or has had its receipts paid for
  (`Accounted`).

* `EffectsReceiptNotForgotten`, for any `Env`, from `SentInv`, which is inductive only
  together with `ReceiptInv` and while there was no fault: a busy receipt lock belongs to a
  tick that is at the same receipt (`HeldByReceipts`), and nobody releases it before the
  row says `sent` (`ReleasedWhenDone`), so a tick that gives up loses nothing.

`LockService_proofs` shows what the locks are worth in each deployment: the requests that
believe they hold a key are at most as many as the key has room for (one while the key is
held in the table the deployment uses, none otherwise) plus `loose`. Each action of the
service keeps that, or costs one `loose`. It assumes finitely many requests, and that
`Free` and `Orphan` are different and name no request.

The theorems of `ExecutorTask_proofs` hold for any tasks, employees, amounts, channels and
number of faults and finitely many requests, in the three deployments. The constants are
assumed to be what their names say: keys are employees and tasks, which differ; amounts are
positive.

* `TaskTypeCorrect`: `TypeInv` adds to the types what a request carries to each step
  (`Fits`), and which steps exist only without MongoDB transactions (`Alone`).
* `TaskCompletedOnce`: Mongoose's `__v` counts the completions, so `VersionInv` bounds it
  by the late acts and the row's own completion; a save from an old read fails.
* `TaskCompletedIsWhole` and `TaskCustomerEven`: the first from `WholeInv`; the second is
  inductive once `TypeInv` is known, because every step that moves money or the cost moves
  both, or is late, or has no MongoDB transaction.
* `TaskClosedStays`, an action property: only a late act reopens a closed task.
* `TaskOneReversal`, without MongoDB transactions too: who is at a step of a reversal has
  its row's `reversalLock`, and no other request is (`ReversalInv`).
* `TaskOneActive`: the property says nothing of the employee between his busy check and his
  update. `ActiveInv` adds to the tasks he has the requests that hold his lock and found him
  not busy (`Claimers`), and `LockInv` says who holds it at each step; a request becomes a
  claimer only when he has no task, and the locks bound the claimers.

The theorems of `TransferCreation_proofs` hold for any keys, payloads (at least one),
channels and number of faults and finitely many requests, in the three deployments.

* `CreationTypeCorrect` and `CreationChargedForTransfers`, from `TypeInv`: where a request
  may be with the row it has (`Placed`) and what its wallets have been charged at each step
  (`Charged`), also between two charges, where the property is silent.
* `CreationOneTransferPerKey`: inductive with `TypeInv`, from the unique index alone. No
  lock is used, so what the locks may do makes no difference.
* `CreationRefusalsAreTrue`, from `RefusedInv`: the merchants' recovery after an error finds
  its own transfer or nothing (`FoundIsOwn`, which needs one transfer per key).
* `CreationRepeatsReplay`, from `RepeatInv`: a repeated request never gets past a lookup.
* `CreationCooldownKept`: the cooldown's lock is given back before a commit without an
  answer has landed, so `SpareInv` counts the commits under way (`Flight`) with the holders
  against `loose`; `CandidateInv` bounds the transfers that are live, or may be, since the
  last two and five minutes.

The theorems of `WebhookOutbox_proofs` hold for any endpoints and events, any bounds on
attempts, stagings, changes and faults, and finitely many workers, with and without the
reclaiming of stale claims.

* `WebhookTypeCorrect`: `TypeInv` adds that a worker at a delivery has one.
* `WebhookStagedBeforeAck`, from `StagedInv`: what a drain has read is the slot as it is or
  an older version (`SeenBefore`), and a drain of the slot as it is misses no endpoint that
  is owed its event (`DrainMissesNone`); a drain of an older version cannot acknowledge.
* `WebhookDeliveredWasReceived`, from `AnswerSeen`: who saves `delivered` has its answer.
* `WebhookDeliveredRests`, an action property.
* `WebhookDuplicatesNeedFaults`, from `CountInv`: to the requests accepted one adds the
  workers that may still post the event or open its delivery again (`Senders`), and one if
  the delivery may be claimed now or when its lease lapses (`Chance`). Every step moves a
  unit of that sum from one place to another, or is a fault.

The theorems of `DepositRequest_proofs` hold for finitely many deposits and requests, any
positive amounts and any number of faults; the marks of a void token are assumed to be
different from each other and from the requests.

* `DepositTypeCorrect`: `TypeInv` adds what a request at each step has (`Stage`), and that a
  row that is not there yet has no money (`FreshRow`).
* `DepositDepositedOnce`, from `EntryInv` and `ReversalInv`. Credit and row are saved apart,
  so the ledger's entries are bounded by the rows decided, the faults and the reviews that
  have credited and still have to write the row (`Unsaved`); the reversals likewise by the
  voids that have lost their token (`Lost`).
* `DepositPoolFollowsRows`: inductive with `TypeInv`.
* `DepositBalanceFollowsRows`: a balance is what the row is worth plus what each request at
  work has still to write to it (`BalanceInv`), as long as nothing went wrong; `CalmInv`
  says which requests then hold the void token and what they find.

The pool is a sum over a set of deposits, and what a request owes is summed over the
requests (`MapThenSumSet`, a fold). The induction theorems of the library take operators as
parameters and cannot be used; but a set of naturals has a least element
(`NatLessThanWellFounded`, `WFMin`), and from that follows an induction over the subsets of
a finite set in which the property is a set of subsets (`SubsetInduction`). It gives that
the sum exists, satisfies its equation whatever element is taken first, and changes by the
difference when one value changes (`SumChange`).

Only model-checked:

* liveness, which is out of TLAPS' reach: `RoutedTransfersSettle`, `EffectsHappen`,
  `EventsArrive`;
* the properties of the dispatch in the environments outside `CalmEnv`: `OnePayout`,
  `OneDebit`, `FlaggedNeedsEvidence` and `KeepsPromise` in `overlap`; `CompletedMeansPaidOut`
  in `adminrace`; `RefundOnlyUnpaid`, `PaidRowsHeld` and `RefundedStays` of `settle`, where
  staff of a parent group act. `CalmInv` is not an invariant there: it says that actors take
  turns, and that no person accepts an API row.

Every property of the other passing runs that is not about liveness is a theorem. The
inductive invariants are no run's invariants: they were checked by TLC on small instances
before they were proved.

## 5. Not modelled, and why

`PROJECT.json` lists every part with its status. Abstractions inside what is modelled:

* the keyed work of the `transfer:completed` listeners (agency journal, push job, webhook
  staging) is one step with one flag: all of it is keyed by the transfer;
* receipts over Telegram, receipts of split parts and of cancellations, manual resends, the
  provider's status callbacks and the retry worker of failed deliveries;
* notes, names, amounts and provider payloads: no guard of the dispatch reads
  them, except that a reference is masked or full;
* `waitingApiAutoCompletion`: only rows of older builds carry it;
* in `ProviderDispatch`, refunds are one step with a MongoDB transaction; the fallback is in
  `ExecutorTask`;
* the prices, limits and amounts of balances: a charge that is not covered may happen at any
  time, and the keys under which the application's edits are repeated are left out;
* sub-accounts are one of a transfer's two wallets; their own workflows are not modelled;
* deductions, which mirror deposits; service balances and shared pools of a company, of which
  one sum is kept; support tickets, receipts and notices;
* the in-memory queue that replaces BullMQ without Redis: a job there is a job that is never
  redelivered. Its known weakness: the guard of `processSingleJobSerialized` is outside the
  `try`, so a throw leaves `isProcessing` set and the queue stopped
  (`services/queueService.js:315`);
* the five minutes after which a marker counts as stale are longer than any Payment's
  timeout, so `Resolve` calls a marker stale when no worker is on the row.

Parts without a module: provider reconciliation and the pending monitor (they read what the
provider reports and offer rows for review); the operator's recovery script; balance
transfers between accounts and rate changes; the executor-initiated Payment of the provider
page; agency books, reports and settlement (sums over finished rows); authentication;
messages; pages and request parsing.

## 6. Plan

Done: `ProviderRow`, `ProviderDispatch`, `TransferPromise`, `ProviderCalm`,
`CompletionEffects`, `LockService`, `ExecutorTask`, `TransferCreation`, `WebhookOutbox`,
`DepositRequest`, and proofs of their safety properties.

Next, in this order:

1. Proofs of the dispatch beyond the calm environment: `OnePayout` under `overlap`,
   `RefundOnlyUnpaid` under `parentStaff`, both from weaker forms of `CalmInv`.
2. An abstract specification of what a deposit's row promises, with the two reviews and the
   voids shown to implement it when nothing goes wrong: `BalanceInv` is the mapping.
3. Balance transfers: two wallets, one key; the operator's fence against a live worker, over
   `ProviderRow`.
