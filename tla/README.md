# TLA+ models of the wallet microservice

This directory has TLA+ specifications of the wallet service in `src/`,
together with the TLC configurations that check them. `PROJECT.json` lists:

- every component and whether it is modelled;
- every run, with its properties and expected result;
- the mutants that show each property can fail;
- the map from each TLA+ definition to the source lines it translates;
- the findings;
- the hazards, meaning the places where the code can go wrong in ways a unit
  test would hardly reach.

## The system

The service is NestJS on PostgreSQL (TypeORM), Redis and RabbitMQ. Its parts:

| Part | Source | What it does |
|---|---|---|
| Wallet entity | `src/src/modules/wallet/entities/wallet.entity.ts` | Balance, status (ACTIVE, FROZEN or CLOSED) and the daily withdrawal limit. Holds the rules of deposit, withdraw, credit, freeze, unfreeze, close and setDailyWithdrawalLimit. |
| WalletRepository | `src/src/modules/wallet/repositories/wallet.repository.ts` | `findById` is a plain read. `findByIdWithLock` is `SELECT … FOR UPDATE`. `getOrCreate` inserts with `ON CONFLICT DO NOTHING`, locks the row and journals `WALLET_CREATED` for a new wallet. `saveWithEvent` saves the row and appends a `wallet_events` row in the caller's transaction. |
| WalletService and controller | `src/unnamed/part_003`, DTOs in `src/unnamed/part_004` | See the description of the request paths below. |
| TransactionManager | TypeScript inside `src/src/infrastructure/database/migrations/003_production_security.sql`, lines 312-399 | See the description below. |
| IdempotencyRepository, OutboxRepository | `src/unnamed/part_008` | Storage for idempotency records and outbox rows. |
| Outbox relay | `src/src/infrastructure/messaging/outbox-relay.service.ts` | A 5 s cron publishes up to 100 unpublished outbox rows, then marks the published ones. |
| EventPublisher | `event-publisher.service.ts` | Publishes to a topic exchange. |
| Fraud detection consumer | `src/src/modules/fraud/entities/fraud-alert.entity.ts` and `src/src/workers/consumers/fraud-detection.constants.ts` | Consumes wallet events. Deduplicates them with a Redis `SET NX` key. Runs the rapid-withdrawal and high-value rules. Retries through a TTL wait queue (3 attempts), then dead-letters the message. |
| Transfer saga entity | `transfer-saga.entity.ts` | The state machine PENDING → DEBITED → COMPLETED, or COMPENSATED or FAILED. |
| Saga recovery | `fraud-detection.constants.ts`, lines 47-105 | A 10 s cron that re-drives sagas stuck in DEBITED for longer than 60 s. |
| TransferSagaService | Not in the repository; called from the controller in `part_003` | Runs the saga as separate transactions: insert, debit leg, credit leg, COMPLETED transition, and compensation (spec 4.3 and 4.4). |
| Event immutability | The SQL migration | Roles, triggers and audit. |

The request paths:

- **deposit and withdraw** (`executeIdempotentTransaction`):
  1. Look the `X-Request-ID` up in `idempotency_keys`. On a hit, return the stored response.
  2. `TransactionManager.execute` takes the Redis lock `lock:req:<rid>` with `SET NX EX 60`. If the key is already set, the request fails with a conflict.
  3. It opens a READ COMMITTED transaction. Inside it, the wallet is row-locked, created first for a deposit. The entity rule runs, then `saveWithEvent`, then the outbox row, then the idempotency row. Then it commits.
  4. It publishes best-effort.
  5. The `finally` block deletes the lock key.
  6. The service then writes the returned balance to the cache key `wallet:balance:<id>` (TTL 30 s).
- **freeze, unfreeze and close** (`executeStateChange`): read the wallet with `findById`, with no lock. Then, inside `TransactionManager.execute` and without a request lock, apply the rule to that in-memory row, `saveWithEvent` it and add the outbox row. Finally, delete the cache key.
- **setDailyWithdrawalLimit** has the same shape as the admin operations above, and it does not invalidate the cache. It journals `WALLET_UNFROZEN` for a removed limit and `WALLET_FROZEN` for a set one.
- **getBalance**: read the cache. On a miss, run `findById` and fill the cache.

## Modules

### `WalletEngine.tla`: one-wallet state changes

**State:**

| Variable | Models |
|---|---|
| `wallet` | The `wallets` table |
| `journal` | `wallet_events` |
| `outbox` | `outbox_events` |
| `idem` | `idempotency_keys` |
| `reqLock` | The Redis `lock:req:*` keys |
| `cache` | The `wallet:balance:*` keys |
| `today` | The UTC date used by the daily limit |
| `pc`, `req`, `snap`, `resp` | The program counter, request, wallet row held in memory and result of each concurrent handler in `Procs`. The result is a response, or a rejection: the HTTP status and exception class the client gets |
| `answered` | History only: for each request id, the pairs of (request, final answer) the clients have received |
| `issued` | How many requests have been issued |

**Steps.** A step ends at every await on Redis or on the store. A transaction that holds the row lock from its first read to its commit is a single step (`CommitMoney`). This is sound because the row lock serialises it against every other locked transaction on the wallet. `getOrCreate` is part of that step: a concurrent `INSERT … ON CONFLICT` waits for the inserting transaction and then sees its row. The admin operations read outside the lock, so `ReadWallet` and `CommitAdmin` are separate steps.

**Actions and the code they model:**

| Action | Code |
|---|---|
| `IdemLookup` | `executeIdempotentTransaction`, lines 247-254 |
| `AcquireReqLock` | `TransactionManager.execute` step 1 |
| `CommitMoney` | Uses `DepositTx` or `WithdrawTx`, which model the operation closure, `saveAll` of the outbox, and the commit |
| `ReleaseReqLock` | The `finally` block |
| `SetBalanceCache` | The call to `setBalanceCache` in deposit and withdraw |
| `ReadWallet` and `CommitAdmin` | `executeStateChange` and `setDailyWithdrawalLimit` |
| `InvalidateCache` | `invalidateBalanceCache` |
| `GetCached`, `LoadBalance` and `FillCache` | `getBalance` |

The environment acts through:

- `CacheExpires`: the 30 s TTL;
- `ReqLockExpires`: the 60 s lock TTL;
- `NewDay`: the UTC date moves on.

`Finished` is the terminal stutter once every request has been served.

The entity rules are operators:

- `CanDeposit` and `Deposited`;
- `ResetIfNewDay`, `CanWithdraw` and `Withdrawn`;
- `AdminAllowed` and `AdminApplied`;
- `AdminEventType`.

The error path keeps the code's order of checks. `DepositError`, `WithdrawError` and
`AdminError` return the first exception the entity method throws:

- `InvalidAmountError`, then `WalletNotActiveError`;
- for a withdrawal, `WithdrawalLimitExceededError` (after the daily reset, `WithinDailyLimit`), then `InsufficientFundsError`.

`WithdrawFailure` adds the plain `Error` for a missing row. `Rejection` is
`WalletExceptionFilter`: a domain exception (`DomainErrors`, from
`wallet.exceptions.ts`) answers 422 with its class name. A `ConflictException` (the
request lock is held) answers 409, and any other error answers 500. A handler's
final answer is recorded in `answered` by `Answer`. For a success this happens when
the cache is set; for a rejection it happens in `ReleaseReqLock`.

Amounts are small positive integers, in units of `1/Cent` of a cent. The DTOs
(`@IsNumber() @IsPositive()`) admit any positive amount, sub-cent ones included.
The entity computes on the unrounded value. The `DECIMAL(20,2)` columns then
round it on save, half away from zero:

- `Numeric2` is that rounding;
- `StoredRow` applies it to the balance, the daily total and the limit of a saved row;
- `StoredEvent` applies it to the amount of a journalled event.

The outbox payload, the idempotency response and the cache keep the unrounded
value. With `Cent = 1` the rounding is the identity, and every run except
`sub_cent_withdrawal` uses that setting. `MC_WalletEngine` defines `MCSubCent`
(10 units per cent) and the amounts `MCSubCentAmounts` (0.005 and 0.01). The
entity's unit tests (`wallet.entity.ts`, lines 290-520) run in memory and
never save, so they cannot see this rounding.

**Properties:**

| Property | Statement |
|---|---|
| `TypeOK` | The type invariant. |
| `BalanceMatchesJournal` | Every balance equals the replay of its journal: deposits minus withdrawals. |
| `DailyTotalMatchesJournal` | `daily_withdrawal_total` equals the withdrawals journalled on `last_withdrawal_date`. |
| `OutboxMirrorsJournal` | The outbox rows are exactly the journalled events other than `WALLET_CREATED`, in order. This is the transactional-outbox guarantee. |
| `AtMostOnceApplication` | A request id is journalled at most once. |
| `ClosedIsPermanent` | An action property: a CLOSED wallet never changes status. |
| `JournalStatusMatches` | The status derived from the journal is the wallet's status. |
| `QuiescentCacheFresh` | When no handler is running, a cached balance equals the stored balance. |
| `ReplayAnswersAlike` | Spec §7: the same request sent again under the same id gets the same final answer, a 409 while the first is in flight excepted. |

### `WalletAbstract.tla` and the refinement

`WalletAbstract` states what spec §4.2 promises for the money path. It has
no locks, no handler steps and no cache. Each deposit or withdrawal is one
step, `AbsDeposit` or `AbsWithdraw`, and that step does all of the following:

- applies the wallet rules: ACTIVE status, the daily reset, the limit and the funds;
- provisions a missing wallet for a deposit, with `WALLET_CREATED`;
- journals the operation's event;
- stores the response under the request id, when there is one.

`AbsNewDay` moves the date on. The module is written from the spec and maps no
source lines.

`WalletEngine` instantiates it as `Abstract == INSTANCE WalletAbstract`, with
every constant and variable mapped to the one of the same name: `wallet`,
`journal`, `idem` and `today`. The property `RefinesAbstract == Abstract!AbsSpec`
is checked in `wallet_money`. It holds when every engine step either leaves
those four variables unchanged or is one whole abstract operation. So the
split handler steps, the request lock and the cache never expose a half-done
operation, and a stored response is always the balance the operation
produced. The abstract specification does not promise that a request id is
applied at most once, because the engine does not keep that promise (see
`idem_double_apply`).

### `MC_WalletEngine.tla`

It gives the constants their values:

- amounts {1, 2};
- limits {null, 1};
- up to 3 requests, or 5 for the close race;
- two days (0 and 1);
- the handler sets `MoneyPath`, `AllHandlers` and `CloseRace`;
- process symmetry.

### `OutboxPipeline.tla`: from a committed outbox row to the fraud rules

**State:**

| Variable | Models |
|---|---|
| `outbox` and `published` | The `outbox_events` rows in commit order, and their `published` flag |
| `postCommit` | Events whose `publishEventsAsync` publish has not run yet |
| `relay[r]` | Each replica's in-memory `isProcessing`, fetched batch and `publishedIds` |
| `mainQ`, `waitQ`, `dlq` | Bags of messages. A bag has no order and may hold duplicates, which matches at-least-once, reordered delivery. |
| `consumer[c]` | Each worker's single unacked message (prefetch 1) and where its handler is |
| `processed` | The Redis `processed_event:*` keys |
| `zset` | The `withdrawals:<w>` sorted sets |
| `alerts` | `fraud_alerts` |
| `accepted` and `evaluated` | Ghost variables: events the exchange accepted at least once, and events whose fraud checks ran to the end |
| `bound` | Whether the fraud queue and its bindings exist on the broker |
| `faults` | The number of failures injected so far |

**Actions and the code they model:**

| Action | Code |
|---|---|
| `Commit` and `PostCommitPublish` | `TransactionManager.execute` and `publishEventsAsync` |
| `RelayTick`, `RelayPublish`, `RelayMark` and `RelayCrash` | `OutboxRelayService.handleCron`. A tick with nothing to publish is a stutter. A crash loses the in-memory flag and the batch. |
| `ConsumerSetup` | `onModuleInit`, then `connect`, then `setupTopology`: the worker declares the queues and bindings and starts consuming. A worker starts in `Unset`, and a crashed worker goes back to it. |
| `Receive` | The channel delivering a message to a worker |
| `Dedup` | `handleMessage` with `acquireLock` |
| `RapidRecord`, `RapidCount` and `SaveRapidAlert` | `detectRapidWithdrawals` |
| `HighValue` | `detectHighValueTransaction`, followed by the ack |
| `HandleError` | `handleProcessingError` |
| `ConsumerCrash` | The worker dying: the broker requeues the unacked message |
| `WaitExpire` | A wait queue's TTL expiring, dead-lettering the message to the main exchange |

**Routing.** `RoutingKey`, `MainBindings`, `WaitQueueKey` and `Routed` model the topic routing by what it does. A copy reaches the fraud queue only when its routing key is one of the two bindings, and only once some worker's `setupTopology` has declared those bindings (`bound`). The publisher asserts the exchange and nothing else. The topic exchange accepts an unroutable message and drops it. The initial value of `bound` comes from `TopologyAtStart`: a fresh broker, or one where a previous consumer already declared the topology. `Key` is the idempotency hash, modelled as the tuple of the fields it hashes.

**Failures.** Every failure is drawn from `FaultKinds` and counted against `MaxFaults`:

- a failed broker publish;
- a failed store write: `markAsPublished` or `saveFraudAlert`;
- a failed Redis command;
- a crash of a relay replica or a worker.

**Properties:**

| Property | Statement |
|---|---|
| `TypeOK` | The type invariant. |
| `AtMostOneAlertPerRule` | No rule raises two alerts for one event. |
| `EveryEventReachesBroker` | Every committed row is eventually accepted by the exchange. |
| `QueuesDrain` | Eventually every queue is empty and every worker is idle. |
| `WithdrawalNeverDropped` | Every committed withdrawal has been evaluated, or a copy of it is still on its way. |
| `HighValueAlerted` | An evaluated withdrawal above the threshold has its alert. |

**Fairness.** The liveness run assumes weak fairness of:

- the relay cron (it fires every 5 s, and a tick with work always runs to its end);
- the post-commit publish;
- the broker's TTL expiry;
- each worker's handler steps and its setup (the channel manager re-runs `setup` on every connect).

Commits are clients' choices and get no fairness. Failures are bounded by `MaxFaults`, so a fair schedule eventually succeeds.

### `MC_OutboxPipeline.tla`

It defines three payloads:

- `e1`: a withdrawal of 20 at time 1;
- `e2`: a withdrawal of 5 at time 2, on the same wallet;
- `e3`: a deposit, which has no binding.

It also fixes the threshold at 10, `MaxWithdrawals` at 1 so that the rapid rule fires, and a window of 5. It defines the fault-kind sets used by the cfgs, and the start states of the broker: `StartFresh` (either), `StartBound` and `StartUnbound`.

### `TransferSaga.tla`: the transfer saga and its recovery

A transfer is a saga row plus separate transactions. The saga row's state
machine is `transfer-saga.entity.ts`. `TransferSagaService`, which runs the
legs, is the second part of `transfer-saga.entity.spec.ts` (lines 82-456),
after the entity's tests. The recovery cron is `SagaRecoveryService`
(`fraud-detection.constants.ts`). The controller (`part_003`, lines 400-426)
calls `executeTransfer`. Every step is modelled from that code.

**State:**

| Variable | Models |
|---|---|
| `bal`, `status` | The two wallets' balance and status |
| `state` | The `transfer_sagas.state` column ("NONE" before the insert) |
| `stale` | `updated_at < now − sagaStuckThreshold`. Every save of the row resets it. |
| `pc` | Where each transfer request is, or "dead" once its process has died |
| `rec[r]` | Each replica's recovery loop: `isRecovering` (pc ≠ "idle"), the sagas left in this tick, the saga being recovered |
| `debits`, `credits`, `refunds` | Ghost counters: how many times each saga's debit leg, credit leg and refund committed |
| `adm` | The admin request in flight: the wallet, the balance it read, the status the entity method left on its copy |
| `admin`, `crashes`, `faults` | Admin requests, crashes, and thrown Redis or broker calls so far, each bounded |

**Actions and the code they model.** Each leg (`executeTransactionalStep`)
is one transaction under one wallet's row lock, so it is one step. Every
other await is a step boundary: a saga reload, a saga save, a Redis `DEL`, or
a broker publish.

| Action | Code |
|---|---|
| `CreateSaga` | `executeTransfer` up to the insert of the PENDING row |
| `PublishInitiated` | The TRANSFER_INITIATED publish. It sits before the `try` block, so if it throws, the error reaches the caller and the saga stays PENDING. |
| `DebitLeg` | `debitFromSender`: `Wallet.withdraw` on the source and `markAsDebited` in one transaction, then the cache `DEL` of the source |
| `CreditLeg` | `creditToReceiver`: `Wallet.credit` on the destination, with no saga update, then the cache `DEL` of the destination |
| `CompleteSaga` | The reload and `markAsCompleted` on the copy in memory. It throws unless the row read is DEBITED. |
| `SaveCompleted` | The save of that copy, with no version check, then the TRANSFER_COMPLETED publish and the idempotency save |
| `CatchError` | The `catch` block's reload: a DEBITED saga is compensated, any other is marked FAILED |
| `MarkFailed` | `markAsFailed` (no guard) and save |
| `CompensateSaga` | `compensate`: the refund through `Wallet.credit`, which throws unless the source is ACTIVE, and `markAsCompensated`, which throws unless the row is DEBITED. They commit or roll back together. |
| `RecoveryTick` | `processStuckSagas`: the `isRecovering` check and the DEBITED-and-stale query |
| `RecoverNext` | The per-saga loop: `recoverSaga` reloads the row and skips it unless DEBITED. The `finally` block resets the flag. |
| `RecoverCredit` | `recoverSaga`'s credit leg and cache `DEL`. A throw goes to compensation. |
| `RecoverComplete` | `markAsCompleted` on the copy read before the credit, which never throws; the save over the row; the TRANSFER_COMPLETED publish, whose throw goes to compensation |
| `RecoverCompensate` | `compensate` from `recoverSaga`'s `catch` block. The loop logs its throw and goes on. |
| `AdminRead` | `freezeWallet`, `unfreezeWallet` or `closeWallet`: `executeStateChange` reads the wallet with `findById`, outside any lock, and applies the entity method to that copy (`AdminResult`). `freeze` throws on a CLOSED copy and `close` on a copy with a balance; a throw ends the request unsaved. `unfreeze` of a copy that is not FROZEN changes nothing, and the copy is still saved. |
| `AdminSave` | `saveWithEvent`: the copy replaces the row, with the balance it was read with. A leg that committed in between is overwritten. |

The environment acts through four means:

- `RequestCrash` kills a request before one of the steps in `CrashPoints`.
- `RecoveryCrash` restarts a replica before one of those steps, losing its flag and its place in the loop.
- `TimePasses` marks a DEBITED row stale. Unless `LegsOutliveThreshold` is set, this happens only after its request has died or finished.
- A call in `FaultPoints` may throw, up to `MaxFaults` times (`CallOutcomes`). The calls are the TRANSFER_INITIATED publish, the cache `DEL` after each leg, and the TRANSFER_COMPLETED publish.

**Abstractions.** Events and outbox rows are left out: `OutboxPipeline` covers
their path. The TRANSFER_FAILED publish after a refund changes no saga state,
so it is left out too. The daily limit of the debit leg is reduced to the
funds and status checks. The transfers carry no X-Request-ID, so the key lookup
and the key store never run. `executeWithRetry` is not modelled: it retries
only rolled-back lock conflicts, which change no state.

**Properties:**

| Property | Statement |
|---|---|
| `TypeOK` | The type invariant. |
| `EachTransferAppliedOnce` | Each source is debited at most once. The amount leaves the saga at most once, as a credit or as a refund. A COMPLETED saga was credited; a COMPENSATED one was refunded and not credited. This is the per-saga form of spec §8's conservation. |
| `SagaMovesAlongEdges` | An action property: the row moves only along the edges spec §3 declares, and never leaves COMPLETED or FAILED. |
| `SagaTerminates` | Spec §1's "eventual recovery": every inserted saga reaches COMPLETED, COMPENSATED or FAILED. |
| `DebitedSagaResolvedOnceUsable` | Recovery selects only DEBITED rows, so this is what it can promise: once the source or the destination stays ACTIVE, every saga that was debited ends, whether its request finished, threw or died. A saga left PENDING is not covered; `saga_pending_stuck.cfg` and `saga_initiated_unpublished.cfg` show it stuck. |
| `RefinesTransferAbstract` | The saga, recovery and admin steps implement `TransferAbstract` under the escrow mapping below. It does not hold; see below. |

**Fairness.** A live request runs its awaits to the end, so each request gets
weak fairness. The cron fires every 10 s, so each replica's loop gets weak
fairness. Time passes, so `TimePasses` gets weak fairness. An admin request
that has read its row goes on to save it, so `AdminSave` gets weak fairness.
Crashes, faults and new admin requests get none. `MaxCrashes` bounds the crashes and `MaxFaults` the thrown calls.

### `TransferAbstract.tla` and the saga refinement

`TransferAbstract` states what spec §4.3, §4.4 and §8 promise of a transfer.
It has no legs, no saga row and no recovery. A requested transfer is decided
once, in one step, in one of two ways:

- `Move`: the amount leaves the source and reaches the destination;
- `Cancel`: nothing changes.

`Move` never takes more than the source holds. Spec §4.3 also lets a transfer
from a source closed before compensation end FAILED with the amount kept. The
code never does that: its refund to a CLOSED source rolls back, and the saga
stays DEBITED (see `saga_frozen_refund`). So the abstraction has no such
outcome. The module is written from the spec and maps no source lines.

`TransferSaga` instantiates it as `AbsTransfer` with a refinement mapping:

- An abstract balance is the concrete balance plus the money held in escrow for the wallet (`Escrowed`). Money is in escrow from a saga's debit until its credit or refund.
- A saga's abstract state (`Outcome`) follows from its ghost counters:
  - credited means moved;
  - refunded, or FAILED before the debit, means cancelled;
  - FAILED after a debit with no refund maps to "forfeited", which the abstraction does not allow;
  - otherwise it is open.

The saga would refine the abstraction if the escrow were released exactly once
into the right wallet, recovery never decided a saga twice, and no other step
moved money. The last condition fails. An admin request saves the row it read
before a leg committed, which changes a balance outside any transfer.
`saga_admin_refinement.cfg` shows it: a freeze reads w1, the debit leg takes
its unit, and the freeze saves w1's old balance. So no passing run checks
`RefinesTransferAbstract`. The double credit of `saga_crash_after_credit.cfg`
and the credit plus refund of `saga_refund_after_credit` break it too.

### `MC_TransferSaga.tla`

It sets up:

- two wallets, w1 with 1 and w2 with 0;
- two opposite transfers of 1, s1 from w1 to w2 and s2 from w2 to w1.

With these values, s2 succeeds only after s1 has credited w2, and either
wallet can be drained to 0 and closed while a saga on it is in flight.

It names the crash windows:

- `RecoverableCrashes`: before the insert, between two sagas of a tick, before a credit leg, and before compensation. These are the windows recovery is meant to cover.
- `CrashAfterCredit`: after a credit leg, before COMPLETED.
- `CrashBeforeDebit`: while the saga is PENDING.

It names the calls that may throw:

- `HandledFaults`: the cache `DEL` after the debit, and the TRANSFER_COMPLETED publish. The code's `catch` blocks are meant to handle both.
- `DelAfterCreditFault`: the cache `DEL` after the credit leg.
- `PublishCompletedFault` and `PublishInitiatedFault`: a single publish.
- `NoFaults`.

## Runs

| Run | Expect | What it shows |
|---|---|---|
| `wallet_money` | pass (≈161k distinct states) | Two handlers issue up to 3 deposits and withdrawals, with and without request id `r1`. The run includes lock expiry, cache expiry and a date change. The balance and the daily total agree with the journal, and the engine refines `WalletAbstract`. The type and outbox invariants are checked in `wallet_admin`, whose behaviours include these. |
| `wallet_admin` | pass (≈303k distinct states) | Every handler is enabled. The type invariant holds, and every journalled change has its outbox row. Stale admin writes break the balance–journal agreement, which is why that property is not checked here; see `admin_lost_update.cfg` below. |
| `idem_double_apply` | violation of `AtMostOnceApplication` | Attempt A of `r1` holds the lock. Attempt B's lookup misses. A commits and releases the lock. B takes the lock and applies `r1` again. |
| `pipeline_safety` | pass (≈228k distinct states) | One relay and two workers, with up to two failures of any kind. Every event is published twice, once after commit and once by the relay, and is redelivered after crashes. Still, no rule raises two alerts for an event. The broker starts with or without the fraud bindings. |
| `pipeline_liveness` | pass (≈113k distinct states, about 1.5 min) | Two relay replicas and one worker, with one failure of any kind. Every committed row reaches the exchange, and every queue drains. |
| `retry_dropped` | violation of `WithdrawalNeverDropped` | A Redis error during the rules sends the message to the wait queue. On expiry, it is dead-lettered under the wait-queue name, which matches no binding, so it is dropped. The relay's copy is then acked as a duplicate. The rules never ran. |
| `saga_safety` | pass (≈220k distinct states, under 1 min) | Two opposite transfers and one recovery replica. Requests and the replica crash in every recoverable window (two crashes). Up to three admin requests freeze, unfreeze and close the wallets, each saving the row it read while the legs run. The debit's cache `DEL` or the TRANSFER_COMPLETED publish may throw once. Each amount is debited, credited or refunded at most once, and every debited saga ends once one of its wallets stays ACTIVE. |
| `saga_refund_after_credit` | violation of `EachTransferAppliedOnce` | The credit leg commits, and the cache `DEL` after it throws. The `catch` block finds the saga DEBITED and refunds the source, so the amount reaches both wallets. |
| `saga_completed_failed` | violation of `SagaMovesAlongEdges` | The saga is saved COMPLETED, and the TRANSFER_COMPLETED publish throws. The `catch` block finds COMPLETED and `markAsFailed` turns it into FAILED, an edge spec §3 does not declare. |
| `saga_frozen_refund` | violation of `SagaTerminates` | After the debit, an admin freezes the source and then the destination, both before the credit leg runs. The credit is refused, and the refund is refused because the source is FROZEN. Both wallets stay FROZEN, every refund rolls back, and recovery finds the saga DEBITED on every tick. Spec §4.3 says the refund goes through to a FROZEN source. |
| `sub_cent_withdrawal` | violation of `BalanceMatchesJournal` | A deposit of 0.005 is stored as a balance of 0.01 but answered as 0.005. A withdrawal of 0.005 then leaves the stored balance at 0.01, because 0.005 rounds up to 0.01. The journal, however, records 0.01 withdrawn. |
| `replay_error_reapplied` | violation of `ReplayAnswersAlike` | A withdrawal under `r1` on a missing wallet answers 500. A deposit creates the wallet. The retried `r1` runs again and answers 422. The idempotency key is stored only on success, so a failed request is not replayed. |

**Further counterexamples.** The following configurations are kept beside the
runs. TLC finds each property violated. `PROJECT.json` lists them under the
hazards they concern, not as runs.

| Cfg | Property | What TLC finds |
|---|---|---|
| `closed_reopened.cfg` | `ClosedIsPermanent` | A freeze reads an ACTIVE wallet, a close commits, and the freeze commits FROZEN over CLOSED. This has the same cause as `admin_lost_update`. |
| `limit_event_mislabel.cfg` | `JournalStatusMatches` | Setting a limit journals `WALLET_FROZEN` on an ACTIVE wallet. |
| `replay_stale_cache.cfg` | `QuiescentCacheFresh` | A replay of `r1` writes the stored balance into the cache after a later deposit. |
| `alert_swallowed.cfg` | `HighValueAlerted` | `saveFraudAlert` swallows a store error, and the high-value withdrawal is acked without an alert. |
| `saga_two_recoverers.cfg` | `EachTransferAppliedOnce` | Two replicas recover the same stranded saga, and both credit the destination. Spec §5 calls overlapping recovery across replicas benign. |
| `redelivery_skipped.cfg` | `WithdrawalNeverDropped` | A worker crashes after `SET NX`. The requeued message is acked as already processed. |
| `key_collision.cfg` | `WithdrawalNeverDropped` | There are no failures. Two equal withdrawals from one wallet in the same millisecond (`MCSameInstant`) hash to the same idempotency key, so the second one is acked as a duplicate without running the rules. |
| `saga_pending_stuck.cfg` | `SagaTerminates` | A request dies while its saga is PENDING. Recovery only selects DEBITED rows, so the saga is never resolved. |
| `admin_lost_update.cfg` | `BalanceMatchesJournal` | A freeze reads the wallet, a deposit commits, and the freeze saves the stale row, which erases the deposit. |
| `saga_crash_after_credit.cfg` | `EachTransferAppliedOnce` | The request dies after its credit leg. The saga is still DEBITED, so recovery credits the destination again. |
| `saga_slow_leg_edges.cfg` | `SagaMovesAlongEdges` | A request outlives the stuck threshold. Recovery credits and saves COMPLETED over a row the request has meanwhile compensated, so COMPENSATED becomes COMPLETED. |
| `saga_initiated_unpublished.cfg` | `SagaTerminates` | The TRANSFER_INITIATED publish throws before the `try` block. The saga stays PENDING, and recovery never selects it. |
| `saga_admin_refinement.cfg` | `RefinesTransferAbstract` | A freeze reads w1 with its unit, the debit leg takes the unit, and the freeze saves w1 with the unit again. This is the stale save of `admin_lost_update.cfg`, racing a transfer leg. |
| `topology_late.cfg` | `WithdrawalNeverDropped` | There are no failures. On a fresh broker a withdrawal is published before any worker has run `setupTopology`. The exchange drops it, and the relay marks it published. |

**Bounds.** One wallet and one request id are enough for every race above, because each race involves one row and one key. Two processes are enough for two-party races. Three requests allow a replay or a stale read plus one intervening change. The close race needs five requests: create, deposit, withdraw to zero, then close and freeze. Two days exercise the daily reset.

**Pipeline bounds.** Two withdrawals are enough to trigger both rules and both duplicate sources. Each violation needs only one failure. The safety run uses two workers, to race copies of one event through `SET NX`, and one relay. The liveness run uses two replicas and one worker: with liveness, the product of both is too large for a run under 5 minutes.

**Saga bounds.** Two opposite transfers between two wallets cover both directions and the cases where a wallet is empty, frozen or closed mid-saga. In `saga_safety`, s2's debit from the empty w2 fails for lack of funds unless s1 has credited w2 first. Three admin requests allow freeze, unfreeze and close in sequence, or a stale save racing a leg followed by two more. A third transfer competing for w1's unit would take the run past 13 minutes once admin requests are split into a read and a save. Two crashes allow a request crash followed by a replica restart while recovering it. Each violation needs one saga. One thrown call is enough for each partial failure, because every one of them follows from a single throw; `saga_safety` allows one, at either handled call, and the absence of faults is among its behaviours.

**Fairness.** `WalletEngine` checks only safety properties. For the fairness assumed in `OutboxPipeline` and `TransferSaga`, see those modules' sections above.

**Mutants.** Each property of a passing run has a mutant in `PROJECT.json`: a mapped definition replaced by a plausible bug that TLC catches. Among them:

- the dropped funds check;
- `getOrCreate` overwriting an existing row;
- no daily reset;
- an outbox row written for a refused operation;
- a duplicate that is not acked, or that is checked but never recorded;
- a relay flag that is never reset;
- a debit without its balance check;
- a swallowed credit failure;
- a deposit response computed from the row before the deposit (caught only by the refinement);
- recovery that leaves a failed credit without compensation.

## Plan for the rest of the project

1. Done: **`OutboxPipeline`** and **`TransferSaga`**.
2. Done: **`WalletAbstract`** and its refinement, on the money path.
3. Done: **`TransferAbstract`** and the saga refinement mapping. It does not hold, because of the admin stale save (`saga_admin_refinement.cfg`).
4. A composed model of wallets, transfers and the pipeline. This would need a run slot, and the project is at the checker's limit of 12 runs.

## Not modelled

| Left out | Reason |
|---|---|
| DI wiring, health checks, deployment, the error message texts | They have no state transitions. Only the status and exception class of an error are modelled. |
| Database grants and triggers | The model's journal is append-only by construction. |
| Floating-point error of double arithmetic | Amounts are integers. Rounding to the column's two decimals is modelled (`Numeric2`). Doubles are exact for the balances the sub-cent run reaches (at most 0.02 ± 0.01); larger sums are not modelled. |
| `getHistory` and `cleanupOld` | The first is a read; the second is never called. |
| Transfer preconditions (currency match, auto-provisioning of the destination, daily limit), the transfer's X-Request-ID, and the saga's events | Currency is a single value in the model, both wallets exist, and `OutboxPipeline` models event delivery. |
