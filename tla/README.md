# Formal model of the courier service

TLA+ specifications of the courier dispatch service under `src/`. The service
assigns couriers to orders, releases them when an order is cancelled or
completed, and runs a periodic reaper that returns couriers to `available` once
a delivery deadline has passed. This directory holds:

- the modules, one per component, and `MC*` modules that instantiate them;
- the TLC configurations (`*.cfg`) that model-check them on small instances;
- the TLAPS proofs of invariants (`*Proofs.tla`);
- `PROJECT.json`, which lists the components, runs, mutants, source map,
  findings, hazards and theorems.

Every module is translated from the Go code; `PROJECT.json`'s `map` names the
lines each definition stands for.

## 1. The system

| Component | Source | Module |
|---|---|---|
| Delivery engine | `internal/service/delivery`, `internal/repository/delivery`, `internal/pkg/factory/delivery_deadline`, `pkg/tx` | `DeliveryEngine` (+ `DeliveryEngineProofs`) |
| Courier directory | `internal/service/courier`, `internal/repository/courier`, REST `courier_post`, `courier_put` | `CourierAdmin` (+ `CourierAdminProofs`) |
| Order dispatch (Kafka worker) | `internal/service/order`, `internal/pkg/factory/order_handle`, Kafka handler `order_status_changed` | `OrderDispatch` (+ `OrderDispatchProofs`) |
| Order gateway and retrier | `internal/gateway/grpc/order`, `pkg/retrier/backoff_adapter` | `Retrier`, refining `RetryCall` (+ `RetrierProofs`) |
| Token bucket | `pkg/token_bucket`, middleware `rate_limiter` | `TokenBucket` (+ `TokenBucketProofs`) |
| Background worker | `pkg/background`, task `delivery_cleanup`, interval check of `config.go` | `BackgroundWorker` (+ `LifecycleProofs`) |
| HTTP service process | `cmd/service/main.go`, `postgres/pool.go`, `grpcclient/conn.go`, middleware `graceful_shutdown`, `healthcheck_head` | `ServiceLifecycle`, composed in `Deployment` (+ `LifecycleProofs`) |
| Worker process | `cmd/worker-order-status-changed/main.go`, `pkg/kafka/consumer.go` | `WorkerLifecycle`, composed in `Deployment` (+ `LifecycleProofs`) |

How they interact:

- The HTTP service calls the delivery engine on `POST /delivery/assign` and
  `/delivery/unassign`, behind the token-bucket middleware, and edits couriers
  on `POST`/`PUT /courier`. It hosts the background worker, whose only task is
  the reaper `CleanupExpiredDeliveries`.
- The worker process consumes Kafka `order.status.changed`. For each event,
  `ProcessOrderStatusChange` fetches the order through the gRPC gateway (a
  call under the retrier) and runs the engine operation the fetched status
  selects.
- The processes share state only through PostgreSQL. Engine calls are
  Serializable transactions (`pkg/tx/tx.go:37`); the reaper and the courier
  statements are single statements. Each model therefore treats one
  transaction or statement as one atomic step, and `CourierAdmin` and
  `OrderDispatch` compose the engine through `INSTANCE`/`EXTENDS`, with its
  whole next-state relation as one of their disjuncts.
- Both processes check their dependencies at start with the retrier
  (every error retried, 2-minute budget) and shut down on SIGTERM/SIGINT in
  stages: readiness to 503, a drain delay, closing of servers and consumer.

## 2. Modules, runs and what they show

### `DeliveryEngine`: the delivery engine

**State.**

| Variable | Code |
|---|---|
| `status[c]` | `couriers.status` |
| `deliveries` | the set of rows of table `delivery`, as records `[order, courier, deadline]` |
| `now` | PostgreSQL `NOW()`, in minutes |
| `result` | the sentinel error (or `"ok"`) the last call returned |

`assigned_at` and `created_at` are only logged or used by the unwired poller,
so they are left out.

**Queries.** Each repository query is one operator:

| Operator | Query | Meaning |
|---|---|---|
| `RowsOf` | `WHERE order_id = $1` | the rows of one order |
| `ActiveCount` | `COUNT ... FILTER (WHERE deadline >= NOW())` | a courier's active rows |
| `IsLeastLoaded` | `ORDER BY count, id LIMIT 1` | the courier selection |
| `OtherActiveCount` | the self-join of the unassign query | the courier's other active rows |
| `ReapTargets` | the reaper's `EXISTS` | couriers the reaper releases |
| `DeliveryOffset` | `CalculateDeadline`'s table | on_foot 15, scooter 10, car 5, anything else 15 |

**Actions.** There is one action per service operation. Each contains all of
its error returns, in the code's order.

- **`DeliveryAssign(o)`**:
  1. `ErrNoAvailableCouriers` when no courier is available. This is checked
     before the order's uniqueness, as in the code.
  2. `ErrOrderAlreadyAssigned` when the INSERT hits the UNIQUE constraint.
  3. Otherwise the row is inserted and the courier set busy.
- **`DeliveryUnassign(o)`**: `ErrDeliveryNotFound`, then
  `ErrCourierHasActiveDeliveries`, else delete the row and set the courier
  available.
- **`FreeCourierByOrderID(o)`**: `ErrDeliveryNotFound`, else set the
  courier available. The row stays.
- **`CleanupExpiredDeliveries`**: every busy courier with an expired row
  becomes available.
- **`Tick`**: the clock advances.

A failed transaction is rolled back (`Fail`), so only `result` changes.

Transactions are atomic steps. This is justified by Serializable isolation:
every concurrent execution of them is equivalent to a serial one, and a loser
of a conflict aborts with no effect, which is a stutter step. The reaper's
UPDATE is one statement. What Serializable buys, and what weaker isolation
would lose is not modelled: the statements of a transaction are never split.

**Fairness.** The model assumes weak fairness of `CleanupExpiredDeliveries`
and of `Tick`:

- the background worker runs the reaper on a ticker for as long as the
  service runs (`worker.go:109-121`), and a failing run is retried at the
  next tick;
- wall-clock time advances.

Nothing is assumed fair about assignments or events.

**Bounds (`MCDeliveryEngine`).**

- Couriers: `{1, 2}`. Courier 1 goes by car (deadline +5) and courier 2 on
  foot (+15), so deadlines of different lengths interleave and the
  lowest-id tie-break matters.
- Orders: three model values. That is enough for a courier to hold an old
  row and a new one and for a third order to meet a reaped courier.
- Time: the clock moves in steps of 5 minutes up to `MaxClock = 30`.
  Step 5 is the gcd of the offsets, so every deadline falls on a tick. This
  keeps all three boundary cases reachable: `deadline < now`,
  `deadline = now` and `deadline > now`.
- An assignment is enabled only if its deadline is below `MaxClock`. Every
  row can therefore expire before the clock stops, which the liveness
  property needs.
- Initial courier statuses are available or paused, with an empty delivery
  table.

The run reaches 37,249 distinct states, and every action and every error
branch fires.

#### Runs of the engine

| Run | cfg | Expect | Checks |
|---|---|---|---|
| `engine` | `MCDeliveryEngine.cfg` | pass | `TypeOK`, `BusyHasDelivery`, `ReleasedEventually` |
| `reaper_partial_expiry` | `MCDeliveryEngineReap.cfg` | violation | `ReapOnlyFullyExpired` |

- **`BusyHasDelivery`**: every busy courier owns a delivery row. The reaper
  can release a courier only through one of its rows, so this invariant is
  what makes the reaper's liveness possible.
- **`ReleasedEventually`**: every busy courier eventually becomes available.
- **`ReapOnlyFullyExpired`**: spec 4.3 says the reaper releases a busy
  courier only when all of its deliveries are past deadline. TLC finds a
  7-state counterexample:
  1. Assign o1 to the car courier (deadline 5).
  2. Complete o1, so the courier is available but o1's row stays.
  3. Time passes 5.
  4. Assign o3 to the same courier (deadline 10).
  5. Time passes 10.
  6. The reaper releases the courier while o3 is still active
     (`deadline = now`).

  The cause is that the query tests `EXISTS ... deadline < NOW()` and no
  code path deletes old rows (`internal/repository/delivery/delivery.go:141`).
  The same happens with no completion at all: reap, re-assign, reap. The
  consequence is that a courier on an active delivery can be handed another
  order. This is recorded as a finding.

Each property of the passing run has a mutant: a plausible bug that TLC must
catch.

| Mutant | Breaks |
|---|---|
| deadline computed by subtracting the offset | `TypeOK` |
| DELETE without the courier update, i.e. no transaction | `BusyHasDelivery` |
| the reaper's comparison reversed | `ReleasedEventually` |

#### Proofs (`DeliveryEngineProofs`)

The proofs hold for every set of couriers and orders, every transport table,
and every `TickMinutes > 0` and `MaxClock`. The assumptions are:

- `Couriers \subseteq Nat`;
- `TickMinutes \in Nat \ {0}`;
- `MaxClock \in Nat`.

Theorems:

- `IInvHolds`: `Spec => []IInv`.
- `TypeCorrect`: `Spec => []TypeOK`.
- `BusyHasDeliveryHolds`: `Spec => []BusyHasDelivery`.

`BusyHasDelivery` is not inductive on its own. An unassignment deletes every
row of its order but releases only one row's courier. If two couriers held
rows of the same order, the other courier would keep its busy status and lose
its row. The UNIQUE constraint excludes this, so
`IInv = TypeOK /\ OrderUnique /\ BusyHasDelivery` is inductive.

The proof has one lemma per action (`AssignIInv`, `UnassignIInv`,
`FreeIInv`, `CleanupIInv`, `TickIInv`), each split by the action's branches.
`NextIInv` combines them by cases on `Next`, and the theorems follow by
`PTL`. The lemma `DeadlineType` shows that `CalculateDeadline` yields a clock
value.



### `CourierAdmin`: the courier directory racing the engine

State: the engine's variables (through `INSTANCE DeliveryEngine`), plus
`registered` (ids with a row), `phone` (the UNIQUE column), `transport` (the
transport column, which the engine reads when it computes a deadline) and the
last `response`. An id without a row is kept `paused` in the engine's status
map, where no engine query touches it.

Actions: `CreateCourier` (validation, then `InsertCourier`, the INSERT that
the unique index may refuse with 409) and `UpdateCourier` (empty request 400,
invalid field 400, then `UpdateRow`, the UPDATE over the fields present:
no row 404, duplicate phone 409, else 200); `EngineStep` (any engine
transaction, with the current transport column) and `Clock`. Names are
abstracted away: no validator or property depends on them.

| Run | Expect | Checks |
|---|---|---|
| `courier_admin` | pass, 22,980 states | `AdminTypeOK` |
| `admin_busy_without_delivery` | violation | `AdminBusyHasDelivery` |
| `admin_pause_overridden` | violation | `PauseRespected` |

Bounds: two ids, two phones, one order, clock to 10 minutes; every answer
code and every engine action happens. Both violations are findings: the
spec says only assignment makes a courier busy (section 3) and that a pause
is lifted only by the administrator, but `CreateCourier`/`UpdateCourier`
accept status `busy` (giving a busy courier with no row, which the reaper
never releases), and `DeliveryUnassign`/`FreeCourierByOrderID` set
`available` unconditionally, undoing a pause set during a delivery.

### `OrderDispatch`: the Kafka worker composed with the engine

`EXTENDS DeliveryEngine` and adds the order service (orders created and then
cancelled, completed or moved to an unknown status, each change appending an
event to `log`), and the consumer: `pos` (next message of the claim),
`marked`, `committed`, `session` (running or rejoining) and `crashes`.
`MessageProcessing` is the whole of `messageProcessing` plus
`ProcessOrderStatusChange` and the factory's handler: the outcome is one of
ok, domain error, undefined status, permanent gateway error, transient
error (budget spent, serialization failure) or context error, and `Settle`
is the error switch (context error: end the session unmarked; anything
else: mark). `Rebalance`, `Rejoin`, `Commit` (auto-commit) and `Crash`
(marks not committed are lost) are the consumer group's behaviours. The HTTP
service's engine calls and the reaper run alongside.

| Run | Expect | Checks |
|---|---|---|
| `dispatch` | pass, 53,100 states | `DispatchTypeOK`, `AtLeastOnce`, `EventuallyCommitted` |
| `dispatch_ack_transient` | violation | `AckOnlyTerminal` |
| `dispatch_replay_release` | violation | `ActiveOrderKeepsCourierBusy` |

Bounds: one courier, one or two orders, two or three events, one crash, so
that duplicates, reorders, crashes between mark and commit and rebalances all
occur. Fairness: the claim loop, `Rejoin`, auto-commit, the reaper and the
clock are weakly fair; processing that does not end in a context error is
strongly fair (the order service and the database are not slow on every
delivery of a message). Findings: the handler acknowledges after transient
errors, which spec 6 says must be redelivered; and a stale or replayed
*completed* event of an old order frees the courier of a newer open order
(spec 4.4).

### `Retrier` and `RetryCall`: the resilient call executor

`Retrier` is one `ExecuteWithContext` of the backoff adapter with the
gateway's configuration, in 50 ms units: `Attempt` (a call taking one of
`CallTimes` and answering a code), `Sleep` (the randomised interval, chosen
nondeterministically within its range by the library's rule), `Cancel`;
`NextBackOff` is the library's decision in the adapter's order (permanent
code, context, budget). `RetryCall` is the abstract contract (spec 4.5):
tries until success, a permanent error, or a retryable error followed by the
context's end or the budget's. `RetryContract` is `RetryCall`'s
specification under a refinement mapping (`Call == INSTANCE RetryCall WITH
...`), checked as a `PROPERTY`.

| Run | Expect | Checks |
|---|---|---|
| `retrier` | pass | `RetrierTypeOK`, `RetryContract` |
| `retrier_cancel` | violation | `CancelSurfacesCtx` |

Finding: a cancellation during a call makes gRPC return `Canceled`, which
`isRetryableCode` classes as permanent, so the executor returns a status
error instead of the context error (`gateway.go:101`), and the handler then
acknowledges the message.

### `TokenBucket`: admission control

`Request` is `Allow` (refill by `int(elapsed*rate)`, clamp at capacity,
`lastRefill = now`, take a token or answer 429) under the mutex, and `Tick`
moves the clock by one tick of `1/TicksPerSecond` s.

| Run | Expect | Checks |
|---|---|---|
| `token_bucket` | pass | `BucketTypeOK`, `AdmissionBound` |

Capacity 2, one token per second, quarter-second ticks for 4 s: bursts,
truncated partial seconds and clamping all happen. `AdmissionBound`: the
admissions never exceed capacity plus the whole tokens earned since start.
It is an upper bound: the fractional token each refill discards makes the
limiter admit less than its rate, which no run states.

### `BackgroundWorker`: warm-up and periodic tasks

State: each task's configured `ttl`, its `warmup` result, the errgroup's
cancellation, the `phase` of `New`, each goroutine's `loop` state, its `runs`
and the service context's `cancelled`. Actions: `WarmupDo` (Do under the
init context, panics recovered; the first failure cancels the others),
`WarmupWait`, `StartTask` (TTL not positive: skipped), `TickerFire`
(`executeTaskSafely`; Go's select may still take a tick after cancellation),
`StopTask`, `Cancel`. `DoOutcomes` is the cleanup task's `Do`, bounded by a
timeout equal to its interval: a non-positive interval fails at once.
Intervals are chosen among those `validateConfig` accepts (non-zero, so
negative ones too).

The worker has no run of its own: it is checked inside the HTTP service
process (below), which hands it the signal context, so that `cancelled` is
that context being done by the signal or by `run`'s deferred `stop()`.
Bounds there: two tasks whose intervals are chosen from -1 and 1, two
periodic runs each. Fairness: weak fairness of every goroutine step and of
the ticker (the runtime schedules runnable goroutines and a ticker keeps
firing); no fairness for the signal. `EveryTaskRuns` holds even for a
negative interval because then the warm-up fails and the service never
starts, rather than starting with the reaper silently skipped. Nobody joins
the ticking goroutines: they end with the process, so whether each takes
its `ctx.Done()` case before `run` returns is not a property of the code.

### `ServiceLifecycle` and `WorkerLifecycle`: the processes

`ServiceLifecycle` is `run` of `cmd/service`: `ConnectDatabase`
(`NewConnPool` and `pingDatabase`), `ConnectOrderService` (`NewConnClient`
and `pingGRPC`), `StartServer` (application warm-up, then `ListenAndServe`),
`ServerError`, requests (`Accept`, the graceful-shutdown `Middleware`,
`Complete`), `Signal`, `BeginShutdown` (`stop`, `isShuttingDown`), 
`ServerShutdown`, `ShutdownReturns` (all drained or `shutdownCtx` expired,
then `stopOngoingGracefully`) and `Exit`. A start-up check returns what the
retry contract allows: success, the error after the budget, or the context
error after a signal. `WorkerLifecycle` is `run` of the worker: the same
checks plus `ConnectKafka` (`NewConsumer`, `pingKafka`), the consumer
goroutine (`TakeMessage`, `FinishMessage`, `ConsumerError`, `ConsumerStops`
under `ongoingCtx`), `HealthServerError`, `BeginDrain`, `StopHealth` and
`CloseConsumer` (the group's `Close` waits for `ConsumeClaim`).
`ServiceLifecycle` `EXTENDS BackgroundWorker`: `Background(A)` lets a step
of the worker happen once `run` has reached `InitializeApplication` and
until it returns, and `StartServer` waits for `New` to have returned.

`Deployment` runs the two processes side by side, and `MCLifecycle`
instantiates it for TLC: `DeploymentNext` interleaves a step of either, and each process brings its
own fairness (`LifeFairness`, `WorkerLifeFairness`).

| Run | Expect | Checks |
|---|---|---|
| `lifecycle` | pass | `WorkerTypeOK`, `WarmupGate`, `ExitAfterDrain`, `WorkerExitAfterDrain`, `EveryTaskRuns`, `SignalLeadsToExit`, `WorkerSignalLeadsToExit`, `ShutdownOrder` |

`ExitAfterDrain` looks at the exited state only; `ShutdownOrder` is the
action property on the order of the steps: on a clean shutdown the
requests' base context `ongoingCtx` is cancelled only after readiness went
to 503 and `server.Shutdown` closed the listener and returned, so a swap
of `stopOngoingGracefully` and `Shutdown`, or a cancel at the signal, is
caught.

Bounds: two tasks, two periodic runs, two requests (one may hang, one may be
rejected by the middleware after `ongoingCtx` is cancelled) and two
messages; about 192,000 distinct states. Each signal, start-up failure and
server error can come at any point of the other process's life, and of
the warm-up. Fairness: the
steps of `run`, the middleware and the consumer's stop are weakly fair; a
start-up check ends (bounded budget); `Shutdown` returns because
`shutdownCtx` times out; a message is processed within `ProcessTimeout`. A
handler of the HTTP service may hang for ever and no signal need come.
Deadlock checking is off for this run: both processes may exit, and then nothing moves.

### Mutants

Every property of a passing run has a mutant in `PROJECT.json`: a plausible
bug in a mapped definition (a dropped guard, a missing recover, a missing
`ctx.Done()` case, `Shutdown` without its timeout, `Close` not waiting, the
context of requests cancelled at the signal...), and TLC finds the property violated under the
run's own configuration.

## 3. Proofs

TLAPS proves, for every value of the constants satisfying the modules'
`ASSUME`s, the theorems below. Each safety theorem rests on an inductive
invariant: `Init` implies it, every disjunct of the next-state relation
keeps it (one lemma per action, split by the action's branches), and the
theorem follows by `PTL`. Each strengthening was first checked by TLC as an
invariant of the module's run.

- **`DeliveryEngineProofs`**: `IInvHolds` (`Spec => []IInv`),
  `TypeCorrect` and `BusyHasDeliveryHolds`. Assumptions: `Couriers \subseteq
  Nat`, `TickMinutes \in Nat \ {0}`, `MaxClock \in Nat`.
  `BusyHasDelivery` is not inductive alone: an unassignment deletes every row
  of its order but releases one courier, so two couriers with rows of the
  same order would break it. `IInv = TypeOK /\ OrderUnique /\
  BusyHasDelivery` is inductive. One lemma per action (`AssignIInv`,
  `UnassignIInv`, `FreeIInv`, `CleanupIInv`, `TickIInv`); `NextIInv` by
  cases on `Next`.
- **`TokenBucketProofs`**: `BucketInvHolds` (`BucketSpec => []BucketInv`),
  `AdmissionBoundHolds` and `BucketTypeCorrect`. Assumptions: capacity and
  rate in `Nat`, ticks per second positive. `AdmissionBound` is not
  inductive (the clock moves without a refill); `BucketInv` ties `tokens +
  admitted` to the tokens earned up to `lastRefill`. Lemmas:
  `DivSuperadditive` (`a\div d + b\div d <= (a+b)\div d`), `EarnedSplit`,
  `EarnedType`, one per action, and `InvImpliesBound` (the earned tokens
  grow with time).
- **`CourierAdminProofs`**: `AdminTypeCorrect`, and `PhoneUniqueHolds`,
  which follows from the database's unique index (modelled by `PhoneTaken`)
  rather than from the Go code, and is therefore not checked by a run.
  `PhoneUnique` needs `DirectoryInv`: registered ids are in the id space,
  `phone` is a function over it, and every registered id has a real phone
  number; otherwise an insertion at an id that already held a stale phone,
  or a comparison with `"none"`, could not be reasoned about. The engine's
  steps go through its instances: `AdminAssignType` shows that
  `DeliveryAssign`, reading the transport column as it is, writes a
  well-typed row (`AdminDeadlineType`).
- **`OrderDispatchProofs`**: `DispatchInvHolds`, `DispatchTypeCorrect`,
  `AtLeastOnceHolds` and `DispatchBusyHasDelivery`. Assumptions: the
  engine's, and `MaxEvents`, `MaxCrashes` in `Nat`, `AutoCommit` Boolean.
  `AtLeastOnce` is not inductive: a message is marked at `pos + 1`, so what
  it says of the committed prefix must hold of the whole marked prefix, and
  the claim must sit at the marked offset. `ConsumerInv` says both (`pos =
  marked`, and every marked message has an outcome other than none or a
  context error); with the engine's `IInv` and the types, `DispatchInv` is
  inductive. A context error moves neither offset, any other outcome moves
  both by one, and `Rejoin` and `Crash` set both to the committed offset.
  The engine lemmas of
  `DeliveryEngineProofs` are reused for the handler's transactions and for
  the HTTP service's.
- **`RetrierProofs`**: `RetrierTypeCorrect` and the refinement
  `RetrierRefinesCall` (`RetrierSpec => RetryContract`). The inductive
  invariant `RetrierInv` records what `NextBackOff` checked: an attempt
  starts within the budget (`BudgetRespected`; the attempt itself may end
  after it), a scheduled wait ends within it (`WaitWithinBudget`), and
  `Running` (while the loop runs, the context has not
  expired, nothing has been returned and the last code is retryable). The
  refinement is proved step by step: `InitRefines`, then `AttemptRefines`,
  `SleepRefines` and `CancelRefines` map each step of the executor to a step
  of `RetryCall` or a stutter under the mapping; `PermanentMatches` relates
  the adapter's permanent-code test to the contract's.
- **`LifecycleProofs`**: over `Deployment`, `DeploymentInvHolds`,
  `WorkerTypeCorrect`, `WarmupGateHolds`, `ExitAfterDrainHolds` and
  `WorkerExitAfterDrainHolds`, and the action property `ShutdownOrderHolds`
  (`DeploymentSpec => ShutdownOrder`). `GateInv` strengthens `WarmupGate`: a
  ticking goroutine or a run exists only once `New` has returned. `DrainInv`
  (and `WorkerDrainInv`) strengthen the exit properties with the order of
  the shutdown stages: draining implies shutting down, closing implies not
  listening, and `ongoingCtx` is cancelled exactly from the exiting stage
  on; without the intermediate stages the exit step could not be shown to
  follow a drain. `ServiceOrderStep` then shows, action by action, that
  only a failing run and the return of `server.Shutdown` (at the closing
  stage, where `DrainInv` gives readiness 503 and the listener closed)
  cancel `ongoingCtx`.

Only TLC checks:

- every liveness property (`ReleasedEventually`, `EventuallyCommitted`,
  `EveryTaskRuns`, the two `SignalLeadsToExit`): the prover handles neither
  fairness nor `ENABLED`;
- the violated properties of the `violation` runs, which are findings, not
  theorems.

Every safety property that a passing run checks is also proved.

## 4. Not modelled, and why

- **The order processing poller** (`handlers/tasks/order_processing`). It is
  not wired into either binary and its service method does not exist.
- **Plumbing.** REST handlers for GET, the delivery endpoints' status
  mapping, configuration loading, wiring, logging, metrics and the request
  timeout middleware map requests to calls and errors to status codes, with
  no state of their own.
- **Statement-level interleaving of engine transactions.** Serializable
  isolation makes each transaction atomic; what a weaker isolation level
  would allow is not modelled.
- **Order-id validation (`isValidOrderID`).** It fails before any
  transaction and changes nothing; the model's order ids are the valid ones.
- **Two clocks.** Deadlines come from the application clock and expiry from
  the database clock; the model has one clock. Skew is a listed hazard.
- **Exit codes.** `main` returns normally when `run` fails, so a failed start
  exits with status 0; the lifecycle models record only that `run` returned
  an error.
- **Library code** (cenkalti/backoff's interval arithmetic, sarama's group
  protocol, net/http's `Shutdown`) is modelled by its documented behaviour
  where the repository's code depends on it.
- **Unbounded growth of the delivery table.** Outside a finite model.
