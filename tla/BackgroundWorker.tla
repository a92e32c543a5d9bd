--------------------------- MODULE BackgroundWorker ---------------------------
(***************************************************************************)
(* The periodic task scheduler of pkg/background, running the tasks of     *)
(* the HTTP service (wire.go: the delivery-cleanup task, whose Do runs     *)
(* CleanupExpiredDeliveries under a timeout equal to its interval).        *)
(*                                                                         *)
(* New runs every task's Do once, concurrently, in an errgroup whose       *)
(* context the first failure cancels, waits for all of them, and fails if *)
(* any failed or panicked; otherwise it starts one goroutine per task.     *)
(* A goroutine skips a task whose TTL is not positive and otherwise runs   *)
(* Do on a ticker, recovering panics, until the service context is done.  *)
(*                                                                         *)
(* TTLs are in ticks of the model; the configured interval of each task is *)
(* chosen at start from the values config.validateConfig accepts.          *)
(* The module has no specification of its own: ServiceLifecycle runs its  *)
(* actions inside the process, whose signal context is cancelled.          *)
(***************************************************************************)
EXTENDS Integers

CONSTANTS
    Tasks,          \* the tasks handed to New
    Durations,      \* the intervals the environment may configure
    MaxRuns         \* bound on the periodic runs of one task

ASSUME WorkerAssumption ==
    /\ Tasks # {}
    /\ Durations \subseteq Int
    /\ MaxRuns \in Nat \ {0}

VARIABLES
    ttl,            \* ttl[t]: the task's TTL(), its configured interval
    warmup,         \* warmup[t]: "pending", "ok" or "failed"
    initCancelled,  \* the errgroup's context was cancelled by a failure
    phase,          \* "warmup", "running" (New returned a worker) or "failed"
    loop,           \* loop[t]: the state of the task's goroutine
    runs,           \* runs[t]: periodic executions of the task so far
    cancelled       \* the service context was cancelled (shutdown)

workerVars == <<ttl, warmup, initCancelled, phase, loop, runs, cancelled>>

\* How one call of Do ends.
DoResults == {"ok", "error", "panic"}

\* config.validateConfig: an interval must be set, i.e. non-zero; a
\* negative duration string such as "-1s" parses and is accepted.
ConfigAccepts(d) == d # 0

WorkerTypeOK ==
    /\ ttl \in [Tasks -> Durations]
    /\ warmup \in [Tasks -> {"pending", "ok", "failed"}]
    /\ initCancelled \in BOOLEAN
    /\ phase \in {"warmup", "running", "failed"}
    /\ loop \in [Tasks -> {"idle", "skipped", "ticking", "stopped", "dead"}]
    /\ runs \in [Tasks -> 0..MaxRuns]
    /\ cancelled \in BOOLEAN

-----------------------------------------------------------------------------

\* Bug variant: the cleanup bounded by a fixed timeout, not its interval.
DoOutcomesFixedTimeout(t, ctxDone) ==
    IF ctxDone THEN {"error", "panic"} ELSE DoResults

\* DeliveryCleanup.Do: CleanupExpiredDeliveries under
\* context.WithTimeout(ctx, interval).  A context that is already done,
\* or a non-positive interval, which makes a context that expires at once,
\* fails the query; a panic can come from any call.
DoOutcomes(t, ctxDone) ==
    IF ctxDone \/ ttl[t] <= 0 THEN {"error", "panic"} ELSE DoResults

WorkerInit ==
    /\ ttl \in [Tasks -> {d \in Durations : ConfigAccepts(d)}]
    /\ warmup = [t \in Tasks |-> "pending"]
    /\ initCancelled = FALSE
    /\ phase = "warmup"
    /\ loop = [t \in Tasks |-> "idle"]
    /\ runs = [t \in Tasks |-> 0]
    /\ cancelled = FALSE

\* Bug variant: the warm-up without its recover, a panic reaching Wait as
\* it is.
WarmupResultRaw(out) == out

\* The error a warm-up goroutine hands to the errgroup: a panic is
\* recovered into an error.
WarmupResult(out) == IF out = "ok" THEN "ok" ELSE "failed"

\* One goroutine of initGroup: Do(initCtx) with panics turned into errors;
\* the first error cancels initCtx.
WarmupDo(t) ==
    /\ phase = "warmup"
    /\ warmup[t] = "pending"
    /\ \E out \in DoOutcomes(t, initCancelled \/ cancelled) :
          /\ warmup' = [warmup EXCEPT ![t] = WarmupResult(out)]
          /\ initCancelled' = (initCancelled \/ out # "ok")
    /\ UNCHANGED <<ttl, phase, loop, runs, cancelled>>

\* Bug variant: New going on as soon as no warm-up has failed yet.
WarmupWaitEarly ==
    /\ phase = "warmup"
    /\ \E t \in Tasks : warmup[t] # "pending"
    /\ phase' = IF \E t \in Tasks : warmup[t] = "failed" THEN "failed" ELSE "running"
    /\ UNCHANGED <<ttl, warmup, initCancelled, loop, runs, cancelled>>

\* initGroup.Wait returns once every warm-up returned: New fails on any
\* error, else the worker is made and its goroutines are started.
WarmupWait ==
    /\ phase = "warmup"
    /\ \A t \in Tasks : warmup[t] # "pending"
    /\ phase' = IF \E t \in Tasks : warmup[t] = "failed" THEN "failed" ELSE "running"
    /\ UNCHANGED <<ttl, warmup, initCancelled, loop, runs, cancelled>>

\* runBackgroundTask starts: a TTL that is not positive skips the task.
StartTask(t) ==
    /\ phase = "running"
    /\ loop[t] = "idle"
    /\ loop' = [loop EXCEPT ![t] = IF ttl[t] <= 0 THEN "skipped" ELSE "ticking"]
    /\ UNCHANGED <<ttl, warmup, initCancelled, phase, runs, cancelled>>

\* Bug variant: executeTaskSafely without its recover: a panic ends the
\* goroutine (and, in Go, the process).
ExecuteTaskUnsafe(t, out) ==
    /\ runs' = [runs EXCEPT ![t] = runs[t] + 1]
    /\ loop' = IF out = "panic" THEN [loop EXCEPT ![t] = "dead"] ELSE loop

\* executeTaskSafely: Do's error is logged and a panic recovered; the loop
\* goes on either way.
ExecuteTaskSafely(t, out) ==
    /\ runs' = [runs EXCEPT ![t] = runs[t] + 1]
    /\ UNCHANGED loop

\* The ticker fires.  select picks at random among ready cases, so a tick
\* may still be taken after the context is done.
TickerFire(t) ==
    /\ loop[t] = "ticking"
    /\ runs[t] < MaxRuns
    /\ \E out \in DoOutcomes(t, cancelled) : ExecuteTaskSafely(t, out)
    /\ UNCHANGED <<ttl, warmup, initCancelled, phase, cancelled>>

\* The ctx.Done() case of the loop: the goroutine returns.
StopTask(t) ==
    /\ loop[t] = "ticking"
    /\ cancelled
    /\ loop' = [loop EXCEPT ![t] = "stopped"]
    /\ UNCHANGED <<ttl, warmup, initCancelled, phase, runs, cancelled>>

\* SIGTERM or SIGINT cancels the service context.
Cancel ==
    /\ ~cancelled
    /\ cancelled' = TRUE
    /\ UNCHANGED <<ttl, warmup, initCancelled, phase, loop, runs>>

-----------------------------------------------------------------------------
(***************************************************************************)
(* Properties                                                              *)
(***************************************************************************)

\* Spec section 4.7: no background execution starts unless the warm-up of
\* every task succeeded; a periodic run never precedes a pending or failed
\* warm-up of any task.
WarmupGate ==
    \A t \in Tasks : loop[t] # "idle" \/ runs[t] > 0 => \A u \in Tasks : warmup[u] = "ok"

\* Spec section 4.7: once the worker runs, every task runs on its ticker
\* until shutdown, whatever its runs return or throw and whatever interval
\* the configuration let through.
EveryTaskRuns ==
    \A t \in Tasks : phase = "running" ~> (runs[t] = MaxRuns \/ cancelled)

=============================================================================
