------------------------------- MODULE Retrier -------------------------------
(***************************************************************************)
(* One call of backoff_adapter.Retrier.ExecuteWithContext (pkg/retrier):   *)
(* backoff.Retry of cenkalti/backoff v4 over an ExponentialBackOff wrapped *)
(* in the call's context, with the operation's errors classified by the   *)
(* configured ShouldRetry.  The two users of the retrier are the order     *)
(* gateway (gateway/grpc/order: ShouldRetry = isRetryableCode) and the     *)
(* Kafka start-up check (pkg/kafka: ShouldRetry = nil, retry everything).  *)
(*                                                                         *)
(* Time is in units of the model (50 ms for the gateway instance), counted *)
(* from the Reset at the start of Retry, which is also when the context's *)
(* processing timeout starts to run.  The operation is one gRPC call: it   *)
(* takes some time and returns a status code.                              *)
(***************************************************************************)
EXTENDS Naturals

CONSTANTS
    InitialInterval,   \* Config.InitialInterval
    MaxInterval,       \* Config.MaxInterval
    MaxElapsedTime,    \* Config.MaxElapsedTime
    RandomizationPct,  \* Config.Randomization, in percent
    Multiplier,        \* Config.Multiplier
    RetryAll,          \* Config.ShouldRetry = nil
    CallTimes,         \* how long one call of the operation may take
    CtxTimeout,        \* the deadline of the caller's context
    LiveCodes          \* the codes the remote side may answer with

ASSUME IntervalAssumption ==
    /\ InitialInterval \in Nat \ {0}
    /\ MaxInterval \in Nat /\ InitialInterval <= MaxInterval
    /\ MaxElapsedTime \in Nat
    /\ RandomizationPct \in 0..100
    /\ Multiplier \in Nat \ {0}
ASSUME CallAssumption ==
    /\ RetryAll \in BOOLEAN
    /\ CallTimes \subseteq Nat \ {0} /\ CallTimes # {}
    /\ CtxTimeout \in Nat \ {0}

VARIABLES
    phase,      \* "call", "wait" or "done"
    elapsed,    \* time since Retry started
    cur,        \* ExponentialBackOff.currentInterval
    waitFor,    \* the interval NextBackOff returned, while waiting
    attempts,   \* the attempt counter of executeWithMetrics / pingKafka
    lastCode,   \* the code of the last attempt
    cancelled,  \* the parent context was cancelled
    ret         \* what ExecuteWithContext returned

retrierVars == <<phase, elapsed, cur, waitFor, attempts, lastCode, cancelled, ret>>

\* The gRPC status codes the model tells apart.
Codes == {"OK", "Unavailable", "ResourceExhausted", "DeadlineExceeded",
          "NotFound", "InvalidArgument", "Canceled"}

\* What the caller receives: "none" while running, "ok", "ctx" for
\* ctx.Err() (context.Canceled or context.DeadlineExceeded, which
\* errors.Is recognises), or the status error of the last attempt.
Returns == {"none", "ok", "ctx"} \cup (Codes \ {"OK"})

RetrierTypeOK ==
    /\ phase \in {"call", "wait", "done"}
    /\ elapsed \in Nat
    /\ cur \in InitialInterval..MaxInterval
    /\ waitFor \in Nat
    /\ attempts \in Nat
    /\ lastCode \in Codes \cup {"none"}
    /\ cancelled \in BOOLEAN
    /\ ret \in Returns

-----------------------------------------------------------------------------

\* isRetryableCode: the codes the gateway retries.
IsRetryableCode(code) == code \in {"ResourceExhausted", "Unavailable", "DeadlineExceeded"}

\* The operation wrapper of ExecuteWithContext: an error ShouldRetry
\* rejects becomes backoff.Permanent.
IsPermanent(code) == code # "OK" /\ ~RetryAll /\ ~IsRetryableCode(code)

\* getRandomValueFromInterval: a value within RandomizationPct of cur.
RandomInterval(c) ==
    LET delta == (c * RandomizationPct) \div 100
    IN  (c - delta)..(c + delta)

\* incrementCurrentInterval: multiply, capped at MaxInterval.
IncrementInterval(c) ==
    IF c * Multiplier >= MaxInterval THEN MaxInterval ELSE c * Multiplier

\* The context is done: cancelled by its parent, or past its deadline.
CtxDone(t) == cancelled \/ t >= CtxTimeout

\* Bug variant: the backoff used before Reset sets its current interval.
RetrierInitNoReset ==
    /\ phase = "call"
    /\ elapsed = 0
    /\ cur = 0
    /\ waitFor = 0
    /\ attempts = 0
    /\ lastCode = "none"
    /\ cancelled = FALSE
    /\ ret = "none"

\* NewExponentialBackOff with the Config's options, and the Reset that
\* Retry performs before the first attempt.
RetrierInit ==
    /\ phase = "call"
    /\ elapsed = 0
    /\ cur = InitialInterval
    /\ waitFor = 0
    /\ attempts = 0
    /\ lastCode = "none"
    /\ cancelled = FALSE
    /\ ret = "none"

\* When a gRPC call of d time units started at elapsed returns: at once if
\* the context is already cancelled, at the deadline if that comes first.
CallEnd(d) ==
    IF cancelled THEN elapsed ELSE IF elapsed + d >= CtxTimeout THEN CtxTimeout ELSE elapsed + d

\* The codes such a call may return: Canceled for a cancelled context,
\* DeadlineExceeded when the deadline passes during the call, else the
\* remote side's answer.
CallCodes(d) ==
    IF cancelled THEN {"Canceled"}
    ELSE IF elapsed + d >= CtxTimeout THEN {"DeadlineExceeded"} ELSE LiveCodes

Finish(r) ==
    /\ phase' = "done"
    /\ ret' = r
    /\ UNCHANGED <<cur, waitFor>>

\* Bug variant: Retry returning the operation's error on Stop without
\* looking at the context.
NextBackOffNoCtx(t, code) ==
    \E next \in RandomInterval(cur) :
        \/ /\ (MaxElapsedTime # 0 /\ t + next > MaxElapsedTime) \/ CtxDone(t)
           /\ Finish(code)
        \/ /\ MaxElapsedTime = 0 \/ t + next <= MaxElapsedTime
           /\ ~CtxDone(t)
           /\ phase' = "wait"
           /\ waitFor' = next
           /\ cur' = IncrementInterval(cur)
           /\ ret' = "none"

\* backOffContext.NextBackOff then ExponentialBackOff.NextBackOff, and what
\* Retry does with the answer: Stop returns ctx.Err() if the context is
\* done and the operation's error otherwise; any other value is slept.
NextBackOff(t, code) ==
    \/ /\ CtxDone(t)
       /\ Finish("ctx")
    \/ /\ ~CtxDone(t)
       /\ \E next \in RandomInterval(cur) :
             \/ /\ MaxElapsedTime # 0 /\ t + next > MaxElapsedTime
                /\ Finish(code)
             \/ /\ MaxElapsedTime = 0 \/ t + next <= MaxElapsedTime
                /\ phase' = "wait"
                /\ waitFor' = next
                /\ cur' = IncrementInterval(cur)
                /\ ret' = "none"

\* One iteration of Retry's loop: run the operation, then return on
\* success or on a permanent error, else ask for the next interval.
Attempt ==
    /\ phase = "call"
    /\ \E d \in CallTimes, code \in Codes :
          /\ code \in CallCodes(d)
          /\ elapsed' = CallEnd(d)
          /\ lastCode' = code
          /\ attempts' = attempts + 1
          /\ \/ code = "OK" /\ Finish("ok")
             \/ IsPermanent(code) /\ Finish(code)
             \/ code # "OK" /\ ~IsPermanent(code) /\ NextBackOff(CallEnd(d), code)
    /\ UNCHANGED cancelled

\* The select between the timer and ctx.Done() while sleeping.
Sleep ==
    /\ phase = "wait"
    /\ \/ /\ ~cancelled /\ elapsed + waitFor < CtxTimeout
          /\ elapsed' = elapsed + waitFor
          /\ phase' = "call"
          /\ UNCHANGED ret
       \/ /\ CtxDone(elapsed + waitFor)
          /\ elapsed' = IF cancelled THEN elapsed ELSE CtxTimeout
          /\ phase' = "done"
          /\ ret' = "ctx"
    /\ UNCHANGED <<cur, waitFor, attempts, lastCode, cancelled>>

\* The caller's parent context is cancelled (a rebalance or a shutdown).
Cancel ==
    /\ phase # "done"
    /\ ~cancelled
    /\ cancelled' = TRUE
    /\ UNCHANGED <<phase, elapsed, cur, waitFor, attempts, lastCode, ret>>

RetrierNext == Attempt \/ Sleep \/ Cancel

\* The retry loop runs on its own goroutine until it returns.
RetrierSpec ==
    RetrierInit /\ [][RetrierNext]_retrierVars
    /\ WF_retrierVars(Attempt) /\ WF_retrierVars(Sleep)

-----------------------------------------------------------------------------
(***************************************************************************)
(* Properties                                                              *)
(***************************************************************************)

\* The refinement mapping: the phases of the loop and the clock are hidden;
\* the context counts as done once cancelled or past its deadline.
Call == INSTANCE RetryCall WITH
    Retryable <- {"ResourceExhausted", "Unavailable", "DeadlineExceeded"},
    callPhase <- IF phase = "done" THEN "done" ELSE "running",
    tries <- attempts,
    code <- lastCode,
    ctxDone <- CtxDone(elapsed),
    answer <- ret

\* ExecuteWithContext keeps the contract of spec section 4.5 as RetryCall
\* states it: it returns on success and on a permanent error at once, and
\* after a retryable error tries again, returns the context's error when
\* the context is done, or returns that error when the budget is spent.
RetryContract == Call!CallSpec

\* Spec section 4.5: a cancelled execution context stops retrying and
\* surfaces the cancellation as the final error.
CancelSurfacesCtx ==
    (phase = "done" /\ cancelled) => ret = "ctx"

=============================================================================
