----------------------------- MODULE TokenBucket -----------------------------
(***************************************************************************)
(* The admission control of the HTTP service: pkg/token_bucket's           *)
(* TokenBucket behind the rate-limiter middleware.  Allow runs under the   *)
(* bucket's mutex, so concurrent requests are a sequence of atomic Allow   *)
(* steps; the clock moves between them.  Time is in ticks of               *)
(* 1/TicksPerSecond second, the monotonic clock time.Now().Sub reads.      *)
(***************************************************************************)
EXTENDS Naturals

CONSTANTS
    Capacity,        \* the capacity argument (MIDDLEWARE_RATE_LIMIT_QPS)
    Rate,            \* refillRate, tokens per second (MIDDLEWARE_RATE_LIMIT_BURST)
    TicksPerSecond,  \* resolution of the model's clock
    MaxTime          \* bound on the clock, in ticks

ASSUME BucketAssumption ==
    /\ Capacity \in Nat
    /\ Rate \in Nat
    /\ TicksPerSecond \in Nat \ {0}
    /\ MaxTime \in Nat

VARIABLES
    tokens,          \* TokenBucket.tokens
    lastRefill,      \* TokenBucket.lastRefill
    now,             \* time.Now()
    admitted,        \* requests the middleware passed on so far
    response         \* the status code of the last request

bucketVars == <<tokens, lastRefill, now, admitted, response>>

BucketTypeOK ==
    /\ tokens \in 0..Capacity
    /\ lastRefill \in Nat
    /\ now \in Nat
    /\ admitted \in Nat
    /\ response \in {"none", "200", "429"}

\* int(elapsed * refillRate): the whole tokens earned since lastRefill.
TokensToAdd == ((now - lastRefill) * Rate) \div TicksPerSecond

\* refill changes the bucket only when time passed and a whole token was
\* earned.
RefillDue == now - lastRefill > 0 /\ TokensToAdd > 0

\* Bug variant: refill without the clamp to capacity.
RefilledTokensUnclamped ==
    IF RefillDue THEN tokens + TokensToAdd ELSE tokens

\* The tokens after refill: the earned ones added, clamped to capacity.
RefilledTokens ==
    IF RefillDue
    THEN IF tokens + TokensToAdd > Capacity THEN Capacity ELSE tokens + TokensToAdd
    ELSE tokens

\* Bug variant: refill that never moves lastRefill.
RefilledStampKept == lastRefill

\* lastRefill after refill: stamped with now whenever tokens were added.
RefilledStamp == IF RefillDue THEN now ELSE lastRefill

BucketInit ==
    /\ tokens = Capacity
    /\ lastRefill = 0
    /\ now = 0
    /\ admitted = 0
    /\ response = "none"

\* A request reaches the middleware: Allow refills, then takes a token if
\* there is one; the middleware answers 429 when Allow says no and passes
\* the request on otherwise.
Request ==
    /\ lastRefill' = RefilledStamp
    /\ \/ /\ RefilledTokens > 0
          /\ tokens' = RefilledTokens - 1
          /\ admitted' = admitted + 1
          /\ response' = "200"
       \/ /\ RefilledTokens <= 0
          /\ tokens' = RefilledTokens
          /\ response' = "429"
          /\ UNCHANGED admitted
    /\ UNCHANGED now

\* The monotonic clock advances one tick.
Tick ==
    /\ now < MaxTime
    /\ now' = now + 1
    /\ UNCHANGED <<tokens, lastRefill, admitted, response>>

BucketNext == Request \/ Tick

BucketSpec == BucketInit /\ [][BucketNext]_bucketVars

-----------------------------------------------------------------------------
(***************************************************************************)
(* Properties                                                              *)
(***************************************************************************)

\* The rate limit holds over the whole run: the middleware has passed on at
\* most Capacity requests plus one per 1/Rate second elapsed, however the
\* requests and the refills interleave.
AdmissionBound ==
    admitted <= Capacity + (now * Rate) \div TicksPerSecond

\* The inductive form: the tokens in the bucket plus those spent never
\* exceed the capacity plus what was earned up to the last refill.
BucketInv ==
    /\ BucketTypeOK
    /\ lastRefill <= now
    /\ tokens + admitted <= Capacity + (lastRefill * Rate) \div TicksPerSecond

=============================================================================
