--------------------------- MODULE RetrierProofs ---------------------------
(***************************************************************************)
(* Proofs about Retrier, for every configuration of the backoff and every *)
(* set of call durations and codes: its type, and that                   *)
(* ExecuteWithContext implements the contract RetryCall.                  *)
(*                                                                         *)
(* The inductive invariant records what NextBackOff checked: an attempt   *)
(* starts within the budget (BudgetRespected), and a scheduled sleep ends *)
(* within it (WaitWithinBudget).  The refinement needs more: while the   *)
(* loop runs, the deadline has not passed, nothing was returned, and the *)
(* last code is one worth retrying; then an attempt is a Try of RetryCall,*)
(* a sleep cut short is an Interrupt, a cancellation is ContextDone, and  *)
(* a sleep that ends is a stutter.                                         *)
(***************************************************************************)
EXTENDS Retrier, TLAPS

\* An attempt starts only while the elapsed time is within the budget; the
\* attempt itself may end after it.
BudgetRespected ==
    phase = "call" /\ MaxElapsedTime # 0 => elapsed <= MaxElapsedTime

\* While the loop waits, the sleep ends within the budget NextBackOff
\* checked.
WaitWithinBudget ==
    phase = "wait" /\ MaxElapsedTime # 0 => elapsed + waitFor <= MaxElapsedTime

\* While the loop runs, the deadline is ahead, nothing was returned yet,
\* and the last attempt, if any, failed with a code worth retrying.
Running ==
    phase # "done" =>
        /\ elapsed < CtxTimeout
        /\ ret = "none"
        /\ lastCode = "none" \/ (lastCode # "OK" /\ ~IsPermanent(lastCode))
        /\ phase = "wait" => attempts > 0

RetrierInv == RetrierTypeOK /\ BudgetRespected /\ WaitWithinBudget /\ Running

-----------------------------------------------------------------------------
(***************************************************************************)
(* The backoff's arithmetic                                                *)
(***************************************************************************)

\* getRandomValueFromInterval never goes below zero: the randomization is
\* at most the whole interval.
LEMMA RandomIntervalNat ==
    ASSUME NEW c \in Nat
    PROVE  RandomInterval(c) \subseteq Nat
<1>1. (c * RandomizationPct) \div 100 \in 0..c
  BY IntervalAssumption
<1>. QED
  BY <1>1 DEF RandomInterval

\* incrementCurrentInterval keeps the interval between the initial and the
\* maximal one.
LEMMA IncrementIntervalRange ==
    ASSUME NEW c \in InitialInterval..MaxInterval
    PROVE  IncrementInterval(c) \in InitialInterval..MaxInterval
<1>1. c * Multiplier >= c
  BY IntervalAssumption
<1>. QED
  BY <1>1, IntervalAssumption DEF IncrementInterval

\* A call ends at a clock value no earlier than its start, the deadline at
\* the latest.
LEMMA CallEndRange ==
    ASSUME NEW d \in CallTimes, elapsed \in Nat, elapsed < CtxTimeout
    PROVE  /\ CallEnd(d) \in Nat
           /\ elapsed <= CallEnd(d) /\ CallEnd(d) <= CtxTimeout
BY CallAssumption DEF CallEnd

-----------------------------------------------------------------------------
(***************************************************************************)
(* The invariant                                                           *)
(***************************************************************************)

LEMMA RetrierInitInv == RetrierInit => RetrierInv
<1> SUFFICES ASSUME RetrierInit PROVE RetrierInv
  OBVIOUS
<1>1. RetrierTypeOK
  <2>1. cur \in InitialInterval..MaxInterval
    BY IntervalAssumption DEF RetrierInit
  <2>2. ret \in Returns /\ lastCode \in Codes \cup {"none"}
    BY DEF RetrierInit, Returns
  <2>3. phase \in {"call", "wait", "done"} /\ cancelled \in BOOLEAN
    BY DEF RetrierInit
  <2>. QED
    BY <2>1, <2>2, <2>3 DEF RetrierInit, RetrierTypeOK
<1>2. BudgetRespected /\ WaitWithinBudget
  BY IntervalAssumption DEF RetrierInit, BudgetRespected, WaitWithinBudget
<1>3. Running
  BY CallAssumption DEF RetrierInit, Running
<1>. QED
  BY <1>1, <1>2, <1>3 DEF RetrierInv

\* An attempt returns, or asks NextBackOff for an interval within the
\* budget and the deadline.
LEMMA AttemptInv ==
    ASSUME RetrierInv, Attempt
    PROVE  RetrierInv'
<1> USE DEF RetrierInv, RetrierTypeOK, Returns, Codes
<1>1. PICK d \in CallTimes, code \in Codes :
          /\ code \in CallCodes(d)
          /\ elapsed' = CallEnd(d)
          /\ lastCode' = code
          /\ attempts' = attempts + 1
          /\ \/ code = "OK" /\ Finish("ok")
             \/ IsPermanent(code) /\ Finish(code)
             \/ code # "OK" /\ ~IsPermanent(code) /\ NextBackOff(CallEnd(d), code)
  BY DEF Attempt
<1>2. /\ phase = "call" /\ UNCHANGED cancelled
      /\ elapsed < CtxTimeout
  BY DEF Attempt, Running
<1>3. /\ CallEnd(d) \in Nat
      /\ CallEnd(d) <= CtxTimeout
  BY <1>2, CallEndRange
<1>4. CASE code = "OK" /\ Finish("ok")
  BY <1>1, <1>2, <1>3, <1>4 DEF Finish, BudgetRespected, WaitWithinBudget, Running
<1>5. CASE IsPermanent(code) /\ Finish(code)
  BY <1>1, <1>2, <1>3, <1>5 DEF Finish, BudgetRespected, WaitWithinBudget, Running,
                          IsPermanent
<1>6. CASE code # "OK" /\ ~IsPermanent(code) /\ NextBackOff(CallEnd(d), code)
  <2> DEFINE t == CallEnd(d)
  <2>1. CASE CtxDone(t) /\ Finish("ctx")
    BY <1>1, <1>2, <1>3, <2>1 DEF Finish, BudgetRespected, WaitWithinBudget, Running
  <2>2. CASE ~CtxDone(t)
    <3>1. PICK next \in RandomInterval(cur) :
             \/ /\ MaxElapsedTime # 0 /\ t + next > MaxElapsedTime
                /\ Finish(code)
             \/ /\ MaxElapsedTime = 0 \/ t + next <= MaxElapsedTime
                /\ phase' = "wait"
                /\ waitFor' = next
                /\ cur' = IncrementInterval(cur)
                /\ ret' = "none"
      BY <1>6, <2>2 DEF NextBackOff
    <3>2. next \in Nat
      <4>1. cur \in Nat
        BY IntervalAssumption
      <4>. QED
        BY <4>1, RandomIntervalNat
    <3>3. t < CtxTimeout
      BY <2>2, <1>3, CallAssumption DEF CtxDone
    <3>4. CASE MaxElapsedTime # 0 /\ t + next > MaxElapsedTime /\ Finish(code)
      BY <1>1, <1>2, <1>3, <1>6, <3>4 DEF Finish, BudgetRespected, WaitWithinBudget, Running
    <3>5. CASE (MaxElapsedTime = 0 \/ t + next <= MaxElapsedTime)
               /\ phase' = "wait" /\ waitFor' = next
               /\ cur' = IncrementInterval(cur) /\ ret' = "none"
      <4>1. cur' \in InitialInterval..MaxInterval
        BY <3>5, IncrementIntervalRange
      <4>. QED
        BY <1>1, <1>2, <1>3, <3>2, <3>3, <3>5, <4>1, <1>6
           DEF BudgetRespected, WaitWithinBudget, Running
    <3>. QED
      BY <3>1, <3>4, <3>5
  <2>. QED
    BY <1>6, <2>1, <2>2 DEF NextBackOff
<1>. QED
  BY <1>1, <1>4, <1>5, <1>6

\* A sleep ends in the next attempt, within the budget and before the
\* deadline, or the context ends it.
LEMMA SleepInv ==
    ASSUME RetrierInv, Sleep
    PROVE  RetrierInv'
BY CallAssumption
   DEF Sleep, CtxDone, RetrierInv, RetrierTypeOK, Returns, BudgetRespected,
       WaitWithinBudget, Running

LEMMA CancelInv ==
    ASSUME RetrierInv, Cancel
    PROVE  RetrierInv'
BY DEF Cancel, RetrierInv, RetrierTypeOK, BudgetRespected, WaitWithinBudget, Running

LEMMA RetrierStep == RetrierInv /\ [RetrierNext]_retrierVars => RetrierInv'
BY AttemptInv, SleepInv, CancelInv
   DEF RetrierNext, retrierVars, RetrierInv, RetrierTypeOK, BudgetRespected,
       WaitWithinBudget, Running

\* ExecuteWithContext's state keeps its type: the interval stays within
\* its bounds and a sleep is never negative.
THEOREM RetrierTypeCorrect == RetrierSpec => []RetrierTypeOK
<1>1. RetrierInv => RetrierTypeOK
  BY DEF RetrierInv
<1>. QED
  BY <1>1, RetrierInitInv, RetrierStep, PTL DEF RetrierSpec

-----------------------------------------------------------------------------
(***************************************************************************)
(* The refinement of RetryCall                                             *)
(***************************************************************************)

LEMMA InitRefines == RetrierInit => Call!CallInit
BY CallAssumption DEF RetrierInit, Call!CallInit, CtxDone

\* The classifier of the model is the gateway's: an error is permanent for
\* the contract exactly when the wrapper makes it backoff.Permanent.
LEMMA PermanentMatches ==
    ASSUME NEW c
    PROVE  Call!Permanent(c) <=> IsPermanent(c)
BY DEF Call!Permanent, IsPermanent, IsRetryableCode

\* An attempt is one Try of the contract, with the code it returned.
LEMMA AttemptRefines ==
    ASSUME RetrierInv, Attempt
    PROVE  Call!CallNext
<1>1. PICK d \in CallTimes, code \in Codes :
          /\ code \in CallCodes(d)
          /\ elapsed' = CallEnd(d)
          /\ lastCode' = code
          /\ attempts' = attempts + 1
          /\ \/ code = "OK" /\ Finish("ok")
             \/ IsPermanent(code) /\ Finish(code)
             \/ code # "OK" /\ ~IsPermanent(code) /\ NextBackOff(CallEnd(d), code)
  BY DEF Attempt
<1>2. /\ phase = "call" /\ UNCHANGED cancelled
      /\ elapsed \in Nat /\ elapsed < CtxTimeout /\ ret = "none"
      /\ lastCode = "none" \/ (lastCode # "OK" /\ ~IsPermanent(lastCode))
  BY DEF Attempt, RetrierInv, RetrierTypeOK, Running
<1>3. elapsed <= CallEnd(d) /\ CallEnd(d) \in Nat
  BY <1>2, CallEndRange
<1>4. CtxDone(elapsed) => code = "Canceled"
  BY <1>1, <1>2, CallAssumption DEF CtxDone, CallCodes
<1>5. CtxDone(elapsed)' \in {CtxDone(elapsed), TRUE}
  <2>1. ~CtxDone(elapsed)' => ~CtxDone(elapsed)
    BY <1>1, <1>2, <1>3, CallAssumption DEF CtxDone
  <2>. QED
    BY <2>1, Zenon DEF CtxDone
<1>6. \/ code = "OK" /\ phase' = "done" /\ ret' = "ok"
      \/ IsPermanent(code) /\ phase' = "done" /\ ret' = code
      \/ /\ code # "OK" /\ ~IsPermanent(code)
         /\ \/ CtxDone(elapsed)' /\ phase' = "done" /\ ret' = "ctx"
            \/ ~CtxDone(elapsed)' /\ phase' = "done" /\ ret' = code
            \/ ~CtxDone(elapsed)' /\ phase' = "wait" /\ ret' = ret
  <2>1. CASE code = "OK" /\ Finish("ok")
    BY <2>1 DEF Finish
  <2>2. CASE IsPermanent(code) /\ Finish(code)
    BY <2>2 DEF Finish
  <2>3. CASE code # "OK" /\ ~IsPermanent(code) /\ NextBackOff(CallEnd(d), code)
    <3>1. CtxDone(elapsed)' = CtxDone(CallEnd(d))
      BY <1>1, <1>2 DEF CtxDone
    <3>. QED
      BY <2>3, <3>1, <1>2 DEF NextBackOff, Finish
  <2>. QED
    BY <1>1, <2>1, <2>2, <2>3
<1>7. Call!Try(code)
  BY <1>1, <1>2, <1>4, <1>5, <1>6, PermanentMatches
     DEF Call!Try, Call!TryDue
<1>. QED
  BY <1>7 DEF Call!CallNext

\* A sleep that ends is invisible to the caller; one the context cuts
\* short is an Interrupt.
LEMMA SleepRefines ==
    ASSUME RetrierInv, Sleep
    PROVE  [Call!CallNext]_Call!callVars
<1>1. /\ phase = "wait" /\ elapsed \in Nat /\ elapsed < CtxTimeout /\ ret = "none"
      /\ attempts > 0 /\ waitFor \in Nat
      /\ lastCode = "none" \/ (lastCode # "OK" /\ ~IsPermanent(lastCode))
  BY DEF Sleep, RetrierInv, RetrierTypeOK, Running
<1>2. CASE ~cancelled /\ elapsed + waitFor < CtxTimeout /\ phase' = "call"
           /\ elapsed' = elapsed + waitFor /\ UNCHANGED ret
  <2>1. UNCHANGED <<attempts, lastCode, cancelled>>
    BY DEF Sleep
  <2>2. ~CtxDone(elapsed) /\ ~CtxDone(elapsed)'
    BY <1>1, <1>2, <2>1, CallAssumption DEF CtxDone
  <2>3. CtxDone(elapsed)' = CtxDone(elapsed)
    BY <2>2, Zenon DEF CtxDone
  <2>. QED
    BY <1>1, <1>2, <2>1, <2>3 DEF Call!callVars
<1>3. CASE CtxDone(elapsed + waitFor) /\ phase' = "done" /\ ret' = "ctx"
           /\ elapsed' = IF cancelled THEN elapsed ELSE CtxTimeout
  <2>1. CtxDone(elapsed)'
    BY <1>1, <1>3, CallAssumption DEF Sleep, CtxDone
  <2>2. Call!Interrupt
    BY <1>1, <1>3, <2>1, PermanentMatches DEF Sleep, Call!Interrupt, Call!TryDue
  <2>. QED
    BY <2>2 DEF Call!CallNext
<1>. QED
  BY <1>2, <1>3 DEF Sleep

\* A cancellation while the loop runs is the contract's ContextDone.
LEMMA CancelRefines ==
    ASSUME RetrierInv, Cancel
    PROVE  Call!CallNext
<1>1. /\ phase # "done" /\ ~cancelled /\ cancelled'
      /\ UNCHANGED <<phase, elapsed, attempts, lastCode, ret>>
  BY DEF Cancel
<1>2. ~CtxDone(elapsed) /\ CtxDone(elapsed)'
  BY <1>1, CallAssumption DEF RetrierInv, RetrierTypeOK, Running, CtxDone
<1>3. Call!ContextDone
  BY <1>1, <1>2 DEF Call!ContextDone
<1>. QED
  BY <1>3 DEF Call!CallNext

\* ExecuteWithContext implements the retry contract of spec section 4.5
\* (RetryContract): every behaviour of the loop, with its clock, intervals
\* and phases hidden, is a behaviour of RetryCall.
THEOREM RetrierRefinesCall == RetrierSpec => RetryContract
<1>1. RetrierInv /\ [RetrierNext]_retrierVars => [Call!CallNext]_Call!callVars
  <2> SUFFICES ASSUME RetrierInv, [RetrierNext]_retrierVars
               PROVE  [Call!CallNext]_Call!callVars
    OBVIOUS
  <2>1. CASE Attempt
    BY <2>1, AttemptRefines
  <2>2. CASE Sleep
    BY <2>2, SleepRefines
  <2>3. CASE Cancel
    BY <2>3, CancelRefines
  <2>4. CASE UNCHANGED retrierVars
    BY <2>4 DEF retrierVars, Call!callVars, CtxDone
  <2>. QED
    BY <2>1, <2>2, <2>3, <2>4 DEF RetrierNext
<1>. QED
  BY <1>1, InitRefines, RetrierInitInv, RetrierStep, PTL
     DEF RetrierSpec, RetryContract, Call!CallSpec

=============================================================================
