-------------------------- MODULE TokenBucketProofs --------------------------
(***************************************************************************)
(* Proofs about TokenBucket for every capacity, rate and clock resolution.  *)
(*                                                                         *)
(* AdmissionBound is not inductive: it says nothing of the tokens still in *)
(* the bucket.  BucketInv counts them: tokens plus admitted requests stay  *)
(* within the capacity plus the whole tokens earned up to lastRefill.  A   *)
(* refill earns floor(elapsed * rate) and moves lastRefill to now, and the *)
(* sum of the floors of two parts is at most the floor of the whole, so    *)
(* what truncation drops is never given back.                              *)
(***************************************************************************)
EXTENDS TokenBucket, TLAPS

\* Integer division is superadditive: truncating two parts loses at least
\* as much as truncating their sum.
LEMMA DivSuperadditive ==
    ASSUME NEW a \in Nat, NEW b \in Nat, NEW d \in Nat \ {0}
    PROVE  a \div d + b \div d <= (a + b) \div d
BY SMT

\* Splitting the time since the start at lastRefill.
LEMMA EarnedSplit ==
    ASSUME NEW l \in Nat, NEW n \in Nat, l <= n,
           NEW r \in Nat, NEW d \in Nat \ {0}
    PROVE  (l * r) \div d + ((n - l) * r) \div d <= (n * r) \div d
<1>1. l * r \in Nat /\ (n - l) * r \in Nat
  OBVIOUS
<1>2. l * r + (n - l) * r = n * r
  OBVIOUS
<1>. QED
  BY <1>1, <1>2, DivSuperadditive

\* The earned tokens are a natural number.
LEMMA EarnedType ==
    ASSUME BucketInv
    PROVE  TokensToAdd \in Nat
BY BucketAssumption DEF BucketInv, BucketTypeOK, TokensToAdd

LEMMA InitBucketInv == BucketInit => BucketInv
BY BucketAssumption DEF BucketInit, BucketInv, BucketTypeOK

\* What refill leaves in the bucket keeps the invariant's sum, with
\* lastRefill moved to RefilledStamp.
LEMMA RefillInv ==
    ASSUME BucketInv
    PROVE  /\ RefilledTokens \in 0..Capacity
           /\ RefilledStamp \in Nat /\ RefilledStamp <= now
           /\ RefilledTokens + admitted
                <= Capacity + (RefilledStamp * Rate) \div TicksPerSecond
<1> USE BucketAssumption DEF BucketInv, BucketTypeOK
<1>1. TokensToAdd \in Nat
  BY EarnedType
<1>2. CASE RefillDue
  <2>1. RefilledStamp = now
    BY <1>2 DEF RefilledStamp
  <2>2. RefilledTokens <= tokens + TokensToAdd /\ RefilledTokens \in 0..Capacity
    BY <1>1, <1>2 DEF RefilledTokens
  <2>3. (lastRefill * Rate) \div TicksPerSecond + TokensToAdd
          <= (now * Rate) \div TicksPerSecond
    BY EarnedSplit DEF TokensToAdd
  <2>4. (lastRefill * Rate) \div TicksPerSecond \in Nat
        /\ (now * Rate) \div TicksPerSecond \in Nat
    OBVIOUS
  <2>. QED
    BY <1>1, <2>1, <2>2, <2>3, <2>4
<1>3. CASE ~RefillDue
  BY <1>3 DEF RefilledTokens, RefilledStamp
<1>. QED
  BY <1>2, <1>3

LEMMA RequestInv ==
    ASSUME BucketInv, Request
    PROVE  BucketInv'
<1> USE BucketAssumption DEF BucketInv, BucketTypeOK
<1>1. /\ RefilledTokens \in 0..Capacity
      /\ RefilledStamp \in Nat /\ RefilledStamp <= now
      /\ RefilledTokens + admitted
           <= Capacity + (RefilledStamp * Rate) \div TicksPerSecond
  BY RefillInv
<1>2. (RefilledStamp * Rate) \div TicksPerSecond \in Nat
  BY <1>1
<1>. QED
  BY <1>1, <1>2 DEF Request

LEMMA TickInv ==
    ASSUME BucketInv, Tick
    PROVE  BucketInv'
BY BucketAssumption DEF BucketInv, BucketTypeOK, Tick

LEMMA NextBucketInv == BucketInv /\ [BucketNext]_bucketVars => BucketInv'
<1> SUFFICES ASSUME BucketInv, [BucketNext]_bucketVars PROVE BucketInv'
  OBVIOUS
<1>1. CASE Request
  BY <1>1, RequestInv
<1>2. CASE Tick
  BY <1>2, TickInv
<1>3. CASE UNCHANGED bucketVars
  BY <1>3 DEF bucketVars, BucketInv, BucketTypeOK
<1>. QED
  BY <1>1, <1>2, <1>3 DEF BucketNext

\* The bucket keeps its inductive invariant in every behaviour.
THEOREM BucketInvHolds == BucketSpec => []BucketInv
BY InitBucketInv, NextBucketInv, PTL DEF BucketSpec

\* The invariant bounds the admitted requests by the time elapsed.
LEMMA InvImpliesBound == BucketInv => AdmissionBound
<1> SUFFICES ASSUME BucketInv PROVE AdmissionBound
  OBVIOUS
<1>1. (lastRefill * Rate) \div TicksPerSecond <= (now * Rate) \div TicksPerSecond
  <2>1. ((now - lastRefill) * Rate) \div TicksPerSecond \in Nat
    BY BucketAssumption DEF BucketInv, BucketTypeOK
  <2>2. (lastRefill * Rate) \div TicksPerSecond + ((now - lastRefill) * Rate) \div TicksPerSecond
          <= (now * Rate) \div TicksPerSecond
    BY EarnedSplit, BucketAssumption DEF BucketInv, BucketTypeOK
  <2>3. (lastRefill * Rate) \div TicksPerSecond \in Nat
        /\ (now * Rate) \div TicksPerSecond \in Nat
    BY BucketAssumption DEF BucketInv, BucketTypeOK
  <2>. QED
    BY <2>1, <2>2, <2>3
<1>. QED
  BY <1>1, BucketAssumption DEF BucketInv, BucketTypeOK, AdmissionBound

\* The rate limiter admits at most Capacity requests plus one per 1/Rate
\* second since the bucket was made, whatever the timing of the requests.
THEOREM AdmissionBoundHolds == BucketSpec => []AdmissionBound
BY BucketInvHolds, InvImpliesBound, PTL

\* Allow keeps the bucket between empty and full however long the
\* limiter sat idle: refill clamps at capacity and a request takes a
\* token only when one is there.
THEOREM BucketTypeCorrect == BucketSpec => []BucketTypeOK
<1>1. BucketInv => BucketTypeOK
  BY DEF BucketInv
<1>. QED
  BY <1>1, BucketInvHolds, PTL
=============================================================================
