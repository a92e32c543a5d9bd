---------------------------- MODULE MCTokenBucket ----------------------------
(***************************************************************************)
(* A bucket of capacity 2 refilled at 1 token per second, on a clock of    *)
(* quarter seconds running for 4 seconds: bursts, partial seconds lost to *)
(* truncation, and refills clamped at capacity all happen.                 *)
(***************************************************************************)
EXTENDS TokenBucket, TLC

MCCapacity == 2
MCRate == 1
MCTicksPerSecond == 4
MCMaxTime == 16
=============================================================================
