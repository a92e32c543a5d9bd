-------------------------- MODULE MCOrderDispatch --------------------------
(***************************************************************************)
(* Small instances of OrderDispatch for TLC: one courier by car, one or   *)
(* two orders whose lifecycles (created, then one more status) fill a log  *)
(* of two or three events, and one worker crash.                           *)
(***************************************************************************)
EXTENDS OrderDispatch, TLC

CONSTANTS o1, o2

MCCouriers == {1, 2}
MCOrders == {o1, o2}
MCTickMinutes == 5
MCMaxEvents == 4
MCMaxCrashes == 1

\* One courier by car, the clock up to 10 minutes, three events: the
\* consumer's questions do not depend on the choice of courier.
MCOneCourier == {1}
MCOneTransport == 1 :> "car"
MCMaxClock == 10
MCFewEvents == 3

\* One order and its two events, for the liveness question.
MCOneOrder == {o1}
MCTwoEvents == 2
=============================================================================
