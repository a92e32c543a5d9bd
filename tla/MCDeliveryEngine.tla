-------------------------- MODULE MCDeliveryEngine --------------------------
(***************************************************************************)
(* A small instance of DeliveryEngine for TLC: two couriers, one by car   *)
(* and one on foot, so deadlines of 5 and 15 minutes interleave, three    *)
(* orders, and a clock moved in steps of 5 minutes up to 30.               *)
(***************************************************************************)
EXTENDS DeliveryEngine, TLC

CONSTANTS o1, o2, o3

MCCouriers == {1, 2}
MCOrders == {o1, o2, o3}
MCTransport == (1 :> "car") @@ (2 :> "on_foot")
MCTickMinutes == 5
MCMaxClock == 30

\* Order ids are interchangeable model values.
MCSymmetry == Permutations(MCOrders)
=============================================================================
