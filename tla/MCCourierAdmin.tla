--------------------------- MODULE MCCourierAdmin ---------------------------
(***************************************************************************)
(* A small instance of CourierAdmin for TLC: two courier ids, one order,   *)
(* two phone numbers (so a second courier can collide with the first),    *)
(* and a clock moved in steps of 5 minutes up to 10.                       *)
(***************************************************************************)
EXTENDS CourierAdmin, TLC

CONSTANTS o1, p1, p2

MCCouriers == {1, 2}
MCOrders == {o1}
MCPhones == {p1, p2}
MCTickMinutes == 5
MCMaxClock == 10
=============================================================================
