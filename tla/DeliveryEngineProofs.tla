------------------------ MODULE DeliveryEngineProofs ------------------------
(***************************************************************************)
(* Proofs about DeliveryEngine, for every set of couriers and orders,     *)
(* every transport table and every clock bound.                           *)
(*                                                                         *)
(* BusyHasDelivery alone is not inductive: an unassignment deletes every  *)
(* row of its order and releases the courier of one of them, so if two    *)
(* couriers held rows of the same order the other one would lose its row *)
(* while staying busy.  The UNIQUE constraint on order_id (OrderUnique)   *)
(* rules that out, and IInv = TypeOK /\ OrderUnique /\ BusyHasDelivery is *)
(* inductive.                                                              *)
(***************************************************************************)
EXTENDS DeliveryEngine, TLAPS

\* The deadline CalculateDeadline computes is a clock value.
LEMMA DeadlineType ==
    ASSUME TypeOK, NEW c \in Couriers
    PROVE  Deadline(c) \in Nat
BY DEF TypeOK, Deadline, DeliveryOffset

LEMMA InitIInv == Init => IInv
BY DEF Init, IInv, TypeOK, OrderUnique, BusyHasDelivery, Results, CourierStatuses

\* An assignment adds one row for an order that had none, for the courier it
\* marks busy.
LEMMA AssignIInv ==
    ASSUME IInv, NEW o \in Orders, DeliveryAssign(o)
    PROVE  IInv'
<1> USE DEF IInv
<1>1. CASE /\ AvailableCouriers = {}
           /\ Fail("ErrNoAvailableCouriers")
  BY <1>1 DEF Fail, TypeOK, Results, OrderUnique, BusyHasDelivery
<1>2. CASE \E c \in AvailableCouriers :
             /\ IsLeastLoaded(c)
             /\ RowsOf(o) # {}
             /\ Fail("ErrOrderAlreadyAssigned")
  BY <1>2 DEF Fail, TypeOK, Results, OrderUnique, BusyHasDelivery
<1>3. CASE \E c \in AvailableCouriers :
             /\ IsLeastLoaded(c)
             /\ CreateDelivery(o, c)
             /\ status' = [status EXCEPT ![c] = "busy"]
             /\ result' = "ok"
             /\ UNCHANGED now
  <2>1. PICK c \in AvailableCouriers :
             /\ CreateDelivery(o, c)
             /\ status' = [status EXCEPT ![c] = "busy"]
             /\ result' = "ok"
             /\ UNCHANGED now
    BY <1>3
  <2>. DEFINE new == [order |-> o, courier |-> c, deadline |-> Deadline(c)]
  <2>2. c \in Couriers
    BY DEF AvailableCouriers
  <2>3. deliveries' = deliveries \cup {new} /\ RowsOf(o) = {}
    BY <2>1 DEF CreateDelivery
  <2>4. new \in Row
    BY <2>2, DeadlineType DEF Row
  <2>5. TypeOK'
    BY <2>1, <2>2, <2>3, <2>4 DEF TypeOK, Results, CourierStatuses
  <2>6. OrderUnique'
    BY <2>3 DEF OrderUnique, RowsOf
  <2>7. BusyHasDelivery'
    <3> SUFFICES ASSUME NEW d \in Couriers, status'[d] = "busy"
                 PROVE  \E s \in deliveries' : s.courier = d
      BY DEF BusyHasDelivery
    <3>1. CASE d = c
      <4>1. new \in deliveries' /\ new.courier = d
        BY <3>1, <2>3
      <4>. QED
        BY <4>1
    <3>2. CASE d # c
      <4>1. status[d] = "busy"
        BY <3>2, <2>1 DEF TypeOK
      <4>. QED
        BY <4>1, <2>3 DEF BusyHasDelivery
    <3>. QED
      BY <3>1, <3>2
  <2>. QED
    BY <2>5, <2>6, <2>7
<1>. QED
  BY <1>1, <1>2, <1>3 DEF DeliveryAssign

\* An unassignment deletes the one row of its order and releases that row's
\* courier; every other busy courier keeps its rows.
LEMMA UnassignIInv ==
    ASSUME IInv, NEW o \in Orders, DeliveryUnassign(o)
    PROVE  IInv'
<1> USE DEF IInv
<1>1. CASE RowsOf(o) = {} /\ Fail("ErrDeliveryNotFound")
  BY <1>1 DEF Fail, TypeOK, Results, OrderUnique, BusyHasDelivery
<1>2. CASE \E r \in RowsOf(o) :
             /\ OtherActiveCount(o, r.courier) > 0
             /\ Fail("ErrCourierHasActiveDeliveries")
  BY <1>2 DEF Fail, TypeOK, Results, OrderUnique, BusyHasDelivery
<1>3. CASE \E r \in RowsOf(o) :
             /\ OtherActiveCount(o, r.courier) = 0
             /\ deliveries' = deliveries \ RowsOf(o)
             /\ status' = [status EXCEPT ![r.courier] = "available"]
             /\ result' = "ok"
             /\ UNCHANGED now
  <2>1. PICK r \in RowsOf(o) :
             /\ deliveries' = deliveries \ RowsOf(o)
             /\ status' = [status EXCEPT ![r.courier] = "available"]
             /\ result' = "ok"
             /\ UNCHANGED now
    BY <1>3
  <2>2. r \in deliveries /\ r.order = o /\ r.courier \in Couriers
    BY DEF RowsOf, TypeOK, Row
  <2>3. TypeOK'
    BY <2>1, <2>2 DEF TypeOK, Results, CourierStatuses
  <2>4. OrderUnique'
    BY <2>1 DEF OrderUnique
  <2>5. BusyHasDelivery'
    <3> SUFFICES ASSUME NEW c \in Couriers, status'[c] = "busy"
                 PROVE  \E s \in deliveries' : s.courier = c
      BY DEF BusyHasDelivery
    <3>1. c # r.courier /\ status[c] = "busy"
      BY <2>1, <2>2 DEF TypeOK
    <3>2. PICK s \in deliveries : s.courier = c
      BY <3>1 DEF BusyHasDelivery
    <3>3. s.order # o
      BY <2>2, <3>1, <3>2 DEF OrderUnique
    <3>. QED
      BY <2>1, <3>2, <3>3 DEF RowsOf
  <2>. QED
    BY <2>3, <2>4, <2>5
<1>. QED
  BY <1>1, <1>2, <1>3 DEF DeliveryUnassign

LEMMA FreeIInv ==
    ASSUME IInv, NEW o \in Orders, FreeCourierByOrderID(o)
    PROVE  IInv'
<1> USE DEF IInv
<1>1. CASE RowsOf(o) = {} /\ Fail("ErrDeliveryNotFound")
  BY <1>1 DEF Fail, TypeOK, Results, OrderUnique, BusyHasDelivery
<1>2. CASE \E r \in RowsOf(o) :
             /\ status' = [status EXCEPT ![r.courier] = "available"]
             /\ result' = "ok"
             /\ UNCHANGED <<deliveries, now>>
  <2>1. PICK r \in RowsOf(o) :
             /\ status' = [status EXCEPT ![r.courier] = "available"]
             /\ result' = "ok"
             /\ UNCHANGED <<deliveries, now>>
    BY <1>2
  <2>2. r.courier \in Couriers
    BY DEF RowsOf, TypeOK, Row
  <2>. QED
    BY <2>1, <2>2 DEF TypeOK, Results, CourierStatuses, OrderUnique, BusyHasDelivery
<1>. QED
  BY <1>1, <1>2 DEF FreeCourierByOrderID

LEMMA CleanupIInv ==
    ASSUME IInv, CleanupExpiredDeliveries
    PROVE  IInv'
BY DEF IInv, CleanupExpiredDeliveries, TypeOK, Results, CourierStatuses,
       OrderUnique, BusyHasDelivery

LEMMA TickIInv ==
    ASSUME IInv, Tick
    PROVE  IInv'
BY TickAssumption DEF IInv, Tick, TypeOK, OrderUnique, BusyHasDelivery

LEMMA NextIInv == IInv /\ [Next]_vars => IInv'
<1> SUFFICES ASSUME IInv, [Next]_vars PROVE IInv'
  OBVIOUS
<1>1. CASE \E o \in Orders : DeliveryAssign(o)
  BY <1>1, AssignIInv
<1>2. CASE \E o \in Orders : DeliveryUnassign(o)
  BY <1>2, UnassignIInv
<1>3. CASE \E o \in Orders : FreeCourierByOrderID(o)
  BY <1>3, FreeIInv
<1>4. CASE CleanupExpiredDeliveries
  BY <1>4, CleanupIInv
<1>5. CASE Tick
  BY <1>5, TickIInv
<1>6. CASE UNCHANGED vars
  BY <1>6 DEF vars, IInv, TypeOK, OrderUnique, BusyHasDelivery
<1>. QED
  BY <1>1, <1>2, <1>3, <1>4, <1>5, <1>6 DEF Next

\* The delivery engine keeps the inductive invariant in every behaviour.
THEOREM IInvHolds == Spec => []IInv
BY InitIInv, NextIInv, PTL DEF Spec

\* Type correctness: every state of the engine is well typed.
THEOREM TypeCorrect == Spec => []TypeOK
BY IInvHolds, PTL DEF IInv

\* No transaction of the engine leaves a courier busy without a delivery
\* row, the row through which the reaper would release it.
THEOREM BusyHasDeliveryHolds == Spec => []BusyHasDelivery
BY IInvHolds, PTL DEF IInv
=============================================================================
