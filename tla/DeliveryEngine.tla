--------------------------- MODULE DeliveryEngine ---------------------------
(***************************************************************************)
(* The delivery engine of the courier service: the courier table and the   *)
(* delivery table of PostgreSQL, and the four operations of               *)
(* internal/service/delivery/delivery.go that change them:                *)
(*                                                                         *)
(*   DeliveryAssign            bind the least loaded available courier   *)
(*   DeliveryUnassign          delete the row of a cancelled order        *)
(*   FreeCourierByOrderID      release the courier of a completed order   *)
(*   CleanupExpiredDeliveries  the periodic reaper                         *)
(*                                                                         *)
(* Each of the first three runs inside txManager.Do at isolation level   *)
(* Serializable (pkg/tx/tx.go), and the reaper is one UPDATE statement,   *)
(* so each is one atomic step here: a transaction that fails, on any of   *)
(* its error returns or on a serialization failure, is rolled back and    *)
(* leaves both tables as they were.  The variable result records the      *)
(* sentinel error (or "ok") the last call returned to its caller.         *)
(*                                                                         *)
(* Time is the database clock NOW(), in minutes; a delivery is active    *)
(* while deadline >= NOW().                                                *)
(***************************************************************************)
EXTENDS Naturals, FiniteSets

CONSTANTS
    Couriers,       \* courier ids (couriers.id, a BIGSERIAL)
    Orders,         \* order ids an event or a request may carry
    Transport,      \* Transport[c]: couriers.transport_type of courier c
    TickMinutes,    \* how far the clock moves in one Tick
    MaxClock        \* bound on the clock, in minutes

ASSUME CouriersAssumption == Couriers \subseteq Nat
ASSUME TickAssumption == TickMinutes \in Nat \ {0}
ASSUME MaxClockAssumption == MaxClock \in Nat

VARIABLES
    status,         \* couriers.status of each courier
    deliveries,     \* the rows of the delivery table
    now,            \* the database clock NOW()
    result          \* what the last engine call returned

vars == <<status, deliveries, now, result>>

CourierStatuses == {"available", "busy", "paused"}

\* A row of the delivery table; assigned_at and created_at are only logged.
Row == [order : Orders, courier : Couriers, deadline : Nat]

Results == {"none", "ok", "ErrNoAvailableCouriers", "ErrOrderAlreadyAssigned",
            "ErrDeliveryNotFound", "ErrCourierHasActiveDeliveries"}

TypeOK ==
    /\ status \in [Couriers -> CourierStatuses]
    /\ deliveries \subseteq Row
    /\ now \in Nat
    /\ result \in Results

-----------------------------------------------------------------------------
(***************************************************************************)
(* Queries of the repositories                                             *)
(***************************************************************************)

\* The rows WHERE order_id = o.
RowsOf(o) == {r \in deliveries : r.order = o}

\* CalculateDeadline's offset table, in minutes; unknown types fall through.
DeliveryOffset(t) ==
    CASE t = "on_foot" -> 15
      [] t = "scooter" -> 10
      [] t = "car"     -> 5
      [] OTHER         -> 15

\* Bug variant: the offset subtracted from the base time.
DeadlineSubtracted(c) == now - DeliveryOffset(Transport[c])

Deadline(c) == now + DeliveryOffset(Transport[c])

\* COUNT(d.id) FILTER (WHERE d.deadline >= NOW()) for courier c.
ActiveCount(c) == Cardinality({r \in deliveries : r.courier = c /\ r.deadline >= now})

AvailableCouriers == {c \in Couriers : status[c] = "available"}

\* GetCourierForAssignment: ORDER BY active count ASC, c.id ASC LIMIT 1.
IsLeastLoaded(c) ==
    \A d \in AvailableCouriers \ {c} :
        \/ ActiveCount(c) < ActiveCount(d)
        \/ ActiveCount(c) = ActiveCount(d) /\ c < d

\* GetCourierIDAndDeliveryCountByOrderIDForAssing: the active rows of the
\* courier c other than the one of order o.
OtherActiveCount(o, c) ==
    Cardinality({r \in deliveries : r.courier = c /\ r.order # o /\ r.deadline >= now})

\* Bug variant: the deadline comparison of the reaper reversed.
ReapTargetsReversed ==
    {c \in Couriers : status[c] = "busy"
                      /\ \E r \in deliveries : r.courier = c /\ r.deadline > now}

\* UpdateCouriersAvailableWhereDeadlineExpired: busy couriers with at least
\* one row whose deadline has passed.
ReapTargets ==
    {c \in Couriers : status[c] = "busy"
                      /\ \E r \in deliveries : r.courier = c /\ r.deadline < now}

-----------------------------------------------------------------------------
(***************************************************************************)
(* Operations                                                              *)
(***************************************************************************)

Init ==
    /\ status \in [Couriers -> {"available", "paused"}]
    /\ deliveries = {}
    /\ now = 0
    /\ result = "none"

Fail(err) ==
    /\ result' = err
    /\ UNCHANGED <<status, deliveries, now>>

\* Create: the INSERT, refused by the UNIQUE constraint on order_id.
CreateDelivery(o, c) ==
    /\ RowsOf(o) = {}
    /\ Deadline(c) < MaxClock
    /\ deliveries' = deliveries \cup {[order |-> o, courier |-> c, deadline |-> Deadline(c)]}

\* DeliveryAssign(o): select the courier, insert the row, mark it busy.
DeliveryAssign(o) ==
    \/ /\ AvailableCouriers = {}
       /\ Fail("ErrNoAvailableCouriers")
    \/ \E c \in AvailableCouriers :
          /\ IsLeastLoaded(c)
          /\ \/ /\ RowsOf(o) # {}
                /\ Fail("ErrOrderAlreadyAssigned")
             \/ /\ CreateDelivery(o, c)
                /\ status' = [status EXCEPT ![c] = "busy"]
                /\ result' = "ok"
                /\ UNCHANGED now

\* Bug variant: the DELETE committed but the status update lost, as if the
\* two statements ran outside one transaction and the second failed.
DeliveryUnassignNoRelease(o) ==
    \/ /\ RowsOf(o) = {}
       /\ Fail("ErrDeliveryNotFound")
    \/ \E r \in RowsOf(o) :
          /\ OtherActiveCount(o, r.courier) = 0
          /\ deliveries' = deliveries \ RowsOf(o)
          /\ result' = "ok"
          /\ UNCHANGED <<status, now>>

\* DeliveryUnassign(o): refuse while the courier has other active rows,
\* else delete the row of o and make its courier available.
DeliveryUnassign(o) ==
    \/ /\ RowsOf(o) = {}
       /\ Fail("ErrDeliveryNotFound")
    \/ \E r \in RowsOf(o) :
          \/ /\ OtherActiveCount(o, r.courier) > 0
             /\ Fail("ErrCourierHasActiveDeliveries")
          \/ /\ OtherActiveCount(o, r.courier) = 0
             /\ deliveries' = deliveries \ RowsOf(o)
             /\ status' = [status EXCEPT ![r.courier] = "available"]
             /\ result' = "ok"
             /\ UNCHANGED now

\* FreeCourierByOrderID(o): make the courier of o available; the row stays.
FreeCourierByOrderID(o) ==
    \/ /\ RowsOf(o) = {}
       /\ Fail("ErrDeliveryNotFound")
    \/ \E r \in RowsOf(o) :
          /\ status' = [status EXCEPT ![r.courier] = "available"]
          /\ result' = "ok"
          /\ UNCHANGED <<deliveries, now>>

\* CleanupExpiredDeliveries: the single UPDATE run by the reaper task.
CleanupExpiredDeliveries ==
    /\ status' = [c \in Couriers |-> IF c \in ReapTargets THEN "available" ELSE status[c]]
    /\ result' = "ok"
    /\ UNCHANGED <<deliveries, now>>

\* Wall-clock time passes.
Tick ==
    /\ now + TickMinutes <= MaxClock
    /\ now' = now + TickMinutes
    /\ UNCHANGED <<status, deliveries, result>>

Next ==
    \/ \E o \in Orders :
          \/ DeliveryAssign(o)
          \/ DeliveryUnassign(o)
          \/ FreeCourierByOrderID(o)
    \/ CleanupExpiredDeliveries
    \/ Tick

(***************************************************************************)
(* The cleanup task runs CleanupExpiredDeliveries on a ticker for as long *)
(* as the service runs (pkg/background/worker.go), and the clock moves.    *)
(***************************************************************************)
Fairness ==
    /\ WF_vars(CleanupExpiredDeliveries)
    /\ WF_vars(Tick)

Spec == Init /\ [][Next]_vars /\ Fairness

-----------------------------------------------------------------------------
(***************************************************************************)
(* Properties                                                              *)
(***************************************************************************)

\* The UNIQUE constraint on delivery.order_id: at most one row per order.
OrderUnique ==
    \A r1, r2 \in deliveries : r1.order = r2.order => r1 = r2

\* Every busy courier owns at least one delivery row.  The reaper can only
\* release a courier through one of its rows, so a busy courier without a
\* row (left by a half-applied unassignment, say) would stay busy forever.
BusyHasDelivery ==
    \A c \in Couriers : status[c] = "busy" => \E r \in deliveries : r.courier = c

\* The inductive strengthening of BusyHasDelivery.
IInv == TypeOK /\ OrderUnique /\ BusyHasDelivery

\* No courier stays busy forever: the reaper eventually returns every busy
\* courier to available, whatever the assignments in between.
ReleasedEventually ==
    \A c \in Couriers : status[c] = "busy" ~> status[c] = "available"

\* Spec 4.3: the reaper releases a busy courier only when every one of its
\* deliveries is past its deadline.
ReapOnlyFullyExpired ==
    [][CleanupExpiredDeliveries =>
         \A c \in Couriers :
            (status[c] = "busy" /\ status'[c] = "available")
                => \A r \in deliveries : r.courier = c => r.deadline < now]_vars

=============================================================================
