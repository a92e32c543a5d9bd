---------------------------- MODULE OrderDispatch ----------------------------
(***************************************************************************)
(* The order-status worker composed with the delivery engine.              *)
(*                                                                         *)
(* The order service appends one event to a Kafka partition each time an   *)
(* order changes status.  The worker (cmd/worker-order-status-changed)     *)
(* consumes the partition in a sarama consumer group: for each message the *)
(* handler (handlers/kafka-consumer/order_status_changed) calls            *)
(* ProcessOrderStatusChange (service/order), which fetches the order from  *)
(* the order service through the retrying gateway and runs the engine      *)
(* operation that the fetched status selects (pkg/factory/order_handle).   *)
(* The handler marks the message, or on a context error leaves it unmarked *)
(* and ends the session, so that the next session starts again from the   *)
(* committed offset.  Marked offsets reach Kafka only when sarama commits  *)
(* them; a worker that dies in between replays what it had marked.         *)
(*                                                                         *)
(* The engine keeps serving the HTTP service (assign and unassign          *)
(* requests, the reaper) in parallel: its whole next-state relation is a   *)
(* disjunct of this one.                                                   *)
(*                                                                         *)
(* Offsets count messages: the message at offset k is log[k + 1], and a    *)
(* committed (or marked) offset k means messages 1..k are acknowledged.    *)
(***************************************************************************)
EXTENDS DeliveryEngine, Sequences

CONSTANTS
    MaxEvents,      \* bound on the number of events the order service emits
    MaxCrashes,     \* bound on the number of worker crashes
    AutoCommit      \* KAFKA_SARAMA_OFFSETS_AUTOCOMMIT

ASSUME MaxEventsAssumption == MaxEvents \in Nat
ASSUME MaxCrashesAssumption == MaxCrashes \in Nat
ASSUME AutoCommitAssumption == AutoCommit \in BOOLEAN

VARIABLES
    orderStatus,    \* the status the order service holds for each order
    log,            \* the partition: the order id each event carries
    committed,      \* the offset committed for the consumer group
    marked,         \* the offset marked in the current session
    pos,            \* the offset of the next message the claim delivers
    session,        \* "running", or "rejoining" once ConsumeClaim returned
    outcome,        \* outcome[k]: the class of the last processing of message k
    crashes         \* worker crashes so far

engineVars == <<status, deliveries, now, result>>
consumerVars == <<committed, marked, pos, session, outcome, crashes>>
dispatchVars == <<engineVars, orderStatus, log, consumerVars>>

\* entities.OrderStatusType; "unknown" stands for any status the order
\* service may report that the factory has no handler for.
OrderStatuses == {"created", "cancelled", "completed", "unknown"}
HandledStatuses == {"created", "cancelled", "completed"}

\* How one call of messageProcessing ended:
\*   ok         the engine operation succeeded
\*   domain     the engine returned one of its sentinel errors
\*   undefined  the fetched status has no handler
\*   not_found  the gateway failed with a permanent (non retryable) code
\*   transient  the gateway ran out of its retry budget, or the transaction
\*              lost a serialization race
\*   ctx        the processing context was cancelled or timed out
Outcomes == {"ok", "domain", "undefined", "not_found", "transient", "ctx"}

\* Spec section 6: the outcomes after which the message may be acknowledged.
Terminal == {"ok", "domain", "undefined", "not_found"}

\* What the history of a message keeps of an outcome: whether it was
\* terminal, transient, or a context error.
OutcomeClass(out) == IF out \in Terminal THEN "terminal" ELSE out

DispatchTypeOK ==
    /\ TypeOK
    /\ orderStatus \in [Orders -> OrderStatuses \cup {"absent"}]
    /\ log \in Seq(Orders) /\ Len(log) <= MaxEvents
    /\ committed \in 0..Len(log)
    /\ marked \in committed..Len(log)
    /\ pos \in 0..Len(log)
    /\ session \in {"running", "rejoining"}
    /\ outcome \in [1..MaxEvents -> {"none", "terminal", "transient", "ctx"}]
    /\ crashes \in 0..MaxCrashes

-----------------------------------------------------------------------------
(***************************************************************************)
(* The order service (outside this repository): it creates orders and      *)
(* moves a created order to another status, emitting one event each time. *)
(***************************************************************************)

Emit(o) ==
    /\ Len(log) < MaxEvents
    /\ log' = Append(log, o)

OrderCreated(o) ==
    /\ orderStatus[o] = "absent"
    /\ orderStatus' = [orderStatus EXCEPT ![o] = "created"]
    /\ Emit(o)
    /\ UNCHANGED <<engineVars, consumerVars>>

OrderStatusChanged(o, s) ==
    /\ orderStatus[o] = "created"
    /\ orderStatus' = [orderStatus EXCEPT ![o] = s]
    /\ Emit(o)
    /\ UNCHANGED <<engineVars, consumerVars>>

-----------------------------------------------------------------------------
(***************************************************************************)
(* The worker                                                              *)
(***************************************************************************)

\* StatusHandlerFactory.GetHandler and the three handlers it returns.
StatusHandler(s, o) ==
    CASE s = "created"   -> DeliveryAssign(o)
      [] s = "cancelled" -> DeliveryUnassign(o)
      [] s = "completed" -> FreeCourierByOrderID(o)

\* ProcessOrderStatusChange(o): fetch the order, then run the handler its
\* fetched status selects; out is the outcome the caller sees.
ProcessOrderStatusChange(o, out) ==
    \/ /\ out \in {"not_found", "transient", "ctx"}
       /\ UNCHANGED engineVars
    \/ /\ orderStatus[o] \notin HandledStatuses
       /\ out = "undefined"
       /\ UNCHANGED engineVars
    \/ /\ orderStatus[o] \in HandledStatuses
       /\ \/ /\ StatusHandler(orderStatus[o], o)
             /\ out = IF result' = "ok" THEN "ok" ELSE "domain"
          \/ /\ out \in {"transient", "ctx"}
             /\ UNCHANGED engineVars
          \/ /\ StatusHandler(orderStatus[o], o)
             /\ result' = "ok"
             /\ out = "ctx"

\* Bug variant: the message marked before the context check returns.
SettleMarkAll(out) ==
    /\ marked' = pos + 1
    /\ \/ out = "ctx" /\ session' = "rejoining" /\ UNCHANGED pos
       \/ out # "ctx" /\ pos' = pos + 1 /\ UNCHANGED session

\* Bug variant: domain errors treated like a context error, to be redelivered.
SettleRetryDomain(out) ==
    \/ /\ out \in {"ctx", "domain"}
       /\ session' = "rejoining"
       /\ UNCHANGED <<pos, marked>>
    \/ /\ out \notin {"ctx", "domain"}
       /\ marked' = pos + 1
       /\ pos' = pos + 1
       /\ UNCHANGED session

\* The error switch of messageProcessing: a context error ends ConsumeClaim
\* with the message unmarked; every other outcome marks it.
Settle(out) ==
    \/ /\ out = "ctx"
       /\ session' = "rejoining"
       /\ UNCHANGED <<pos, marked>>
    \/ /\ out # "ctx"
       /\ marked' = pos + 1
       /\ pos' = pos + 1
       /\ UNCHANGED session

\* messageProcessing for the message the claim delivers next.
MessageProcessing ==
    /\ session = "running"
    /\ pos < Len(log)
    /\ \E out \in Outcomes :
          /\ ProcessOrderStatusChange(log[pos + 1], out)
          /\ outcome' = [outcome EXCEPT ![pos + 1] = OutcomeClass(out)]
          /\ Settle(out)
    /\ UNCHANGED <<orderStatus, log, committed, crashes>>

\* The session context is cancelled (a rebalance): ConsumeClaim returns.
Rebalance ==
    /\ session = "running"
    /\ session' = "rejoining"
    /\ UNCHANGED <<engineVars, orderStatus, log, committed, marked, pos, outcome, crashes>>

\* Consume returns nil, Start loops and joins a new session.  Releasing the
\* old session flushes its marks when auto-commit is on; the new claim
\* starts at the committed offset.
Rejoin ==
    /\ session = "rejoining"
    /\ committed' = IF AutoCommit THEN marked ELSE committed
    /\ marked' = committed'
    /\ pos' = committed'
    /\ session' = "running"
    /\ UNCHANGED <<engineVars, orderStatus, log, outcome, crashes>>

\* The auto-commit ticker of the session's offset manager.
Commit ==
    /\ AutoCommit
    /\ committed < marked
    /\ committed' = marked
    /\ UNCHANGED <<engineVars, orderStatus, log, marked, pos, session, outcome, crashes>>

\* The worker process dies (Consume returns an error and run returns, or
\* the process is killed) and is restarted: what was marked and not yet
\* committed is lost.
Crash ==
    /\ crashes < MaxCrashes
    /\ crashes' = crashes + 1
    /\ marked' = committed
    /\ pos' = committed
    /\ session' = "running"
    /\ UNCHANGED <<engineVars, orderStatus, log, committed, outcome>>

-----------------------------------------------------------------------------

DispatchInit ==
    /\ Init
    /\ orderStatus = [o \in Orders |-> "absent"]
    /\ log = <<>>
    /\ committed = 0
    /\ marked = 0
    /\ pos = 0
    /\ session = "running"
    /\ outcome = [k \in 1..MaxEvents |-> "none"]
    /\ crashes = 0

\* The messageProcessing steps that do not end in a context error.
ProcessingNotCancelled ==
    /\ MessageProcessing
    /\ outcome'[pos + 1] # "ctx"

(***************************************************************************)
(* The HTTP service shares the database.  Its two delivery endpoints call  *)
(* the engine directly (FreeCourierByOrderID has no HTTP caller), and its  *)
(* background task runs the reaper.                                        *)
(***************************************************************************)

\* POST /delivery/assign: DeliveryAssign, the error mapped to a status code.
DeliveryAssignPost(o) ==
    /\ DeliveryAssign(o)
    /\ UNCHANGED <<orderStatus, log, consumerVars>>

\* POST /delivery/unassign: DeliveryUnassign, the error mapped to a status code.
DeliveryUnassignPost(o) ==
    /\ DeliveryUnassign(o)
    /\ UNCHANGED <<orderStatus, log, consumerVars>>

\* The delivery-cleanup task of the HTTP service runs the reaper.
Reaper ==
    /\ CleanupExpiredDeliveries
    /\ UNCHANGED <<orderStatus, log, consumerVars>>

Clock ==
    /\ Tick
    /\ UNCHANGED <<orderStatus, log, consumerVars>>

DispatchNext ==
    \/ \E o \in Orders : DeliveryAssignPost(o) \/ DeliveryUnassignPost(o)
    \/ Reaper
    \/ Clock
    \/ \E o \in Orders :
          \/ OrderCreated(o)
          \/ \E s \in OrderStatuses \ {"created"} : OrderStatusChanged(o, s)
    \/ MessageProcessing
    \/ Rebalance
    \/ Rejoin
    \/ Commit
    \/ Crash

(***************************************************************************)
(* The claim goroutine keeps taking messages while it has them and the     *)
(* session lasts; a new session follows a finished one (Start's loop); the *)
(* auto-commit ticker fires.  A message is assumed not to time out on      *)
(* every one of its deliveries: the order service and the database are not *)
(* slow forever.  That is strong fairness of the processing steps that do  *)
(* not end in a context error.                                             *)
(***************************************************************************)
DispatchFairness ==
    /\ WF_dispatchVars(Reaper)
    /\ WF_dispatchVars(Clock)
    /\ SF_dispatchVars(ProcessingNotCancelled)
    /\ WF_dispatchVars(Rejoin)
    /\ WF_dispatchVars(Commit)

DispatchSpec == DispatchInit /\ [][DispatchNext]_dispatchVars /\ DispatchFairness

-----------------------------------------------------------------------------
(***************************************************************************)
(* Properties                                                              *)
(***************************************************************************)

\* At-least-once: every message below the committed offset was processed,
\* and its last processing did not end in the context error after which
\* the handler leaves a message for redelivery.
AtLeastOnce ==
    \A k \in 1..committed : outcome[k] \notin {"none", "ctx"}

\* Every event the order service emits is eventually committed: the
\* consumer never stalls on a message, whatever its outcome.
EventuallyCommitted ==
    \A k \in 1..MaxEvents : Len(log) >= k ~> committed >= k

\* Spec section 6: a message is acknowledged only after a terminal outcome
\* (success, a permanent domain error, an undefined status); the handler
\* marks it after any error other than a context error.
AckOnlyTerminal ==
    \A k \in 1..marked : outcome[k] = "terminal"

\* Spec section 4.4: the handler is idempotent under at-least-once
\* delivery.  While an order is still open in the order service and its
\* delivery is active, its courier stays busy.
ActiveOrderKeepsCourierBusy ==
    \A r \in deliveries :
        (orderStatus[r.order] = "created" /\ r.deadline >= now)
            => status[r.courier] = "busy"

=============================================================================
