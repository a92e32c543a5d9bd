------------------------ MODULE OrderDispatchProofs ------------------------
(***************************************************************************)
(* Proofs about OrderDispatch, for every set of couriers and orders,      *)
(* every bound on events and crashes, and both commit modes.              *)
(*                                                                         *)
(* AtLeastOnce is not inductive: a message is marked at pos + 1, so what  *)
(* is known of the messages below the committed offset must be known of   *)
(* everything marked, and the claim's position must be the marked        *)
(* offset.  It is: a context error moves neither, any other outcome moves *)
(* both by one, and a new session or a restart sets both to the committed *)
(* offset.  Message k is reprocessed only from offset k - 1 = marked, so  *)
(* the outcome it overwrites is above marked.  The engine's transactions, *)
(* run by the handler and by the HTTP service alike, keep the engine's   *)
(* inductive invariant IInv (DeliveryEngineProofs).                        *)
(***************************************************************************)
EXTENDS OrderDispatch, DeliveryEngineProofs, SequenceTheorems

\* The claim delivers the message after the last marked one, and every
\* marked message was processed without a context error.
ConsumerInv ==
    /\ pos = marked
    /\ \A k \in 1..marked : outcome[k] \notin {"none", "ctx"}

DispatchInv == IInv /\ DispatchTypeOK /\ ConsumerInv

-----------------------------------------------------------------------------
(***************************************************************************)
(* The engine inside the handler                                           *)
(***************************************************************************)

\* A step that leaves the engine's tables and clock alone keeps IInv.
LEMMA EngineUnchangedIInv ==
    ASSUME IInv, UNCHANGED engineVars
    PROVE  IInv'
BY DEF IInv, TypeOK, OrderUnique, BusyHasDelivery, RowsOf, engineVars

\* The handler the factory selects for a handled status is one of the
\* engine's transactions.
LEMMA StatusHandlerIInv ==
    ASSUME IInv, NEW o \in Orders, NEW s \in HandledStatuses, StatusHandler(s, o)
    PROVE  IInv'
<1>1. CASE s = "created"
  BY <1>1, AssignIInv DEF StatusHandler
<1>2. CASE s = "cancelled"
  BY <1>2, UnassignIInv DEF StatusHandler
<1>3. CASE s = "completed"
  BY <1>3, FreeIInv DEF StatusHandler
<1>. QED
  BY <1>1, <1>2, <1>3 DEF HandledStatuses

\* ProcessOrderStatusChange, whatever the gateway and the engine return,
\* keeps the engine's invariant.
LEMMA ProcessIInv ==
    ASSUME IInv, NEW o \in Orders, NEW out, ProcessOrderStatusChange(o, out),
           orderStatus \in [Orders -> OrderStatuses \cup {"absent"}]
    PROVE  IInv'
<1>1. CASE UNCHANGED engineVars
  BY <1>1, EngineUnchangedIInv
<1>2. CASE orderStatus[o] \in HandledStatuses /\ StatusHandler(orderStatus[o], o)
  BY <1>2, StatusHandlerIInv
<1>. QED
  BY <1>1, <1>2 DEF ProcessOrderStatusChange

-----------------------------------------------------------------------------
(***************************************************************************)
(* The invariant                                                           *)
(***************************************************************************)

LEMMA DispatchInitInv == DispatchInit => DispatchInv
<1> SUFFICES ASSUME DispatchInit PROVE DispatchInv
  OBVIOUS
<1>1. IInv
  BY InitIInv DEF DispatchInit
<1>2. DispatchTypeOK
  BY <1>1, MaxEventsAssumption, MaxCrashesAssumption
     DEF DispatchInit, DispatchTypeOK, IInv
<1>3. ConsumerInv
  BY DEF DispatchInit, ConsumerInv
<1>. QED
  BY <1>1, <1>2, <1>3 DEF DispatchInv

\* messageProcessing: the engine keeps IInv; a context error leaves the
\* message unmarked, any other outcome marks it and the claim moves on.
LEMMA MessageProcessingInv ==
    ASSUME DispatchInv, MessageProcessing
    PROVE  DispatchInv'
<1> USE DEF DispatchInv, DispatchTypeOK
<1>1. PICK out \in Outcomes :
          /\ ProcessOrderStatusChange(log[pos + 1], out)
          /\ outcome' = [outcome EXCEPT ![pos + 1] = OutcomeClass(out)]
          /\ Settle(out)
  BY DEF MessageProcessing
<1>2. /\ session = "running" /\ pos < Len(log)
      /\ UNCHANGED <<orderStatus, log, committed, crashes>>
  BY DEF MessageProcessing
<1>3. /\ log[pos + 1] \in Orders
      /\ pos + 1 \in 1..MaxEvents
      /\ marked \in 0..MaxEvents
  BY <1>2, MaxEventsAssumption DEF ConsumerInv
<1>4. IInv'
  BY <1>1, <1>3, ProcessIInv
<1>5. OutcomeClass(out) \in {"terminal", "transient", "ctx"}
      /\ (out # "ctx" => OutcomeClass(out) \notin {"none", "ctx"})
  BY DEF OutcomeClass, Outcomes, Terminal
<1>6. outcome' \in [1..MaxEvents -> {"none", "terminal", "transient", "ctx"}]
      /\ outcome'[pos + 1] = OutcomeClass(out)
      /\ \A k \in 1..MaxEvents \ {pos + 1} : outcome'[k] = outcome[k]
  BY <1>1, <1>3, <1>5
<1>7. CASE out = "ctx" /\ session' = "rejoining" /\ UNCHANGED <<pos, marked>>
  <2>1. DispatchTypeOK'
    BY <1>2, <1>4, <1>6, <1>7 DEF IInv
  <2>2. ConsumerInv'
    <3>1. pos' = marked'
      BY <1>7 DEF ConsumerInv
    <3>2. ASSUME NEW k \in 1..marked' PROVE outcome'[k] \notin {"none", "ctx"}
      <4>0. marked' = marked /\ pos \in Nat /\ marked = pos
        BY <1>7 DEF ConsumerInv
      <4>a. k \in Nat /\ 1 <= k /\ k <= marked
        BY <4>0
      <4>b. k <= MaxEvents
        BY <4>a, <1>3, MaxEventsAssumption
      <4>c. k # pos + 1
        BY <4>0, <4>a
      <4>1. k \in 1..MaxEvents \ {pos + 1} /\ k \in 1..marked
        BY <4>a, <4>b, <4>c, MaxEventsAssumption
      <4>2. outcome'[k] = outcome[k]
        BY <4>1, <1>6
      <4>. QED
        BY <4>1, <4>2 DEF ConsumerInv
    <3>. QED
      BY <3>1, <3>2 DEF ConsumerInv
  <2>. QED
    BY <1>4, <2>1, <2>2
<1>8. CASE out # "ctx" /\ marked' = pos + 1 /\ pos' = pos + 1 /\ UNCHANGED session
  <2>1. DispatchTypeOK'
    BY <1>2, <1>4, <1>6, <1>8 DEF IInv, ConsumerInv
  <2>2. ConsumerInv'
    <3>1. pos' = marked'
      BY <1>8
    <3>2. ASSUME NEW k \in 1..marked' PROVE outcome'[k] \notin {"none", "ctx"}
      <4>1. CASE k = pos + 1
        BY <4>1, <1>5, <1>6, <1>8
      <4>2. CASE k # pos + 1
        <5>0. marked' = pos + 1 /\ pos \in Nat /\ marked = pos
          BY <1>8 DEF ConsumerInv
        <5>a. k \in Nat /\ 1 <= k /\ k <= pos + 1
          BY <5>0
        <5>b. k <= MaxEvents
          BY <5>a, <1>3, MaxEventsAssumption
        <5>c. k <= pos
          BY <4>2, <5>a, <5>0
        <5>1. k \in 1..MaxEvents \ {pos + 1} /\ k \in 1..marked
          BY <5>0, <5>a, <5>b, <5>c, MaxEventsAssumption
        <5>2. outcome'[k] = outcome[k]
          BY <5>1, <1>6
        <5>. QED
          BY <5>1, <5>2 DEF ConsumerInv
      <4>. QED
        BY <4>1, <4>2
    <3>. QED
      BY <3>1, <3>2 DEF ConsumerInv
  <2>. QED
    BY <1>4, <2>1, <2>2
<1>. QED
  BY <1>1, <1>7, <1>8 DEF Settle

-----------------------------------------------------------------------------

\* A step of the HTTP service that keeps the engine's invariant, and leaves
\* the order service and the consumer alone, keeps DispatchInv.
LEMMA ServiceStepInv ==
    ASSUME DispatchInv, IInv', UNCHANGED <<orderStatus, log, consumerVars>>
    PROVE  DispatchInv'
<1>1. DispatchTypeOK'
  BY DEF DispatchInv, DispatchTypeOK, IInv, consumerVars
<1>2. ConsumerInv'
  BY DEF DispatchInv, ConsumerInv, consumerVars
<1>. QED
  BY <1>1, <1>2 DEF DispatchInv

\* The order service appends one event; nothing of the consumer moves.
LEMMA EmitInv ==
    ASSUME DispatchInv, NEW o \in Orders, Emit(o),
           orderStatus' \in [Orders -> OrderStatuses \cup {"absent"}],
           UNCHANGED <<engineVars, consumerVars>>
    PROVE  DispatchInv'
<1> USE DEF DispatchInv, DispatchTypeOK
<1>1. IInv'
  BY EngineUnchangedIInv
<1>2. log' \in Seq(Orders) /\ Len(log') = Len(log) + 1 /\ Len(log') <= MaxEvents
  <2>1. log \in Seq(Orders) /\ Len(log) < MaxEvents /\ log' = Append(log, o)
    BY DEF Emit
  <2>2. Append(log, o) \in Seq(Orders) /\ Len(Append(log, o)) = Len(log) + 1
    BY <2>1, AppendProperties
  <2>3. Len(log) \in Nat
    BY <2>1, LenProperties
  <2>. QED
    BY <2>1, <2>2, <2>3, MaxEventsAssumption
<1>3. DispatchTypeOK'
  BY <1>1, <1>2 DEF IInv, consumerVars
<1>4. ConsumerInv'
  BY DEF ConsumerInv, consumerVars
<1>. QED
  BY <1>1, <1>3, <1>4

LEMMA OrderCreatedInv ==
    ASSUME DispatchInv, NEW o \in Orders, OrderCreated(o)
    PROVE  DispatchInv'
<1>1. orderStatus' \in [Orders -> OrderStatuses \cup {"absent"}]
  BY DEF OrderCreated, DispatchInv, DispatchTypeOK, OrderStatuses
<1>. QED
  BY <1>1, EmitInv DEF OrderCreated

LEMMA OrderStatusChangedInv ==
    ASSUME DispatchInv, NEW o \in Orders, NEW s \in OrderStatuses \ {"created"},
           OrderStatusChanged(o, s)
    PROVE  DispatchInv'
<1>1. orderStatus' \in [Orders -> OrderStatuses \cup {"absent"}]
  BY DEF OrderStatusChanged, DispatchInv, DispatchTypeOK
<1>. QED
  BY <1>1, EmitInv DEF OrderStatusChanged

\* A session ends: the claim stops where it was.
LEMMA RebalanceInv ==
    ASSUME DispatchInv, Rebalance
    PROVE  DispatchInv'
<1>1. UNCHANGED <<engineVars, orderStatus, log, committed, marked, pos, outcome, crashes>>
      /\ session' = "rejoining"
  BY DEF Rebalance
<1>2. IInv'
  BY <1>1, EngineUnchangedIInv DEF DispatchInv
<1>3. DispatchTypeOK'
  BY <1>1, <1>2 DEF DispatchInv, DispatchTypeOK, IInv
<1>4. ConsumerInv'
  BY <1>1 DEF DispatchInv, ConsumerInv
<1>. QED
  BY <1>2, <1>3, <1>4 DEF DispatchInv

\* A new session starts at the committed offset, which the release of the
\* old session may have moved up to the marked one.
LEMMA RejoinInv ==
    ASSUME DispatchInv, Rejoin
    PROVE  DispatchInv'
<1> USE DEF DispatchInv, DispatchTypeOK
<1>1. IInv'
  BY EngineUnchangedIInv DEF Rejoin, engineVars
<1>2. committed' \in committed..marked /\ marked' = committed' /\ pos' = committed'
  BY AutoCommitAssumption DEF Rejoin
<1>3. DispatchTypeOK'
  BY <1>1, <1>2 DEF Rejoin, IInv
<1>4. ConsumerInv'
  BY <1>2 DEF Rejoin, ConsumerInv
<1>. QED
  BY <1>1, <1>3, <1>4

\* The auto-commit ticker commits the marked offset.
LEMMA CommitInv ==
    ASSUME DispatchInv, Commit
    PROVE  DispatchInv'
<1>1. UNCHANGED <<engineVars, orderStatus, log, marked, pos, session, outcome, crashes>>
      /\ committed' = marked
  BY DEF Commit
<1>2. IInv'
  BY <1>1, EngineUnchangedIInv DEF DispatchInv
<1>3. DispatchTypeOK'
  BY <1>1, <1>2 DEF DispatchInv, DispatchTypeOK, IInv
<1>4. ConsumerInv'
  BY <1>1 DEF DispatchInv, ConsumerInv
<1>. QED
  BY <1>2, <1>3, <1>4 DEF DispatchInv

\* A restarted worker resumes from the committed offset.
LEMMA CrashInv ==
    ASSUME DispatchInv, Crash
    PROVE  DispatchInv'
<1> USE DEF DispatchInv, DispatchTypeOK
<1>1. IInv'
  BY EngineUnchangedIInv DEF Crash, engineVars
<1>2. DispatchTypeOK'
  BY <1>1, MaxCrashesAssumption DEF Crash, IInv
<1>3. ConsumerInv'
  BY DEF Crash, ConsumerInv
<1>. QED
  BY <1>1, <1>2, <1>3

LEMMA DispatchStep == DispatchInv /\ [DispatchNext]_dispatchVars => DispatchInv'
<1> SUFFICES ASSUME DispatchInv, [DispatchNext]_dispatchVars PROVE DispatchInv'
  OBVIOUS
<1>0. IInv
  BY DEF DispatchInv
<1>1. CASE \E o \in Orders : DeliveryAssignPost(o)
  BY <1>0, <1>1, AssignIInv, ServiceStepInv DEF DeliveryAssignPost
<1>2. CASE \E o \in Orders : DeliveryUnassignPost(o)
  BY <1>0, <1>2, UnassignIInv, ServiceStepInv DEF DeliveryUnassignPost
<1>3. CASE Reaper
  BY <1>0, <1>3, CleanupIInv, ServiceStepInv DEF Reaper
<1>4. CASE Clock
  BY <1>0, <1>4, TickIInv, ServiceStepInv DEF Clock
<1>5. CASE \E o \in Orders : OrderCreated(o)
  BY <1>5, OrderCreatedInv
<1>6. CASE \E o \in Orders : \E s \in OrderStatuses \ {"created"} : OrderStatusChanged(o, s)
  BY <1>6, OrderStatusChangedInv
<1>7. CASE MessageProcessing
  BY <1>7, MessageProcessingInv
<1>8. CASE Rebalance
  BY <1>8, RebalanceInv
<1>9. CASE Rejoin
  BY <1>9, RejoinInv
<1>10. CASE Commit
  BY <1>10, CommitInv
<1>11. CASE Crash
  BY <1>11, CrashInv
<1>12. CASE UNCHANGED dispatchVars
  <2>1. IInv'
    BY <1>0, <1>12, EngineUnchangedIInv DEF dispatchVars
  <2>. QED
    BY <1>12, <2>1, ServiceStepInv DEF dispatchVars
<1>. QED
  BY <1>1, <1>2, <1>3, <1>4, <1>5, <1>6, <1>7, <1>8, <1>9, <1>10, <1>11, <1>12
     DEF DispatchNext

\* The composed system keeps the inductive invariant in every behaviour.
THEOREM DispatchInvHolds == DispatchSpec => []DispatchInv
BY DispatchInitInv, DispatchStep, PTL DEF DispatchSpec

\* Type correctness of the order-status worker composed with the engine.
THEOREM DispatchTypeCorrect == DispatchSpec => []DispatchTypeOK
BY DispatchInvHolds, PTL DEF DispatchInv

\* At-least-once delivery: whatever the interleaving of the handler, the
\* HTTP service, rebalances, auto-commits and worker crashes, every message
\* below the committed offset was processed, and its last processing did
\* not end in the context error after which messageProcessing leaves it
\* unmarked.
THEOREM AtLeastOnceHolds == DispatchSpec => []AtLeastOnce
<1>1. DispatchInv => AtLeastOnce
  BY DEF DispatchInv, DispatchTypeOK, ConsumerInv, AtLeastOnce
<1>. QED
  BY <1>1, DispatchInvHolds, PTL

\* The engine's invariant survives the handler running beside the HTTP
\* service: no courier is left busy without a delivery row.
THEOREM DispatchBusyHasDelivery == DispatchSpec => []BusyHasDelivery
BY DispatchInvHolds, PTL DEF DispatchInv, IInv

=============================================================================
