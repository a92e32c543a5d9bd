-------------------------- MODULE LifecycleProofs --------------------------
(***************************************************************************)
(* Proofs about the two processes of Deployment, for every set of tasks,  *)
(* every set of configurable intervals and every bound.                   *)
(*                                                                         *)
(* The properties the lifecycle run checks are not inductive as they      *)
(* stand.  WarmupGate speaks of loops and runs, which only move once New  *)
(* has returned a worker, and New returns one only when every warm-up    *)
(* succeeded: GateInv is that chain.  ExitAfterDrain speaks of the exited *)
(* stage only; DrainInv says at which stage of run each step of the      *)
(* shutdown has happened, and that a failure, the one other way to exit, *)
(* closes the listener and cancels ongoingCtx as the deferred calls do.   *)
(* WorkerDrainInv is the same for the order-status worker.                *)
(***************************************************************************)
EXTENDS Deployment, TLAPS

\* The stages of the service's run and of the worker's.
ServiceStages ==
    {"db", "grpc", "app", "serving", "draining", "closing", "exiting", "exited"}
WorkerStages ==
    {"db", "grpc", "kafka", "running", "draining", "closing", "exited"}

\* The part of the service's state the shutdown argument reads.
ServiceTypeOK ==
    /\ WorkerTypeOK
    /\ stage \in ServiceStages
    /\ shuttingDown \in BOOLEAN
    /\ listening \in BOOLEAN
    /\ ongoingDone \in BOOLEAN
    /\ exitErr \in BOOLEAN

\* A loop that left idle, or a task that ran, means New returned a worker,
\* and New returns one only after every warm-up succeeded.
GateInv ==
    /\ phase = "running" => \A u \in Tasks : warmup[u] = "ok"
    /\ \A t \in Tasks : loop[t] # "idle" \/ runs[t] > 0 => phase = "running"

\* From the select's ctx.Done() case on, the service is not ready; from
\* server.Shutdown on, it does not listen; from the return of Shutdown on,
\* and only from then, ongoingCtx is cancelled.  A failed run exits with the listener closed and
\* ongoingCtx cancelled.
DrainInv ==
    /\ stage \in {"draining", "closing", "exiting"} \/ (stage = "exited" /\ ~exitErr)
          => shuttingDown
    /\ stage \in {"closing", "exiting", "exited"} => ~listening
    /\ stage \in {"exiting", "exited"} <=> ongoingDone

ServiceInv == ServiceTypeOK /\ GateInv /\ DrainInv

\* The part of the worker's state the shutdown argument reads.
WorkerStateOK ==
    /\ wStage \in WorkerStages
    /\ consumer \in {"none", "consuming", "failed", "stopped"}
    /\ wShuttingDown \in BOOLEAN
    /\ healthUp \in BOOLEAN
    /\ handling \in BOOLEAN
    /\ wExitErr \in BOOLEAN

\* The worker's shutdown, stage by stage, as DrainInv for the service.
WorkerDrainInv ==
    /\ wStage \in {"draining", "closing"} \/ (wStage = "exited" /\ ~wExitErr)
          => wShuttingDown
    /\ wStage \in {"closing", "exited"} => ~healthUp
    /\ wStage = "exited" /\ ~wExitErr => ~handling /\ consumer # "consuming"

WorkerInv == WorkerStateOK /\ WorkerDrainInv

-----------------------------------------------------------------------------
(***************************************************************************)
(* The HTTP service                                                        *)
(***************************************************************************)

LEMMA ServiceInitInv == LifeInit => ServiceInv
<1> SUFFICES ASSUME LifeInit PROVE ServiceInv
  OBVIOUS
<1>1. ttl \in [Tasks -> Durations]
  BY DEF LifeInit, WorkerInit
<1>2. runs \in [Tasks -> 0..MaxRuns]
  BY WorkerAssumption DEF LifeInit, WorkerInit
<1>3. WorkerTypeOK
  BY <1>1, <1>2 DEF LifeInit, WorkerInit, WorkerTypeOK
<1>4. GateInv
  BY DEF LifeInit, WorkerInit, GateInv
<1>5. DrainInv
  BY DEF LifeInit, DrainInv
<1>. QED
  BY <1>3, <1>4, <1>5 DEF LifeInit, ServiceInv, ServiceTypeOK, ServiceStages

\* A failed run exits with the listener closed and ongoingCtx cancelled,
\* leaving the worker's state alone.
LEMMA FailInv ==
    ASSUME ServiceInv, Fail
    PROVE  ServiceInv'
BY DEF Fail, ServiceInv, ServiceTypeOK, WorkerTypeOK, ServiceStages, GateInv,
       DrainInv, bgVars

\* A warm-up goroutine records its result, a panic recovered as a failure;
\* nothing has started yet.
LEMMA WarmupDoInv ==
    ASSUME ServiceInv, NEW t \in Tasks, WarmupDo(t)
    PROVE  (WorkerTypeOK /\ GateInv)'
<1>1. PICK out \in DoOutcomes(t, initCancelled \/ cancelled) :
            /\ warmup' = [warmup EXCEPT ![t] = WarmupResult(out)]
            /\ initCancelled' = (initCancelled \/ out # "ok")
  BY DEF WarmupDo
<1>2. WarmupResult(out) \in {"ok", "failed"}
  BY DEF WarmupResult
<1>3. WorkerTypeOK'
  BY <1>1, <1>2 DEF WarmupDo, ServiceInv, ServiceTypeOK, WorkerTypeOK
<1>4. GateInv'
  BY DEF WarmupDo, ServiceInv, GateInv
<1>. QED
  BY <1>3, <1>4

\* Wait returns once every warm-up returned; the worker runs only if all
\* of them succeeded.
LEMMA WarmupWaitInv ==
    ASSUME ServiceInv, WarmupWait
    PROVE  (WorkerTypeOK /\ GateInv)'
<1>1. WorkerTypeOK'
  BY DEF WarmupWait, ServiceInv, ServiceTypeOK, WorkerTypeOK
<1>2. (phase = "running" => \A u \in Tasks : warmup[u] = "ok")'
  BY DEF WarmupWait, ServiceInv, ServiceTypeOK, WorkerTypeOK
<1>3. (\A t \in Tasks : loop[t] # "idle" \/ runs[t] > 0 => phase = "running")'
  BY DEF WarmupWait, ServiceInv, GateInv
<1>. QED
  BY <1>1, <1>2, <1>3 DEF GateInv

\* A goroutine of the running worker starts, ticks or stops.
LEMMA TaskStepInv ==
    ASSUME ServiceInv, NEW t \in Tasks,
           StartTask(t) \/ TickerFire(t) \/ StopTask(t)
    PROVE  (WorkerTypeOK /\ GateInv)'
<1> USE DEF ServiceInv, ServiceTypeOK, WorkerTypeOK, GateInv
<1>1. CASE StartTask(t)
  BY <1>1 DEF StartTask
<1>2. CASE TickerFire(t)
  <2>1. phase = "running"
    BY <1>2 DEF TickerFire
  <2>2. runs[t] + 1 \in 0..MaxRuns
    BY <1>2, WorkerAssumption DEF TickerFire
  <2>3. /\ runs' = [runs EXCEPT ![t] = runs[t] + 1]
        /\ UNCHANGED <<loop, ttl, warmup, initCancelled, phase, cancelled>>
    BY <1>2 DEF TickerFire, ExecuteTaskSafely
  <2>. QED
    BY <2>1, <2>2, <2>3
<1>3. CASE StopTask(t)
  BY <1>3 DEF StopTask
<1>. QED
  BY <1>1, <1>2, <1>3

\* A step of the worker inside the process leaves run's own state alone.
LEMMA BackgroundInv ==
    ASSUME ServiceInv, (WorkerTypeOK /\ GateInv)', UNCHANGED lifeVars
    PROVE  ServiceInv'
BY DEF ServiceInv, ServiceTypeOK, DrainInv, lifeVars

\* A start-up check passes, moving run on, or fails and run returns.
LEMMA StartupStepInv ==
    ASSUME ServiceInv, NEW from \in {"db", "grpc"}, NEW to \in {"grpc", "app"},
           StartupStep(from, to)
    PROVE  ServiceInv'
<1>1. CASE Fail
  BY <1>1, FailInv
<1>2. CASE ~Fail
  <2>1. /\ stage = from /\ stage' = to
        /\ UNCHANGED <<exitErr, listening, ongoingDone, shuttingDown, bgVars, cancelled>>
    BY <1>2 DEF StartupStep
  <2>. QED
    BY <2>1 DEF ServiceInv, ServiceTypeOK, WorkerTypeOK, ServiceStages, GateInv,
                DrainInv, bgVars
<1>. QED
  BY <1>1, <1>2

\* Each step of run, of a request, and of the worker, preserves ServiceInv.
LEMMA ServiceStep == ServiceInv /\ [LifeNext]_serviceVars => ServiceInv'
<1> SUFFICES ASSUME ServiceInv, [LifeNext]_serviceVars
             PROVE  ServiceInv'
  OBVIOUS
<1>1. CASE ConnectDatabase
  BY <1>1, StartupStepInv DEF ConnectDatabase
<1>2. CASE ConnectOrderService
  BY <1>2, StartupStepInv DEF ConnectOrderService
<1>3. CASE Background(\E t \in Tasks : WarmupDo(t))
  BY <1>3, WarmupDoInv, BackgroundInv DEF Background
<1>4. CASE Background(WarmupWait)
  BY <1>4, WarmupWaitInv, BackgroundInv DEF Background
<1>5. CASE \E t \in Tasks : Background(StartTask(t) \/ TickerFire(t) \/ StopTask(t))
  BY <1>5, TaskStepInv, BackgroundInv DEF Background
<1>6. CASE StartServer
  <2>1. CASE Fail
    BY <2>1, FailInv
  <2>2. CASE ~Fail
    <3>1. /\ stage = "app" /\ stage' = "serving" /\ listening'
          /\ UNCHANGED <<exitErr, ongoingDone, shuttingDown, bgVars, cancelled>>
      BY <1>6, <2>2 DEF StartServer
    <3>2. ~ongoingDone /\ ~ongoingDone'
      BY <3>1 DEF ServiceInv, DrainInv
    <3>. QED
      BY <3>1, <3>2 DEF ServiceInv, ServiceTypeOK, WorkerTypeOK,
                        ServiceStages, GateInv, DrainInv, bgVars
  <2>. QED
    BY <2>1, <2>2
<1>7. CASE ServerError
  BY <1>7, FailInv DEF ServerError
<1>8. CASE Accept \/ Middleware \/ Complete
  BY <1>8 DEF Accept, Middleware, Complete, ServiceInv, ServiceTypeOK, WorkerTypeOK,
              GateInv, DrainInv, bgVars
<1>9. CASE Signal
  <2>1. (WorkerTypeOK /\ GateInv)'
    BY <1>9 DEF Signal, Cancel, ServiceInv, ServiceTypeOK, WorkerTypeOK, GateInv
  <2>. QED
    BY <1>9, <2>1, BackgroundInv DEF Signal
<1>10. CASE BeginShutdown \/ ServerShutdown \/ ShutdownReturns \/ Exit
  <2> USE DEF ServiceInv, ServiceTypeOK, WorkerTypeOK, ServiceStages, GateInv,
              DrainInv, bgVars
  <2>1. CASE BeginShutdown
    BY <2>1 DEF BeginShutdown
  <2>2. CASE ServerShutdown
    BY <2>2 DEF ServerShutdown
  <2>3. CASE ShutdownReturns
    BY <2>3 DEF ShutdownReturns
  <2>4. CASE Exit
    BY <2>4 DEF Exit
  <2>. QED
    BY <1>10, <2>1, <2>2, <2>3, <2>4
<1>11. CASE UNCHANGED serviceVars
  BY <1>11 DEF ServiceInv, ServiceTypeOK, WorkerTypeOK, GateInv, DrainInv,
               serviceVars, lifeVars, bgVars
<1>. QED
  BY <1>1, <1>2, <1>3, <1>4, <1>5, <1>6, <1>7, <1>8, <1>9, <1>10, <1>11 DEF LifeNext

-----------------------------------------------------------------------------
(***************************************************************************)
(* The order-status worker                                                 *)
(***************************************************************************)

LEMMA WorkerInitInv == WorkerLifeInit => WorkerInv
BY DEF WorkerLifeInit, WorkerInv, WorkerStateOK, WorkerStages, WorkerDrainInv

\* A failed run exits with the health server closed.
LEMMA WorkerFailInv ==
    ASSUME WorkerInv, WorkerFail
    PROVE  WorkerInv'
BY DEF WorkerFail, WorkerInv, WorkerStateOK, WorkerStages, WorkerDrainInv

\* A start-up check of the worker passes or fails.
LEMMA WorkerConnectInv ==
    ASSUME WorkerInv, NEW from \in {"db", "grpc"}, NEW to \in {"grpc", "kafka"},
           WorkerConnect(from, to) \/ ConnectKafka
    PROVE  WorkerInv'
<1>1. CASE WorkerFail
  BY <1>1, WorkerFailInv
<1>2. CASE ~WorkerFail
  BY <1>2 DEF WorkerConnect, ConnectKafka, WorkerInv, WorkerStateOK, WorkerStages,
              WorkerDrainInv
<1>. QED
  BY <1>1, <1>2

\* Each step of run and of the consumer goroutine preserves WorkerInv.
LEMMA WorkerStep == WorkerInv /\ [WorkerLifeNext]_wlVars => WorkerInv'
<1> SUFFICES ASSUME WorkerInv, [WorkerLifeNext]_wlVars
             PROVE  WorkerInv'
  OBVIOUS
<1>1. CASE WorkerConnect("db", "grpc") \/ WorkerConnect("grpc", "kafka") \/ ConnectKafka
  BY <1>1, WorkerConnectInv
<1>2. CASE ConsumerError \/ HealthServerError
  <2>1. CASE WorkerFail
    BY <2>1, WorkerFailInv
  <2>2. CASE ~WorkerFail
    BY <1>2, <2>2 DEF ConsumerError, HealthServerError, WorkerInv, WorkerStateOK,
                      WorkerStages, WorkerDrainInv
  <2>. QED
    BY <2>1, <2>2
<1> USE DEF WorkerInv, WorkerStateOK, WorkerStages, WorkerDrainInv
<1>3. CASE TakeMessage
  BY <1>3 DEF TakeMessage
<1>4. CASE FinishMessage
  BY <1>4 DEF FinishMessage
<1>5. CASE ConsumerStops
  BY <1>5 DEF ConsumerStops
<1>6. CASE WorkerSignal
  BY <1>6 DEF WorkerSignal
<1>7. CASE BeginDrain
  BY <1>7 DEF BeginDrain
<1>8. CASE StopHealth
  BY <1>8 DEF StopHealth
<1>9. CASE CloseConsumer
  BY <1>9 DEF CloseConsumer
<1>10. CASE UNCHANGED wlVars
  BY <1>10 DEF wlVars
<1>. QED
  BY <1>1, <1>2, <1>3, <1>4, <1>5, <1>6, <1>7, <1>8, <1>9, <1>10 DEF WorkerLifeNext

-----------------------------------------------------------------------------
(***************************************************************************)
(* The deployment                                                          *)
(***************************************************************************)

\* A step of either process preserves both invariants: they share no
\* variable.
LEMMA DeploymentStep ==
    ServiceInv /\ WorkerInv /\ [DeploymentNext]_deploymentVars
        => (ServiceInv /\ WorkerInv)'
<1> SUFFICES ASSUME ServiceInv, WorkerInv, [DeploymentNext]_deploymentVars
             PROVE  (ServiceInv /\ WorkerInv)'
  OBVIOUS
<1>1. CASE LifeNext /\ UNCHANGED wlVars
  <2>1. ServiceInv'
    BY <1>1, ServiceStep
  <2>2. WorkerInv'
    BY <1>1 DEF WorkerInv, WorkerStateOK, WorkerDrainInv, wlVars
  <2>. QED
    BY <2>1, <2>2
<1>2. CASE WorkerLifeNext /\ UNCHANGED serviceVars
  <2>1. ServiceInv'
    BY <1>2, ServiceStep
  <2>2. WorkerInv'
    BY <1>2, WorkerStep
  <2>. QED
    BY <2>1, <2>2
<1>3. CASE UNCHANGED deploymentVars
  BY <1>3, ServiceStep, WorkerStep DEF deploymentVars, wlVars
<1>. QED
  BY <1>1, <1>2, <1>3 DEF DeploymentNext

\* The inductive invariant of both processes holds in every state of the
\* deployment, whatever the signals, start-up failures and server errors.
THEOREM DeploymentInvHolds == DeploymentSpec => [](ServiceInv /\ WorkerInv)
<1>1. DeploymentInit => ServiceInv /\ WorkerInv
  BY ServiceInitInv, WorkerInitInv DEF DeploymentInit
<1>. QED
  BY <1>1, DeploymentStep, PTL DEF DeploymentSpec

\* The background worker's state keeps its type: a warm-up panic is
\* recovered into a failure, and a task runs at most MaxRuns times.
THEOREM WorkerTypeCorrect == DeploymentSpec => []WorkerTypeOK
<1>1. ServiceInv /\ WorkerInv => WorkerTypeOK
  BY DEF ServiceInv, ServiceTypeOK
<1>. QED
  BY <1>1, DeploymentInvHolds, PTL

\* Spec section 4.7, of New and runBackgroundTask: no task loop starts and
\* no periodic run happens unless the warm-up of every task succeeded.
THEOREM WarmupGateHolds == DeploymentSpec => []WarmupGate
<1>1. ServiceInv /\ WorkerInv => WarmupGate
  BY DEF ServiceInv, GateInv, WarmupGate
<1>. QED
  BY <1>1, DeploymentInvHolds, PTL

\* The service's run returns nil only after the health check reported 503,
\* server.Shutdown closed the listener and ongoingCtx was cancelled.
THEOREM ExitAfterDrainHolds == DeploymentSpec => []ExitAfterDrain
<1>1. ServiceInv /\ WorkerInv => ExitAfterDrain
  BY DEF ServiceInv, ServiceTypeOK, DrainInv, ExitAfterDrain, HealthStatus
<1>. QED
  BY <1>1, DeploymentInvHolds, PTL

\* The worker's run returns nil only after readiness went to 503 and the
\* health server closed, with no message in hand and the consumer closed.
THEOREM WorkerExitAfterDrainHolds == DeploymentSpec => []WorkerExitAfterDrain
<1>1. ServiceInv /\ WorkerInv => WorkerExitAfterDrain
  BY DEF WorkerInv, WorkerStateOK, WorkerDrainInv, WorkerExitAfterDrain, WorkerHealth
<1>. QED
  BY <1>1, DeploymentInvHolds, PTL

-----------------------------------------------------------------------------
(***************************************************************************)
(* The order of the shutdown steps                                         *)
(***************************************************************************)

\* The step property ShutdownOrder states of one step of the service.
ShutdownOrderStep ==
    ~ongoingDone /\ ongoingDone' =>
        \/ exitErr'
        \/ stage = "closing" /\ shuttingDown /\ ~listening

\* Only two steps of the service cancel ongoingCtx: a failing run (its
\* deferred stopOngoingGracefully) and the return of server.Shutdown, which
\* happens at the closing stage, where DrainInv says the service is not
\* ready and no longer listens.  Every other step leaves ongoingCtx alone.
LEMMA ServiceOrderStep ==
    ASSUME ServiceInv, [LifeNext]_serviceVars
    PROVE  ShutdownOrderStep
<1> USE DEF ShutdownOrderStep
<1>1. CASE Fail
  BY <1>1 DEF Fail
<1>2. CASE ~Fail /\ (ConnectDatabase \/ ConnectOrderService)
  BY <1>2 DEF ConnectDatabase, ConnectOrderService, StartupStep
<1>3. CASE ~Fail /\ StartServer
  BY <1>3 DEF StartServer
<1>4. CASE ServerError
  BY <1>4 DEF ServerError, Fail
<1>5. CASE ShutdownReturns
  BY <1>5 DEF ShutdownReturns, ServiceInv, DrainInv
<1>6. CASE \/ Background(\E t \in Tasks : WarmupDo(t))
           \/ Background(WarmupWait)
           \/ \E t \in Tasks : Background(StartTask(t) \/ TickerFire(t) \/ StopTask(t))
           \/ Signal
  BY <1>6 DEF Background, Signal, lifeVars
<1>7. CASE Accept \/ Middleware \/ Complete \/ BeginShutdown \/ ServerShutdown \/ Exit
  BY <1>7 DEF Accept, Middleware, Complete, BeginShutdown, ServerShutdown, Exit
<1>8. CASE UNCHANGED serviceVars
  BY <1>8 DEF serviceVars, lifeVars
<1>. QED
  BY <1>1, <1>2, <1>3, <1>4, <1>5, <1>6, <1>7, <1>8 DEF LifeNext

\* run of the HTTP service cancels the requests' base context, on a clean
\* shutdown, only after isShuttingDown was set and server.Shutdown closed
\* the listener and returned: in-flight handlers keep their context through
\* the readiness drain delay and the Shutdown grace period.
THEOREM ShutdownOrderHolds == DeploymentSpec => ShutdownOrder
<1>1. ServiceInv /\ WorkerInv /\ [DeploymentNext]_deploymentVars
        => [ShutdownOrderStep]_serviceVars
  <2> SUFFICES ASSUME ServiceInv, [DeploymentNext]_deploymentVars
               PROVE  [ShutdownOrderStep]_serviceVars
    OBVIOUS
  <2>1. CASE LifeNext /\ UNCHANGED wlVars
    BY <2>1, ServiceOrderStep
  <2>2. CASE UNCHANGED serviceVars
    BY <2>2
  <2>. QED
    BY <2>1, <2>2 DEF DeploymentNext, deploymentVars
<1>. QED
  BY <1>1, DeploymentInvHolds, PTL DEF DeploymentSpec, ShutdownOrder, ShutdownOrderStep

=============================================================================
