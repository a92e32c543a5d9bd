--------------------------- MODULE WorkerLifecycle ---------------------------
(***************************************************************************)
(* The life of the order-status worker process,                           *)
(* cmd/worker-order-status-changed/main.go's run: the start-up checks of   *)
(* PostgreSQL and of the order service, the health-check server, the      *)
(* Kafka consumer (kafka.NewConsumer with its pingKafka check), consuming, *)
(* and the shutdown on SIGTERM or SIGINT.                                  *)
(*                                                                         *)
(* The consumer runs Consume in a loop under ongoingCtx, not under the    *)
(* signal context: it keeps consuming through the readiness drain and the  *)
(* health server's shutdown, and stops once ongoingCtx is cancelled and    *)
(* the group is closed.  One message at a time is inside ConsumeClaim.     *)
(* Start-up checks return as in ServiceLifecycle, by the RetryCall         *)
(* contract.  Variables shared in name with ServiceLifecycle carry a w,    *)
(* so that the two processes can be checked side by side.                  *)
(***************************************************************************)
EXTENDS Naturals

CONSTANT MaxMessages    \* bound on the messages the consumer takes

ASSUME MaxMessagesAssumption == MaxMessages \in Nat

VARIABLES
    wStage,         \* where run is: "db", "grpc", "kafka", "running",
                    \* "draining", "closing" or "exited"
    wSignalled,     \* the signal context is done
    wShuttingDown,  \* isShuttingDown
    healthUp,       \* the health-check server accepts connections
    wOngoingDone,   \* ongoingCtx, the consumer's context, is done
    consumer,       \* the consumer goroutine: "none", "consuming",
                    \* "failed" or "stopped"
    handling,       \* a message is being processed in ConsumeClaim
    taken,          \* messages taken so far
    wExitErr        \* run returned an error

wlVars == <<wStage, wSignalled, wShuttingDown, healthUp, wOngoingDone,
            consumer, handling, taken, wExitErr>>

-----------------------------------------------------------------------------

\* What a start-up check may return, by the retry contract.
CheckResults == {"ok", "error"} \cup (IF wSignalled THEN {"ctx"} ELSE {})

\* healthcheck_head: 503 once the worker is shutting down, else 204.
WorkerHealth == IF wShuttingDown THEN 503 ELSE 204

\* run returns the error: the process ends; a consumer goroutine still
\* running ends with it.
WorkerFail ==
    /\ wStage' = "exited"
    /\ wExitErr' = TRUE
    /\ healthUp' = FALSE
    /\ wOngoingDone' = TRUE
    /\ UNCHANGED <<wSignalled, wShuttingDown, consumer, handling, taken>>

WorkerLifeInit ==
    /\ wStage = "db"
    /\ wSignalled = FALSE
    /\ wShuttingDown = FALSE
    /\ healthUp = FALSE
    /\ wOngoingDone = FALSE
    /\ consumer = "none"
    /\ handling = FALSE
    /\ taken = 0
    /\ wExitErr = FALSE

\* NewConnPool, then NewConnClient: each returns at once on an error.
WorkerConnect(from, to) ==
    /\ wStage = from
    /\ \E out \in CheckResults :
          \/ /\ out = "ok"
             /\ wStage' = to
             \* InitializeKafkaWorkerApp, then the health server goroutine.
             /\ healthUp' = (to = "kafka")
             /\ UNCHANGED <<wSignalled, wShuttingDown, wOngoingDone, consumer, handling, taken, wExitErr>>
          \/ out # "ok" /\ WorkerFail

\* kafka.NewConsumer: the group, then pingKafka (Topics) retrying every
\* error; on success the consumer goroutine runs Start(ongoingCtx).
ConnectKafka ==
    /\ wStage = "kafka"
    /\ \E out \in CheckResults :
          \/ /\ out = "ok"
             /\ wStage' = "running"
             /\ consumer' = "consuming"
             /\ UNCHANGED <<wSignalled, wShuttingDown, healthUp, wOngoingDone, handling, taken, wExitErr>>
          \/ out # "ok" /\ WorkerFail

\* ConsumeClaim takes a message from claim.Messages().
TakeMessage ==
    /\ consumer = "consuming"
    /\ ~handling
    /\ taken < MaxMessages
    /\ handling' = TRUE
    /\ taken' = taken + 1
    /\ UNCHANGED <<wStage, wSignalled, wShuttingDown, healthUp, wOngoingDone, consumer, wExitErr>>

\* messageProcessing returns, within the handler's process timeout.
FinishMessage ==
    /\ handling
    /\ handling' = FALSE
    /\ UNCHANGED <<wStage, wSignalled, wShuttingDown, healthUp, wOngoingDone, consumer, taken, wExitErr>>

\* Consume returns an error (the brokers are gone): Start returns it and
\* the goroutine sends it on the buffered consumerErr.  The select of run
\* takes it while it waits, and nobody reads it later.
ConsumerError ==
    /\ consumer = "consuming"
    /\ ~handling
    /\ ~wOngoingDone
    /\ \/ wStage = "running" /\ WorkerFail
       \/ wStage # "running" /\ consumer' = "failed"
          /\ UNCHANGED <<wStage, wSignalled, wShuttingDown, healthUp, wOngoingDone, handling, taken, wExitErr>>

\* The health server's ListenAndServe fails; run's select takes the error.
HealthServerError ==
    /\ wStage = "running"
    /\ WorkerFail

\* Start sees ctx.Err() once ongoingCtx is done and its session ended.
ConsumerStops ==
    /\ consumer = "consuming"
    /\ wOngoingDone
    /\ ~handling
    /\ consumer' = "stopped"
    /\ UNCHANGED <<wStage, wSignalled, wShuttingDown, healthUp, wOngoingDone, handling, taken, wExitErr>>

\* SIGTERM or SIGINT.
WorkerSignal ==
    /\ ~wSignalled
    /\ wStage # "exited"
    /\ wSignalled' = TRUE
    /\ UNCHANGED <<wStage, wShuttingDown, healthUp, wOngoingDone, consumer, handling, taken, wExitErr>>

\* Bug variant: the select of run without its ctx.Done() case.
BeginDrainNever == FALSE

\* The select takes ctx.Done(): stop(), isShuttingDown.Store(true), and the
\* readiness drain delay, while the consumer goes on.
BeginDrain ==
    /\ wStage = "running"
    /\ wSignalled
    /\ wStage' = "draining"
    /\ wShuttingDown' = TRUE
    /\ UNCHANGED <<wSignalled, healthUp, wOngoingDone, consumer, handling, taken, wExitErr>>

\* healthServer.Shutdown, with the hard period after a timeout, then
\* stopOngoingGracefully.
StopHealth ==
    /\ wStage = "draining"
    /\ wStage' = "closing"
    /\ healthUp' = FALSE
    /\ wOngoingDone' = TRUE
    /\ UNCHANGED <<wSignalled, wShuttingDown, consumer, handling, taken, wExitErr>>

\* Bug variant: the process ending while a message is still in hand.
CloseConsumerNoWait ==
    /\ wStage = "closing"
    /\ wStage' = "exited"
    /\ consumer' = IF consumer = "consuming" THEN "stopped" ELSE consumer
    /\ UNCHANGED <<wSignalled, wShuttingDown, healthUp, wOngoingDone, handling, taken, wExitErr>>

\* consumer.Close: the group's Close ends the session and waits for
\* ConsumeClaim to return; then run returns nil.
CloseConsumer ==
    /\ wStage = "closing"
    /\ ~handling
    /\ wStage' = "exited"
    /\ consumer' = IF consumer = "consuming" THEN "stopped" ELSE consumer
    /\ UNCHANGED <<wSignalled, wShuttingDown, healthUp, wOngoingDone, handling, taken, wExitErr>>

WorkerLifeNext ==
    \/ WorkerConnect("db", "grpc")
    \/ WorkerConnect("grpc", "kafka")
    \/ ConnectKafka
    \/ TakeMessage
    \/ FinishMessage
    \/ ConsumerError
    \/ HealthServerError
    \/ ConsumerStops
    \/ WorkerSignal
    \/ BeginDrain
    \/ StopHealth
    \/ CloseConsumer

(***************************************************************************)
(* run's steps are scheduled, the start-up checks end (bounded budget),   *)
(* and a message is processed within its timeout (ProcessTimeout bounds   *)
(* the handler's context).  No signal, message or failure need come.      *)
(***************************************************************************)
WorkerLifeFairness ==
    /\ WF_wlVars(WorkerConnect("db", "grpc")) /\ WF_wlVars(WorkerConnect("grpc", "kafka"))
    /\ WF_wlVars(ConnectKafka) /\ WF_wlVars(FinishMessage)
    /\ WF_wlVars(ConsumerStops) /\ WF_wlVars(BeginDrain)
    /\ WF_wlVars(StopHealth) /\ WF_wlVars(CloseConsumer)

WorkerLifeSpec == WorkerLifeInit /\ [][WorkerLifeNext]_wlVars /\ WorkerLifeFairness

-----------------------------------------------------------------------------
(***************************************************************************)
(* Properties                                                              *)
(***************************************************************************)

\* A signal ends the worker process.
WorkerSignalLeadsToExit == wSignalled ~> wStage = "exited"

\* A clean exit of the worker comes after readiness went to 503 and the
\* health server closed, and never with a message half processed or the
\* consumer still consuming.
WorkerExitAfterDrain ==
    (wStage = "exited" /\ ~wExitErr) =>
        /\ WorkerHealth = 503 /\ ~healthUp
        /\ ~handling /\ consumer # "consuming"

=============================================================================
