--------------------------- MODULE ServiceLifecycle ---------------------------
(***************************************************************************)
(* The life of the HTTP service process, cmd/service/main.go's run: the    *)
(* start-up checks of PostgreSQL (postgres.NewConnPool) and of the order   *)
(* service (grpcclient.NewConnClient), application.InitializeApplication, *)
(* whose background worker warms up and starts its task goroutines, then  *)
(* serving, and the graceful shutdown on SIGTERM or SIGINT.                *)
(*                                                                         *)
(* The background worker is BackgroundWorker: run hands it the signal      *)
(* context, so its variable cancelled is that context being done, by the  *)
(* signal or by the deferred stop() when run returns.                      *)
(*                                                                         *)
(* Each start-up check is ExecuteWithContext with ShouldRetry = nil; by    *)
(* the RetryCall contract (checked of the retrier in Retrier) it returns   *)
(* success, the last error once its budget is spent, or the context error  *)
(* once the signal context is done.  Requests are counted: accepted ones   *)
(* wait for the graceful-shutdown middleware, then run in a handler.      *)
(***************************************************************************)
EXTENDS BackgroundWorker

CONSTANT MaxRequests    \* bound on the requests the server accepts

ASSUME MaxRequestsAssumption == MaxRequests \in Nat

VARIABLES
    stage,          \* where run is: "db", "grpc", "app", "serving",
                    \* "draining", "closing", "exiting" or "exited"
    shuttingDown,   \* isShuttingDown
    listening,      \* the main server accepts connections
    ongoingDone,    \* ongoingCtx, the base context of requests, is done
    queued,         \* accepted requests not yet past the middleware
    running,        \* requests inside a handler
    requests,       \* requests accepted so far
    exitErr         \* run returned an error

lifeVars == <<stage, shuttingDown, listening, ongoingDone, queued, running,
              requests, exitErr>>
bgVars == <<ttl, warmup, initCancelled, phase, loop, runs>>
serviceVars == <<lifeVars, bgVars, cancelled>>

-----------------------------------------------------------------------------

\* What a start-up check may return, by the retry contract: success, the
\* last error after the budget, or the context error after the signal.
PingResults == {"ok", "error"} \cup (IF cancelled THEN {"ctx"} ELSE {})

\* healthcheck_head: 503 once the service is shutting down, else 204.
HealthStatus == IF shuttingDown THEN 503 ELSE 204

\* run returns the error: the deferred stop() cancels the signal context,
\* the deferred closes run and the process ends.
Fail ==
    /\ stage' = "exited"
    /\ exitErr' = TRUE
    /\ listening' = FALSE
    /\ ongoingDone' = TRUE
    /\ cancelled' = TRUE
    /\ UNCHANGED <<shuttingDown, queued, running, requests, bgVars>>

LifeInit ==
    /\ WorkerInit
    /\ stage = "db"
    /\ shuttingDown = FALSE
    /\ listening = FALSE
    /\ ongoingDone = FALSE
    /\ queued = 0
    /\ running = 0
    /\ requests = 0
    /\ exitErr = FALSE

\* One start-up step of run: on an error it returns at once.
StartupStep(from, to) ==
    /\ stage = from
    /\ \E out \in PingResults :
          \/ /\ out = "ok" /\ stage' = to
             /\ UNCHANGED <<exitErr, listening, ongoingDone, shuttingDown, queued,
                            running, requests, bgVars, cancelled>>
          \/ out # "ok" /\ Fail

\* NewConnPool: the pool, then pingDatabase retrying every error.
ConnectDatabase == StartupStep("db", "grpc")

\* NewConnClient: the client, then pingGRPC (GetOrders) retrying every error.
ConnectOrderService == StartupStep("grpc", "app")

\* A step of the background worker, in the process while it lives: the
\* warm-up inside InitializeApplication, then the task goroutines.
Background(A) ==
    /\ stage \notin {"db", "grpc", "exited"}
    /\ A
    /\ UNCHANGED lifeVars

\* InitializeApplication returns once New did: on its error run returns,
\* else the server goroutine runs ListenAndServe.
StartServer ==
    /\ stage = "app"
    /\ \/ /\ phase = "running" /\ stage' = "serving" /\ listening' = TRUE
          /\ UNCHANGED <<exitErr, ongoingDone, shuttingDown, queued, running,
                         requests, bgVars, cancelled>>
       \/ phase = "failed" /\ Fail

\* ListenAndServe fails (a port in use): the select returns the error.
ServerError ==
    /\ stage = "serving"
    /\ Fail

\* A connection is accepted and its request starts, with ongoingCtx as
\* its base context.
Accept ==
    /\ listening
    /\ requests < MaxRequests
    /\ queued' = queued + 1
    /\ requests' = requests + 1
    /\ UNCHANGED <<stage, shuttingDown, listening, ongoingDone, running, exitErr,
                   bgVars, cancelled>>

\* graceful_shutdown.Middleware: 503 once ongoingCtx is done during
\* shutdown, else the request goes on to its handler.
Middleware ==
    /\ queued > 0
    /\ queued' = queued - 1
    /\ running' = IF ongoingDone /\ shuttingDown THEN running ELSE running + 1
    /\ UNCHANGED <<stage, shuttingDown, listening, ongoingDone, requests, exitErr,
                   bgVars, cancelled>>

\* A handler returns.
Complete ==
    /\ running > 0
    /\ running' = running - 1
    /\ UNCHANGED <<stage, shuttingDown, listening, ongoingDone, queued, requests,
                   exitErr, bgVars, cancelled>>

\* SIGTERM or SIGINT: signal.NotifyContext cancels ctx.
Signal ==
    /\ stage # "exited"
    /\ Cancel
    /\ UNCHANGED lifeVars

\* Bug variant: stopOngoingGracefully called with stop(), before the drain.
BeginShutdownStopsOngoing ==
    /\ stage = "serving"
    /\ cancelled
    /\ stage' = "draining"
    /\ shuttingDown' = TRUE
    /\ ongoingDone' = TRUE
    /\ UNCHANGED <<listening, queued, running, requests, exitErr, bgVars, cancelled>>

\* The select takes ctx.Done(): stop(), isShuttingDown.Store(true), and the
\* readiness drain delay begins.
BeginShutdown ==
    /\ stage = "serving"
    /\ cancelled
    /\ stage' = "draining"
    /\ shuttingDown' = TRUE
    /\ UNCHANGED <<listening, ongoingDone, queued, running, requests, exitErr,
                   bgVars, cancelled>>

\* Bug variant: run returning without server.Shutdown.
ServerShutdownSkipped ==
    /\ stage = "draining"
    /\ stage' = "exiting"
    /\ ongoingDone' = TRUE
    /\ UNCHANGED <<shuttingDown, listening, queued, running, requests, exitErr,
                   bgVars, cancelled>>

\* After the drain delay, server.Shutdown closes the listeners.
ServerShutdown ==
    /\ stage = "draining"
    /\ stage' = "closing"
    /\ listening' = FALSE
    /\ UNCHANGED <<shuttingDown, ongoingDone, queued, running, requests, exitErr,
                   bgVars, cancelled>>

\* Bug variant: Shutdown with a context that never times out.
ShutdownReturnsNoTimeout ==
    /\ stage = "closing"
    /\ queued + running = 0
    /\ stage' = "exiting"
    /\ ongoingDone' = TRUE
    /\ UNCHANGED <<shuttingDown, listening, queued, running, requests, exitErr,
                   bgVars, cancelled>>

\* Shutdown returns when no request is left, or when shutdownCtx times out
\* with some still running; then stopOngoingGracefully cancels the
\* requests' base context.
ShutdownReturns ==
    /\ stage = "closing"
    /\ stage' = "exiting"
    /\ ongoingDone' = TRUE
    /\ UNCHANGED <<shuttingDown, listening, queued, running, requests, exitErr,
                   bgVars, cancelled>>

\* After the hard period, if any, run returns nil and the process ends;
\* a request or a task goroutine still running ends with it.
Exit ==
    /\ stage = "exiting"
    /\ stage' = "exited"
    /\ UNCHANGED <<shuttingDown, listening, ongoingDone, queued, running, requests,
                   exitErr, bgVars, cancelled>>

LifeNext ==
    \/ ConnectDatabase
    \/ ConnectOrderService
    \/ Background(\E t \in Tasks : WarmupDo(t))
    \/ Background(WarmupWait)
    \/ \E t \in Tasks : Background(StartTask(t) \/ TickerFire(t) \/ StopTask(t))
    \/ StartServer
    \/ ServerError
    \/ Accept
    \/ Middleware
    \/ Complete
    \/ Signal
    \/ BeginShutdown
    \/ ServerShutdown
    \/ ShutdownReturns
    \/ Exit

(***************************************************************************)
(* run's own steps, the middleware's goroutine and every goroutine of the  *)
(* background worker are scheduled, and a ticker keeps firing while        *)
(* nobody stops it; the start-up checks end (their budget is bounded);     *)
(* Shutdown ends because shutdownCtx times out.  A handler may hang, and   *)
(* no signal need come.                                                    *)
(***************************************************************************)
LifeFairness ==
    /\ WF_serviceVars(ConnectDatabase) /\ WF_serviceVars(ConnectOrderService)
    /\ \A t \in Tasks : /\ WF_serviceVars(Background(WarmupDo(t)))
                        /\ WF_serviceVars(Background(StartTask(t)))
                        /\ WF_serviceVars(Background(TickerFire(t)))
                        /\ WF_serviceVars(Background(StopTask(t)))
    /\ WF_serviceVars(Background(WarmupWait))
    /\ WF_serviceVars(StartServer) /\ WF_serviceVars(Middleware)
    /\ WF_serviceVars(BeginShutdown) /\ WF_serviceVars(ServerShutdown)
    /\ WF_serviceVars(ShutdownReturns) /\ WF_serviceVars(Exit)

LifeSpec == LifeInit /\ [][LifeNext]_serviceVars /\ LifeFairness

-----------------------------------------------------------------------------
(***************************************************************************)
(* Properties                                                              *)
(***************************************************************************)

\* A signal ends the process, even with a handler that never returns.
SignalLeadsToExit == cancelled ~> stage = "exited"

\* A clean exit comes only after the health check reported not ready, the
\* listener closed and the remaining requests' contexts were cancelled.
ExitAfterDrain ==
    (stage = "exited" /\ ~exitErr) => (HealthStatus = 503 /\ ~listening /\ ongoingDone)

\* The shutdown steps of run come in the code's order: the requests' base
\* context ongoingCtx is cancelled by a clean shutdown only after the
\* readiness flag was set and server.Shutdown closed the listener and
\* returned (stopOngoingGracefully after Shutdown); before that, only run
\* failing cancels it.  In-flight handlers keep their context through the
\* drain delay and the Shutdown grace period.
ShutdownOrder ==
    [][~ongoingDone /\ ongoingDone' =>
          \/ exitErr'
          \/ stage = "closing" /\ shuttingDown /\ ~listening]_serviceVars

=============================================================================
