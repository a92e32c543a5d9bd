---------------------------- MODULE MCLifecycle ----------------------------
(***************************************************************************)
(* The deployment of Deployment for TLC.                                   *)
(*                                                                         *)
(* Two background tasks with intervals -1 and 1 (a negative interval      *)
(* passes the configuration check), two periodic runs each; two requests, *)
(* so that one may hang while another meets the middleware after          *)
(* ongoingCtx is cancelled; two messages for the consumer.                *)
(***************************************************************************)
EXTENDS Deployment, TLC

CONSTANTS t1, t2

MCTasks == {t1, t2}
MCDurations == {-1, 1}
MCMaxRuns == 2
MCMaxRequests == 2
MCMaxMessages == 2

=============================================================================
