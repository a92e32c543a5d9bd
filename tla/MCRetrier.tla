----------------------------- MODULE MCRetrier -----------------------------
(***************************************************************************)
(* The order gateway's retrier for TLC, in units of 50 ms: initial         *)
(* interval 100 ms, maximum interval 2 s, budget 1 s, randomization 0.5,   *)
(* multiplier 2 (gateway/grpc/order/gateway.go).  A gRPC call answers in   *)
(* 50 ms or 300 ms, and the message-processing timeout is 1.2 s, so a     *)
(* call can run out of budget, be cut by the deadline, or be cancelled.   *)
(***************************************************************************)
EXTENDS Retrier, TLC

GatewayInitialInterval == 2
GatewayMaxInterval == 40
GatewayMaxElapsedTime == 20
GatewayRandomizationPct == 50
GatewayMultiplier == 2
GatewayCallTimes == {1, 6}
GatewayCtxTimeout == 24

\* The answers of the order service: success, the retryable codes, and
\* the permanent ones.
GatewayLiveCodes == {"OK", "Unavailable", "ResourceExhausted", "NotFound"}
=============================================================================
