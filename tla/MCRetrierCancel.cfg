CONSTANTS
    InitialInterval <- GatewayInitialInterval
    MaxInterval <- GatewayMaxInterval
    MaxElapsedTime <- GatewayMaxElapsedTime
    RandomizationPct <- GatewayRandomizationPct
    Multiplier <- GatewayMultiplier
    RetryAll = FALSE
    CallTimes <- GatewayCallTimes
    CtxTimeout <- GatewayCtxTimeout
    LiveCodes <- GatewayLiveCodes
SPECIFICATION RetrierSpec
INVARIANTS
    CancelSurfacesCtx
CHECK_DEADLOCK FALSE
