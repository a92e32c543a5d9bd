CONSTANTS
    InitialInterval <- GatewayInitialInterval
    MaxInterval <- GatewayMaxInterval
    MaxElapsedTime <- GatewayMaxElapsedTime
    RandomizationPct <- GatewayRandomizationPct
    Multiplier <- GatewayMultiplier
    RetryAll = FALSE
    CallTimes <- GatewayCallTimes
    CtxTimeout <- GatewayCtxTimeout
    LiveCodes <- GatewayLiveCodes
SPECIFICATION RetrierSpec
INVARIANTS
    RetrierTypeOK
PROPERTIES
    RetryContract
CHECK_DEADLOCK FALSE
