CONSTANTS
    t1 = t1
    t2 = t2
    Tasks <- MCTasks
    Durations <- MCDurations
    MaxRuns <- MCMaxRuns
    MaxRequests <- MCMaxRequests
    MaxMessages <- MCMaxMessages
SPECIFICATION DeploymentSpec
INVARIANTS
    WorkerTypeOK
    WarmupGate
    ExitAfterDrain
    WorkerExitAfterDrain
PROPERTIES
    EveryTaskRuns
    SignalLeadsToExit
    WorkerSignalLeadsToExit
    ShutdownOrder
CHECK_DEADLOCK FALSE
