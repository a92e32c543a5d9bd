CONSTANTS
    o1 = o1
    o2 = o2
    Couriers <- MCOneCourier
    Orders <- MCOneOrder
    Transport <- MCOneTransport
    TickMinutes <- MCTickMinutes
    MaxClock <- MCMaxClock
    MaxEvents <- MCTwoEvents
    MaxCrashes <- MCMaxCrashes
    AutoCommit = TRUE
SPECIFICATION DispatchSpec
INVARIANTS
    AckOnlyTerminal
