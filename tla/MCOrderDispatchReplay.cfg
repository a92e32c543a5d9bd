CONSTANTS
    o1 = o1
    o2 = o2
    Couriers <- MCOneCourier
    Orders <- MCOrders
    Transport <- MCOneTransport
    TickMinutes <- MCTickMinutes
    MaxClock <- MCMaxClock
    MaxEvents <- MCFewEvents
    MaxCrashes <- MCMaxCrashes
    AutoCommit = TRUE
SPECIFICATION DispatchSpec
INVARIANTS
    ActiveOrderKeepsCourierBusy
