CONSTANTS
    o1 = o1
    o2 = o2
    o3 = o3
    Couriers <- MCCouriers
    Orders <- MCOrders
    Transport <- MCTransport
    TickMinutes <- MCTickMinutes
    MaxClock <- MCMaxClock
SPECIFICATION Spec
PROPERTIES
    ReapOnlyFullyExpired
