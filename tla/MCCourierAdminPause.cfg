CONSTANTS
    o1 = o1
    p1 = p1
    p2 = p2
    Couriers <- MCCouriers
    Orders <- MCOrders
    Phones <- MCPhones
    TickMinutes <- MCTickMinutes
    MaxClock <- MCMaxClock
SPECIFICATION AdminSpec
PROPERTIES
    PauseRespected
