SPECIFICATION FairSpec
CONSTANTS
    Orders = {o1}
    Products = {p1}
    Handlers = {h1, h2}
    Reapers = {r1}
    InitialStock <- MCStock
    StaffEdits <- Forward
    MaxQty = 1
    MaxIntents = 1
    MaxTries = 1
    MaxFaults = 1
PROPERTIES
    CheckoutResolves
CHECK_DEADLOCK FALSE
