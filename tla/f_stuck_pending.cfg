SPECIFICATION FairSpec
CONSTANTS
    Orders = {o1}
    Products = {p1}
    Handlers = {h1}
    Reapers = {r1}
    InitialStock <- MCStock
    StaffEdits <- NoEdits
    MaxQty = 1
    MaxIntents = 2
    MaxTries = 1
    MaxFaults = 0
PROPERTIES
    CheckoutResolves
CHECK_DEADLOCK FALSE
