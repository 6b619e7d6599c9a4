SPECIFICATION Spec
CONSTANTS
    Orders = {o1, o2}
    Products = {p1}
    Handlers = {h1}
    Reapers = {r1}
    InitialStock <- MCStock
    StaffEdits <- Forward
    MaxQty = 2
    MaxIntents = 1
    MaxTries = 1
    MaxFaults = 0
INVARIANTS
    TypeOK
    StockConserved
CHECK_DEADLOCK FALSE
PROPERTIES
    ImplementsLedger
