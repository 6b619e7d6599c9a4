SPECIFICATION WebhookSpec
CONSTANTS
    Orders = {o1}
    Products = {p1}
    Handlers = {h1, h2}
    Reapers = {r1}
    InitialStock <- MCStock
    StaffEdits <- Forward
    MaxQty = 1
    MaxIntents = 1
    MaxTries = 2
    MaxFaults = 0
INVARIANTS
    ChargeAccounted
PROPERTIES
    OrphanSettled
CHECK_DEADLOCK FALSE
