SPECIFICATION Spec
CONSTANTS
    Orders = {o1}
    Products = {p1}
    Handlers = {h1, h2}
    Reapers = {r1}
    InitialStock <- MCStock
    StaffEdits <- Forward
    MaxQty = 1
    MaxIntents = 2
    MaxTries = 1
    MaxFaults = 0
SYMMETRY WorkerSymmetry
INVARIANTS
    PaidIsCharged
    RefundedIsReversed
    RowsTellTheTruth
    ConfirmOnlyPaid
CHECK_DEADLOCK FALSE
