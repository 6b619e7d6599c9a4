SPECIFICATION FairSpec
CONSTANTS
    Orders = {o1, o2}
    Products = {p1, p2}
    Carts = {c1}
    Prices = {5, 7}
    InitialStock <- LastUnit
    MaxQty = 1
INVARIANTS
    TypeOK
PROPERTIES
    ImplementsLedger
    
    CheckoutEnds
CHECK_DEADLOCK FALSE
