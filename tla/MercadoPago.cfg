\* One order, two notifications handled at once, one admin request, one fault.
SPECIFICATION FairSpec
CONSTANTS
    o1 = o1
    u1 = u1
    v1 = v1
    k1 = k1
    Orders = {o1}
    Customers = {u1}
    Owner <- MCOwner
    Variants = {v1}
    Baskets <- MCTwoLines
    InitialStock <- MCStockOfThree
    Codes = {}
    NoCode = NoCode
    MaxRedemptions <- MCNoCaps
    OneUse = {}
    Admins = {a1}
    ManualPayments = {}
    RequestBound = 1
    Hooks = {h1, h2}
    FaultBound = 1
INVARIANTS
    TypeOK
    PaidIsAccountedOnce
PROPERTIES
    KeepsPromiseSafety
    LinkedPaymentIsReconciled
CHECK_DEADLOCK FALSE
