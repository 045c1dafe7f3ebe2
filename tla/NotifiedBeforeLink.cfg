\* One order and one notification handler, nothing fails.
SPECIFICATION Spec
CONSTANTS
    o1 = o1
    u1 = u1
    v1 = v1
    k1 = k1
    Orders = {o1}
    Customers = {u1}
    Owner <- MCOwner
    Variants = {v1}
    Baskets <- MCTwoLines
    InitialStock <- MCStockOfThree
    Codes = {}
    NoCode = NoCode
    MaxRedemptions <- MCNoCaps
    OneUse = {}
    Admins = {}
    ManualPayments = {}
    RequestBound = 0
    Hooks = {h1}
    FaultBound = 0
PROPERTY
    NotifiedPaymentIsLinked
CHECK_DEADLOCK FALSE
