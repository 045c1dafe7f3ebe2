\* One admin request at a time, no payment set by hand.
SPECIFICATION Spec
SYMMETRY MCSymmetry
CONSTANTS
    o1 = o1
    o2 = o2
    u1 = u1
    v1 = v1
    k1 = k1
    Orders = {o1, o2}
    Customers = {u1}
    Owner <- MCOwner
    Variants = {v1}
    Baskets <- MCTwoLines
    InitialStock <- MCStockOfThree
    Codes = {k1}
    NoCode = NoCode
    MaxRedemptions <- MCMaxRedemptions
    OneUse = {}
    Admins = {a1}
    ManualPayments = {}
    RequestBound = 2
    FailureBound = 1
    RestartBound = 1
    DropBound = 0
INVARIANTS
    RestoredOnceAfterPayment
    RedemptionLedger
    StockLedger
PROPERTIES
    StatusFollowsTransitions
CHECK_DEADLOCK FALSE
