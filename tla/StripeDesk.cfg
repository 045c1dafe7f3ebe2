\* Two admin requests at a time, payments set by hand, one order.
SPECIFICATION FairSpec
CONSTANTS
    o1 = o1
    o2 = o2
    u1 = u1
    v1 = v1
    k1 = k1
    Orders = {o1}
    Customers = {u1}
    Owner <- MCOwner
    Variants = {v1}
    Baskets <- MCOneLine
    InitialStock <- MCStockOfTwo
    Codes = {k1}
    NoCode = NoCode
    MaxRedemptions <- MCMaxRedemptions
    OneUse = {k1}
    Admins = {a1, a2}
    ManualPayments = {"PENDING", "PAID"}
    RequestBound = 3
    FailureBound = 1
    RestartBound = 1
    DropBound = 1
INVARIANTS
    RedemptionsBacked
    ConfirmationHasPayment
PROPERTIES
    ImplementsPromise
    ChargedIsConfirmed
CHECK_DEADLOCK FALSE
