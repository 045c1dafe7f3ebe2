\* Two paid orders for two units each, three units in stock.
SPECIFICATION Spec
CONSTANTS
    o1 = o1
    o2 = o2
    u1 = u1
    v1 = v1
    k1 = k1
    Orders = {o1, o2}
    Customers = {u1}
    Owner <- MCOwner
    Variants = {v1}
    Baskets <- MCOneLine
    InitialStock <- MCStockOfThree
    Codes = {k1}
    NoCode = NoCode
    MaxRedemptions <- MCMaxRedemptions
    OneUse = {}
    Admins = {}
    ManualPayments = {}
    RequestBound = 0
    FailureBound = 0
    RestartBound = 0
    DropBound = 0
INVARIANT StockNeverNegative
CHECK_DEADLOCK FALSE
