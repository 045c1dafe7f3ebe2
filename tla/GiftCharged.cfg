\* One customer with a subscription of their own and one from a gift.
SPECIFICATION GiftsSpec
CONSTANTS
    s1 = s1
    s2 = s2
    p1 = p1
    p2 = p2
    c1 = c1
    g1 = g1
    Subs = {s1, s2}
    Pairs = {p1, p2}
    PairOf <- MCOwnPair
    Frequencies = {1}
    Handlers = {h1}
    Runs = {w1}
    NoSub = NoSub
    BatchSize = 1
    DayBound = 2
    RequestBound = 0
    FaultBound = 0
    Codes = {g1}
    Customers = {c1}
    CustomerOf <- MCOnePerson
    GiftPairs <- MCGiftPairs
    Shipments <- MCShipments
    Redeemers = {d1}
INVARIANT GiftShipmentsIncluded
CHECK_DEADLOCK FALSE
