\* Two subscriptions of one customer to one variant, own or from a gift, one request
\* and one redemption in flight, one run of the job, a batch smaller than the number of
\* due subscriptions.
SPECIFICATION GiftsSpec
CONSTANTS
    s1 = s1
    s2 = s2
    p1 = p1
    p2 = p2
    c1 = c1
    g1 = g1
    Subs = {s1, s2}
    Pairs = {p1}
    PairOf <- MCSamePair
    Frequencies = {1, 2}
    Handlers = {h1}
    Runs = {w1}
    NoSub = NoSub
    BatchSize = 1
    DayBound = 2
    RequestBound = 2
    FaultBound = 1
    Codes = {g1}
    Customers = {c1}
    CustomerOf <- MCOnePerson
    GiftPairs <- MCGiftPairs
    Shipments <- MCShipments
    Redeemers = {d1}
SYMMETRY MCSymmetry
INVARIANTS
    GiftsTypeOK
    OneActivePerPair
    ChargesStopAfterCancel
    ChargesFollowSchedule
CHECK_DEADLOCK FALSE
