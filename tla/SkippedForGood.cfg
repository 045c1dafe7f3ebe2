\* One subscription, one request.
SPECIFICATION FairSpec
CONSTANTS
    p1 = p1
    Subs = {s1}
    Pairs = {p1}
    PairOf <- MCSamePair
    Frequencies = {1}
    Handlers = {h1}
    Runs = {w1}
    NoSub = NoSub
    BatchSize = 1
    DayBound = 2
    RequestBound = 1
    FaultBound = 0
PROPERTY SkipEndsAtTheNewDate
CHECK_DEADLOCK FALSE
