\* One request in flight and one run of the job.
SPECIFICATION Spec
CONSTANTS
    p1 = p1
    Subs = {s1}
    Pairs = {p1}
    PairOf <- MCSamePair
    Frequencies = {1}
    Handlers = {h1}
    Runs = {w1}
    NoSub = NoSub
    BatchSize = 1
    DayBound = 1
    RequestBound = 1
    FaultBound = 0
PROPERTY CancelledIsTerminal
CHECK_DEADLOCK FALSE
