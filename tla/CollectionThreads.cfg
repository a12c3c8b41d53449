CONSTANTS
    t1 = t1
    t2 = t2
    Threads = {t1, t2}
    NoThread = NoThread
    Shared = FALSE
    MaxExpectations = 2
    MaxTimes = 2
    MaxDepth = 2
    MaxCalls = 4
SPECIFICATION FairSpec
INVARIANTS
    TypeOK
    AssertionsHold
    CountsAreCurrent
PROPERTIES
    CollectionStableDuringWalk
    OrderedSpec
    EveryCallEnds
CHECK_DEADLOCK FALSE
