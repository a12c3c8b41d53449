CONSTANTS
    t1 = t1
    t2 = t2
    Threads = {t1, t2}
    NoThread = NoThread
    Shared = TRUE
    MaxExpectations = 1
    MaxTimes = 1
    MaxDepth = 1
    MaxCalls = 2
SPECIFICATION Spec
INVARIANTS
    AssertionsHold
CHECK_DEADLOCK FALSE
