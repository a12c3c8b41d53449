CONSTANTS
    o1 = o1
    o2 = o2
    o3 = o3
    Objects = {o1, o2, o3}
    MaxMocks = 3
    MaxRelocations = 1
SYMMETRY Places
SPECIFICATION Spec
INVARIANTS
    TypeOK
    FlagFollowsMock
    PendingExpectationIsCarried
PROPERTIES
    DeathIsNoticed
CHECK_DEADLOCK FALSE
