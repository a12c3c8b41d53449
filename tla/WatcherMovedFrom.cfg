CONSTANTS
    o1 = o1
    o2 = o2
    o3 = o3
    Objects = {o1, o2}
    MaxMocks = 2
    MaxRelocations = 1
SPECIFICATION Spec
INVARIANTS
    FreelyMovable
CHECK_DEADLOCK FALSE
