CONSTANTS
    s1 = s1
    s2 = s2
    SequenceNames = {s1}
    MaxExpectations = 2
    MaxTimes = 1
    MaxFrames = 4
SPECIFICATION Spec
INVARIANTS
    SequenceErrorThrows
CHECK_DEADLOCK FALSE
