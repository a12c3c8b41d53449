CONSTANTS
    s1 = s1
    s2 = s2
    SequenceNames = {s1}
    MaxExpectations = 3
    MaxTimes = 1
    MaxFrames = 4
SPECIFICATION Spec
INVARIANTS
    TypeOK
    GreenTestKeptPromises
    SequenceErrorNeedsCaughtFailure
PROPERTIES
    FirstFailureIsReported
CHECK_DEADLOCK FALSE
