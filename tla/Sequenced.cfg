CONSTANTS
    lazy1 = lazy1
    lazy2 = lazy2
    greedy1 = greedy1
    LazySequences = {lazy1}
    GreedySequences = {greedy1}
    MaxExpectations = 2
    MaxTimes = 2
SPECIFICATION Spec
INVARIANTS
    TypeOK
    IInv
    AssertionsHold
    ApplicableExactlyInTurn
    OldestUnsatisfiedIsApplicable
    CallsFollowStrategy
PROPERTIES
    OrderedSpec
    SequenceErrorIffUnfulfilled
