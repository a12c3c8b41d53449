CONSTANTS
    lazy1 = lazy1
    lazy2 = lazy2
    greedy1 = greedy1
    LazySequences = {lazy1}
    GreedySequences = {}
    MaxExpectations = 2
    MaxTimes = 1
SPECIFICATION Spec
INVARIANTS
    ErrorCountsSatisfied
