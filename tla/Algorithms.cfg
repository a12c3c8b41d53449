CONSTANTS
    lazy1 = lazy1
    lazy2 = lazy2
    greedy1 = greedy1
    LazySequences = {lazy1, lazy2}
    GreedySequences = {greedy1}
    MaxAttached = 4
    Returns = {"r"}
    Params = {}
    CallConventions = {"std", "stdcall"}
    DefaultConvention = "std"
    FormatsRanges = TRUE
    Nul = "0"
    UpperCase <- MCUpperCase
    Extended = {"x"}
    Numerals <- MCNumerals
    MaxRange = 3
    Texts <- MCTexts
    SkipCounts = {0, 1, 2, 3}
    ParameterCounts = {0, 1, 2, 3, 16, 64, 85, 86, 87, 90}
    OverloadLists <- MCOverloadLists
    PrintedValues <- MCPrintedValues
SPECIFICATION Spec
INVARIANTS
    BestFollowsStrategy
    DescriptionsAreTrue
    ApproximationsAreExact
    StringMatchersAgree
    TraceStartsAtCaller
    OverridesReachTheirOverload
    TextShowsTheValue
