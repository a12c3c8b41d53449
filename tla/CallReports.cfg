CONSTANTS
    lazy1 = lazy1
    LazySequences = {lazy1}
    GreedySequences = {}
    MaxExpectations = 3
    MaxTimes = 2
    Identity <- MCIdentity
    ReturnType = "int"
    Overloads <- MCOverloads
    Inputs <- MCInputs
    Recipes <- MCRecipes
    Installed = {"GTest"}
SPECIFICATION Spec
INVARIANTS
    TypeOK
    AssertionsHold
    FailureNamesEveryCandidate
    OutcomeFollowsReports
    ResultSeesSideEffects
    MessagesTellTheTruth
PROPERTIES
    CountedExactlyWhenReported
CHECK_DEADLOCK FALSE
