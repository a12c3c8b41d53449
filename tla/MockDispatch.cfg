CONSTANTS
    r1 = r1
    r2 = r2
    p1 = p1
    p2 = p2
    std = std
    stdcall = stdcall
    m1 = m1
    m2 = m2
    None = None
    Returns = {r1, r2}
    Params = {p1, p2}
    CallConventions = {std, stdcall}
    DefaultConvention = std
    Candidates <- MCCandidates
    Objects = {m1, m2}
    MaxMocks = 2
    MaxExpectations = 2
SYMMETRY Places
SPECIFICATION Spec
INVARIANTS
    IInv
    OverloadSetsCompile
    AnsweredByItsOverload
    TurnedDownRightly
CHECK_DEADLOCK FALSE
