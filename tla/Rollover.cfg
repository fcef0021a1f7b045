SPECIFICATION Spec
CONSTANTS
    a1 = a1
    n1 = n1
    s1 = s1
    s2 = s2
    w1 = w1
    w2 = w2
    Attempts = 3
    Stalls = 1
    Students = {s1, s2}
    Applicants = {a1}
    Newcomers = {n1}
    Executors = {w1, w2}
    Scenarios <- AllScenarios
    MaxCopies = 3
    None = None
    Intake = Intake
SYMMETRY RolloverSymmetry
INVARIANTS
    NobodyLost
    OneExecutor
    AsPreviewed
    FlippedAfterPlacement
    RollbackRestores
CHECK_DEADLOCK FALSE
