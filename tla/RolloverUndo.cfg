SPECIFICATION FairSpec
CONSTANTS
    n1 = n1
    s1 = s1
    w1 = w1
    Attempts = 3
    Stalls = 1
    Students = {s1}
    Applicants = {}
    Newcomers = {n1}
    Executors = {w1}
    Scenarios <- FewScenarios
    MaxCopies = 3
    None = None
    Intake = Intake
PROPERTIES
    RollbackOnlyIfPristine
CHECK_DEADLOCK FALSE
