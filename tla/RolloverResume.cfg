SPECIFICATION FairSpec
CONSTANTS
    s1 = s1
    w1 = w1
    Attempts = 3
    Stalls = 1
    Students = {s1}
    Applicants = {}
    Newcomers = {}
    Executors = {w1}
    Scenarios <- FewScenarios
    MaxCopies = 3
    None = None
    Intake = Intake
PROPERTIES
    RefusedOnlyIfChanged
CHECK_DEADLOCK FALSE
