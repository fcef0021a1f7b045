SPECIFICATION Spec
CONSTANTS
    b1 = b1
    b2 = b2
    c1 = c1
    c2 = c2
    d1 = d1
    g1 = g1
    g2 = g2
    h1 = h1
    h2 = h2
    k1 = k1
    l1 = l1
    n1 = n1
    n2 = n2
    q1 = q1
    q2 = q2
    r1 = r1
    s1 = s1
    s2 = s2
    t1 = t1
    t2 = t2
    Attempts = 2
    Stalls = 1
    Handlers = {h1, h2}
    Staff = {t1, t2}
    Figures = {1, 2}
    MaxRaises = 1
    MaxRefunds = 2
    MaxSittings = 2
    Questions = {q1, q2}
    Correct <- MCCorrect
    Replies = {"right"}
    Page = 1
    Students = {s1, s2}
    Codes = {c1, c2}
    Sessions = {"first"}
    SessionOf <- MCSessionOf
    Keys = {k1}
    Days = {d1}
    Lessons = {l1}
    MaxMarks = 2
    Batches = {b1, b2}
    Nisns = {n1, n2}
    Rooms = {"X", "Y"}
    Offered = {"X"}
    Groups = {"X1", "X2"}
    Years = {"y1", "y2"}
    YearOf <- MCYearOf
    Teachers = {g1, g2}
    Places = {r1}
    LastPeriod = 3
    MaxEntries = 2
    Asked <- MCAsked
    LOGIN_FAIL_LIMIT = 2
    LockHours = 1
    MaxTokens = 3
    MaxPasswords = 1
    LastClock = 1
    None = None
SYMMETRY MCSymmetry
INVARIANTS
    PaidWasSigned
    OneSlipAsPaid
    CompletedJobHasRun
    PaidOutWasApproved
    CashLeavesOnce
    GradeIsScore
    AcknowledgedAnswersCount
    UsedTokenLetIn
    StatusFollowsPermit
    OneRowEach
    ClosedBatchAccounts
    OldSessionsEnd
    LockedInTime
    TimetableClear
PROPERTIES
    KeepsRegister
CHECK_DEADLOCK FALSE
