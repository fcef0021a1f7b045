SPECIFICATION MCFairSpec
CONSTANTS
    m1 = m1
    m2 = m2
    q1 = q1
    r1 = r1
    r2 = r2
    s1 = s1
    s2 = s2
    t1 = t1
    t2 = t2
    w1 = w1
    Students = {s1, s2}
    Enrolled = {s1}
    Tokens = {t1, t2}
    AttemptIds <- TwoAttempts
    Questions = {q1}
    Answers = {}
    Keys = {}
    Marks = {m1, m2}
    Events = {}
    Requests = {r1, r2}
    Sweepers = {w1}
    Ops <- StartOps
    Duration = 0
    SessionEnd = 0
    TokenTtl = 1
    SemesterEnd = 9
    Batch = 1
    MaxTime = 1
    None = None
    Attempts = 2
    Stalls = 0
PROPERTIES
    SeatSpec
    OverdueIsClosed
