SPECIFICATION Spec
CONSTANTS
    k1 = k1
    k2 = k2
    m1 = m1
    m2 = m2
    q1 = q1
    r1 = r1
    r2 = r2
    s1 = s1
    t1 = t1
    w1 = w1
    x = x
    y = y
    Students = {s1}
    Enrolled = {s1}
    Tokens = {t1}
    AttemptIds <- OneAttempt
    Questions = {q1}
    Answers = {x, y}
    Keys = {k1, k2}
    Marks = {m1, m2}
    Events = {}
    Requests = {r1, r2}
    Sweepers = {w1}
    Ops <- AnswerOps
    Duration = 0
    SessionEnd = 0
    TokenTtl = 1
    SemesterEnd = 9
    Batch = 1
    MaxTime = 1
    None = None
SYMMETRY SlotSymmetry
INVARIANTS
    ToldIsSubmitted
