SPECIFICATION Spec
CONSTANTS
    b1 = b1
    b2 = b2
    i1 = i1
    i2 = i2
    k1 = k1
    p1 = p1
    p2 = p2
    w1 = w1
    w2 = w2
    Invoices = {i1, i2}
    Small = i1
    Payments = {p1, p2}
    Keys = {k1}
    Bills = {b1, b2}
    DueOf <- MCDueOf
    Covers <- MCCovers
    Ruled = {}
    Grace = 0
    Month = 2
    MaxTime = 1
    Workers = {w1, w2}
    NoKey = NoKey
SYMMETRY Symmetry
INVARIANTS
    StatusIsEarned
PROPERTIES
    LedgerSpec
