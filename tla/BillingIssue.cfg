SPECIFICATION Spec
CONSTANTS
    b1 = b1
    b2 = b2
    i1 = i1
    i2 = i2
    p1 = p1
    w1 = w1
    w2 = w2
    Invoices = {i1, i2}
    Small = i1
    Payments = {p1}
    Keys = {}
    Bills = {b1, b2}
    DueOf <- MCDueOf
    Covers <- MCCovers
    Ruled = {i1, i2}
    Grace = 0
    Month = 2
    MaxTime = 1
    Workers = {w1, w2}
    NoKey = NoKey
SYMMETRY Symmetry
INVARIANTS
    OneInvoicePerBill
    OneDendaPerPeriod
