SPECIFICATION Spec
CONSTANTS
    a1 = a1
    b1 = b1
    b2 = b2
    e1 = e1
    f1 = f1
    h1 = h1
    h2 = h2
    p1 = p1
    u1 = u1
    Assets = {a1}
    Bookings = {b1, b2}
    Audits = {u1}
    Instants = {1, 2, 3}
    Clients = {h1, h2}
    Nobody = Nobody
    Handlers = {h1, h2}
    Learners = {e1}
    Works = {b1, b2}
    Points = {1}
    LastHour = 1
    Applicants = {p1}
    Classes = {"X1", "X2"}
    CacheTtl = 2
    LastTick = 2
    MaxAsks = 2
    MaxExports = 2
    Instances = {b1, b2}
    PermTtl = 2
    MaxChanges = 2
    LastMoment = 2
    Uploads = {f1}
    Tables = {"materials", "applicants"}
    Watched = {"materials"}
    RetentionDays = 2
    LastDay = 3
    None = None
SYMMETRY MCSymmetry
INVARIANTS
    NoDoubleBooking
    GradedWorkStands
    SubmittedOnce
    PlacedAsSelected
    StatusIsRecent
    ErasureIsComplete
    GrantsAreRecent
    NamedFilesStay
PROPERTIES
    NoBookingOfRetired
    CalendarSpec
CHECK_DEADLOCK FALSE
