\* Tick and run-now together, a restart, a failed write, one cut short, and late PATCHes.
SPECIFICATION Spec
CONSTANTS
    b1 = b1
    b2 = b2
    b3 = b3
    chgA = chgA
    chgB = chgB
    Bookings <- PairBookings
    ChangeOf <- PairChangeOf
    DueAt <- PairDueAt
    Ticker = Ticker
    NowRuns = {n1}
    MAX_STORED_BOOKINGS = 3
    AbandonedMayAct = TRUE
    MaxTime = 1
    MaxClosures = 0
    MaxCrashes = 1
    MaxDiskFailures = 1
    MaxDamages = 1
    MaxOverlaps = 1
INVARIANTS
    DoneMeansMoved
    EachRepeatHasACause
PROPERTIES
    KeepsBookings
    WithdrawnInTimeNeverRuns
CHECK_DEADLOCK FALSE
