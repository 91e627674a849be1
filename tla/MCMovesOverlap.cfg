\* Run now beside a tick in flight.
SPECIFICATION Spec
CONSTANTS
    b1 = b1
    b2 = b2
    b3 = b3
    chgA = chgA
    chgB = chgB
    Bookings <- PairBookings
    ChangeOf <- PairChangeOf
    DueAt <- PairDueAt
    Ticker = Ticker
    NowRuns = {n1}
    MAX_STORED_BOOKINGS = 2
    AbandonedMayAct = FALSE
    MaxTime = 1
    MaxClosures = 0
    MaxCrashes = 0
    MaxDiskFailures = 0
    MaxDamages = 0
    MaxOverlaps = 1
INVARIANTS
    MovedAtMostOnce
CHECK_DEADLOCK FALSE
