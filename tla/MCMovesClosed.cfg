\* The relay closes in the middle of a run.
SPECIFICATION Spec
CONSTANTS
    b1 = b1
    b2 = b2
    b3 = b3
    chgA = chgA
    chgB = chgB
    Bookings <- PairBookings
    ChangeOf <- PairChangeOf
    DueAt <- PairDueAt
    Ticker = Ticker
    NowRuns = {}
    MAX_STORED_BOOKINGS = 2
    AbandonedMayAct = FALSE
    MaxTime = 1
    MaxClosures = 1
    MaxCrashes = 0
    MaxDiskFailures = 0
    MaxDamages = 0
    MaxOverlaps = 0
PROPERTIES
    ClosedRelayFailsNothing
CHECK_DEADLOCK FALSE
