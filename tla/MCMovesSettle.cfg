\* The tick alone: the relay closes, the server restarts, the file is full, and a
\* write of it is cut short.
SPECIFICATION FairSpec
CONSTANTS
    b1 = b1
    b2 = b2
    b3 = b3
    chgA = chgA
    chgB = chgB
    Bookings <- MCBookings
    ChangeOf <- MCChangeOf
    DueAt <- MCDueAt
    Ticker = Ticker
    NowRuns = {}
    MAX_STORED_BOOKINGS = 2
    AbandonedMayAct = FALSE
    MaxTime = 1
    MaxClosures = 1
    MaxCrashes = 1
    MaxDiskFailures = 0
    MaxDamages = 1
    MaxOverlaps = 0
INVARIANTS
    TypeOK
    LandsInOrder
PROPERTIES
    NoLostUpdate
    LateNotLost
CHECK_DEADLOCK FALSE
