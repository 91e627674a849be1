SPECIFICATION Spec
CONSTANTS
    dev1 = dev1
    config1 = config1
    v1 = v1
    v2 = v2
    d1 = d1
    d2 = d2
    qe1 = qe1
    s1 = s1
    None = None
    DevIssues = {dev1, config1}
    ConfigOnly = {config1}
    Versions = {v1, v2}
    Sprints = {v1}
    ActiveSprints = {v1}
    Dates = {d1, d2}
    FirstDate = d1
    Intakes = {qe1}
    NotReady = {s1}
    Original <- TheirOriginal
    Interval = 1
    PollWindows = {1}
    JiraAhead = 0
    DayLength = 2
    c1 = c1
    c2 = c2
    Cycles = {c1, c2}
    Horizon = 3
    MaxEdits = 2
    MaxTrouble = 1
INVARIANTS TypeOK HandoffOnce HandoffMade OneDefect LabelTakenForDefect SprintFollows FlaggedOncePerDay ScannedMeansFlagged
SYMMETRY Interchangeable
CHECK_DEADLOCK FALSE
