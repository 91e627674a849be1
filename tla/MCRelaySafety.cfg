\* Two bookmarklet loops, one of them possibly a second click, against two
\* front-end calls and a scheduler's call, across one restart of the server.
SPECIFICATION Spec
CONSTANTS
    Calls = {c1, c2}
    Jobs = {j1}
    Tabs = {t1, t2}
    TokenTabs = {}
    Outcomes = {"ok", "failed"}
    Gone = Gone
    NoRequest = NoRequest
    MaxClicks = 2
    MaxCrashes = 1
SYMMETRY Symmetries
INVARIANTS
    TypeOK
    NoIdleQueue
    NoLostWakeup
    AtMostOnce
    OkMeansDone
    Custody
PROPERTIES
    KeepsPromise
CHECK_DEADLOCK FALSE
