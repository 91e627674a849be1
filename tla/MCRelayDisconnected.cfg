\* A restart under one open tab: the re-announcement fails the wait, then runs the call.
SPECIFICATION Spec
CONSTANTS
    Calls = {c1}
    Jobs = {}
    Tabs = {t1}
    TokenTabs = {}
    Outcomes = {"ok"}
    Gone = Gone
    NoRequest = NoRequest
    MaxClicks = 1
    MaxCrashes = 1
PROPERTIES
    DisconnectedNeverRuns
CHECK_DEADLOCK FALSE
