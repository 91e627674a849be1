\* One loop whose page may expose g_ck late, two restarts, one re-click.
SPECIFICATION FairSpec
CONSTANTS
    Calls = {c1}
    Jobs = {j1}
    Tabs = {t1}
    TokenTabs = {t1}
    Outcomes = {"ok", "refused", "failed"}
    Gone = Gone
    NoRequest = NoRequest
    MaxClicks = 2
    MaxCrashes = 2
PROPERTIES
    EveryCallEnds
    RecoversWithoutAClick
    TokenBecomesKnown
CHECK_DEADLOCK FALSE
