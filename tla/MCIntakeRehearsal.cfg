\* One email saved twice, the configuration switched from dryRun to live.
SPECIFICATION Spec
CONSTANTS
    f1 = f1
    f2 = f2
    s1 = s1
    s2 = s2
    m1 = m1
    m2 = m2
    m3 = m3
    blank = blank
    opened = opened
    garbled = garbled
    other = other
    sweep = sweep
    server = server
    tab = tab
    FolderFiles = {f1, f2}
    LibraryFiles = {}
    Messages = {m1, m2, m3, blank}
    Events = {opened}
    MessageOf <- MCMessageOf
    EventOf <- MCEventOf
    NotActionable = other
    Garbled = garbled
    BlankEmail = blank
    Unreadable = {}
    Sweeps = {sweep}
    ServerPulls = {}
    TabPulls = {}
    Modes = {"live", "dryRun"}
    BatchSize = 1
    NoFile = NoFile
    MaxFaults = 0
PROPERTIES
    LiveRunFires
