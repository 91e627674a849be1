\* One saved email, another about the same event and an unparseable one in the library,
\* a sweep and two pulls, and any one fault.
SPECIFICATION FairSpec
CONSTANTS
    f1 = f1
    f2 = f2
    s1 = s1
    s2 = s2
    m1 = m1
    m2 = m2
    m3 = m3
    blank = blank
    opened = opened
    garbled = garbled
    other = other
    sweep = sweep
    server = server
    tab = tab
    FolderFiles = {f1, f2}
    LibraryFiles = {s1, s2}
    Messages = {m1, m2, m3, blank}
    Events = {opened}
    MessageOf <- MCMessageOf
    EventOf <- MCEventOf
    NotActionable = other
    Garbled = garbled
    BlankEmail = blank
    Unreadable = {f2}
    Sweeps = {sweep}
    ServerPulls = {server}
    TabPulls = {tab}
    Modes = {"live", "dryRun"}
    BatchSize = 1
    NoFile = NoFile
    MaxFaults = 1
INVARIANTS
    TypeOK
    PostedOnce
    ClaimsAreTrue
    SeenIsLedgered
    NothingVanishes
PROPERTIES
    FolderDrains
