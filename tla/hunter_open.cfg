SPECIFICATION ScanFairSpec
CONSTANTS
    p1 = p1
    p2 = p2
    c1 = c1
    Openers = {p1}
    VmReaders = {}
    Opaque = FALSE
    Anon = Anon
    Callers = {c1}
    IdleAfter = 1
    MaxTriggers = 0
    MaxEpoch = 1
    MaxClock = 0
    MaxVmQueue = 1
    MaxCount = 1
INVARIANTS
    TypeOK
PROPERTIES
    DossiersAdvance
    KnownKept
    ImplementsLog
    SnapshotSurvivesExit
