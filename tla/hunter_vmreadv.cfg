SPECIFICATION Spec
CONSTANTS
    p1 = p1
    p2 = p2
    c1 = c1
    Openers = {p2}
    VmReaders = {p1}
    Opaque = TRUE
    Anon = Anon
    Callers = {c1}
    IdleAfter = 1
    MaxTriggers = 0
    MaxEpoch = 0
    MaxClock = 1
    MaxVmQueue = 1
    MaxCount = 2
CONSTRAINTS
    OneScene
INVARIANTS
    SightingsCounted
PROPERTIES
    ImplementsLog
