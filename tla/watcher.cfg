SPECIFICATION FairSpec
CONSTANTS
    r1 = r1
    r2 = r2
    t1 = t1
    t2 = t2
    NoTimer = NoTimer
    Readers = {r1, r2}
    Timers = {t1, t2}
    MaxQueue = 2
INVARIANTS
    TypeOK
    GateHasTimer
    GuardHasCallback
PROPERTIES
    GateReopens
    GuardReleased
    OpenDetectedUnlessClosed
