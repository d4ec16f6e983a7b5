SPECIFICATION FairSpec
CONSTANTS
    t1 = t1
    r1 = r1
    NoTimer = NoTimer
    Readers = {r1}
    Timers = {t1}
    MaxQueue = 1
    IdleAfter = 1
    MaxTriggers = 0
INVARIANTS
    TypeOK
    NoCauseNoAlarm
PROPERTIES
    OpenActivates
    StopQuiesces
