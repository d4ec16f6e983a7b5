SPECIFICATION FairSpec
CONSTANTS
    c1 = c1
    c2 = c2
    Callers = {c1, c2}
    IdleAfter = 3
    MaxTriggers = 4
INVARIANTS
    TypeOK
    ScoreKeepsActive
    ActivationsCounted
PROPERTIES
    WakeServed
    ReturnsToIdle
