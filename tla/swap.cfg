SPECIFICATION Spec
CONSTANTS
    NumEpochs = 5
    ScoreWindow = 1
    PoisonHold = 1
    PoisonPercent = 2
    InitialDecoys = 3
    PoisonDecoys = 5
    MeanDeltas = {60}
INVARIANTS
    TypeOK
    PoisonTimed
    PoisonLocksIn
    HitsBounded
    ScrubbedUnlessReplaced
PROPERTIES
    HitsAttributedOnce
    SupersededFrozen
CHECK_DEADLOCK FALSE
