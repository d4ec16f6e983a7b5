SPECIFICATION Spec
CONSTANTS
    NumEpochs = 4
    ScoreWindow = 2
    PoisonHold = 1
    PoisonPercent = 15
    InitialDecoys = 3
    PoisonDecoys = 5
    MeanDeltas = {1, 500}
INVARIANTS
    NoReaderNoTrigger
CHECK_DEADLOCK FALSE
