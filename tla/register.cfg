SPECIFICATION FairSpec
CONSTANTS
    Versions = {5, 7}
    MaxBuffers = 3
    Threshold = 2
    Hold = 1
    BaseDecoys = 2
    MaxDecoys = 3
    Observer = TRUE
INVARIANTS
    DecoyIndexInRange
PROPERTIES
    ActivationsSpaced
    BufferScrubbed
CHECK_DEADLOCK FALSE
