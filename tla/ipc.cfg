SPECIFICATION FairSpec
CONSTANTS
    scan = scan
    t1 = t1
    game = game
    None = None
    Emitters = {scan, t1}
    Scan = scan
    Game = game
    MaxPackets = 4
    MaxDossiers = 2
    FrameSize = 2
    SlotSize = 3
    Slots = 3
INVARIANTS
    ReadbackOk
PROPERTIES
    ImplementsStore
    ScanEnds
CHECK_DEADLOCK FALSE
