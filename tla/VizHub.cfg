SPECIFICATION Spec
CONSTANTS
    Clients = {c1, c2}
    MaxClients = 1
    Capacity = 2
    MaxRun = 2
    MaxSeq = 3
    MaxFrames = 3
CHECK_DEADLOCK FALSE
INVARIANTS
    ViewIsSound
    SlotsAreSound
    GapsAreExact
PROPERTIES
    EveryFrameSettles
