SPECIFICATION Spec
CONSTANTS
    RingCapacity = 2
    MaxBatch = 2
    DrainBudget = 3
    MaxReports = 4
    MaxMarkers = 1
    MaxLive = 1
INVARIANTS
    NothingLost
    BatchesAreSound
    GapsAnnounced
    StopIsComplete
PROPERTIES
    ImplementsStream
    EverythingIsShipped
