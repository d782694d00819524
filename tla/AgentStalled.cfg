SPECIFICATION Spec
CONSTANTS
    Events = {}
    HasDeadline = FALSE
    Hangs = {"t2"}
    Panics = {}
PROPERTY StalledRunEnds
CHECK_DEADLOCK FALSE
