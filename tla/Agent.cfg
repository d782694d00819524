SPECIFICATION Spec
CONSTANTS
    Events = {"close"}
    HasDeadline = TRUE
    Hangs = {"t3"}
    Panics = {"t3"}
INVARIANTS VerdictIsTrue
PROPERTIES ReasonStays EveryEndIsReached
CHECK_DEADLOCK FALSE
