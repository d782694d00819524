SPECIFICATION Spec
CONSTANTS
    Events = {"ctrl_c"}
    HasDeadline = FALSE
    Hangs = {}
    Panics = {}
INVARIANT NotificationSeen
CHECK_DEADLOCK FALSE
