SPECIFICATION Spec
CONSTANTS
    StoreBuffers = TRUE
    MaxEvents = 3
    MaxMail = 2
INVARIANTS
    NoOtherWakeIsLost
PROPERTIES
    EverythingArrives
