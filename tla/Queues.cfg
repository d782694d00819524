SPECIFICATION MCSpec
CONSTANTS
    MaxOffers = 6
    MaxErrors = 2
    JsonlOffers = 4
    JsonlCapacity = 2
    KafkaOffers = 6
    KafkaCapacity = 2
    MaxInflight = 2
INVARIANTS
    CountersExact
    SinkIsSound
PROPERTIES
    ClaimIsFinal
    ImplementsAccounting
    EverythingSettles
