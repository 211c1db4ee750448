SPECIFICATION Spec
CONSTANTS
    N = 5
    LimitArg = 3
    LoadArg <- MixedLoads
CHECK_DEADLOCK FALSE
INVARIANTS
    TypeOK
    CapacityAccounted
    OverbookedAlone
    NoLostWakeup
    ResultOfAll
PROPERTIES
    ResumedInOrder
    AllSettle
