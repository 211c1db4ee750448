SPECIFICATION Spec
CONSTANTS
    Instance = {1, 2, 3}
    Usable = {1, 2}
    Scopes <- AllOrFirst
    Target = {1, 2}
    SvmConcurrency = 2
    InitialState <- Settled
    MaxInitial = 3
    MaxBindings = 5
    MaxRefusals = 1
    MaxLate = 0
CHECK_DEADLOCK FALSE
PROPERTIES
    KeepsNewest
