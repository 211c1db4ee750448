SPECIFICATION Spec
CONSTANTS
    Instance = {1}
    Usable = {1}
    Scopes <- All
    Target = {1, 2}
    SvmConcurrency = 2
    InitialState <- Settled
    MaxInitial = 3
    MaxBindings = 4
    MaxRefusals = 1
    MaxLate = 1
CHECK_DEADLOCK FALSE
INVARIANTS
    TypeOK
    MostRecentSurvives
    Converges
    QuietAtRest
PROPERTIES
    RunEnds
