SPECIFICATION Spec
CONSTANTS
    a1 = a1
    a2 = a2
    Instance = {1}
    Usable = {1}
    Scopes <- All
    InitialState <- OnlySucceeded
    MaxInitial = 2
    MaxBindings = 7
    App = {a1}
    Skipped = {}
    SvmConcurrency = 2
    MaxRefusals = 1
    MaxLate = 1
INVARIANTS
    CredentialsValid
    FleetOnNewest
    CountsPerStep
PROPERTIES
    RotationCompletes
