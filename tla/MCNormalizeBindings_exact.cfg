SPECIFICATION Spec
CONSTANTS
    Instance = {1}
    Usable = {1}
    Scopes <- All
    Target = {1, 2}
    SvmConcurrency = 6
    InitialState <- OnlySucceeded
    MaxInitial = 3
    MaxBindings = 5
    MaxRefusals = 0
    MaxLate = 0
CHECK_DEADLOCK FALSE
INVARIANTS
    ExactlyTarget
