SPECIFICATION Spec
CONSTANTS
    Instance = {1}
    Usable = {1}
    Scopes <- All
    Target = {1, 2}
    SvmConcurrency = 6
    InitialState <- Unsettled
    MaxInitial = 2
    MaxBindings = 4
    MaxRefusals = 0
    MaxLate = 0
CHECK_DEADLOCK FALSE
PROPERTIES
    CleansUpUnusable
