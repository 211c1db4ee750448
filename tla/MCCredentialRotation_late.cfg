SPECIFICATION Spec
CONSTANTS
    a1 = a1
    a2 = a2
    Instance = {1}
    Usable = {1}
    Scopes <- All
    InitialState <- OnlySucceeded
    MaxInitial = 1
    MaxBindings = 3
    App = {a1}
    Skipped = {}
    SvmConcurrency = 2
    MaxRefusals = 0
    MaxLate = 1
PROPERTIES
    DoubleSparesInUse
