SPECIFICATION Spec
CONSTANTS
    a1 = a1
    a2 = a2
    a3 = a3
    App = {a1, a2, a3}
    Skipped = {a3}
    SvmConcurrency = 1
    MaxRefusals = 1
    MaxLate = 1
INVARIANTS
    TypeOK
    OkMeansDeployed
    NothingActiveAtRest
PROPERTIES
    RestartEnds
