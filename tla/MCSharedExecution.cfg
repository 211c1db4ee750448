SPECIFICATION Spec
CONSTANTS
    Caller = {c1, c2}
    Gap = 1
    Lifetimes = {0, 1, 2}
    MaxExecutions = 3
    MaxResets = 1
    MaxTime = 3
CHECK_DEADLOCK FALSE
INVARIANTS
    TypeOK
    OneAtATime
    OnceWhileValid
    ServedFresh
    FreshAfterReset
PROPERTIES
    AllAnswered
