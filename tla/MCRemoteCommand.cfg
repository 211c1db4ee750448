SPECIFICATION Spec
CONSTANTS
    s1 = s1
    s2 = s2
    s3 = s3
    t1 = t1
    t2 = t2
    i1 = i1
    i2 = i2
    i3 = i3
    b1 = b1
    b3 = b3
    p1 = p1
    c1 = c1
    p2 = p2
    Subscription = {s1, s2, s3}
    Named = {t1}
    TenantOf <- MCTenantOf
    SourceOf <- MCSourceOf
    Stale = {s1}
    PageSize = 1
    RegConcurrency = 2
    MaxSubscriptions = 2
    MaxTenants = 2
    MaxInstances = 2
    CdsConcurrency = 1
    ChangeTimeout = 1
    CdsMaxAttempts = 2
    Instance = {i1, i2, i3}
    Binding = {b1, b3}
    InstanceOf <- MCInstanceOf
    TenantOfInstance <- MCTenantOfInstance
    PlanOf <- MCPlanOf
    SvmConcurrency = 2
    MaxCreated = 1
    RegMaxAttempts = 2
    Caller = {c1}
    RetryMaxAttempts = 5
    RetrySleepBase = 6
    RetryAfterMax = 300
    Waits <- MCWaits
CHECK_DEADLOCK FALSE
INVARIANTS
    TypeOK
    ActedAtMostOnce
    BoundedSleep
    OkMeansDone
    NothingAbandoned
    DestroysOnlyMeant
    GivenUpOnlyIfStalled
PROPERTIES
    CommandEnds
