SPECIFICATION Spec
CONSTANTS
    p1 = p1
    p2 = p2
    project = project
    home = home
    s1 = s1
    s2 = s2
    a = a
    b = b
    v1 = v1
    v2 = v2
    Process = {p1, p2}
    Scenes <- MCScenes
    Path <- MCPath
    Home = home
    Setting = {s1, s2}
    AppName = {a, b}
    None = None
    AppSuffixes <- MCSuffixes
    LiveSuffix = "-live"
    Version = {v1, v2}
    CacheGap = 1
    MaxTime = 2
    MaxDeploys = 1
    MaxCalls = 3
CHECK_DEADLOCK FALSE
INVARIANTS
    NoLiveForOthers
