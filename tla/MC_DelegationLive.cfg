SPECIFICATION FairSpec
CONSTANTS
    t1 = t1
    t2 = t2
    t3 = t3
    s1 = s1
    TaskIds <- MCTwo
    Sessions <- MCSessions
    None = None
    MaxConcurrent = 2
    MaxChildren = 1
    MaxDepth = 3
    KeepCompleted = 1
    Isolation <- NoWorktrees
    Cascades <- EitherCascade
    MaxStops = 0
PROPERTIES AllFinish
CHECK_DEADLOCK FALSE
