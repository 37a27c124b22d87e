SPECIFICATION Spec
CONSTANTS
    t1 = t1
    t2 = t2
    t3 = t3
    s1 = s1
    TaskIds <- MCTwo
    Sessions <- MCSessions
    None = None
    MaxConcurrent = 2
    MaxChildren = 1
    MaxDepth = 3
    KeepCompleted = 1
    Isolation <- WithWorktrees
    Cascades <- EitherCascade
    MaxStops = 1
SYMMETRY SymTwo
INVARIANTS NoLiveOrphans
PROPERTIES FinishedOnce StopDrains
CHECK_DEADLOCK FALSE
