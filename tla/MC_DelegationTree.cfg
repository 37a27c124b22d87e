SPECIFICATION Spec
CONSTANTS
    t1 = t1
    t2 = t2
    t3 = t3
    s1 = s1
    TaskIds <- MCThree
    Sessions <- MCSessions
    None = None
    MaxConcurrent = 2
    MaxChildren = 1
    MaxDepth = 3
    KeepCompleted = 1
    Isolation <- NoWorktrees
    Cascades <- OnlyCascade
    MaxStops = 0
SYMMETRY SymThree
INVARIANTS TypeOK WithinLimits TreeShape
PROPERTIES UnseenKept ImplementsPool
CHECK_DEADLOCK FALSE
