SPECIFICATION Spec
CONSTANTS
    o1 = o1
    o2 = o2
    j1 = j1
    l1 = l1
    l2 = l2
    Objects <- MCObjects
    NoObject = NoObject
    Jobs <- MCJobs
    Locks <- MCLocks
    Nobody = Nobody
    MaxMessages = 4
    Window = 2
    Keep = 1
    LowWater = 2
    Compact = 5
    QueueSize = 2
    MaxEntries = 5
    MaxTorn = 1
INVARIANTS SessionTypeOK FileAgrees NeverSkipped Buffered
PROPERTIES NewKeepsAll ConsolidationEnds
CHECK_DEADLOCK FALSE
