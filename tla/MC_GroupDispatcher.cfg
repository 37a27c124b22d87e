SPECIFICATION Spec
CONSTANTS
    g1 = g1
    g2 = g2
    w1 = w1
    w2 = w2
    Groups <- MCGroups
    Workers <- MCWorkers
    NoWorker = NoWorker
    NoGroup = NoGroup
    NoMessage = NoMessage
    MaxInbound = 2
    MaxMessages = 5
SYMMETRY Symmetry
INVARIANTS TypeOK OneWorkerPerGroup QuestionOwned
PROPERTIES StopDiscardsEarlier ImplementsSerial
CHECK_DEADLOCK FALSE
