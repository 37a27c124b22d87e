SPECIFICATION Spec
CONSTANTS
    t1 = t1
    t2 = t2
    c1 = c1
    c2 = c2
    Turns <- MCTurns
    NoTurn = NoTurn
    TaskRetries = 1
    MaxAttempts = 10
    MaxReplies = 1
    Configured <- MCConfigured
    MaxRuns = 2
    Clients <- MCClients
    e1 = e1
    Editors <- MCEditors
    Free = Free
    MaxTokens = 5
INVARIANTS TurnTypeOK TaskTells LogFollows RefreshedOnce
PROPERTIES NoFalseInterruption InterruptedReported TurnEnds PipelineEnds
CHECK_DEADLOCK FALSE
