SPECIFICATION Spec
CONSTANTS
    j1 = j1
    j2 = j2
    JobIds <- MCJobIds
    Others = {p1}
    NoJob = NoJob
    NoStore = NoStore
    Torn = Torn
    NProviders = 2
    MaxRetries = 2
    MaxIterations = 2
    MaxCalls = 3
INVARIANTS CronTypeOK TimerArmed ToolTypeOK OneSpeaker LaunchedOnce NoOrphanTools
PROPERTIES NeverAgain SurvivesRestart DueStarts UnsafeInOrder LoopEnds
CHECK_DEADLOCK FALSE
