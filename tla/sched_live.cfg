CONSTANTS
    Ctx = {c1, c2, c3}
    NULL = NULL
    Cond = Cond
    StartNow = 2
    MaxNow = 4
    FOREVER = 5
    Calls = {"spawn", "sleep", "exit", "join", "set_prio", "shutdown"}
    Delays = {1}
    Retvals = {}
    MaxId = 3
    StagedRace = TRUE
    MayEINTR = FALSE
SPECIFICATION FairSpec
PROPERTIES
    ScheduledRuns
    ExitResumesJoiners
    ShutdownEnds
CHECK_DEADLOCK FALSE
