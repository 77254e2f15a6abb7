CONSTANTS
    Ctx = {c1, c2, c3}
    NULL = NULL
    Cond = Cond
    StartNow = 2
    MaxNow = 4
    FOREVER = 5
    Calls = {"spawn", "sleep", "yield", "giveup", "exit", "set_prio", "set_retval", "join", "cond_wait", "cond_signal_one", "cond_signal_all", "subscribe", "signal_send", "signal_error", "signal_error_and_join"}
    Delays = {1}
    Retvals = {0}
    MaxId = 3
    StagedRace = TRUE
    MayEINTR = FALSE
SPECIFICATION Spec
INVARIANTS
    WaitqConsistent
    ResumesResumable
    SingleSlice
PROPERTIES
    NoEarlyWake
    UsesSleepQueue
SYMMETRY Symmetry
