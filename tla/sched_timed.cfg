CONSTANTS
    Ctx = {c1, c2, c3}
    NULL = NULL
    Cond = Cond
    StartNow = 2
    MaxNow = 4
    FOREVER = 5
    Calls = {"spawn", "exit", "wait_for", "set_interrupt_and_join_with_timeout", "subscribe_with_timeout", "gc"}
    Delays = {1}
    Retvals = {}
    MaxId = 4
    StagedRace = TRUE
    MayEINTR = TRUE
SPECIFICATION Spec
INVARIANTS
    WaitReturnsCode
    TimedWaitTellsTrue
SYMMETRY Symmetry
CHECK_DEADLOCK FALSE
