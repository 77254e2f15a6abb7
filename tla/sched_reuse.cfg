CONSTANTS
    Ctx = {c1, c2, c3}
    NULL = NULL
    Cond = Cond
    StartNow = 2
    MaxNow = 4
    FOREVER = 5
    Calls = {"new", "new_sig", "run", "gc", "exit", "abac", "set_interrupt", "set_interrupt_and_join", "peek"}
    Delays = {1}
    Retvals = {}
    MaxId = 3
    StagedRace = FALSE
    MayEINTR = FALSE
SPECIFICATION Spec
INVARIANTS
    FreeListExact
    NoLostThread
PROPERTIES
    HeldKeepsCode
SYMMETRY Symmetry
CHECK_DEADLOCK FALSE
