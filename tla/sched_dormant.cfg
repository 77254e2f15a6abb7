CONSTANTS
    Ctx = {c1, c2, c3}
    NULL = NULL
    Cond = Cond
    StartNow = 2
    MaxNow = 5
    FOREVER = 6
    Calls = {"spawn", "sleep", "exit", "wait_for"}
    Delays = {1}
    Retvals = {}
    MaxId = 3
    StagedRace = TRUE
    MayEINTR = FALSE
SPECIFICATION Spec
INVARIANTS
    ResumesResumable
SYMMETRY Symmetry
CHECK_DEADLOCK FALSE
