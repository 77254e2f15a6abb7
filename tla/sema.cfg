CONSTANTS
    Thr = {t1, t2, t3, t4}
    N = 2
    MayInterrupt = TRUE
    MayFini = TRUE
SPECIFICATION FairSpec
INVARIANTS
    Counted
    WaitersQueued
    NoLostWakeup
PROPERTIES
    WaiterWoken
CHECK_DEADLOCK FALSE
