CONSTANTS
    Thr = {t1, t2, t3, t4}
    t1 = t1
    N = 3
    Waiters = {t1}
    MayInterrupt = TRUE
    MayFini = TRUE
SPECIFICATION ISSpec
INVARIANT FilledWakes
CHECK_DEADLOCK FALSE
