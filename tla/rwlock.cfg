CONSTANTS
    Thr = {t1, t2, t3}
    MayInterrupt = TRUE
    MayFini = TRUE
SPECIFICATION RWFairSpec
INVARIANTS
    Exclusion
    ReadersWaitForWriter
    NoLostRelease
PROPERTIES
    ReaderWoken
CHECK_DEADLOCK FALSE
