CONSTANTS
    t1 = t1
    t2 = t2
    t3 = t3
    e1 = e1
    e2 = e2
    s1 = s1
    Thr = {t1, t2, t3}
    Io = {e1, e2}
    Stat = {s1}
    Users <- UsersOf
    NoThread = NoThread
    NoEv = NoEv
    Freed = Freed
    Interruptible = {t3}
    Resumable = {t2}
SPECIFICATION FairSpec
INVARIANTS
    WaiterReachable
    AssertionsHold
PROPERTIES
    SuccessIsAnEvent
    WaitEnds
CHECK_DEADLOCK FALSE
