CONSTANTS
    t1 = t1
    t2 = t2
    t3 = t3
    f1 = f1
    f2 = f2
    Thr = {t1, t2, t3}
    Fd = {f1, f2}
    Users <- UsersOf
    Selectors = {t3}
    Interruptible = {t2}
    Closed = {f1}
    NoThread = NoThread
    MaxCount = 2
SPECIFICATION Spec
INVARIANTS
    WaiterReachable
    SiftFindsNoWaiter
    ResultIsAwaited
    LoopServesWaiters
    NoFail
CHECK_DEADLOCK FALSE
