------------------------------ MODULE Semaphore ------------------------------
(***************************************************************************)
(* mnthr_sema_t.  An application thread releases what it has acquired and  *)
(* acquires nothing twice.  A semaphore is destroyed when nobody holds it, *)
(* and nobody calls it afterwards; threads may still wait in it.           *)
(***************************************************************************)
EXTENDS SemaState

VARIABLE
    holders     \* history: the threads that have acquired

semavars == <<cvvars, i, n, holders>>

TypeOK ==
    /\ CVTypeOK
    /\ n \in {-1, N}
    /\ i \in IF n = -1 THEN {-1} ELSE 0..N
    /\ holders \in SUBSET Thr

mnthr_sema_init ==
    /\ CVInit
    /\ n = N
    /\ i = N
    /\ holders = {}

Take(t) == i' = i - 1 /\ holders' = holders \cup {t} /\ UNCHANGED n

mnthr_sema_acquire(t) ==
    /\ Calls(t)
    /\ t \notin holders
    /\ IF i > 0 THEN Take(t) /\ UNCHANGED cvvars
       ELSE mnthr_cond_wait(t) /\ UNCHANGED <<i, n, holders>>

\* mnthr_sema_acquire behind mnthr_cond_wait.
acquire_waited(t) ==
    /\ WaitOver(t)
    /\ CASE i = 0 -> mnthr_cond_wait(t) /\ UNCHANGED <<i, n, holders>>
         [] i # 0 /\ i > 0 /\ i <= n -> Leave(t) /\ Take(t)
         [] i # 0 /\ ~ (i > 0 /\ i <= n) -> Fail /\ UNCHANGED <<i, n, holders>>

\* Wrong: the unit is counted before the error is seen.
acquire_failed_Counts(t) == WaitFailed(t) /\ i' = i - 1 /\ UNCHANGED <<n, holders>>

acquire_failed(t) == WaitFailed(t) /\ UNCHANGED <<i, n, holders>>

mnthr_sema_try_acquire(t) ==
    /\ Calls(t)
    /\ t \notin holders
    /\ i > 0
    /\ Take(t)
    /\ UNCHANGED cvvars

\* Wrong: only the first unit to become free is announced.
mnthr_sema_release_SignalsFirst(t) ==
    /\ Calls(t)
    /\ t \in holders
    /\ IF i >= 0 /\ i < n
       THEN /\ IF i = 0 THEN mnthr_cond_signal_one(t) ELSE UNCHANGED cvvars
            /\ i' = i + 1
            /\ holders' = holders \ {t}
            /\ UNCHANGED n
       ELSE Fail /\ UNCHANGED <<i, n, holders>>

mnthr_sema_release(t) ==
    /\ Calls(t)
    /\ t \in holders
    /\ IF i >= 0 /\ i < n
       THEN /\ mnthr_cond_signal_one(t)
            /\ i' = i + 1
            /\ holders' = holders \ {t}
            /\ UNCHANGED n
       ELSE Fail /\ UNCHANGED <<i, n, holders>>

mnthr_sema_fini(t) ==
    /\ MayFini
    /\ Calls(t)
    /\ holders = {}
    /\ mnthr_cond_signal_all(t)
    /\ n' = -1
    /\ i' = -1
    /\ UNCHANGED holders

Interrupt(t) ==
    /\ mnthr_set_interrupt(t) \/ mnthr_set_retval(t)
    /\ UNCHANGED <<i, n, holders>>

Step(t) ==
    \/ mnthr_sema_acquire(t)
    \/ acquire_waited(t)
    \/ acquire_failed(t)
    \/ mnthr_sema_try_acquire(t)
    \/ mnthr_sema_release(t)
    \/ mnthr_sema_fini(t)
    \/ Interrupt(t)

Next == ~ fault /\ \E t \in Thr : Step(t)

Spec == mnthr_sema_init /\ [][Next]_semavars

\* A holder releases eventually, and the scheduler resumes who is scheduled.
FairSpec ==
    /\ Spec
    /\ \A t \in Thr : WF_semavars(mnthr_sema_release(t)) /\ WF_semavars(acquire_waited(t))
-----------------------------------------------------------------------------
\* The count is exact: i units are free, the others are held, whatever happens
\* to the waiting threads.  In particular there are never more than n holders.
Counted == n # -1 => i + Cardinality(holders) = n

\* No wakeup is lost: while threads wait, at least as many are on their way as
\* there are free units, although mnthr_sema_release signals before it counts
\* and anyone may take the unit before the thread that was woken for it.  (A
\* thread that is interrupted does not pass on the signal it was woken by.)
NoLostWakeup ==
    ~ intr /\ n # -1 /\ (\E t \in Thr : pc[t] = "wait") =>
        Cardinality({t \in Thr : pc[t] = "ready"}) >= i

\* A waiting thread is woken eventually, though others may keep taking the unit
\* it was woken for: who waits again waits at the end of the queue.
WaiterWoken == \A t \in Thr : pc[t] = "wait" ~> pc[t] # "wait" \/ intr

\* The semaphore is N units to share: nobody gets one when all are taken, nobody takes
\* one twice, and nothing but a release gives one back, through all waiting, failing
\* and destroying.
Units == INSTANCE SharedLock WITH Limit <- N, shared <- holders, exclusive <- {}

SharesUnits == Units!SLSpec
=============================================================================
