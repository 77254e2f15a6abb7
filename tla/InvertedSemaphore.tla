-------------------------- MODULE InvertedSemaphore --------------------------
(***************************************************************************)
(* mnthr_inverted_sema_t: waiters wait until n threads have acquired.  The *)
(* application has threads that acquire and release, each once at a time,  *)
(* and threads that wait.                                                  *)
(***************************************************************************)
EXTENDS SemaState

CONSTANT
    Waiters     \* the threads that wait; the others acquire and release

ASSUME InvertedSemaAssumption == Waiters \subseteq Thr

VARIABLE
    acquired    \* history: the threads that have acquired

isemavars == <<cvvars, i, n, acquired>>

ISTypeOK ==
    /\ CVTypeOK
    /\ n \in {-1, N}
    /\ i \in IF n = -1 THEN {-1} ELSE 0..Cardinality(Thr)
    /\ acquired \in SUBSET (Thr \ Waiters)

mnthr_inverted_sema_init ==
    /\ CVInit
    /\ n = N
    /\ i = 0
    /\ acquired = {}

InRange(k) == k >= 0 /\ k <= n

\* Wrong: the count is compared before it is increased.
mnthr_inverted_sema_acquire_OffByOne(t) ==
    /\ Calls(t)
    /\ t \in Thr \ (Waiters \cup acquired)
    /\ IF InRange(i)
       THEN /\ i' = i + 1
            /\ IF i = n THEN mnthr_cond_signal_one(t) ELSE UNCHANGED cvvars
            /\ acquired' = acquired \cup {t}
            /\ UNCHANGED n
       ELSE Fail /\ UNCHANGED <<i, n, acquired>>

mnthr_inverted_sema_acquire(t) ==
    /\ Calls(t)
    /\ t \in Thr \ (Waiters \cup acquired)
    /\ IF InRange(i)
       THEN /\ i' = i + 1
            /\ mnthr_cond_signal_one(t)
            /\ acquired' = acquired \cup {t}
            /\ UNCHANGED n
       ELSE Fail /\ UNCHANGED <<i, n, acquired>>

mnthr_inverted_sema_release(t) ==
    /\ Calls(t)
    /\ t \in acquired
    /\ i' = i - 1
    /\ acquired' = acquired \ {t}
    /\ fault' = ~ InRange(i - 1)
    /\ UNCHANGED <<waitq, pc, rc, intr, n>>

mnthr_inverted_sema_wait(t) ==
    /\ Calls(t)
    /\ t \in Waiters
    /\ CASE ~ InRange(i) -> Fail
         [] InRange(i) /\ i < n -> mnthr_cond_wait(t)
         [] InRange(i) /\ i >= n -> UNCHANGED cvvars
    /\ UNCHANGED <<i, n, acquired>>

\* mnthr_inverted_sema_wait behind mnthr_cond_wait.
wait_waited(t) ==
    /\ WaitOver(t)
    /\ IF i < n THEN mnthr_cond_wait(t) ELSE Leave(t)
    /\ UNCHANGED <<i, n, acquired>>

wait_failed(t) == WaitFailed(t) /\ UNCHANGED <<i, n, acquired>>

mnthr_inverted_sema_fini(t) ==
    /\ MayFini
    /\ Calls(t)
    /\ acquired = {}
    /\ mnthr_cond_signal_all(t)
    /\ n' = -1
    /\ i' = -1
    /\ UNCHANGED acquired

ISInterrupt(t) ==
    /\ mnthr_set_interrupt(t) \/ mnthr_set_retval(t)
    /\ UNCHANGED <<i, n, acquired>>

ISStep(t) ==
    \/ mnthr_inverted_sema_acquire(t)
    \/ mnthr_inverted_sema_release(t)
    \/ mnthr_inverted_sema_wait(t)
    \/ wait_waited(t)
    \/ wait_failed(t)
    \/ mnthr_inverted_sema_fini(t)
    \/ ISInterrupt(t)

ISNext == ~ fault /\ \E t \in Thr : ISStep(t)

ISSpec == mnthr_inverted_sema_init /\ [][ISNext]_isemavars
-----------------------------------------------------------------------------
\* With one waiting thread no wakeup is lost: once n threads have acquired, or
\* the semaphore is destroyed, the thread does not wait, although it was woken
\* by every single acquire before and may have been interrupted in between.
FilledWakes == i >= n => \A t \in Thr : pc[t] # "wait"
=============================================================================
