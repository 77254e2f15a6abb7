------------------------------- MODULE RWLock -------------------------------
(***************************************************************************)
(* mnthr_rwlock_t.  An application thread releases what it has acquired    *)
(* and acquires nothing twice.  A lock is destroyed when nobody holds it,  *)
(* and nobody asks for it afterwards; a thread that still waits in it is   *)
(* woken, takes it and releases it.                                        *)
(***************************************************************************)
EXTENDS CondVar, FiniteSets

ASSUME RWLockAssumption == IsFiniteSet(Thr)

VARIABLES
    nreaders,   \* lock->nreaders
    fwriter,    \* lock->fwriter
    wants,      \* what a thread inside of the lock has called, _read or _write
    readers,    \* history: the threads that have acquired for reading
    writers,    \* history: the threads that have acquired for writing
    gone        \* history: the lock is destroyed

lockvars == <<nreaders, fwriter, readers, writers>>
rwvars   == <<cvvars, lockvars, wants, gone>>

RWTypeOK ==
    /\ CVTypeOK
    /\ nreaders \in 0..Cardinality(Thr)
    /\ fwriter \in BOOLEAN
    /\ wants \in [Thr -> {"read", "write"}]
    /\ readers \in SUBSET Thr
    /\ writers \in SUBSET Thr
    /\ gone \in BOOLEAN

mnthr_rwlock_init ==
    /\ CVInit
    /\ nreaders = 0
    /\ fwriter = FALSE
    /\ wants = [t \in Thr |-> "read"]
    /\ readers = {}
    /\ writers = {}
    /\ gone = FALSE

RWCalls(t) == pc[t] = "out" /\ ~ gone

Holds(t) == t \in readers \cup writers

\* Wrong: a writer does not look at the readers.
MustWait_WriterOnly(want) == want \in {"read", "write"} /\ fwriter

\* The loop conditions of mnthr_rwlock_acquire_read and _write.
MustWait(want) == fwriter \/ (want = "write" /\ nreaders > 0)

TakeRead(t) ==
    /\ nreaders' = nreaders + 1
    /\ readers' = readers \cup {t}
    /\ UNCHANGED <<fwriter, writers>>

TakeWrite(t) ==
    /\ fwriter' = TRUE
    /\ writers' = writers \cup {t}
    /\ UNCHANGED <<nreaders, readers>>

TakeLock(t, want) == IF want = "read" THEN TakeRead(t) ELSE TakeWrite(t)

\* mnthr_rwlock_acquire_read, mnthr_rwlock_acquire_write
mnthr_rwlock_acquire(t, want) ==
    /\ RWCalls(t)
    /\ ~ Holds(t)
    /\ IF MustWait(want)
       THEN mnthr_cond_wait(t) /\ wants' = [wants EXCEPT ![t] = want] /\ UNCHANGED lockvars
       ELSE TakeLock(t, want) /\ UNCHANGED <<cvvars, wants>>
    /\ UNCHANGED gone

\* Both behind mnthr_cond_wait.
rwlock_acquire_waited(t) ==
    /\ WaitOver(t)
    /\ IF MustWait(wants[t]) THEN mnthr_cond_wait(t) /\ UNCHANGED lockvars
       ELSE Leave(t) /\ TakeLock(t, wants[t])
    /\ UNCHANGED <<wants, gone>>

rwlock_acquire_failed(t) == WaitFailed(t) /\ UNCHANGED <<lockvars, wants, gone>>

\* mnthr_rwlock_try_acquire_read, mnthr_rwlock_try_acquire_write
mnthr_rwlock_try_acquire(t, want) ==
    /\ RWCalls(t)
    /\ ~ Holds(t)
    /\ ~ MustWait(want)
    /\ TakeLock(t, want)
    /\ UNCHANGED <<cvvars, wants, gone>>

\* Wrong: the count is compared before it is decreased.
mnthr_rwlock_release_read_OffByOne(t) ==
    /\ pc[t] = "out"
    /\ t \in readers
    /\ IF fwriter THEN Fail /\ UNCHANGED lockvars
       ELSE /\ nreaders' = nreaders - 1
            /\ readers' = readers \ {t}
            /\ IF nreaders = 0 THEN mnthr_cond_signal_one(t) ELSE UNCHANGED cvvars
            /\ UNCHANGED <<fwriter, writers>>
    /\ UNCHANGED <<wants, gone>>

mnthr_rwlock_release_read(t) ==
    /\ pc[t] = "out"
    /\ t \in readers
    /\ IF fwriter THEN Fail /\ UNCHANGED lockvars
       ELSE /\ nreaders' = nreaders - 1
            /\ readers' = readers \ {t}
            /\ IF nreaders = 1 THEN mnthr_cond_signal_one(t) ELSE UNCHANGED cvvars
            /\ UNCHANGED <<fwriter, writers>>
    /\ UNCHANGED <<wants, gone>>

\* Wrong: one thread is woken.
mnthr_rwlock_release_write_WakesOne(t) ==
    /\ pc[t] = "out"
    /\ t \in writers
    /\ IF ~ (fwriter /\ nreaders = 0) THEN Fail /\ UNCHANGED lockvars
       ELSE /\ fwriter' = FALSE
            /\ writers' = writers \ {t}
            /\ mnthr_cond_signal_one(t)
            /\ UNCHANGED <<nreaders, readers>>
    /\ UNCHANGED <<wants, gone>>

mnthr_rwlock_release_write(t) ==
    /\ pc[t] = "out"
    /\ t \in writers
    /\ IF ~ (fwriter /\ nreaders = 0) THEN Fail /\ UNCHANGED lockvars
       ELSE /\ fwriter' = FALSE
            /\ writers' = writers \ {t}
            /\ mnthr_cond_signal_all(t)
            /\ UNCHANGED <<nreaders, readers>>
    /\ UNCHANGED <<wants, gone>>

mnthr_rwlock_fini(t) ==
    /\ MayFini
    /\ RWCalls(t)
    /\ readers \cup writers = {}
    /\ mnthr_cond_signal_all(t)
    /\ nreaders' = 0
    /\ fwriter' = FALSE
    /\ gone' = TRUE
    /\ UNCHANGED <<wants, readers, writers>>

RWInterrupt(t) ==
    /\ mnthr_set_interrupt(t) \/ mnthr_set_retval(t)
    /\ UNCHANGED <<lockvars, wants, gone>>

RWAct(t) ==
    \/ \E want \in {"read", "write"} : mnthr_rwlock_acquire(t, want)
    \/ rwlock_acquire_waited(t)
    \/ rwlock_acquire_failed(t)
    \/ \E want \in {"read", "write"} : mnthr_rwlock_try_acquire(t, want)
    \/ mnthr_rwlock_release_read(t)
    \/ mnthr_rwlock_release_write(t)
    \/ mnthr_rwlock_fini(t)
    \/ RWInterrupt(t)

RWNext == ~ fault /\ \E t \in Thr : RWAct(t)

RWSpec == mnthr_rwlock_init /\ [][RWNext]_rwvars

\* A holder releases eventually, and the scheduler resumes who is scheduled.
RWFairSpec ==
    /\ RWSpec
    /\ \A t \in Thr : /\ WF_rwvars(mnthr_rwlock_release_read(t))
                      /\ WF_rwvars(mnthr_rwlock_release_write(t))
                      /\ WF_rwvars(rwlock_acquire_waited(t))
-----------------------------------------------------------------------------
\* A writer is alone, and the lock's two fields tell exactly who holds it,
\* whatever interrupts happened to the threads waiting in it.
Exclusion ==
    /\ writers # {} => readers = {} /\ Cardinality(writers) = 1
    /\ fwriter <=> writers # {}
    /\ nreaders = Cardinality(readers)

\* No wakeup is lost: when the lock is free and threads wait, one is on its way,
\* although the last reader wakes one thread only and anyone may take the lock
\* before it.  (A thread that is interrupted does not pass on the signal it was
\* woken by.)
NoLostRelease ==
    ~ intr /\ readers \cup writers = {} /\ (\E t \in Thr : pc[t] = "wait") =>
        \E t \in Thr : pc[t] = "ready"

\* A reader waits for a writer only, never behind another waiting thread:
\* mnthr_rwlock_release_read, which wakes one, cannot wake the wrong kind.
ReadersWaitForWriter ==
    \A t \in Thr : pc[t] = "wait" /\ wants[t] = "read" => fwriter

\* A waiting reader is woken eventually, unless an interrupted thread keeps the
\* signal.
ReaderWoken ==
    \A t \in Thr : (pc[t] = "wait" /\ wants[t] = "read") ~> pc[t] # "wait" \/ intr

\* The lock is shared by readers or belongs to one writer: nobody gets in who would
\* have to wait, and nobody leaves but by a release, through all waiting, failing and
\* destroying.
Access == INSTANCE SharedLock WITH
            Limit <- Cardinality(Thr), shared <- readers, exclusive <- writers

SharesAccess == Access!SLSpec
=============================================================================
