-------------------------- MODULE PrimitivesProofs ---------------------------
(***************************************************************************)
(* The primitives on the condition variable, for any number of threads and *)
(* units, with interrupts and with the destruction of one threads wait in: *)
(* the semaphore counts exactly and loses no wakeup, the inverted one      *)
(* wakes its waiter, and the reader-writer lock excludes and loses no      *)
(* release.  Semaphore and lock implement SharedLock.                      *)
(***************************************************************************)
EXTENDS Semaphore, InvertedSemaphore, RWLock, CondVarProofs, FiniteSetTheorems

\* Who waits, or is on its way from waiting, holds nothing: mnthr_sema_acquire
\* is the only call a holder does not make.
WaitersHoldNothing == \A t \in Thr : pc[t] # "out" => t \notin holders

\* Counted by itself is not inductive: a thread that comes back from waiting is
\* added to the holders, and the cardinality grows only if it was none.
SemaInv ==
    /\ CVInv
    /\ TypeOK
    /\ WaitersHoldNothing
    /\ Counted

\* A new semaphore has all its units, and nobody waits.
LEMMA SemaInit == mnthr_sema_init => SemaInv
  <1> SUFFICES ASSUME mnthr_sema_init PROVE SemaInv
    OBVIOUS
  <1>1. CVInv
    BY CondInit DEF mnthr_sema_init
  <1>2. /\ n = N /\ i = N /\ holders = {} /\ N \in Nat /\ N # 0
    BY SemaAssumption DEF mnthr_sema_init
  <1>3. TypeOK
    <2>1. CVTypeOK
      BY <1>1 DEF CVInv
    <2> QED
      BY <2>1, <1>2 DEF TypeOK
  <1>4. Counted
    BY <1>2, FS_EmptySet DEF Counted
  <1> QED
    BY <1>1, <1>2, <1>3, <1>4 DEF SemaInv, WaitersHoldNothing

\* The holders are finitely many.
LEMMA HoldersFinite ==
    ASSUME SemaInv
    PROVE  IsFiniteSet(holders) /\ Cardinality(holders) \in Nat
  <1>1. holders \in SUBSET Thr /\ IsFiniteSet(Thr)
    BY SemaAssumption DEF SemaInv, TypeOK
  <1> QED
    BY <1>1, FS_Subset, FS_CardinalityType

\* Taking a unit keeps the count.
LEMMA TakeCounts ==
    ASSUME NEW t \in Thr, SemaInv, i > 0, t \notin holders, Take(t)
    PROVE  /\ Counted'
           /\ holders' = holders \cup {t} /\ holders' \in SUBSET Thr
           /\ n' = n /\ n' \in {-1, N}
           /\ i' \in IF n' = -1 THEN {-1} ELSE 0..N
  <1>1. /\ holders \in SUBSET Thr
        /\ n \in {-1, N}
        /\ i \in IF n = -1 THEN {-1} ELSE 0..N
        /\ N \in Nat /\ N # 0
    BY SemaAssumption DEF SemaInv, TypeOK
  <1>2. n = N /\ i \in 1..N
    BY <1>1
  <1>3. i' = i - 1 /\ holders' = holders \cup {t} /\ n' = n
    BY DEF Take
  <1>4. Cardinality(holders') = Cardinality(holders) + 1
    BY <1>3, HoldersFinite, FS_AddElement
  <1>5. i + Cardinality(holders) = n
    BY <1>1, <1>2 DEF SemaInv, Counted
  <1>6. Cardinality(holders) \in Nat
    BY HoldersFinite
  <1>7. i' + Cardinality(holders') = n'
    BY <1>2, <1>3, <1>4, <1>5, <1>6
  <1> QED
    BY <1>1, <1>2, <1>3, <1>7 DEF Counted

\* Every step keeps the invariant.
LEMMA SemaStep == SemaInv /\ [Next]_semavars => SemaInv'
  <1> SUFFICES ASSUME SemaInv, [Next]_semavars PROVE SemaInv'
    OBVIOUS
  <1>1. CVInv /\ TypeOK /\ WaitersHoldNothing /\ Counted
    BY DEF SemaInv
  <1> DEFINE Same == i' = i /\ n' = n /\ holders' = holders
  \* A step of thread t on the condition variable that leaves the count alone.
  <1>2. ASSUME NEW t \in Thr, CVInv', EntersAtMost(t), Same, t \notin holders \/ pc'[t] = "out"
        PROVE  SemaInv'
    <2>1. TypeOK'
      BY <1>1, <1>2 DEF TypeOK, CVInv
    <2>2. Counted'
      BY <1>1, <1>2 DEF Counted
    <2>3. WaitersHoldNothing'
      BY <1>1, <1>2 DEF WaitersHoldNothing, EntersAtMost
    <2> QED
      BY <1>2, <2>1, <2>2, <2>3 DEF SemaInv
  \* A step of thread t that takes a unit and stays, or gets, out.
  <1>3. ASSUME NEW t \in Thr, CVInv', EntersAtMost(t), i > 0, t \notin holders, Take(t),
               pc'[t] = "out"
        PROVE  SemaInv'
    <2>1. /\ Counted' /\ holders' = holders \cup {t} /\ holders' \in SUBSET Thr
          /\ n' \in {-1, N} /\ i' \in IF n' = -1 THEN {-1} ELSE 0..N
      BY <1>3, TakeCounts
    <2>2. TypeOK'
      BY <1>3, <2>1 DEF TypeOK, CVInv
    <2>3. WaitersHoldNothing'
      BY <1>1, <1>3, <2>1 DEF WaitersHoldNothing, EntersAtMost
    <2> QED
      BY <1>3, <2>1, <2>2, <2>3 DEF SemaInv
  <1>4. ASSUME NEW t \in Thr, mnthr_sema_acquire(t) PROVE SemaInv'
    <2>1. pc[t] = "out" /\ t \notin holders
      BY <1>4 DEF mnthr_sema_acquire, Calls
    <2>2. CASE i > 0
      <3>1. Take(t) /\ UNCHANGED cvvars
        BY <1>4, <2>2 DEF mnthr_sema_acquire
      <3>2. CVInv' /\ EntersAtMost(t)
        BY <1>1, <3>1, OtherKeeps
      <3>3. pc'[t] = "out"
        BY <2>1, <3>1 DEF cvvars
      <3> QED
        BY <1>3, <2>1, <2>2, <3>1, <3>2, <3>3
    <2>3. CASE ~ (i > 0)
      <3>1. mnthr_cond_wait(t) /\ Same
        BY <1>4, <2>3 DEF mnthr_sema_acquire
      <3>2. CVInv' /\ EntersAtMost(t)
        BY <1>1, <3>1, CondWaitKeeps
      <3> QED
        BY <1>2, <2>1, <3>1, <3>2
    <2> QED
      BY <2>2, <2>3
  <1>5. ASSUME NEW t \in Thr, acquire_waited(t) PROVE SemaInv'
    <2>1. pc[t] = "ready" /\ t \notin holders
      BY <1>1, <1>5 DEF acquire_waited, WaitOver, WaitersHoldNothing
    <2>2. CASE i = 0
      <3>1. mnthr_cond_wait(t) /\ Same
        BY <1>5, <2>2 DEF acquire_waited
      <3>2. CVInv' /\ EntersAtMost(t)
        BY <1>1, <3>1, CondWaitKeeps
      <3> QED
        BY <1>2, <2>1, <3>1, <3>2
    <2>3. CASE i # 0 /\ i > 0 /\ i <= n
      <3>1. Leave(t) /\ Take(t)
        BY <1>5, <2>3 DEF acquire_waited
      <3>2. CVInv' /\ EntersAtMost(t)
        BY <1>1, <3>1, OtherKeeps
      <3>3. pc'[t] = "out"
        BY <1>1, <3>1 DEF Leave, CVInv, CVTypeOK
      <3> QED
        BY <1>3, <2>1, <2>3, <3>1, <3>2, <3>3
    <2>4. CASE i # 0 /\ ~ (i > 0 /\ i <= n)
      <3>1. Fail /\ Same
        BY <1>5, <2>4 DEF acquire_waited
      <3>2. CVInv' /\ EntersAtMost(t)
        BY <1>1, <3>1, OtherKeeps
      <3> QED
        BY <1>2, <2>1, <3>1, <3>2
    <2> QED
      BY <2>2, <2>3, <2>4
  <1>6. ASSUME NEW t \in Thr, acquire_failed(t) PROVE SemaInv'
    <2>1. WaitFailed(t) /\ Same
      BY <1>6 DEF acquire_failed
    <2>2. CVInv' /\ EntersAtMost(t)
      BY <1>1, <2>1, OtherKeeps
    <2>3. pc'[t] = "out"
      BY <1>1, <2>1 DEF WaitFailed, CVInv, CVTypeOK
    <2> QED
      BY <1>2, <2>1, <2>2, <2>3
  <1>7. ASSUME NEW t \in Thr, mnthr_sema_try_acquire(t) PROVE SemaInv'
    <2>1. pc[t] = "out" /\ t \notin holders /\ i > 0 /\ Take(t) /\ UNCHANGED cvvars
      BY <1>7 DEF mnthr_sema_try_acquire, Calls
    <2>2. CVInv' /\ EntersAtMost(t)
      BY <1>1, <2>1, OtherKeeps
    <2>3. pc'[t] = "out"
      BY <2>1 DEF cvvars
    <2> QED
      BY <1>3, <2>1, <2>2, <2>3
  <1>8. ASSUME NEW t \in Thr, mnthr_sema_release(t) PROVE SemaInv'
    <2>1. pc[t] = "out" /\ t \in holders /\ n # -1
      BY <1>8 DEF mnthr_sema_release, Calls
    <2>2. CASE i >= 0 /\ i < n
      <3>1. /\ mnthr_cond_signal_one(t)
            /\ i' = i + 1 /\ holders' = holders \ {t} /\ n' = n
        BY <1>8, <2>2 DEF mnthr_sema_release
      <3>2. CVInv' /\ EntersAtMost(t)
        BY <1>1, <3>1, SignalOneKeeps
      <3>3. n = N /\ i \in 0..N /\ N \in Nat /\ N # 0 /\ holders \in SUBSET Thr
        BY <1>1, <2>1, SemaAssumption DEF TypeOK
      <3>4. Cardinality(holders') = Cardinality(holders) - 1
        BY <2>1, <3>1, HoldersFinite, FS_RemoveElement
      <3>5. Cardinality(holders) \in Nat
        BY HoldersFinite
      <3>6. i' + Cardinality(holders') = n'
        BY <1>1, <2>1, <3>1, <3>3, <3>4, <3>5 DEF Counted
      <3>7. TypeOK'
        BY <2>2, <3>1, <3>2, <3>3 DEF TypeOK, CVInv
      <3>8. WaitersHoldNothing'
        BY <1>1, <3>1, <3>2 DEF WaitersHoldNothing, EntersAtMost
      <3> QED
        BY <3>2, <3>6, <3>7, <3>8 DEF SemaInv, Counted
    <2>3. CASE ~ (i >= 0 /\ i < n)
      <3>1. Fail /\ Same
        BY <1>8, <2>3 DEF mnthr_sema_release
      <3>2. CVInv' /\ EntersAtMost(t)
        BY <1>1, <3>1, OtherKeeps
      <3>3. pc'[t] = "out"
        BY <2>1, <3>1 DEF Fail
      <3> QED
        BY <1>2, <3>1, <3>2, <3>3
    <2> QED
      BY <2>2, <2>3
  <1>9. ASSUME NEW t \in Thr, mnthr_sema_fini(t) PROVE SemaInv'
    <2>1. /\ mnthr_cond_signal_all(t)
          /\ holders = {} /\ n' = -1 /\ i' = -1 /\ holders' = holders
      BY <1>9 DEF mnthr_sema_fini
    <2>2. CVInv'
      BY <1>1, <2>1, SignalAllKeeps
    <2>3. TypeOK'
      BY <2>1, <2>2 DEF TypeOK, CVInv
    <2> QED
      BY <2>1, <2>2, <2>3 DEF SemaInv, WaitersHoldNothing, Counted
  <1>10. ASSUME NEW t \in Thr, Interrupt(t) PROVE SemaInv'
    <2>1. (mnthr_set_interrupt(t) \/ mnthr_set_retval(t)) /\ Same
      BY <1>10 DEF Interrupt
    <2>2. CVInv' /\ EntersAtMost(t)
      BY <1>1, <2>1, OtherKeeps
    <2>3. pc'[t] # "out" => pc[t] # "out"
      BY <1>1, <2>1 DEF mnthr_set_interrupt, mnthr_set_retval, CVInv, CVTypeOK
    <2>4. t \notin holders \/ pc'[t] = "out"
      BY <1>1, <2>3 DEF WaitersHoldNothing
    <2> QED
      BY <1>2, <2>1, <2>2, <2>4
  <1>11. CASE UNCHANGED semavars
    <2>1. UNCHANGED cvvars /\ Same
      BY <1>11 DEF semavars
    <2> QED
      BY <1>1, <2>1 DEF SemaInv, CVInv, CVTypeOK, WaitersQueued, TypeOK,
                        WaitersHoldNothing, Counted, cvvars
  <1> QED
    BY <1>4, <1>5, <1>6, <1>7, <1>8, <1>9, <1>10, <1>11 DEF Next, Step

\* Every field keeps its type; in particular the count stays within 0..n.
THEOREM SemaphoreTypes == Spec => []TypeOK
  <1>1. SemaInv => TypeOK
    BY DEF SemaInv
  <1> QED
    BY <1>1, SemaInit, SemaStep, PTL DEF Spec

\* i units are free and the others are held, for ever, whoever is interrupted
\* while waiting.
THEOREM SemaphoreCounts == Spec => []Counted
  <1>1. SemaInv => Counted
    BY DEF SemaInv
  <1> QED
    BY <1>1, SemaInit, SemaStep, PTL DEF Spec

\* A thread that waits for a unit can always be found by mnthr_sema_release.
THEOREM SemaphoreWaitersQueued == Spec => []WaitersQueued
  <1>1. SemaInv => WaitersQueued
    BY DEF SemaInv, CVInv
  <1> QED
    BY <1>1, SemaInit, SemaStep, PTL DEF Spec

\* Every step shares one more unit, gives one back, or leaves the holders alone.  That a
\* unit is there for who takes one is what Counted says.
LEMMA SharesUnitsStep ==
    SemaInv /\ [Next]_semavars => [Units!SLNext]_(Units!slvars)
  <1> SUFFICES ASSUME SemaInv, [Next]_semavars, holders' # holders PROVE Units!SLNext
    BY DEF Units!slvars
  <1>1. ASSUME NEW t \in Thr, t \notin holders, i > 0, Take(t) PROVE Units!Share(t)
    <2>1. n = N /\ i \in 1..N /\ N \in Nat
      BY <1>1, SemaAssumption DEF SemaInv, TypeOK
    <2>2. i + Cardinality(holders) = N /\ Cardinality(holders) \in Nat
      BY <2>1, HoldersFinite DEF SemaInv, Counted
    <2>3. Cardinality(holders) < N
      BY <2>1, <2>2
    <2>4. Units!Cardinality(holders) = Cardinality(holders)
      BY DEF Units!Cardinality, Cardinality
    <2> QED
      BY <1>1, <2>3, <2>4 DEF Take, Units!Share
  <1>2. ASSUME NEW t \in Thr, mnthr_sema_acquire(t) \/ mnthr_sema_try_acquire(t)
        PROVE  Units!Share(t)
    BY <1>1, <1>2 DEF mnthr_sema_acquire, mnthr_sema_try_acquire
  <1>3. ASSUME NEW t \in Thr, acquire_waited(t) PROVE Units!Share(t)
    <2>1. t \notin holders
      BY <1>3 DEF acquire_waited, WaitOver, SemaInv, WaitersHoldNothing
    <2> QED
      BY <1>1, <1>3, <2>1 DEF acquire_waited
  <1>4. ASSUME NEW t \in Thr, mnthr_sema_release(t) PROVE Units!Unshare(t)
    BY <1>4 DEF mnthr_sema_release, Units!Unshare
  <1>5. ASSUME NEW t \in Thr, acquire_failed(t) \/ mnthr_sema_fini(t) \/ Interrupt(t)
        PROVE  FALSE
    BY <1>5 DEF acquire_failed, mnthr_sema_fini, Interrupt
  <1>6. ~ UNCHANGED semavars
    BY DEF semavars
  <1> QED
    BY <1>2, <1>3, <1>4, <1>5, <1>6 DEF Next, Step, Units!SLNext

\* mnthr_sema_t implements N units to share, for any number of threads and units, with
\* barging, interrupts and destruction.
THEOREM SemaphoreSharesUnits == Spec => SharesUnits
  <1>1. mnthr_sema_init => Units!SLInit
    BY DEF mnthr_sema_init, Units!SLInit
  <1> QED
    BY <1>1, SemaInit, SemaStep, SharesUnitsStep, PTL DEF Spec, SharesUnits, Units!SLSpec

\* The threads that are scheduled to go on in mnthr_sema_acquire.
Ready == {t \in Thr : pc[t] = "ready"}

\* There are finitely many of them, so that they can be counted.
LEMMA ReadyFinite == IsFiniteSet(Ready) /\ Cardinality(Ready) \in Nat
  <1>1. Ready \in SUBSET Thr
    BY DEF Ready
  <1> QED
    BY <1>1, SemaAssumption, FS_Subset, FS_CardinalityType

\* The last part of the invariant, step by step.  A release with somebody in the
\* queue frees one unit and wakes one thread; who goes on takes a unit or finds
\* none; and nobody fails to go on, as long as nobody was interrupted.
LEMMA WakeupStep ==
    SemaInv /\ QuietQueue /\ NoLostWakeup /\ [Next]_semavars => QuietQueue' /\ NoLostWakeup'
  <1> SUFFICES ASSUME SemaInv, QuietQueue, NoLostWakeup, [Next]_semavars
               PROVE  QuietQueue' /\ NoLostWakeup'
    OBVIOUS
  <1>1. /\ CVInv /\ pc \in [Thr -> {"out", "wait", "ready"}]
        /\ n \in {-1, N} /\ N \in Nat
        /\ i \in IF n = -1 THEN {-1} ELSE 0..N
    BY SemaAssumption DEF SemaInv, TypeOK, CVInv, CVTypeOK
  <1> DEFINE Same == i' = i /\ n' = n
  <1> DEFINE Somebody == \E u \in Thr : pc[u] = "wait"
  <1>2. ~ intr /\ n # -1 /\ Somebody => Cardinality(Ready) >= i
    BY DEF NoLostWakeup, Ready
  <1>3. SUFFICES QuietQueue' /\ (~ intr' /\ n' # -1 /\ Somebody' => Cardinality(Ready') >= i')
    BY DEF NoLostWakeup, Ready
  <1>4. Cardinality(Ready) \in Nat /\ Cardinality(Ready') \in Nat /\ IsFiniteSet(Ready)
    <2>1. Ready' \in SUBSET Thr
      BY DEF Ready
    <2> QED
      BY <2>1, ReadyFinite, SemaAssumption, FS_Subset, FS_CardinalityType
  <1> HIDE DEF Somebody
  \* The threads stay where they are, and no unit becomes free.
  <1>5. ASSUME pc' = pc, n' = n, i' <= i, ~ intr' => ~ intr, i' \in Int
        PROVE  ~ intr' /\ n' # -1 /\ Somebody' => Cardinality(Ready') >= i'
    <2>1. Ready' = Ready /\ (Somebody' <=> Somebody)
      BY <1>5 DEF Ready, Somebody
    <2> QED
      BY <1>1, <1>2, <1>4, <1>5, <2>1
  \* Thread t finds no unit and waits.
  <1>6. ASSUME NEW t \in Thr, mnthr_cond_wait(t), Same, ~ (i > 0)
        PROVE  QuietQueue' /\ (n' # -1 => Cardinality(Ready') >= i')
    <2>1. QuietQueue'
      BY <1>1, <1>6, QuietWait
    <2> QED
      BY <1>1, <1>4, <1>6, <2>1
  <1>7. ASSUME NEW t \in Thr, mnthr_sema_acquire(t)
        PROVE  QuietQueue' /\ (~ intr' /\ n' # -1 /\ Somebody' => Cardinality(Ready') >= i')
    <2>1. CASE i > 0
      <3>1. Take(t) /\ UNCHANGED cvvars
        BY <1>7, <2>1 DEF mnthr_sema_acquire
      <3>2. QuietQueue'
        BY <1>1, <3>1, QuietOther
      <3> QED
        BY <1>1, <1>5, <3>1, <3>2 DEF Take, cvvars
    <2>2. CASE ~ (i > 0)
      BY <1>6, <1>7, <2>2 DEF mnthr_sema_acquire
    <2> QED
      BY <2>1, <2>2
  <1>8. ASSUME NEW t \in Thr, acquire_waited(t)
        PROVE  QuietQueue' /\ (~ intr' /\ n' # -1 /\ Somebody' => Cardinality(Ready') >= i')
    <2>1. pc[t] = "ready"
      BY <1>8 DEF acquire_waited, WaitOver
    <2>2. CASE i = 0
      <3>1. mnthr_cond_wait(t) /\ Same
        BY <1>8, <2>2 DEF acquire_waited
      <3> QED
        BY <1>6, <2>2, <3>1
    <2>3. CASE i # 0 /\ i > 0 /\ i <= n
      <3>1. Leave(t) /\ i' = i - 1 /\ n' = n
        BY <1>8, <2>3 DEF acquire_waited, Take
      <3>2. QuietQueue'
        BY <1>1, <2>1, <3>1, QuietOther
      <3>3. pc' = [pc EXCEPT ![t] = "out"] /\ intr' = intr
        BY <3>1 DEF Leave
      <3>4. Ready' = Ready \ {t} /\ t \in Ready /\ (Somebody' => Somebody)
        BY <1>1, <2>1, <3>3 DEF Ready, Somebody
      <3>5. Cardinality(Ready') = Cardinality(Ready) - 1
        BY <1>4, <3>4, FS_RemoveElement
      <3> QED
        BY <1>1, <1>2, <1>4, <2>3, <3>1, <3>2, <3>3, <3>4, <3>5
    <2>4. CASE i # 0 /\ ~ (i > 0 /\ i <= n)
      <3>1. Fail /\ Same
        BY <1>8, <2>4 DEF acquire_waited
      <3>2. QuietQueue'
        BY <1>1, <3>1, QuietOther
      <3> QED
        BY <1>1, <1>5, <3>1, <3>2 DEF Fail
    <2> QED
      BY <2>2, <2>3, <2>4
  <1>9. ASSUME NEW t \in Thr, acquire_failed(t)
        PROVE  QuietQueue' /\ (~ intr' /\ n' # -1 /\ Somebody' => Cardinality(Ready') >= i')
    BY <1>1, <1>9, QuietOther DEF acquire_failed
  <1>10. ASSUME NEW t \in Thr, mnthr_sema_try_acquire(t)
         PROVE  QuietQueue' /\ (~ intr' /\ n' # -1 /\ Somebody' => Cardinality(Ready') >= i')
    <2>1. Take(t) /\ UNCHANGED cvvars
      BY <1>10 DEF mnthr_sema_try_acquire
    <2>2. QuietQueue'
      BY <1>1, <2>1, QuietOther
    <2> QED
      BY <1>1, <1>5, <2>1, <2>2 DEF Take, cvvars
  <1>11. ASSUME NEW t \in Thr, mnthr_sema_release(t)
         PROVE  QuietQueue' /\ (~ intr' /\ n' # -1 /\ Somebody' => Cardinality(Ready') >= i')
    <2>1. CASE i >= 0 /\ i < n
      <3>1. mnthr_cond_signal_one(t) /\ i' = i + 1 /\ n' = n
        BY <1>11, <2>1 DEF mnthr_sema_release
      <3>2. QuietQueue' /\ intr' = intr
        BY <1>1, <3>1, QuietSignalOne
      <3>3. SUFFICES ASSUME ~ intr, Somebody' PROVE Cardinality(Ready') >= i'
        BY <3>2
      <3>4. CASE pc' = pc /\ \A u \in Thr : pc[u] # "wait"
        BY <3>3, <3>4 DEF Somebody
      <3>5. CASE \E h \in Thr : pc[h] = "wait" /\ pc' = [pc EXCEPT ![h] = "ready"]
        <4>1. PICK h \in Thr : pc[h] = "wait" /\ pc' = [pc EXCEPT ![h] = "ready"]
          BY <3>5
        <4>2. Ready' = Ready \cup {h} /\ h \notin Ready /\ Somebody
          BY <1>1, <4>1 DEF Ready, Somebody
        <4>3. Cardinality(Ready') = Cardinality(Ready) + 1
          BY <1>4, <4>2, FS_AddElement
        <4> QED
          BY <1>1, <1>2, <1>4, <2>1, <3>1, <3>3, <4>2, <4>3
      <3> QED
        BY <1>1, <3>1, <3>3, <3>4, <3>5, QuietSignalOne
    <2>2. CASE ~ (i >= 0 /\ i < n)
      <3>1. Fail /\ Same
        BY <1>11, <2>2 DEF mnthr_sema_release
      <3>2. QuietQueue'
        BY <1>1, <3>1, QuietOther
      <3> QED
        BY <1>1, <1>5, <3>1, <3>2 DEF Fail
    <2> QED
      BY <2>1, <2>2
  <1>12. ASSUME NEW t \in Thr, mnthr_sema_fini(t)
         PROVE  QuietQueue' /\ (~ intr' /\ n' # -1 /\ Somebody' => Cardinality(Ready') >= i')
    BY <1>12, QuietSignalAll DEF mnthr_sema_fini
  <1>13. ASSUME NEW t \in Thr, Interrupt(t)
         PROVE  QuietQueue' /\ (~ intr' /\ n' # -1 /\ Somebody' => Cardinality(Ready') >= i')
    <2>1. (mnthr_set_interrupt(t) \/ mnthr_set_retval(t)) /\ Same
      BY <1>13 DEF Interrupt
    <2>2. QuietQueue' /\ (~ intr' => mnthr_set_retval(t))
      BY <1>1, <2>1, QuietOther
    <2>3. mnthr_set_retval(t) => pc' = pc /\ intr' = intr
      BY DEF mnthr_set_retval
    <2> QED
      BY <1>1, <1>5, <2>1, <2>2, <2>3
  <1>14. CASE UNCHANGED semavars
    <2>1. UNCHANGED cvvars /\ Same
      BY <1>14 DEF semavars
    <2>2. QuietQueue'
      BY <2>1 DEF QuietQueue, cvvars
    <2> QED
      BY <1>1, <1>5, <2>1, <2>2 DEF cvvars
  <1> QED
    BY <1>7, <1>8, <1>9, <1>10, <1>11, <1>12, <1>13, <1>14 DEF Next, Step

\* While threads wait, at least as many are on their way as there are free units:
\* mnthr_sema_release signals before it counts and others take the unit first,
\* and still no thread sleeps next to a free unit, for any number of threads and
\* units.
THEOREM SemaphoreNoLostWakeup == Spec => []NoLostWakeup
  <1>1. mnthr_sema_init => QuietQueue /\ NoLostWakeup
    BY QuietInit DEF mnthr_sema_init, CVInit, NoLostWakeup
  <1> QED
    BY <1>1, SemaInit, SemaStep, WakeupStep, PTL DEF Spec
-----------------------------------------------------------------------------
(***************************************************************************)
(* The inverted semaphore.                                                 *)
(***************************************************************************)

\* Only the threads that wait are ever inside of the primitive or in its queue.
OnlyWaiters == /\ \A t \in Thr : pc[t] # "out" => t \in Waiters
               /\ \A t \in Elems(waitq) : t \in Waiters

\* i counts the threads that have acquired.
ISCounted == n # -1 => i = Cardinality(acquired)

\* FilledWakes by itself is not inductive: the signal of the last acquire reaches the
\* waiter because nobody else stands in the queue in front of it.
ISInv ==
    /\ CVInv
    /\ ISTypeOK
    /\ OnlyWaiters
    /\ ISCounted

\* Nobody but a waiter gets into the queue.
LEMMA WaitersEnter ==
    ASSUME NEW t \in Thr, CVInv, OnlyWaiters,
           \/ t \in Waiters /\ mnthr_cond_wait(t)
           \/ mnthr_cond_signal_one(t)
           \/ mnthr_cond_signal_all(t)
           \/ UNCHANGED waitq /\ \A u \in Thr : pc'[u] # "out" => pc[u] # "out"
    PROVE  OnlyWaiters'
  <1>1. /\ waitq \in Seq(Thr) /\ Distinct(waitq) /\ pc \in [Thr -> {"out", "wait", "ready"}]
        /\ \A u \in Thr : pc[u] # "out" => u \in Waiters
        /\ \A u \in Elems(waitq) : u \in Waiters
    BY DEF CVInv, CVTypeOK, WaitersQueued, OnlyWaiters
  <1>2. CASE t \in Waiters /\ mnthr_cond_wait(t)
    <2> DEFINE r == DTQUEUE_REMOVE(waitq, t)
    <2>1. r \in Seq(Thr) /\ Elems(r) = Elems(waitq) \ {t}
      BY <1>1, RemoveElems
    <2>2. waitq' = DTQUEUE_ENQUEUE(r, t) /\ pc' = [pc EXCEPT ![t] = "wait"]
      BY <1>2 DEF mnthr_cond_wait
    <2> HIDE DEF r
    <2>3. Elems(waitq') = Elems(r) \cup {t}
      BY <2>1, <2>2, EnqueueElems
    <2> QED
      BY <1>1, <1>2, <2>1, <2>2, <2>3 DEF OnlyWaiters
  <1>3. ASSUME NEW S, set_resume(S, t) PROVE \A u \in Thr : pc'[u] # "out" => u \in Waiters
    BY <1>1, <1>3 DEF set_resume
  <1>4. CASE mnthr_cond_signal_one(t)
    <2>1. CASE waitq = <<>>
      BY <1>4, <2>1 DEF mnthr_cond_signal_one, cvvars, OnlyWaiters
    <2>2. CASE waitq # <<>>
      <3>1. waitq' = Tail(waitq) /\ set_resume({Head(waitq)}, t)
        BY <1>4, <2>2 DEF mnthr_cond_signal_one
      <3>2. Elems(Tail(waitq)) = Elems(waitq) \ {Head(waitq)}
        BY <1>1, <2>2, TailElems
      <3> QED
        BY <1>1, <1>3, <3>1, <3>2 DEF OnlyWaiters
    <2> QED
      BY <2>1, <2>2
  <1>5. CASE mnthr_cond_signal_all(t)
    <2>1. waitq' = <<>> /\ set_resume(Elems(waitq), t)
      BY <1>5 DEF mnthr_cond_signal_all
    <2>2. Elems(waitq') = {}
      BY <2>1 DEF Elems
    <2> QED
      BY <1>3, <2>1, <2>2 DEF OnlyWaiters
  <1>6. CASE UNCHANGED waitq /\ \A u \in Thr : pc'[u] # "out" => pc[u] # "out"
    BY <1>1, <1>6 DEF OnlyWaiters
  <1> QED
    BY <1>2, <1>4, <1>5, <1>6

\* The steps on the condition variable that leave the queue alone let nobody in.
LEMMA NobodyEnters ==
    ASSUME NEW t \in Thr, CVInv,
           \/ mnthr_set_interrupt(t)
           \/ mnthr_set_retval(t)
           \/ WaitFailed(t)
           \/ Leave(t)
           \/ Fail
           \/ UNCHANGED cvvars
    PROVE  /\ UNCHANGED waitq
           /\ \A u \in Thr : pc'[u] # "out" => pc[u] # "out"
           /\ \A u \in Thr : pc'[u] = "wait" => pc[u] = "wait"
  <1>1. pc \in [Thr -> {"out", "wait", "ready"}]
    BY DEF CVInv, CVTypeOK
  <1> QED
    BY <1>1 DEF mnthr_set_interrupt, mnthr_set_retval, WaitFailed, Leave, Fail, cvvars

\* A new inverted semaphore has counted nobody, and nobody waits.
LEMMA ISInit == mnthr_inverted_sema_init => ISInv /\ FilledWakes
  <1> SUFFICES ASSUME mnthr_inverted_sema_init PROVE ISInv /\ FilledWakes
    OBVIOUS
  <1>1. CVInv /\ CVTypeOK
    BY CondInit DEF mnthr_inverted_sema_init, CVInv
  <1>2. /\ n = N /\ i = 0 /\ acquired = {} /\ N \in Nat /\ waitq = <<>>
        /\ \A t \in Thr : pc[t] = "out"
    BY SemaAssumption DEF mnthr_inverted_sema_init, CVInit
  <1>3. Cardinality(Thr) \in Nat
    BY SemaAssumption, FS_CardinalityType
  <1>4. ISTypeOK
    BY <1>1, <1>2, <1>3 DEF ISTypeOK
  <1>5. OnlyWaiters
    BY <1>2 DEF OnlyWaiters, Elems
  <1>6. ISCounted
    BY <1>2, FS_EmptySet DEF ISCounted
  <1> QED
    BY <1>1, <1>2, <1>4, <1>5, <1>6 DEF ISInv, FilledWakes

\* Every step keeps the invariant.
LEMMA ISStepKeeps == ISInv /\ [ISNext]_isemavars => ISInv'
  <1> SUFFICES ASSUME ISInv, [ISNext]_isemavars PROVE ISInv'
    OBVIOUS
  <1> DEFINE Same == i' = i /\ n' = n /\ acquired' = acquired
             C == Cardinality(Thr)
  <1>1. CVInv /\ ISTypeOK /\ OnlyWaiters /\ ISCounted /\ CVTypeOK
    BY DEF ISInv, CVInv
  <1>2. /\ n \in {-1, N} /\ N \in Nat /\ N # 0 /\ C \in Nat /\ IsFiniteSet(Thr)
        /\ i \in IF n = -1 THEN {-1} ELSE 0..C
        /\ acquired \in SUBSET (Thr \ Waiters)
    BY <1>1, SemaAssumption, FS_CardinalityType DEF ISTypeOK
  <1>3. IsFiniteSet(acquired) /\ Cardinality(acquired) \in Nat
    BY <1>2, FS_Subset, FS_CardinalityType
  <1> HIDE DEF C
  <1>4. ASSUME CVInv', OnlyWaiters', Same PROVE ISInv'
    <2>1. ISTypeOK'
      BY <1>1, <1>4 DEF ISTypeOK, CVInv
    <2> QED
      BY <1>1, <1>4, <2>1 DEF ISInv, ISCounted
  <1>5. ASSUME NEW t \in Thr,
               \/ mnthr_set_interrupt(t) \/ mnthr_set_retval(t) \/ WaitFailed(t)
               \/ Leave(t) \/ Fail \/ UNCHANGED cvvars
        PROVE  CVInv' /\ OnlyWaiters'
    <2>1. CVInv'
      BY <1>1, <1>5, OtherKeeps
    <2>2. UNCHANGED waitq /\ \A u \in Thr : pc'[u] # "out" => pc[u] # "out"
      BY <1>1, <1>5, NobodyEnters
    <2> QED
      BY <1>1, <2>1, <2>2, WaitersEnter
  <1>6. ASSUME NEW t \in Waiters, t \in Thr, mnthr_cond_wait(t) PROVE CVInv' /\ OnlyWaiters'
    BY <1>1, <1>6, CondWaitKeeps, WaitersEnter
  <1>7. ASSUME NEW t \in Thr, mnthr_inverted_sema_acquire(t) PROVE ISInv'
    <2>1. CASE InRange(i)
      <3>1. /\ i' = i + 1 /\ mnthr_cond_signal_one(t) /\ acquired' = acquired \cup {t} /\ n' = n
            /\ n # -1 /\ t \in Thr \ (Waiters \cup acquired)
        BY <1>7, <2>1 DEF mnthr_inverted_sema_acquire, Calls
      <3>2. CVInv' /\ OnlyWaiters'
        BY <1>1, <3>1, SignalOneKeeps, WaitersEnter
      <3>3. Cardinality(acquired') = Cardinality(acquired) + 1 /\ IsFiniteSet(acquired')
        BY <1>3, <3>1, FS_AddElement
      <3>4. acquired' \in SUBSET Thr /\ acquired' \in SUBSET (Thr \ Waiters)
        BY <1>2, <3>1
      <3>5. Cardinality(acquired') <= C
        BY <1>2, <3>4, FS_Subset DEF C
      <3>6. i' = Cardinality(acquired')
        BY <1>1, <3>1, <3>3 DEF ISCounted
      <3>7. i' \in 0..C /\ n' = N
        BY <1>2, <1>3, <3>1, <3>3, <3>5, <3>6
      <3>8. ISTypeOK'
        <4>1. C' = C
          BY DEF C
        <4> QED
          BY <1>2, <3>2, <3>4, <3>7 DEF ISTypeOK, CVInv, C
      <3> QED
        BY <3>2, <3>6, <3>8 DEF ISInv, ISCounted
    <2>2. CASE ~ InRange(i)
      BY <1>4, <1>5, <1>7, <2>2 DEF mnthr_inverted_sema_acquire
    <2> QED
      BY <2>1, <2>2
  <1>8. ASSUME NEW t \in Thr, mnthr_inverted_sema_release(t) PROVE ISInv'
    <2>1. /\ i' = i - 1 /\ acquired' = acquired \ {t} /\ n' = n /\ n # -1 /\ t \in acquired
          /\ UNCHANGED <<waitq, pc, rc, intr>> /\ fault' = ~ InRange(i - 1)
      BY <1>8 DEF mnthr_inverted_sema_release, Calls
    <2>2. CVInv' /\ OnlyWaiters'
      <3>1. fault' \in BOOLEAN
        BY <2>1 DEF InRange
      <3> QED
        BY <1>1, <2>1, <3>1 DEF CVInv, CVTypeOK, WaitersQueued, OnlyWaiters
    <2>3. Cardinality(acquired') = Cardinality(acquired) - 1
      BY <1>3, <2>1, FS_RemoveElement
    <2>4. i' = Cardinality(acquired') /\ Cardinality(acquired') \in Nat
      <3>1. IsFiniteSet(acquired')
        BY <1>3, <2>1, FS_Subset
      <3> QED
        BY <1>1, <2>1, <2>3, <3>1, FS_CardinalityType DEF ISCounted
    <2>5. i' \in 0..C /\ n' = N
      BY <1>2, <2>1, <2>4
    <2>6. ISTypeOK'
      BY <1>2, <2>1, <2>2, <2>5 DEF ISTypeOK, CVInv, C
    <2> QED
      BY <2>2, <2>4, <2>6 DEF ISInv, ISCounted
  <1>9. ASSUME NEW t \in Thr, mnthr_inverted_sema_wait(t) PROVE ISInv'
    <2>1. t \in Waiters /\ Same /\ (Fail \/ mnthr_cond_wait(t) \/ UNCHANGED cvvars)
      <3>1. i \in Int /\ n \in Int
        BY <1>2
      <3>2. ~ InRange(i) \/ (InRange(i) /\ i < n) \/ (InRange(i) /\ i >= n)
        BY <3>1
      <3> QED
        BY <3>2, <1>9 DEF mnthr_inverted_sema_wait
    <2> QED
      BY <1>4, <1>5, <1>6, <2>1
  <1>10. ASSUME NEW t \in Thr, wait_waited(t) PROVE ISInv'
    <2>1. pc[t] = "ready" /\ Same /\ (mnthr_cond_wait(t) \/ Leave(t))
      BY <1>10 DEF wait_waited, WaitOver
    <2>2. t \in Waiters
      BY <1>1, <2>1 DEF OnlyWaiters
    <2> QED
      BY <1>4, <1>5, <1>6, <2>1, <2>2
  <1>11. ASSUME NEW t \in Thr, wait_failed(t) \/ ISInterrupt(t) PROVE ISInv'
    BY <1>4, <1>5, <1>11 DEF wait_failed, ISInterrupt
  <1>12. ASSUME NEW t \in Thr, mnthr_inverted_sema_fini(t) PROVE ISInv'
    <2>1. mnthr_cond_signal_all(t) /\ n' = -1 /\ i' = -1 /\ acquired' = acquired
      BY <1>12 DEF mnthr_inverted_sema_fini
    <2>2. CVInv' /\ OnlyWaiters'
      BY <1>1, <2>1, SignalAllKeeps, WaitersEnter
    <2>3. ISTypeOK'
      BY <1>2, <2>1, <2>2 DEF ISTypeOK, CVInv
    <2> QED
      BY <2>1, <2>2, <2>3 DEF ISInv, ISCounted
  <1>13. CASE UNCHANGED isemavars
    BY <1>1, <1>13 DEF isemavars, cvvars, ISInv, CVInv, CVTypeOK, WaitersQueued, OnlyWaiters,
                       ISCounted, ISTypeOK
  <1> QED
    BY <1>7, <1>8, <1>9, <1>10, <1>11, <1>12, <1>13 DEF ISNext, ISStep

\* With one waiter, no step leaves it waiting at a filled semaphore.
LEMMA FilledStep ==
    ASSUME NEW w \in Thr, Waiters = {w}
    PROVE  ISInv /\ FilledWakes /\ [ISNext]_isemavars => FilledWakes'
  <1> SUFFICES ASSUME ISInv, FilledWakes, [ISNext]_isemavars, i' >= n'
               PROVE  \A u \in Thr : pc'[u] # "wait"
    BY DEF FilledWakes
  <1>1. CVInv /\ ISTypeOK /\ OnlyWaiters
    BY DEF ISInv
  <1>2. i \in Int /\ n \in Int /\ pc \in [Thr -> {"out", "wait", "ready"}] /\ waitq \in Seq(Thr)
    <2>1. Cardinality(Thr) \in Nat /\ N \in Nat
      BY SemaAssumption, FS_CardinalityType
    <2> QED
      BY <1>1, <2>1 DEF ISTypeOK, CVTypeOK
  <1> DEFINE G == \A u \in Thr : pc'[u] # "wait"
  <1>3. i >= n => \A u \in Thr : pc[u] # "wait"
    BY DEF FilledWakes
  <1>4. ASSUME i >= n, \A u \in Thr : pc'[u] = "wait" => pc[u] = "wait" PROVE G
    BY <1>3, <1>4
  <1>5. ASSUME NEW t \in Thr, UNCHANGED <<i, n>>,
               \/ mnthr_set_interrupt(t) \/ mnthr_set_retval(t) \/ WaitFailed(t)
               \/ Leave(t) \/ Fail \/ UNCHANGED cvvars
        PROVE  G
    BY <1>1, <1>4, <1>5, NobodyEnters
  <1>6. ASSUME NEW t \in Thr, mnthr_inverted_sema_acquire(t) PROVE G
    <2>1. CASE InRange(i)
      <3>1. mnthr_cond_signal_one(t)
        BY <1>6, <2>1 DEF mnthr_inverted_sema_acquire
      <3>2. CASE waitq = <<>>
        <4>1. pc' = pc
          BY <3>1, <3>2 DEF mnthr_cond_signal_one, cvvars
        <4>2. \A u \in Thr : pc[u] # "wait"
          BY <1>1, <3>2 DEF CVInv, WaitersQueued, Elems
        <4> QED
          BY <4>1, <4>2
      <3>3. CASE waitq # <<>>
        <4>1. Head(waitq) \in Elems(waitq)
          BY <1>2, <3>3 DEF Elems
        <4>2. Head(waitq) = w
          BY <1>1, <4>1 DEF OnlyWaiters
        <4>3. pc' = [u \in Thr |-> IF u \in {w} /\ pc[u] = "wait" THEN "ready" ELSE pc[u]]
          BY <3>1, <3>3, <4>2 DEF mnthr_cond_signal_one, set_resume
        <4>4. \A u \in Thr : pc[u] = "wait" => u = w
          BY <1>1 DEF OnlyWaiters
        <4> QED
          BY <4>3, <4>4
      <3> QED
        BY <3>2, <3>3
    <2>2. CASE ~ InRange(i)
      BY <1>5, <1>6, <2>2 DEF mnthr_inverted_sema_acquire
    <2> QED
      BY <2>1, <2>2
  <1>7. ASSUME NEW t \in Thr, mnthr_inverted_sema_release(t) PROVE G
    <2>1. i' = i - 1 /\ n' = n /\ pc' = pc
      BY <1>7 DEF mnthr_inverted_sema_release
    <2> QED
      BY <1>2, <1>4, <2>1
  <1>8. ASSUME NEW t \in Thr, mnthr_inverted_sema_wait(t) PROVE G
    <2>1. UNCHANGED <<i, n>> /\ (Fail \/ UNCHANGED cvvars)
      <3>1. UNCHANGED <<i, n>>
        BY <1>8 DEF mnthr_inverted_sema_wait
      <3>2. i >= n /\ ~ i < n
        BY <1>2, <3>1
      <3> QED
        BY <3>1, <3>2, <1>8 DEF mnthr_inverted_sema_wait
    <2> QED
      BY <1>5, <2>1
  <1>9. ASSUME NEW t \in Thr, wait_waited(t) PROVE G
    <2>1. UNCHANGED <<i, n>> /\ Leave(t)
      BY <1>2, <1>9 DEF wait_waited
    <2> QED
      BY <1>5, <2>1
  <1>10. ASSUME NEW t \in Thr, wait_failed(t) \/ ISInterrupt(t) PROVE G
    BY <1>5, <1>10 DEF wait_failed, ISInterrupt
  <1>11. ASSUME NEW t \in Thr, mnthr_inverted_sema_fini(t) PROVE G
    BY <1>1, <1>11, SignalAllKeeps DEF mnthr_inverted_sema_fini
  <1>12. CASE UNCHANGED isemavars
    BY <1>4, <1>12 DEF isemavars, cvvars
  <1> QED
    BY <1>6, <1>7, <1>8, <1>9, <1>10, <1>11, <1>12 DEF ISNext, ISStep

\* Every variable of the inverted semaphore keeps its type, and i is the number of
\* threads that have acquired and not released.
THEOREM InvertedSemaphoreCounts == ISSpec => [](ISTypeOK /\ ISCounted)
  <1>1. ISInv => ISTypeOK /\ ISCounted
    BY DEF ISInv
  <1> QED
    BY <1>1, ISInit, ISStepKeeps, PTL DEF ISSpec

\* One thread waits: once n others have acquired, or the semaphore is destroyed, it does
\* not wait any more, for any n and any number of threads, and although every acquire
\* wakes it and it may have been interrupted.
THEOREM InvertedSemaphoreFilledWakes ==
    ASSUME NEW w \in Thr, Waiters = {w}
    PROVE  ISSpec => []FilledWakes
  <1>1. ISInv /\ FilledWakes /\ [ISNext]_isemavars => FilledWakes'
    BY FilledStep
  <1> QED
    BY <1>1, ISInit, ISStepKeeps, PTL DEF ISSpec
-----------------------------------------------------------------------------
(***************************************************************************)
(* The reader-writer lock.                                                 *)
(***************************************************************************)

\* Who waits, or is on its way from waiting, holds nothing.
LockWaitersHoldNothing == \A t \in Thr : pc[t] # "out" => ~ Holds(t)

\* The fields of the lock without its condition variable.
LockTypeOK ==
    /\ fwriter \in BOOLEAN
    /\ wants \in [Thr -> {"read", "write"}]
    /\ readers \in SUBSET Thr
    /\ writers \in SUBSET Thr
    /\ gone \in BOOLEAN

\* Exclusion by itself is not inductive: that the lock counts a thread once
\* depends on LockWaitersHoldNothing.
RWInv ==
    /\ CVInv
    /\ LockTypeOK
    /\ LockWaitersHoldNothing
    /\ Exclusion

\* The lock starts free.
LEMMA RWInit == mnthr_rwlock_init => RWInv
  <1> SUFFICES ASSUME mnthr_rwlock_init PROVE RWInv
    OBVIOUS
  <1>1. CVInv
    BY CondInit DEF mnthr_rwlock_init
  <1>2. LockTypeOK
    <2>1. fwriter \in BOOLEAN
      BY DEF mnthr_rwlock_init
    <2>2. gone \in BOOLEAN
      BY DEF mnthr_rwlock_init
    <2>3. /\ wants \in [Thr -> {"read", "write"}]
          /\ readers \in SUBSET Thr
          /\ writers \in SUBSET Thr
      BY DEF mnthr_rwlock_init
    <2> QED
      BY <2>1, <2>2, <2>3 DEF LockTypeOK
  <1>3. Exclusion
    <2>1. readers = {} /\ writers = {} /\ nreaders = 0 /\ ~ fwriter
      BY DEF mnthr_rwlock_init
    <2>2. nreaders = Cardinality(readers)
      BY <2>1, FS_EmptySet
    <2> QED
      BY <2>1, <2>2 DEF Exclusion
  <1>4. LockWaitersHoldNothing
    BY DEF mnthr_rwlock_init, LockWaitersHoldNothing, Holds
  <1> QED
    BY <1>1, <1>2, <1>3, <1>4 DEF RWInv

\* The readers are finitely many.
LEMMA ReadersFinite ==
    ASSUME LockTypeOK
    PROVE  /\ IsFiniteSet(readers) /\ Cardinality(readers) \in Nat
           /\ Cardinality(readers) <= Cardinality(Thr) /\ Cardinality(Thr) \in Nat
  <1>1. readers \in SUBSET Thr /\ IsFiniteSet(Thr)
    BY RWLockAssumption DEF LockTypeOK
  <1> QED
    BY <1>1, FS_Subset, FS_CardinalityType

\* The count of readers is in range.
LEMMA InvTypes == RWInv => RWTypeOK
  <1> SUFFICES ASSUME RWInv PROVE RWTypeOK
    OBVIOUS
  <1>1. nreaders = Cardinality(readers)
    BY DEF RWInv, Exclusion
  <1>2. nreaders \in 0..Cardinality(Thr)
    BY <1>1, ReadersFinite DEF RWInv
  <1> QED
    BY <1>2 DEF RWInv, CVInv, LockTypeOK, RWTypeOK

\* Whoever need not wait may take the lock.
LEMMA TakeExcludes ==
    ASSUME NEW t \in Thr, NEW want \in {"read", "write"}, RWInv, ~ Holds(t),
           ~ MustWait(want), TakeLock(t, want)
    PROVE  /\ Exclusion'
           /\ fwriter' \in BOOLEAN /\ readers' \in SUBSET Thr /\ writers' \in SUBSET Thr
           /\ \A u \in Thr : u # t => (Holds(u)' <=> Holds(u))
  <1>1. /\ LockTypeOK /\ IsFiniteSet(readers) /\ Cardinality(readers) \in Nat
        /\ nreaders = Cardinality(readers)
        /\ fwriter <=> writers # {}
    BY ReadersFinite DEF RWInv, Exclusion
  <1>2. readers \in SUBSET Thr /\ writers \in SUBSET Thr /\ t \notin readers /\ t \notin writers
    BY <1>1 DEF LockTypeOK, Holds
  <1>3. ~ fwriter /\ writers = {}
    BY <1>1 DEF MustWait
  <1>4. CASE want = "read"
    <2>1. /\ nreaders' = nreaders + 1 /\ readers' = readers \cup {t}
          /\ fwriter' = fwriter /\ writers' = writers
      BY <1>4 DEF TakeLock, TakeRead
    <2>2. Cardinality(readers') = Cardinality(readers) + 1
      BY <1>1, <1>2, <2>1, FS_AddElement
    <2>3. nreaders' = Cardinality(readers')
      BY <1>1, <2>1, <2>2
    <2>4. Exclusion'
      BY <1>1, <1>3, <2>1, <2>3 DEF Exclusion
    <2>5. fwriter' \in BOOLEAN
      BY <1>1, <2>1 DEF LockTypeOK
    <2> QED
      BY <1>2, <2>1, <2>4, <2>5 DEF Holds
  <1>5. CASE want = "write"
    <2>1. /\ fwriter' = TRUE /\ writers' = writers \cup {t}
          /\ nreaders' = nreaders /\ readers' = readers
      BY <1>5 DEF TakeLock, TakeWrite
    <2>2. ~ (nreaders > 0)
      BY <1>5 DEF MustWait
    <2>3. nreaders = 0
      BY <1>1, <2>2
    <2>4. readers = {}
      BY <1>1, <2>3, FS_EmptySet
    <2>5. writers' = {t}
      BY <1>3, <2>1
    <2>6. Cardinality(writers') = 1
      BY <2>5, FS_Singleton
    <2>7. Exclusion'
      BY <1>1, <2>1, <2>4, <2>5, <2>6 DEF Exclusion
    <2> QED
      BY <1>2, <2>1, <2>5, <2>7 DEF Holds
  <1> QED
    BY <1>4, <1>5

\* Every step keeps the invariant.
LEMMA RWStep == RWInv /\ [RWNext]_rwvars => RWInv'
  <1> SUFFICES ASSUME RWInv, [RWNext]_rwvars PROVE RWInv'
    OBVIOUS
  <1>1. CVInv /\ LockTypeOK /\ LockWaitersHoldNothing /\ Exclusion
    BY DEF RWInv
  <1> DEFINE Same == /\ nreaders' = nreaders /\ fwriter' = fwriter
                     /\ readers' = readers /\ writers' = writers
  <1> DEFINE WantsTyped == wants' \in [Thr -> {"read", "write"}] /\ gone' \in BOOLEAN
  \* A step of thread t on the condition variable that leaves the lock alone.
  <1>2. ASSUME NEW t \in Thr, CVInv', EntersAtMost(t), Same, WantsTyped,
               ~ Holds(t) \/ pc'[t] = "out"
        PROVE  RWInv'
    <2>1. LockTypeOK'
      BY <1>1, <1>2 DEF LockTypeOK
    <2>2. Exclusion'
      BY <1>1, <1>2 DEF Exclusion
    <2>3. LockWaitersHoldNothing'
      BY <1>1, <1>2 DEF LockWaitersHoldNothing, EntersAtMost, Holds
    <2> QED
      BY <1>2, <2>1, <2>2, <2>3 DEF RWInv
  \* A step of thread t that takes the lock and stays, or gets, out.
  <1>3. ASSUME NEW t \in Thr, NEW want \in {"read", "write"}, CVInv', EntersAtMost(t),
               ~ Holds(t), ~ MustWait(want), TakeLock(t, want), WantsTyped, pc'[t] = "out"
        PROVE  RWInv'
    <2>1. /\ Exclusion'
          /\ fwriter' \in BOOLEAN /\ readers' \in SUBSET Thr /\ writers' \in SUBSET Thr
          /\ \A u \in Thr : u # t => (Holds(u)' <=> Holds(u))
      BY <1>3, TakeExcludes
    <2>2. LockTypeOK'
      BY <1>3, <2>1 DEF LockTypeOK
    <2>3. LockWaitersHoldNothing'
      BY <1>1, <1>3, <2>1 DEF LockWaitersHoldNothing, EntersAtMost
    <2> QED
      BY <1>3, <2>1, <2>2, <2>3 DEF RWInv
  <1>4. wants \in [Thr -> {"read", "write"}] /\ gone \in BOOLEAN
    BY <1>1 DEF LockTypeOK
  <1>5. ASSUME NEW t \in Thr, NEW want \in {"read", "write"}, mnthr_rwlock_acquire(t, want)
        PROVE  RWInv'
    <2>1. pc[t] = "out" /\ ~ Holds(t) /\ gone' = gone
      BY <1>5 DEF mnthr_rwlock_acquire, RWCalls
    <2>2. CASE MustWait(want)
      <3>1. mnthr_cond_wait(t) /\ Same /\ wants' = [wants EXCEPT ![t] = want]
        BY <1>5, <2>2 DEF mnthr_rwlock_acquire, lockvars
      <3>2. CVInv' /\ EntersAtMost(t)
        BY <1>1, <3>1, CondWaitKeeps
      <3>3. WantsTyped
        BY <1>4, <2>1, <3>1
      <3> QED
        BY <1>2, <2>1, <3>1, <3>2, <3>3
    <2>3. CASE ~ MustWait(want)
      <3>1. TakeLock(t, want) /\ UNCHANGED cvvars /\ wants' = wants
        BY <1>5, <2>3 DEF mnthr_rwlock_acquire
      <3>2. CVInv' /\ EntersAtMost(t)
        BY <1>1, <3>1, OtherKeeps
      <3>3. pc'[t] = "out" /\ WantsTyped
        BY <1>4, <2>1, <3>1 DEF cvvars
      <3> QED
        BY <1>3, <2>1, <2>3, <3>1, <3>2, <3>3
    <2> QED
      BY <2>2, <2>3
  <1>6. ASSUME NEW t \in Thr, rwlock_acquire_waited(t) PROVE RWInv'
    <2>1. pc[t] = "ready" /\ wants' = wants /\ gone' = gone
      BY <1>6 DEF rwlock_acquire_waited, WaitOver
    <2>2. ~ Holds(t) /\ WantsTyped /\ wants[t] \in {"read", "write"}
      BY <1>1, <1>4, <2>1 DEF LockWaitersHoldNothing
    <2>3. CASE MustWait(wants[t])
      <3>1. mnthr_cond_wait(t) /\ Same
        BY <1>6, <2>3 DEF rwlock_acquire_waited, lockvars
      <3>2. CVInv' /\ EntersAtMost(t)
        BY <1>1, <3>1, CondWaitKeeps
      <3> QED
        BY <1>2, <2>2, <3>1, <3>2
    <2>4. CASE ~ MustWait(wants[t])
      <3>1. Leave(t) /\ TakeLock(t, wants[t])
        BY <1>6, <2>4 DEF rwlock_acquire_waited
      <3>2. CVInv' /\ EntersAtMost(t)
        BY <1>1, <3>1, OtherKeeps
      <3>3. pc'[t] = "out"
        BY <1>1, <3>1 DEF Leave, CVInv, CVTypeOK
      <3> QED
        BY <1>3, <2>2, <2>4, <3>1, <3>2, <3>3
    <2> QED
      BY <2>3, <2>4
  <1>7. ASSUME NEW t \in Thr, rwlock_acquire_failed(t) PROVE RWInv'
    <2>1. WaitFailed(t) /\ Same /\ wants' = wants /\ gone' = gone
      BY <1>7 DEF rwlock_acquire_failed, lockvars
    <2>2. CVInv' /\ EntersAtMost(t)
      BY <1>1, <2>1, OtherKeeps
    <2>3. pc'[t] = "out" /\ WantsTyped
      BY <1>1, <1>4, <2>1 DEF WaitFailed, CVInv, CVTypeOK
    <2> QED
      BY <1>2, <2>1, <2>2, <2>3
  <1>8. ASSUME NEW t \in Thr, NEW want \in {"read", "write"}, mnthr_rwlock_try_acquire(t, want)
        PROVE  RWInv'
    <2>1. /\ pc[t] = "out" /\ ~ Holds(t) /\ ~ MustWait(want) /\ TakeLock(t, want)
          /\ UNCHANGED cvvars /\ wants' = wants /\ gone' = gone
      BY <1>8 DEF mnthr_rwlock_try_acquire, RWCalls
    <2>2. CVInv' /\ EntersAtMost(t)
      BY <1>1, <2>1, OtherKeeps
    <2>3. pc'[t] = "out" /\ WantsTyped
      BY <1>4, <2>1 DEF cvvars
    <2> QED
      BY <1>3, <2>1, <2>2, <2>3
  <1>9. ASSUME NEW t \in Thr, mnthr_rwlock_release_read(t) PROVE RWInv'
    <2>1. pc[t] = "out" /\ t \in readers /\ wants' = wants /\ gone' = gone
      BY <1>9 DEF mnthr_rwlock_release_read
    <2>2. writers = {} /\ ~ fwriter
      BY <1>1, <2>1 DEF Exclusion
    <2>3. /\ nreaders' = nreaders - 1 /\ readers' = readers \ {t}
          /\ fwriter' = fwriter /\ writers' = writers
          /\ mnthr_cond_signal_one(t) \/ UNCHANGED cvvars
      BY <1>9, <2>2 DEF mnthr_rwlock_release_read
    <2>4. CVInv' /\ EntersAtMost(t)
      BY <1>1, <2>3, SignalOneKeeps, OtherKeeps
    <2>5. /\ nreaders = Cardinality(readers) /\ Cardinality(readers) \in Nat
          /\ IsFiniteSet(readers)
      BY <1>1, ReadersFinite DEF Exclusion
    <2>6. Cardinality(readers') = Cardinality(readers) - 1
      BY <2>1, <2>3, <2>5, FS_RemoveElement
    <2>7. nreaders' = Cardinality(readers')
      BY <2>3, <2>5, <2>6
    <2>8. Exclusion'
      BY <2>2, <2>3, <2>7 DEF Exclusion
    <2>9. LockTypeOK'
      BY <1>1, <2>1, <2>3 DEF LockTypeOK
    <2>10. LockWaitersHoldNothing'
      BY <1>1, <2>2, <2>3, <2>4 DEF LockWaitersHoldNothing, EntersAtMost, Holds
    <2> QED
      BY <2>4, <2>8, <2>9, <2>10 DEF RWInv
  <1>10. ASSUME NEW t \in Thr, mnthr_rwlock_release_write(t) PROVE RWInv'
    <2>1. pc[t] = "out" /\ t \in writers /\ wants' = wants /\ gone' = gone
      BY <1>10 DEF mnthr_rwlock_release_write
    <2>2. readers = {} /\ fwriter /\ Cardinality(writers) = 1
      BY <1>1, <2>1 DEF Exclusion
    <2>3. nreaders = 0
      BY <1>1, <2>2, FS_EmptySet DEF Exclusion
    <2>4. /\ fwriter' = FALSE /\ writers' = writers \ {t}
          /\ mnthr_cond_signal_all(t)
          /\ nreaders' = nreaders /\ readers' = readers
      BY <1>10, <2>2, <2>3 DEF mnthr_rwlock_release_write
    <2>5. CVInv' /\ EntersAtMost(t)
      BY <1>1, <2>4, SignalAllKeeps
    <2>6. writers' = {}
      <3>1. IsFiniteSet(writers)
        BY <1>1, RWLockAssumption, FS_Subset DEF LockTypeOK
      <3>2. IsFiniteSet(writers') /\ Cardinality(writers') = 1 - 1
        BY <2>1, <2>2, <2>4, <3>1, FS_RemoveElement
      <3> QED
        BY <3>2, FS_EmptySet
    <2>7. Exclusion'
      BY <1>1, <2>4, <2>6 DEF Exclusion
    <2>8. LockTypeOK'
      BY <1>1, <2>1, <2>4 DEF LockTypeOK
    <2>9. LockWaitersHoldNothing'
      BY <2>2, <2>4, <2>6 DEF LockWaitersHoldNothing, Holds
    <2> QED
      BY <2>5, <2>7, <2>8, <2>9 DEF RWInv
  <1>11. ASSUME NEW t \in Thr, mnthr_rwlock_fini(t) PROVE RWInv'
    <2>1. /\ mnthr_cond_signal_all(t)
          /\ readers \cup writers = {} /\ nreaders' = 0 /\ fwriter' = FALSE /\ gone' = TRUE
          /\ wants' = wants /\ readers' = readers /\ writers' = writers
      BY <1>11 DEF mnthr_rwlock_fini
    <2>2. CVInv'
      BY <1>1, <2>1, SignalAllKeeps
    <2>3. readers' = {} /\ writers' = {}
      BY <2>1
    <2>4. nreaders' = Cardinality(readers')
      BY <2>1, <2>3, FS_EmptySet
    <2>5. Exclusion'
      BY <2>1, <2>3, <2>4 DEF Exclusion
    <2>6. LockTypeOK'
      BY <1>4, <2>1, <2>3 DEF LockTypeOK
    <2>7. LockWaitersHoldNothing'
      BY <2>3 DEF LockWaitersHoldNothing, Holds
    <2> QED
      BY <2>2, <2>5, <2>6, <2>7 DEF RWInv
  <1>12. ASSUME NEW t \in Thr, RWInterrupt(t) PROVE RWInv'
    <2>1. /\ mnthr_set_interrupt(t) \/ mnthr_set_retval(t)
          /\ Same /\ wants' = wants /\ gone' = gone
      BY <1>12 DEF RWInterrupt, lockvars
    <2>2. CVInv' /\ EntersAtMost(t)
      BY <1>1, <2>1, OtherKeeps
    <2>3. pc'[t] # "out" => pc[t] # "out"
      BY <1>1, <2>1 DEF mnthr_set_interrupt, mnthr_set_retval, CVInv, CVTypeOK
    <2>4. ~ Holds(t) \/ pc'[t] = "out"
      BY <1>1, <2>3 DEF LockWaitersHoldNothing
    <2>5. WantsTyped
      BY <1>4, <2>1
    <2> QED
      BY <1>2, <2>1, <2>2, <2>4, <2>5
  <1>13. CASE UNCHANGED rwvars
    <2>1. UNCHANGED cvvars /\ Same /\ wants' = wants /\ gone' = gone
      BY <1>13 DEF rwvars, lockvars
    <2>2. CVInv'
      BY <1>1, <2>1 DEF CVInv, CVTypeOK, WaitersQueued, cvvars
    <2>3. LockTypeOK' /\ Exclusion'
      BY <1>1, <2>1 DEF LockTypeOK, Exclusion
    <2>4. LockWaitersHoldNothing'
      BY <1>1, <2>1 DEF LockWaitersHoldNothing, Holds, cvvars
    <2> QED
      BY <2>2, <2>3, <2>4 DEF RWInv
  <1> QED
    BY <1>5, <1>6, <1>7, <1>8, <1>9, <1>10, <1>11, <1>12, <1>13 DEF RWNext, RWAct

\* A step after which every waiting reader waited before, or entered behind a
\* writer.
LEMMA ReadersStep ==
    RWInv /\ ReadersWaitForWriter /\ [RWNext]_rwvars => ReadersWaitForWriter'
  <1> SUFFICES ASSUME RWInv, ReadersWaitForWriter, [RWNext]_rwvars
               PROVE  ReadersWaitForWriter'
    OBVIOUS
  <1>1. /\ CVInv /\ wants \in [Thr -> {"read", "write"}]
        /\ pc \in [Thr -> {"out", "wait", "ready"}]
    BY DEF RWInv, LockTypeOK, CVInv, CVTypeOK
  \* The writer stays and nobody starts waiting.
  <1>2. ASSUME fwriter => fwriter', wants' = wants,
               \A u \in Thr : pc'[u] = "wait" => pc[u] = "wait"
        PROVE  ReadersWaitForWriter'
    BY <1>2 DEF ReadersWaitForWriter
  \* Thread t starts waiting, for want.
  <1>3. ASSUME NEW t \in Thr, NEW want \in {"read", "write"}, MustWait(want),
               mnthr_cond_wait(t), fwriter' = fwriter, wants' = [wants EXCEPT ![t] = want]
        PROVE  ReadersWaitForWriter'
    BY <1>1, <1>3 DEF ReadersWaitForWriter, MustWait, mnthr_cond_wait
  <1>4. ASSUME NEW t \in Thr, NEW want \in {"read", "write"}, TakeLock(t, want)
        PROVE  fwriter => fwriter'
    BY <1>4 DEF TakeLock, TakeRead, TakeWrite
  <1>5. ASSUME NEW t \in Thr, NEW want \in {"read", "write"}, mnthr_rwlock_acquire(t, want)
        PROVE  ReadersWaitForWriter'
    <2>1. CASE MustWait(want)
      BY <1>3, <1>5, <2>1 DEF mnthr_rwlock_acquire, lockvars
    <2>2. CASE ~ MustWait(want)
      BY <1>2, <1>4, <1>5, <2>2 DEF mnthr_rwlock_acquire, cvvars
    <2> QED
      BY <2>1, <2>2
  <1>6. ASSUME NEW t \in Thr, rwlock_acquire_waited(t) PROVE ReadersWaitForWriter'
    <2>1. wants[t] \in {"read", "write"} /\ wants' = wants /\ wants = [wants EXCEPT ![t] = wants[t]]
      BY <1>1, <1>6 DEF rwlock_acquire_waited
    <2>2. CASE MustWait(wants[t])
      BY <1>3, <1>6, <2>1, <2>2 DEF rwlock_acquire_waited, lockvars
    <2>3. CASE ~ MustWait(wants[t])
      <3>1. Leave(t) /\ TakeLock(t, wants[t])
        BY <1>6, <2>3 DEF rwlock_acquire_waited
      <3>2. \A u \in Thr : pc'[u] = "wait" => pc[u] = "wait"
        BY <1>1, <3>1 DEF Leave
      <3> QED
        BY <1>2, <1>4, <2>1, <3>1, <3>2
    <2> QED
      BY <2>2, <2>3
  <1>7. ASSUME NEW t \in Thr, rwlock_acquire_failed(t) PROVE ReadersWaitForWriter'
    BY <1>1, <1>2, <1>7 DEF rwlock_acquire_failed, WaitFailed, lockvars
  <1>8. ASSUME NEW t \in Thr, NEW want \in {"read", "write"}, mnthr_rwlock_try_acquire(t, want)
        PROVE  ReadersWaitForWriter'
    BY <1>2, <1>4, <1>8 DEF mnthr_rwlock_try_acquire, cvvars
  <1>9. ASSUME NEW t \in Thr, mnthr_rwlock_release_read(t) PROVE ReadersWaitForWriter'
    <2>1. wants' = wants /\ fwriter' = fwriter
      BY <1>9 DEF mnthr_rwlock_release_read, lockvars
    <2>2. mnthr_cond_signal_one(t) \/ Fail \/ UNCHANGED cvvars
      BY <1>9 DEF mnthr_rwlock_release_read
    <2>3. \A u \in Thr : pc'[u] = "wait" => pc[u] = "wait"
      BY <2>2 DEF mnthr_cond_signal_one, set_resume, Fail, cvvars
    <2> QED
      BY <1>2, <2>1, <2>3
  <1>10. ASSUME NEW t \in Thr, mnthr_rwlock_release_write(t) PROVE ReadersWaitForWriter'
    <2>1. CASE ~ (fwriter /\ nreaders = 0)
      BY <1>2, <1>10, <2>1 DEF mnthr_rwlock_release_write, Fail, lockvars
    <2>2. CASE fwriter /\ nreaders = 0
      <3>1. mnthr_cond_signal_all(t)
        BY <1>10, <2>2 DEF mnthr_rwlock_release_write
      <3>2. \A u \in Thr : pc'[u] # "wait"
        BY <1>1, <3>1, SignalAllKeeps
      <3> QED
        BY <3>2 DEF ReadersWaitForWriter
    <2> QED
      BY <2>1, <2>2
  <1>11. ASSUME NEW t \in Thr, mnthr_rwlock_fini(t) PROVE ReadersWaitForWriter'
    <2>1. mnthr_cond_signal_all(t)
      BY <1>11 DEF mnthr_rwlock_fini
    <2>2. \A u \in Thr : pc'[u] # "wait"
      BY <1>1, <2>1, SignalAllKeeps
    <2> QED
      BY <2>2 DEF ReadersWaitForWriter
  <1>12. ASSUME NEW t \in Thr, RWInterrupt(t) PROVE ReadersWaitForWriter'
    BY <1>1, <1>2, <1>12 DEF RWInterrupt, mnthr_set_interrupt, mnthr_set_retval, lockvars
  <1>13. CASE UNCHANGED rwvars
    BY <1>2, <1>13 DEF rwvars, lockvars, cvvars
  <1> QED
    BY <1>5, <1>6, <1>7, <1>8, <1>9, <1>10, <1>11, <1>12, <1>13 DEF RWNext, RWAct

\* Every field keeps its type; in particular nreaders, which is unsigned, never
\* goes below zero.
THEOREM RWLockTypes == RWSpec => []RWTypeOK
  BY InvTypes, RWInit, RWStep, PTL DEF RWSpec

\* Readers exclude writers and a writer excludes everyone, and the lock's fields
\* tell exactly who holds it, for any number of threads and whoever is
\* interrupted while waiting.
THEOREM RWLockExcludes == RWSpec => []Exclusion
  <1>1. RWInv => Exclusion
    BY DEF RWInv
  <1> QED
    BY <1>1, RWInit, RWStep, PTL DEF RWSpec

\* A waiting reader always waits for a writer, so the one thread that the last
\* reader wakes is a writer.
THEOREM RWLockReadersWaitForWriter == RWSpec => []ReadersWaitForWriter
  <1>1. mnthr_rwlock_init => ReadersWaitForWriter
    BY DEF mnthr_rwlock_init, CVInit, ReadersWaitForWriter
  <1> QED
    BY <1>1, RWInit, RWStep, ReadersStep, PTL DEF RWSpec

\* A free lock has no readers and no writer in its fields either.
LEMMA FreeFields ==
    ASSUME RWInv
    PROVE  readers \cup writers = {} <=> ~ fwriter /\ nreaders = 0
  <1>1. /\ fwriter <=> writers # {}
        /\ nreaders = Cardinality(readers) /\ IsFiniteSet(readers)
    BY ReadersFinite DEF RWInv, Exclusion
  <1>2. nreaders = 0 <=> readers = {}
    BY <1>1, FS_EmptySet
  <1> QED
    BY <1>1, <1>2

\* The last part of the invariant, step by step.  Whoever waits does so because
\* the lock is held, whoever goes on and need not wait again holds it, and the
\* one who frees it wakes a thread if there is one.
LEMMA ReleaseStep ==
    /\ RWInv /\ QuietQueue /\ NoLostRelease
    /\ [RWNext]_rwvars
    => QuietQueue' /\ NoLostRelease'
  <1> SUFFICES ASSUME RWInv, QuietQueue, NoLostRelease, [RWNext]_rwvars
               PROVE  QuietQueue' /\ NoLostRelease'
    OBVIOUS
  <1>1. /\ CVInv /\ pc \in [Thr -> {"out", "wait", "ready"}]
        /\ wants \in [Thr -> {"read", "write"}]
        /\ nreaders = Cardinality(readers) /\ Cardinality(readers) \in Nat
        /\ IsFiniteSet(readers)
    BY ReadersFinite DEF RWInv, LockTypeOK, CVInv, CVTypeOK, Exclusion
  <1> DEFINE Same == readers' = readers /\ writers' = writers
  \* The lock stays or gets held.
  <1>2. ASSUME readers' \cup writers' # {} PROVE NoLostRelease'
    BY <1>2 DEF NoLostRelease
  <1>3. ASSUME Same, pc' = pc, ~ intr' => ~ intr PROVE NoLostRelease'
    BY <1>3 DEF NoLostRelease
  <1>4. ASSUME \A u \in Thr : pc'[u] # "wait" PROVE NoLostRelease'
    BY <1>4 DEF NoLostRelease
  \* Thread t must wait, and does.
  <1>5. ASSUME NEW t \in Thr, NEW want \in {"read", "write"}, MustWait(want),
               mnthr_cond_wait(t), Same
        PROVE  QuietQueue' /\ NoLostRelease'
    <2>1. readers \cup writers # {}
      BY <1>1, <1>5, FreeFields DEF MustWait
    <2> QED
      BY <1>1, <1>2, <1>5, <2>1, QuietWait
  <1>6. ASSUME NEW t \in Thr, NEW want \in {"read", "write"}, TakeLock(t, want)
        PROVE  NoLostRelease'
    BY <1>2, <1>6 DEF TakeLock, TakeRead, TakeWrite
  <1>7. ASSUME NEW t \in Thr, NEW want \in {"read", "write"}, mnthr_rwlock_acquire(t, want)
        PROVE  QuietQueue' /\ NoLostRelease'
    <2>1. CASE MustWait(want)
      BY <1>5, <1>7, <2>1 DEF mnthr_rwlock_acquire, lockvars
    <2>2. CASE ~ MustWait(want)
      <3>1. TakeLock(t, want) /\ UNCHANGED cvvars
        BY <1>7, <2>2 DEF mnthr_rwlock_acquire
      <3> QED
        BY <1>1, <1>6, <3>1, QuietOther
    <2> QED
      BY <2>1, <2>2
  <1>8. ASSUME NEW t \in Thr, rwlock_acquire_waited(t) PROVE QuietQueue' /\ NoLostRelease'
    <2>1. pc[t] = "ready" /\ wants[t] \in {"read", "write"}
      BY <1>1, <1>8 DEF rwlock_acquire_waited, WaitOver
    <2>2. CASE MustWait(wants[t])
      BY <1>5, <1>8, <2>1, <2>2 DEF rwlock_acquire_waited, lockvars
    <2>3. CASE ~ MustWait(wants[t])
      <3>1. Leave(t) /\ TakeLock(t, wants[t])
        BY <1>8, <2>3 DEF rwlock_acquire_waited
      <3> QED
        BY <1>1, <1>6, <2>1, <3>1, QuietOther
    <2> QED
      BY <2>2, <2>3
  <1>9. ASSUME NEW t \in Thr, rwlock_acquire_failed(t) PROVE QuietQueue' /\ NoLostRelease'
    <2>1. QuietQueue' /\ intr'
      BY <1>1, <1>9, QuietOther DEF rwlock_acquire_failed
    <2> QED
      BY <2>1 DEF NoLostRelease
  <1>10. ASSUME NEW t \in Thr, NEW want \in {"read", "write"}, mnthr_rwlock_try_acquire(t, want)
         PROVE  QuietQueue' /\ NoLostRelease'
    <2>1. TakeLock(t, want) /\ UNCHANGED cvvars
      BY <1>10 DEF mnthr_rwlock_try_acquire
    <2> QED
      BY <1>1, <1>6, <2>1, QuietOther
  <1>11. ASSUME NEW t \in Thr, mnthr_rwlock_release_read(t) PROVE QuietQueue' /\ NoLostRelease'
    <2>1. CASE fwriter
      <3>1. Fail /\ Same
        BY <1>11, <2>1 DEF mnthr_rwlock_release_read, lockvars
      <3> QED
        BY <1>1, <1>3, <3>1, QuietOther DEF Fail
    <2>2. CASE ~ fwriter /\ nreaders = 1
      <3>1. mnthr_cond_signal_one(t)
        BY <1>11, <2>2 DEF mnthr_rwlock_release_read
      <3>2. QuietQueue' /\ intr' = intr
        BY <1>1, <3>1, QuietSignalOne
      <3>3. ASSUME ~ intr PROVE NoLostRelease'
        <4>1. CASE pc' = pc /\ \A u \in Thr : pc[u] # "wait"
          BY <1>4, <4>1
        <4>2. CASE \E h \in Thr : pc[h] = "wait" /\ pc' = [pc EXCEPT ![h] = "ready"]
          <5>1. PICK h \in Thr : pc' = [pc EXCEPT ![h] = "ready"]
            BY <4>2
          <5>2. pc'[h] = "ready"
            BY <1>1, <5>1
          <5> QED
            BY <5>2 DEF NoLostRelease
        <4> QED
          BY <1>1, <3>1, <3>3, <4>1, <4>2, QuietSignalOne
      <3>4. CASE intr
        BY <3>2, <3>4 DEF NoLostRelease
      <3> QED
        BY <3>2, <3>3, <3>4
    <2>3. CASE ~ fwriter /\ nreaders # 1
      <3>1. /\ UNCHANGED cvvars /\ t \in readers /\ readers' = readers \ {t}
        BY <1>11, <2>3 DEF mnthr_rwlock_release_read
      <3>2. readers' # {}
        <4>1. Cardinality(readers') = Cardinality(readers) - 1 /\ IsFiniteSet(readers')
          BY <1>1, <3>1, FS_RemoveElement
        <4>2. Cardinality(readers') # 0
          BY <1>1, <2>3, <4>1
        <4> QED
          BY <4>1, <4>2, FS_EmptySet
      <3> QED
        BY <1>1, <1>2, <3>1, <3>2, QuietOther
    <2> QED
      BY <2>1, <2>2, <2>3
  <1>12. ASSUME NEW t \in Thr, mnthr_rwlock_release_write(t) PROVE QuietQueue' /\ NoLostRelease'
    <2>1. CASE ~ (fwriter /\ nreaders = 0)
      <3>1. Fail /\ Same
        BY <1>12, <2>1 DEF mnthr_rwlock_release_write, lockvars
      <3> QED
        BY <1>1, <1>3, <3>1, QuietOther DEF Fail
    <2>2. CASE fwriter /\ nreaders = 0
      <3>1. mnthr_cond_signal_all(t)
        BY <1>12, <2>2 DEF mnthr_rwlock_release_write
      <3> QED
        BY <1>1, <1>4, <3>1, SignalAllKeeps, QuietSignalAll
    <2> QED
      BY <2>1, <2>2
  <1>13. ASSUME NEW t \in Thr, mnthr_rwlock_fini(t) PROVE QuietQueue' /\ NoLostRelease'
    <2>1. mnthr_cond_signal_all(t)
      BY <1>13 DEF mnthr_rwlock_fini
    <2> QED
      BY <1>1, <1>4, <2>1, SignalAllKeeps, QuietSignalAll
  <1>14. ASSUME NEW t \in Thr, RWInterrupt(t) PROVE QuietQueue' /\ NoLostRelease'
    <2>1. (mnthr_set_interrupt(t) \/ mnthr_set_retval(t)) /\ Same
      BY <1>14 DEF RWInterrupt, lockvars
    <2>2. QuietQueue' /\ (~ intr' => mnthr_set_retval(t))
      BY <1>1, <2>1, QuietOther
    <2>3. CASE intr'
      BY <2>2, <2>3 DEF NoLostRelease
    <2>4. CASE ~ intr'
      <3>1. pc' = pc /\ intr' = intr
        BY <2>2, <2>4 DEF mnthr_set_retval
      <3> QED
        BY <1>3, <2>1, <2>2, <3>1
    <2> QED
      BY <2>3, <2>4
  <1>15. CASE UNCHANGED rwvars
    <2>1. UNCHANGED cvvars /\ Same
      BY <1>15 DEF rwvars, lockvars
    <2> QED
      BY <1>3, <2>1 DEF cvvars, QuietQueue
  <1> QED
    BY <1>7, <1>8, <1>9, <1>10, <1>11, <1>12, <1>13, <1>14, <1>15 DEF RWNext, RWAct

\* When the lock is free and threads wait, one of them is on its way, although
\* the last reader wakes one thread only and others may take the lock before it.
THEOREM RWLockNoLostWakeup == RWSpec => []NoLostRelease
  <1>1. mnthr_rwlock_init => QuietQueue /\ NoLostRelease
    BY QuietInit DEF mnthr_rwlock_init, CVInit, NoLostRelease
  <1> QED
    BY <1>1, RWInit, RWStep, ReleaseStep, PTL DEF RWSpec

\* Every step lets one thread in or out, in the way the lock was asked, or leaves the
\* holders alone.
LEMMA SharesAccessStep ==
    RWInv /\ [RWNext]_rwvars => [Access!SLNext]_(Access!slvars)
  <1> SUFFICES ASSUME RWInv, [RWNext]_rwvars, <<readers, writers>>' # <<readers, writers>>
               PROVE  Access!SLNext
    BY DEF Access!slvars
  <1>0. /\ LockTypeOK /\ readers \in SUBSET Thr
        /\ nreaders = Cardinality(readers)
        /\ fwriter <=> writers # {}
        /\ IsFiniteSet(Thr)
        /\ IsFiniteSet(readers) /\ Cardinality(readers) \in Nat
    BY ReadersFinite, RWLockAssumption DEF RWInv, LockTypeOK, Exclusion
  <1>1. ASSUME NEW t \in Thr, NEW want \in {"read", "write"}, ~ Holds(t), ~ MustWait(want),
               TakeLock(t, want)
        PROVE  Access!Share(t) \/ Access!Exclude(t)
    <2>1. writers = {} /\ t \notin readers
      BY <1>0, <1>1 DEF MustWait, Holds
    <2>2. CASE want = "read"
      <3>1. Cardinality(readers \cup {t}) = Cardinality(readers) + 1
        BY <1>0, <2>1, FS_AddElement
      <3>2. Cardinality(readers \cup {t}) <= Cardinality(Thr) /\ Cardinality(Thr) \in Nat
        <4>1. readers \cup {t} \in SUBSET Thr
          BY <1>0
        <4> QED
          BY <4>1, <1>0, FS_Subset, FS_CardinalityType
      <3>3. Cardinality(readers) < Cardinality(Thr)
        BY <3>1, <3>2, <1>0
      <3>4. Access!Cardinality(readers) = Cardinality(readers)
        BY DEF Access!Cardinality, Cardinality
      <3> QED
        BY <1>1, <2>1, <2>2, <3>3, <3>4 DEF TakeLock, TakeRead, Access!Share
    <2>3. CASE want = "write"
      <3>1. readers = {}
        <4>1. ~ (nreaders > 0)
          BY <1>1, <2>3 DEF MustWait
        <4>2. Cardinality(readers) = 0
          BY <4>1, <1>0
        <4> QED
          BY <4>2, <1>0, FS_EmptySet
      <3> QED
        BY <1>1, <2>1, <2>3, <3>1 DEF TakeLock, TakeWrite, Access!Exclude
    <2> QED
      BY <2>2, <2>3
  <1>2. ASSUME NEW t \in Thr, NEW want \in {"read", "write"},
               mnthr_rwlock_acquire(t, want) \/ mnthr_rwlock_try_acquire(t, want)
        PROVE  Access!Share(t) \/ Access!Exclude(t)
    BY <1>1, <1>2 DEF mnthr_rwlock_acquire, mnthr_rwlock_try_acquire, lockvars
  <1>3. ASSUME NEW t \in Thr, rwlock_acquire_waited(t)
        PROVE  Access!Share(t) \/ Access!Exclude(t)
    <2>1. ~ Holds(t) /\ wants[t] \in {"read", "write"}
      BY <1>0, <1>3 DEF rwlock_acquire_waited, WaitOver, RWInv, LockWaitersHoldNothing, LockTypeOK
    <2> QED
      BY <1>1, <1>3, <2>1 DEF rwlock_acquire_waited, lockvars
  <1>4. ASSUME NEW t \in Thr, mnthr_rwlock_release_read(t) PROVE Access!Unshare(t)
    BY <1>4 DEF mnthr_rwlock_release_read, lockvars, Access!Unshare
  <1>5. ASSUME NEW t \in Thr, mnthr_rwlock_release_write(t) PROVE Access!Admit(t)
    BY <1>5 DEF mnthr_rwlock_release_write, lockvars, Access!Admit
  <1>6. ASSUME NEW t \in Thr,
               rwlock_acquire_failed(t) \/ mnthr_rwlock_fini(t) \/ RWInterrupt(t)
        PROVE  FALSE
    BY <1>6 DEF rwlock_acquire_failed, mnthr_rwlock_fini, RWInterrupt, lockvars
  <1>7. ~ UNCHANGED rwvars
    BY DEF rwvars, lockvars
  <1> QED
    BY <1>2, <1>3, <1>4, <1>5, <1>6, <1>7 DEF RWNext, RWAct, Access!SLNext

\* mnthr_rwlock_t implements access that is shared or exclusive, for any number of
\* threads, with barging, interrupts and destruction.
THEOREM RWLockSharesAccess == RWSpec => SharesAccess
  <1>1. mnthr_rwlock_init => Access!SLInit
    BY DEF mnthr_rwlock_init, Access!SLInit
  <1> QED
    BY <1>1, RWInit, RWStep, SharesAccessStep, PTL DEF RWSpec, SharesAccess, Access!SLSpec
=============================================================================
