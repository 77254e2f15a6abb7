---------------------------- MODULE CondVarProofs ----------------------------
(***************************************************************************)
(* What every step on the condition variable preserves.                    *)
(***************************************************************************)
EXTENDS CondVar, DTQueueProofs

\* The part of a primitive's invariant that is about its condition variable.
CVInv == CVTypeOK /\ WaitersQueued

\* The threads inside of the primitive, after its condition variable is entered
\* by t at most.
EntersAtMost(t) == \A u \in Thr : pc'[u] # "out" /\ u # t => pc[u] # "out"

\* An empty condition variable is in order.
LEMMA CondInit == CVInit => CVInv
  <1> SUFFICES ASSUME CVInit PROVE CVInv
    OBVIOUS
  <1>1. CVTypeOK
    <2>1. waitq \in Seq(Thr)
      BY DEF CVInit
    <2>2. pc \in [Thr -> {"out", "wait", "ready"}]
      BY DEF CVInit
    <2>3. rc \in [Thr -> {0, INTERRUPTED}]
      BY DEF CVInit
    <2>4. fault \in BOOLEAN /\ intr \in BOOLEAN
      BY DEF CVInit
    <2> QED
      BY <2>1, <2>2, <2>3, <2>4 DEF CVTypeOK
  <1>2. WaitersQueued
    BY DEF CVInit, WaitersQueued, Distinct
  <1> QED
    BY <1>1, <1>2 DEF CVInv

\* mnthr_cond_wait puts the thread into the queue once, also when an interrupt
\* had left it there.
LEMMA CondWaitKeeps ==
    ASSUME NEW t \in Thr, CVInv, mnthr_cond_wait(t)
    PROVE  CVInv' /\ EntersAtMost(t)
  <1> DEFINE r == DTQUEUE_REMOVE(waitq, t)
  <1>1. waitq \in Seq(Thr) /\ Distinct(waitq)
    BY DEF CVInv, CVTypeOK, WaitersQueued
  <1>2. r \in Seq(Thr) /\ Elems(r) = Elems(waitq) \ {t} /\ Distinct(r)
    BY <1>1, RemoveElems
  <1>3. waitq' = DTQUEUE_ENQUEUE(r, t)
    BY DEF mnthr_cond_wait
  <1> HIDE DEF r
  <1>4. /\ waitq' \in Seq(Thr)
        /\ Elems(waitq') = Elems(r) \cup {t}
        /\ Distinct(waitq')
    BY <1>2, <1>3, EnqueueElems
  <1>5. pc \in [Thr -> {"out", "wait", "ready"}] /\ pc' = [pc EXCEPT ![t] = "wait"]
    BY DEF CVInv, CVTypeOK, mnthr_cond_wait
  <1>6. \A u \in Thr : pc'[u] = "wait" => u \in Elems(waitq')
    <2> SUFFICES ASSUME NEW u \in Thr, pc'[u] = "wait", u # t PROVE u \in Elems(waitq)
      BY <1>2, <1>4
    <2> QED
      BY <1>5 DEF CVInv, WaitersQueued
  <1>7. CVTypeOK'
    BY <1>4, <1>5 DEF CVInv, CVTypeOK, mnthr_cond_wait
  <1>8. EntersAtMost(t)
    BY <1>5 DEF EntersAtMost
  <1> QED
    BY <1>4, <1>6, <1>7, <1>8 DEF CVInv, WaitersQueued

\* mnthr_cond_signal_one takes the head off the queue and leaves no waiting
\* thread behind outside of it.
LEMMA SignalOneKeeps ==
    ASSUME NEW t \in Thr, CVInv, mnthr_cond_signal_one(t)
    PROVE  CVInv' /\ EntersAtMost(t)
  <1>1. CASE waitq = <<>>
    BY <1>1 DEF mnthr_cond_signal_one, cvvars, CVInv, CVTypeOK, WaitersQueued, EntersAtMost
  <1>2. CASE waitq # <<>>
    <2>1. waitq \in Seq(Thr) /\ Distinct(waitq)
      BY DEF CVInv, CVTypeOK, WaitersQueued
    <2>2. /\ Tail(waitq) \in Seq(Thr)
          /\ Elems(Tail(waitq)) = Elems(waitq) \ {Head(waitq)}
          /\ Distinct(Tail(waitq))
      BY <2>1, <1>2, TailElems
    <2>3. waitq' = Tail(waitq) /\ set_resume({Head(waitq)}, t)
      BY <1>2 DEF mnthr_cond_signal_one
    <2>4. CVTypeOK'
      BY <2>2, <2>3 DEF CVInv, CVTypeOK, set_resume
    <2>5. \A u \in Thr : pc'[u] = "wait" => pc[u] = "wait" /\ u # Head(waitq)
      BY <2>3 DEF set_resume
    <2>6. \A u \in Thr : pc[u] = "wait" => u \in Elems(waitq)
      BY DEF CVInv, WaitersQueued
    <2>7. WaitersQueued'
      BY <2>2, <2>3, <2>5, <2>6 DEF WaitersQueued
    <2>8. EntersAtMost(t)
      BY <2>3 DEF set_resume, EntersAtMost
    <2> QED
      BY <2>4, <2>7, <2>8 DEF CVInv
  <1> QED
    BY <1>1, <1>2

\* After mnthr_cond_signal_all nobody waits and the queue is empty.
LEMMA SignalAllKeeps ==
    ASSUME NEW t \in Thr, CVInv, mnthr_cond_signal_all(t)
    PROVE  /\ CVInv' /\ EntersAtMost(t)
           /\ \A u \in Thr : pc'[u] # "wait"
  <1>1. waitq' = <<>> /\ set_resume(Elems(waitq), t)
    BY DEF mnthr_cond_signal_all
  <1>2. \A u \in Thr : pc[u] = "wait" => u \in Elems(waitq)
    BY DEF CVInv, WaitersQueued
  <1>3. \A u \in Thr : pc'[u] # "wait"
    BY <1>1, <1>2 DEF set_resume
  <1>4. CVTypeOK'
    BY <1>1 DEF CVInv, CVTypeOK, set_resume
  <1>5. WaitersQueued'
    BY <1>1, <1>3 DEF WaitersQueued, Elems, Distinct
  <1>6. EntersAtMost(t)
    BY <1>1 DEF set_resume, EntersAtMost
  <1> QED
    BY <1>3, <1>4, <1>5, <1>6 DEF CVInv

\* The steps that leave the wait queue alone.
LEMMA OtherKeeps ==
    ASSUME NEW t \in Thr, CVInv,
           \/ mnthr_set_interrupt(t)
           \/ mnthr_set_retval(t)
           \/ WaitFailed(t)
           \/ Leave(t)
           \/ Fail
           \/ UNCHANGED cvvars
    PROVE  CVInv' /\ EntersAtMost(t)
  <1>1. /\ pc \in [Thr -> {"out", "wait", "ready"}]
        /\ rc \in [Thr -> {0, INTERRUPTED}]
        /\ fault \in BOOLEAN /\ intr \in BOOLEAN
        /\ waitq \in Seq(Thr)
    BY DEF CVInv, CVTypeOK
  <1>2. /\ waitq' = waitq
        /\ pc' \in [Thr -> {"out", "wait", "ready"}]
        /\ rc' \in [Thr -> {0, INTERRUPTED}]
        /\ fault' \in BOOLEAN /\ intr' \in BOOLEAN
    BY <1>1 DEF mnthr_set_interrupt, mnthr_set_retval, WaitFailed, Leave, Fail, cvvars
  <1>3. \A u \in Thr : pc'[u] = "wait" => pc[u] = "wait"
    BY <1>1 DEF mnthr_set_interrupt, mnthr_set_retval, WaitFailed, Leave, Fail, cvvars
  <1>4. EntersAtMost(t)
    BY <1>1 DEF mnthr_set_interrupt, mnthr_set_retval, WaitFailed, Leave, Fail, cvvars,
                EntersAtMost
  <1>5. WaitersQueued'
    BY <1>2, <1>3 DEF CVInv, WaitersQueued
  <1>6. CVTypeOK'
    BY <1>1, <1>2 DEF CVTypeOK
  <1> QED
    BY <1>4, <1>5, <1>6 DEF CVInv

\* As long as nobody was interrupted, no wait has failed and the queue holds
\* waiting threads only: a signal is never spent on a thread that has gone on.
QuietQueue ==
    ~ intr => /\ \A t \in Thr : rc[t] = 0
              /\ \A t \in Elems(waitq) : pc[t] = "wait"

\* Nobody waits and nobody was interrupted at first.
LEMMA QuietInit == CVInit => QuietQueue
  BY DEF CVInit, QuietQueue, Elems

\* The thread that waits joins the waiting threads in the queue.
LEMMA QuietWait ==
    ASSUME NEW t \in Thr, CVInv, QuietQueue, mnthr_cond_wait(t)
    PROVE  QuietQueue' /\ intr' = intr
  <1> DEFINE r == DTQUEUE_REMOVE(waitq, t)
  <1>1. waitq \in Seq(Thr) /\ Distinct(waitq)
    BY DEF CVInv, CVTypeOK, WaitersQueued
  <1>2. r \in Seq(Thr) /\ Elems(r) = Elems(waitq) \ {t}
    BY <1>1, RemoveElems
  <1>3. waitq' = DTQUEUE_ENQUEUE(r, t)
    BY DEF mnthr_cond_wait
  <1> HIDE DEF r
  <1>4. Elems(waitq') = Elems(r) \cup {t}
    BY <1>2, <1>3, EnqueueElems
  <1>5. /\ pc \in [Thr -> {"out", "wait", "ready"}] /\ pc' = [pc EXCEPT ![t] = "wait"]
        /\ rc' = rc /\ intr' = intr
    BY DEF CVInv, CVTypeOK, mnthr_cond_wait
  <1>6. \A u \in Elems(waitq) : u \in Thr
    BY <1>1, ElemsType
  <1>7. ASSUME ~ intr, NEW u \in Elems(waitq') PROVE pc'[u] = "wait"
    BY <1>2, <1>4, <1>5, <1>6, <1>7 DEF QuietQueue
  <1> QED
    BY <1>5, <1>7 DEF QuietQueue

\* As long as nobody was interrupted, mnthr_cond_signal_one wakes a waiting
\* thread, and one only, unless nobody waits.
LEMMA QuietSignalOne ==
    ASSUME NEW t \in Thr, CVInv, QuietQueue, mnthr_cond_signal_one(t)
    PROVE  /\ QuietQueue' /\ intr' = intr
           /\ ~ intr => \/ pc' = pc /\ \A u \in Thr : pc[u] # "wait"
                        \/ \E h \in Thr : pc[h] = "wait" /\ pc' = [pc EXCEPT ![h] = "ready"]
  <1>1. CASE waitq = <<>>
    <2>1. UNCHANGED cvvars
      BY <1>1 DEF mnthr_cond_signal_one
    <2>2. \A u \in Thr : pc[u] # "wait"
      BY <1>1 DEF CVInv, WaitersQueued, Elems
    <2> QED
      BY <2>1, <2>2 DEF cvvars, QuietQueue
  <1>2. CASE waitq # <<>>
    <2> DEFINE h == Head(waitq)
    <2>1. waitq \in Seq(Thr) /\ Distinct(waitq) /\ pc \in [Thr -> {"out", "wait", "ready"}]
      BY DEF CVInv, CVTypeOK, WaitersQueued
    <2>2. /\ h \in Thr /\ h \in Elems(waitq)
          /\ Elems(Tail(waitq)) = Elems(waitq) \ {h}
      BY <1>2, <2>1, TailElems
    <2>3. /\ waitq' = Tail(waitq) /\ rc' = rc /\ intr' = intr
          /\ pc' = [u \in Thr |-> IF u \in {h} /\ pc[u] = "wait" THEN "ready" ELSE pc[u]]
      BY <1>2 DEF mnthr_cond_signal_one, set_resume
    <2> HIDE DEF h
    <2>4. \A u \in Elems(waitq) : u \in Thr
      BY <2>1, ElemsType
    <2>5. ASSUME ~ intr PROVE pc[h] = "wait" /\ pc' = [pc EXCEPT ![h] = "ready"]
      <3>1. pc[h] = "wait"
        BY <2>2, <2>5 DEF QuietQueue
      <3> QED
        BY <2>1, <2>2, <2>3, <3>1
    <2>6. ASSUME ~ intr, NEW u \in Elems(waitq') PROVE pc'[u] = "wait"
      <3>1. u \in Elems(waitq) /\ u # h /\ u \in Thr
        BY <2>2, <2>3, <2>4, <2>6
      <3>2. pc[u] = "wait"
        BY <2>6, <3>1 DEF QuietQueue
      <3> QED
        BY <2>3, <3>1, <3>2
    <2> QED
      BY <2>2, <2>3, <2>5, <2>6 DEF QuietQueue
  <1> QED
    BY <1>1, <1>2

\* mnthr_cond_signal_all leaves an empty queue behind.
LEMMA QuietSignalAll ==
    ASSUME NEW t \in Thr, QuietQueue, mnthr_cond_signal_all(t)
    PROVE  QuietQueue' /\ intr' = intr
  <1>1. waitq' = <<>> /\ rc' = rc /\ intr' = intr
    BY DEF mnthr_cond_signal_all, set_resume
  <1> QED
    BY <1>1 DEF QuietQueue, Elems

\* The steps that leave the wait queue alone; who leaves has been woken.
LEMMA QuietOther ==
    ASSUME NEW t \in Thr, CVInv, QuietQueue,
           \/ mnthr_set_interrupt(t)
           \/ mnthr_set_retval(t)
           \/ WaitFailed(t)
           \/ pc[t] = "ready" /\ Leave(t)
           \/ Fail
           \/ UNCHANGED cvvars
    PROVE  /\ QuietQueue'
           /\ ~ intr' => ~ intr /\ ~ WaitFailed(t) /\ ~ mnthr_set_interrupt(t)
  <1>1. /\ pc \in [Thr -> {"out", "wait", "ready"}] /\ rc \in [Thr -> {0, INTERRUPTED}]
        /\ \A u \in Elems(waitq) : u \in Thr
    BY ElemsType DEF CVInv, CVTypeOK
  <1>2. CASE mnthr_set_interrupt(t)
    BY <1>2 DEF mnthr_set_interrupt, QuietQueue
  <1>3. CASE mnthr_set_retval(t)
    BY <1>1, <1>3 DEF mnthr_set_retval, QuietQueue, mnthr_set_interrupt, WaitFailed
  <1>4. CASE WaitFailed(t)
    BY <1>1, <1>4 DEF WaitFailed, QuietQueue, mnthr_set_interrupt
  <1>5. CASE pc[t] = "ready" /\ Leave(t)
    <2>1. /\ pc' = [pc EXCEPT ![t] = "out"] /\ waitq' = waitq /\ rc' = rc /\ intr' = intr
      BY <1>5 DEF Leave
    <2>2. ~ intr => t \notin Elems(waitq)
      BY <1>5 DEF QuietQueue
    <2> QED
      BY <1>1, <1>5, <2>1, <2>2 DEF QuietQueue, WaitFailed, mnthr_set_interrupt
  <1>6. CASE Fail \/ UNCHANGED cvvars
    <2>1. pc' = pc /\ waitq' = waitq /\ rc' = rc /\ intr' = intr
      BY <1>6 DEF Fail, cvvars
    <2>2. ~ intr => ~ WaitFailed(t)
      BY DEF QuietQueue, WaitFailed
    <2>3. ~ intr' => ~ mnthr_set_interrupt(t)
      BY DEF mnthr_set_interrupt
    <2> QED
      BY <2>1, <2>2, <2>3 DEF QuietQueue
  <1> QED
    BY <1>2, <1>3, <1>4, <1>5, <1>6
=============================================================================
