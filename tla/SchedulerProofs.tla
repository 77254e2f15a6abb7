--------------------------- MODULE SchedulerProofs ---------------------------
(***************************************************************************)
(* What the scheduler keeps, for every set of contexts, every set of calls *)
(* the application makes and every clock.  The wait queues (BaseInv) come  *)
(* first; then, outside of the staged races, where everybody is linked     *)
(* (TameInv); last, with the staged races again, what a timed wait knows   *)
(* when it returns (WaitInv).                                              *)
(***************************************************************************)
EXTENDS Scheduler, SleepQueueProofs

\* The running thread is a live context.
Running == ctl = "thread" => me \in Ctx /\ state[me] # "DORMANT"

\* Only the timed waits are entered in two steps, with a time to wait for.
Entering == \A c \in Ctx : call[c].ph = "enter" =>
                call[c].op \in TimedOps /\ call[c].until \in Key

\* A timed wait stands in the queue of its target or, once resumed, in none.
TimedInQueue == \A c \in Ctx : call[c].op \in TimedOps =>
                    call[c].tgt \in Ctx /\ hosting[c] \in {call[c].tgt, NULL}

\* A queue that is being drained is not empty yet.
Draining == drain # NULL => waitq[drain] # <<>>

\* A context without a thread is dormant.
LiveHasId == \A c \in Ctx : state[c] # "DORMANT" => id[c] # NoId

\* Nobody holds what mnthr_gc is freeing.
DoomedUnheld == \A c \in doomed : abac[c] = 0

\* The invariant of the scheduler, whatever the application calls.
BaseInv == /\ TypeOK
           /\ Running
           /\ Entering
           /\ TimedInQueue
           /\ Draining
           /\ WaitqConsistent
           /\ LiveHasId
           /\ DoomedUnheld
-----------------------------------------------------------------------------
(***************************************************************************)
(* The types of the sleep queue's operations, whether or not the context   *)
(* they are applied to is staged.                                          *)
(***************************************************************************)

\* Unlinking gives a queue.
LEMMA RemoveTyped ==
    ASSUME NEW S, NEW q \in Seq(S), NEW e
    PROVE  DTQUEUE_REMOVE(q, e) \in Seq(S)
  <1>1. CASE e \notin Elems(q)
    BY <1>1 DEF DTQUEUE_REMOVE
  <1>2. CASE e \in Elems(q)
    BY <1>2, RemoveShifts
  <1> QED
    BY <1>1, <1>2

\* Unlinking keeps the other elements.
LEMMA RemoveKeepsOthers ==
    ASSUME NEW S, NEW q \in Seq(S), NEW e, NEW d \in Elems(q), d # e
    PROVE  d \in Elems(DTQUEUE_REMOVE(q, e))
  <1>1. CASE e \notin Elems(q)
    BY <1>1 DEF DTQUEUE_REMOVE
  <1>2. CASE e \in Elems(q)
    <2>1. PICK i \in 1..Len(q) : /\ q[i] = e
                                 /\ DTQUEUE_REMOVE(q, e) \in Seq(S)
                                 /\ Len(DTQUEUE_REMOVE(q, e)) = Len(q) - 1
                                 /\ Shifted(DTQUEUE_REMOVE(q, e), q, i)
      BY <1>2, RemoveShifts
    <2>2. PICK r : r = DTQUEUE_REMOVE(q, e)
      OBVIOUS
    <2>3. PICK j \in 1..Len(q) : q[j] = d
      BY DEF Elems
    <2>4. CASE j < i
      <3>1. j \in 1..Len(r) /\ r[j] = d
        BY <2>1, <2>2, <2>3, <2>4 DEF Shifted
      <3> QED
        BY <3>1, <2>2 DEF Elems
    <2>5. CASE i < j
      <3>1. j - 1 \in 1..Len(r) /\ r[j - 1] = d
        BY <2>1, <2>2, <2>3, <2>5 DEF Shifted
      <3> QED
        BY <3>1, <2>2 DEF Elems
    <2> QED
      BY <2>1, <2>3, <2>4, <2>5
  <1> QED
    BY <1>1, <1>2

\* A queue of members of S is one of members of every larger set.
LEMMA SeqGrows ==
    ASSUME NEW S, NEW T, S \subseteq T, NEW q \in Seq(S)
    PROVE  q \in Seq(T)
  OBVIOUS

\* A queue that does not hold c.
LEMMA SeqOver ==
    ASSUME NEW S, NEW T, NEW c, S \ {c} \subseteq T, NEW q \in Seq(S), c \notin Elems(q)
    PROVE  q \in Seq(T)
  BY DEF Elems

\* The sleep queues whose links lead to members of S.
SQOver(S) == [trie   : [Key -> S \cup {NULL}],
              bucket : [Ctx -> Seq(S)],
              expire : [Ctx -> 0..FOREVER]]

\* sleepq_remove gives a sleep queue with the same expire_ticks.
LEMMA SleepqRemoveTyped ==
    ASSUME NEW S \in SUBSET Ctx, NEW q \in SQOver(S), NEW c \in Ctx
    PROVE  \E X \in [Key -> S \cup {NULL}], Y \in [Ctx -> Seq(S)] :
              sleepq_remove(q, c) = [trie |-> X, bucket |-> Y, expire |-> q.expire]
  <1> DEFINE T == q.trie
             B == q.bucket
             E == q.expire
             l == E[c]
             h == T[l]
  <1>0. /\ T \in [Key -> S \cup {NULL}] /\ B \in [Ctx -> Seq(S)]
        /\ E \in [Ctx -> 0..FOREVER]
        /\ q = [trie |-> T, bucket |-> B, expire |-> E]
    BY DEF SQOver
  <1>1. CASE l = UNDEFINED \/ h = NULL
    BY <1>0, <1>1 DEF sleepq_remove
  <1>2. CASE l # UNDEFINED /\ h # NULL
    <2>1. l \in Key /\ h \in Ctx /\ h \in S
      <3>1. l \in Key
        BY <1>0, <1>2 DEF Key, UNDEFINED
      <3> QED
        BY <3>1, <1>0, <1>2
    <2>2. CASE h # c
      <3>1. sleepq_remove(q, c)
               = [trie |-> T, bucket |-> [B EXCEPT ![h] = DTQUEUE_REMOVE(@, c)], expire |-> E]
        BY <2>1, <2>2, <1>0, <1>2 DEF sleepq_remove
      <3>2. [B EXCEPT ![h] = DTQUEUE_REMOVE(@, c)] \in [Ctx -> Seq(S)]
        BY <1>0, <2>1, RemoveTyped
      <3> QED
        BY <3>1, <3>2, <1>0
    <2>3. CASE h = c /\ B[c] = <<>>
      <3>1. sleepq_remove(q, c) = [trie |-> [T EXCEPT ![l] = NULL], bucket |-> B, expire |-> E]
        BY <2>1, <2>3, <1>0, <1>2 DEF sleepq_remove
      <3> QED
        BY <3>1, <1>0, <2>1
    <2>4. CASE h = c /\ B[c] # <<>>
      <3>1. sleepq_remove(q, c)
               = [trie |-> [T EXCEPT ![l] = Head(B[c])],
                  bucket |-> HandOver(B, Head(B[c]), c, Tail(B[c])), expire |-> E]
        BY <2>1, <2>4, <1>0, <1>2 DEF sleepq_remove, HandOver
      <3>2. Head(B[c]) \in S /\ Tail(B[c]) \in Seq(S) /\ <<>> \in Seq(S)
        BY <1>0, <2>4
      <3>3. HandOver(B, Head(B[c]), c, Tail(B[c])) \in [Ctx -> Seq(S)]
        BY <1>0, <3>2 DEF HandOver
      <3> QED
        BY <3>1, <3>2, <3>3, <1>0, <2>1
    <2> QED
      BY <2>2, <2>3, <2>4
  <1> QED
    BY <1>1, <1>2

\* A record of the three fields is such a sleep queue.
LEMMA MakeOver ==
    ASSUME NEW S \in SUBSET Ctx, NEW X \in [Key -> S \cup {NULL}], NEW Y \in [Ctx -> Seq(S)],
           NEW Z \in [Ctx -> 0..FOREVER]
    PROVE  [trie |-> X, bucket |-> Y, expire |-> Z] \in SQOver(S)
  BY DEF SQOver

\* What is left when a context is taken off the sleep queue, and what
\* rescheduling makes of it, are sleep queues.
LEMMA RescheduleOver ==
    ASSUME NEW S \in SUBSET Ctx, NEW q \in SQOver(S), NEW c \in Ctx, NEW k \in Key, NEW p \in BOOLEAN
    PROVE  /\ sleepq_remove(q, c) \in SQOver(S)
           /\ Unlinked(q, c) \in SQOver(S)
           /\ WithExpire(q, c, k) \in SQOver(S)
           /\ c \in S => reschedule(q, c, k, p) \in SQOver(S)
  <1>0. q.expire \in [Ctx -> 0..FOREVER] /\ k \in 0..FOREVER /\ UNDEFINED \in 0..FOREVER
    BY TimeAssumption DEF SQOver, Key, UNDEFINED
  <1>1. PICK X \in [Key -> S \cup {NULL}], Y \in [Ctx -> Seq(S)], Z \in [Ctx -> 0..FOREVER] :
              sleepq_remove(q, c) = [trie |-> X, bucket |-> Y, expire |-> Z]
    BY SleepqRemoveTyped, <1>0
  <1>2. PICK U \in [Key -> S \cup {NULL}], V \in [Ctx -> Seq(S)], W \in [Ctx -> 0..FOREVER] :
              q = [trie |-> U, bucket |-> V, expire |-> W]
    BY DEF SQOver
  <1>3. PICK Z2 \in [Ctx -> 0..FOREVER] : Z2 = [Z EXCEPT ![c] = k]
    BY <1>0
  <1>4. PICK Z0 \in [Ctx -> 0..FOREVER] : Z0 = [Z EXCEPT ![c] = UNDEFINED]
    BY <1>0
  <1>5. PICK W2 \in [Ctx -> 0..FOREVER] : W2 = [W EXCEPT ![c] = k]
    BY <1>0
  <1>6. sleepq_remove(q, c) \in SQOver(S)
    <2>1. [trie |-> X, bucket |-> Y, expire |-> Z] \in SQOver(S)
      BY MakeOver, Zenon
    <2> QED
      BY <2>1, <1>1
  <1>7. Unlinked(q, c) \in SQOver(S)
    <2>1. WithExpire([trie |-> X, bucket |-> Y, expire |-> Z], c, UNDEFINED)
             = [trie |-> X, bucket |-> Y, expire |-> Z0]
      BY <1>4, SetExpire
    <2>2. Unlinked(q, c) = WithExpire(sleepq_remove(q, c), c, UNDEFINED)
      BY DEF Unlinked, WithExpire
    <2>3. [trie |-> X, bucket |-> Y, expire |-> Z0] \in SQOver(S)
      BY MakeOver, Zenon
    <2> QED
      BY <2>1, <2>2, <2>3, <1>1
  <1>8. WithExpire(q, c, k) \in SQOver(S)
    <2>1. WithExpire(q, c, k) = [trie |-> U, bucket |-> V, expire |-> W2]
      BY <1>2, <1>5, SetExpire
    <2>2. [trie |-> U, bucket |-> V, expire |-> W2] \in SQOver(S)
      BY MakeOver, Zenon
    <2> QED
      BY <2>1, <2>2
  <1>9. PICK w : /\ w = [trie |-> X, bucket |-> Y, expire |-> Z2]
                 /\ reschedule(q, c, k, p) = sleepq_enqueue(w, c, p)
    <2>1. WithExpire([trie |-> X, bucket |-> Y, expire |-> Z], c, k)
             = [trie |-> X, bucket |-> Y, expire |-> Z2]
      BY <1>3, SetExpire
    <2> QED
      BY <2>1, <1>1 DEF reschedule, WithExpire
  <1>10. w.expire[c] = k /\ w.trie = X /\ w.bucket = Y /\ w.expire = Z2
    BY <1>3, <1>9
  <1>11. ASSUME c \in S PROVE sleepq_enqueue(w, c, p) \in SQOver(S)
    <2>1. CASE X[k] = NULL
      <3>1. sleepq_enqueue(w, c, p) = [w EXCEPT !.trie[k] = c]
        BY <2>1, <1>10 DEF sleepq_enqueue, sleepq_insert, sleepq_append
      <3>2. sleepq_enqueue(w, c, p) = [trie |-> [X EXCEPT ![k] = c], bucket |-> Y, expire |-> Z2]
        BY <3>1, <1>9
      <3>3. PICK X2 \in [Key -> S \cup {NULL}] : X2 = [X EXCEPT ![k] = c]
        BY <1>11
      <3>4. sleepq_enqueue(w, c, p) = [trie |-> X2, bucket |-> Y, expire |-> Z2]
        BY <3>2, <3>3
      <3>5. [trie |-> X2, bucket |-> Y, expire |-> Z2] \in SQOver(S)
        BY MakeOver, Zenon
      <3> QED
        BY <3>4, <3>5
    <2>2. CASE X[k] # NULL
      <3>0. X[k] \in S /\ X[k] \in Ctx
        BY <2>2
      <3>1. /\ DTQUEUE_INSERT_BEFORE_HEAD(Y[X[k]], c) \in Seq(S)
            /\ DTQUEUE_ENQUEUE(Y[X[k]], c) \in Seq(S)
        <4>1. Y[X[k]] \in Seq(S)
          BY <3>0
        <4> QED
          BY <4>1, <1>11, InsertElems, EnqueueElems DEF DTQUEUE_INSERT_BEFORE_HEAD
      <3>2. \E s \in Seq(S) : sleepq_enqueue(w, c, p) = [w EXCEPT !.bucket[X[k]] = s]
        BY <2>2, <3>1, <1>10 DEF sleepq_enqueue, sleepq_insert, sleepq_append
      <3>3. PICK s \in Seq(S) :
               sleepq_enqueue(w, c, p)
                  = [trie |-> X, bucket |-> [Y EXCEPT ![X[k]] = s], expire |-> Z2]
        BY <3>2, <1>9
      <3>4. PICK Y2 \in [Ctx -> Seq(S)] : Y2 = [Y EXCEPT ![X[k]] = s]
        BY <3>0
      <3>5. sleepq_enqueue(w, c, p) = [trie |-> X, bucket |-> Y2, expire |-> Z2]
        BY <3>3, <3>4
      <3>6. [trie |-> X, bucket |-> Y2, expire |-> Z2] \in SQOver(S)
        BY MakeOver, Zenon
      <3> QED
        BY <3>5, <3>6
    <2> QED
      BY <2>1, <2>2
  <1> QED
    BY <1>6, <1>7, <1>8, <1>9, <1>11
-----------------------------------------------------------------------------
(***************************************************************************)
(* What a step does to the sleep queue.                                    *)
(***************************************************************************)

\* A context is scheduled, from wherever it stands.
Scheduled(c, k) == /\ sq' = reschedule(sq, c, k, prio[c])
                   /\ UNCHANGED <<runq, tmp, now, phase>>

\* A step of the poller.
Walks == \/ \E t \in now..MaxNow : Prepare(t)
         \/ \E k \in Key : Collect(k)
         \/ CollectDone
         \/ PopHost
         \/ PopBucket
         \/ SiftDone

\* The constants the calls schedule with are keys.
LEMMA Keys ==
    /\ RESUME_NOW \in Key
    /\ FOREVER \in Key
    /\ \A d \in Delays : now \in Nat /\ InHorizon(d) => Deadline(d) \in Key
  <1>1. RESUME_NOW \in Key /\ FOREVER \in Key
    BY TimeAssumption DEF RESUME_NOW, Key
  <1>2. ASSUME NEW d \in Delays, now \in Nat, InHorizon(d) PROVE Deadline(d) \in Key
    <2>1. d \in 1..MaxNow
      BY SchedulerAssumption
    <2> QED
      BY <2>1, <1>2, TimeAssumption DEF InHorizon, Deadline, Key
  <1> QED
    BY <1>1, <1>2

\* The context at the head of a wait queue.
LEMMA WaitqHead ==
    ASSUME TypeOK, NEW w \in WaitQ, waitq[w] # <<>>
    PROVE  Head(waitq[w]) \in Ctx /\ Tail(waitq[w]) \in Seq(Ctx) /\ Len(waitq[w]) \in Nat
  <1>1. waitq[w] \in Seq(Ctx)
    BY DEF TypeOK
  <1> QED
    BY <1>1

\* A call schedules a context, takes the running one off, or leaves the sleep
\* queue alone; the rest are the steps of the walk.
LEMMA SqEffect ==
    ASSUME BaseInv, Next
    PROVE  \/ UNCHANGED sqvars
           \/ \E c \in Ctx, k \in Key : Scheduled(c, k) /\ state'[c] # "DORMANT"
           \/ TimedSleep
           \/ Exit
           \/ TimedReturnGone
           \/ Walks
  <1> DEFINE G == \/ UNCHANGED sqvars
                  \/ \E c \in Ctx, k \in Key : Scheduled(c, k) /\ state'[c] # "DORMANT"
                  \/ TimedSleep
                  \/ Exit
                  \/ TimedReturnGone
                  \/ Walks
  <1>0. /\ ctl = "thread" => me \in Ctx
        /\ owner # NULL => owner \in Ctx
        /\ now \in Nat
        /\ drain # NULL => drain \in WaitQ /\ waitq[drain] # <<>>
        /\ state \in [Ctx -> RESUMABLE \cup {"DORMANT", "RESUMED"}]
    BY DEF BaseInv, TypeOK, SQTypeOK, Running, Draining
  <1>1. ASSUME NEW c \in Ctx, NEW k \in Key, Enqueue(c, k), state'[c] # "DORMANT" PROVE G
    BY <1>1 DEF Enqueue, Scheduled
  <1>2. CASE Switching
    <2>1. ASSUME NEW d \in Delays, mnthr_sleep(d) PROVE G
      BY <2>1, <1>0, <1>1, Keys DEF mnthr_sleep, SleepUntil, Calling
    <2>2. CASE mnthr_yield \/ mnthr_giveup
      BY <2>2, <1>0, <1>1, Keys DEF mnthr_yield, mnthr_giveup, SleepUntil, Calling
    <2>3. CASE ExitEINTR \/ mnthr_cond_wait \/ mnthr_signal_subscribe
      BY <2>3 DEF ExitEINTR, mnthr_cond_wait, mnthr_signal_subscribe
    <2>4. ASSUME NEW t \in Ctx, mnthr_join(t) PROVE G
      BY <2>4 DEF mnthr_join
    <2>5. ASSUME NEW t \in Ctx, mnthr_set_interrupt_and_join(t) PROVE G
      BY <2>5, <1>0, <1>1, Keys DEF mnthr_set_interrupt_and_join, SetInterrupt
    <2>6. ASSUME NEW t \in Ctx, NEW d \in Delays,
                 mnthr_set_interrupt_and_join_with_timeout(t, d)
          PROVE  G
      BY <2>6, <1>0, <1>1, Keys DEF mnthr_set_interrupt_and_join_with_timeout, SetInterrupt
    <2>7. ASSUME NEW c \in Ctx, NEW d \in Delays, mnthr_wait_for(c, d) PROVE G
      BY <2>7, <1>0, <1>1, Keys DEF mnthr_wait_for
    <2>8. ASSUME NEW t \in Ctx, NEW d \in Delays, mnthr_peek(t, d) PROVE G
      BY <2>8 DEF mnthr_peek
    <2>9. ASSUME NEW d \in Delays, mnthr_signal_subscribe_with_timeout(d) PROVE G
      BY <2>9, <1>0, <1>1, Keys DEF mnthr_signal_subscribe_with_timeout, Calling
    <2>10. ASSUME NEW v \in Retvals, mnthr_signal_error_and_join(v) PROVE G
      BY <2>10, <1>0, <1>1, Keys DEF mnthr_signal_error_and_join, Subscribed
    <2> QED
      BY <1>2, <2>1, <2>2, <2>3, <2>4, <2>5, <2>6, <2>7, <2>8, <2>9, <2>10 DEF Switching
  <1>3. ASSUME NEW w \in WaitQ, waitq[w] # <<>>, resume_waitq_head(w) PROVE G
    <2>1. Head(waitq[w]) \in Ctx
      BY <1>3, WaitqHead DEF BaseInv
    <2>2. \/ UNCHANGED sqvars
          \/ Enqueue(Head(waitq[w]), RESUME_NOW) /\ state'[Head(waitq[w])] # "DORMANT"
      BY <1>0, <1>3, <2>1 DEF resume_waitq_head, set_resume
    <2> QED
      BY <2>1, <2>2, <1>1, Keys
  <1>4. CASE Continuing
    <2>1. ASSUME NEW c \in Ctx, mnthr_new(c) \/ mnthr_run(c) \/ mnthr_spawn(c)
          PROVE  G
      BY <2>1, <1>0, <1>1, Keys DEF mnthr_new, mnthr_run, mnthr_spawn, set_resume
    <2>2. CASE mnthr_gc \/ mnthr_cond_signal_all
      BY <2>2 DEF mnthr_gc, mnthr_cond_signal_all
    <2>3. ASSUME NEW c \in Ctx, mnthr_shutdown(c) PROVE G
      BY <2>3, <1>0, <1>1, Keys DEF mnthr_shutdown, set_resume
    <2>4. ASSUME NEW v \in Retvals, mnthr_set_retval(v) PROVE G
      BY <2>4 DEF mnthr_set_retval
    <2>5. ASSUME NEW c \in Ctx, NEW flag \in BOOLEAN, mnthr_set_prio(c, flag) PROVE G
      BY <2>5 DEF mnthr_set_prio
    <2>6. ASSUME NEW c \in Ctx, mnthr_incabac(c) \/ mnthr_decabac(c) PROVE G
      BY <2>6 DEF mnthr_incabac, mnthr_decabac
    <2>7. CASE mnthr_cond_signal_one
      BY <2>7, <1>3 DEF mnthr_cond_signal_one, WaitQ
    <2>8. ASSUME NEW t \in Ctx, mnthr_set_interrupt(t) PROVE G
      BY <2>8, <1>0, <1>1, Keys DEF mnthr_set_interrupt, SetInterrupt
    <2>9. CASE mnthr_signal_send
      BY <2>9, <1>0, <1>1, Keys DEF mnthr_signal_send, Subscribed, set_resume
    <2>10. ASSUME NEW v \in Retvals, mnthr_signal_error(v) PROVE G
      BY <2>10, <1>0, <1>1, Keys DEF mnthr_signal_error, Subscribed, set_resume
    <2> QED
      BY <1>4, <2>1, <2>2, <2>3, <2>4, <2>5, <2>6, <2>7, <2>8, <2>9, <2>10 DEF Continuing
  <1>5. CASE Forced
    <2>1. CASE resume_waitq_all
      BY <2>1, <1>0, <1>3 DEF resume_waitq_all
    <2>2. CASE push_free_ctx \/ subscribe_return
      BY <2>2 DEF push_free_ctx, subscribe_return
    <2>3. ASSUME NEW c \in Ctx, mnthr_ctx_fini(c) PROVE G
      BY <2>3 DEF mnthr_ctx_fini
    <2>4. CASE wait_for_timeout
      <3>1. call[me].tgt \in Ctx
        BY <2>4, <1>0 DEF wait_for_timeout, Returning, BaseInv, TimedInQueue, TimedOps
      <3>2. \/ UNCHANGED sqvars
            \/ Enqueue(call[me].tgt, RESUME_NOW) /\ state'[call[me].tgt] # "DORMANT"
        BY <2>4, <3>1, <1>0 DEF wait_for_timeout, AssertFails, SetInterrupt
      <3> QED
        BY <3>1, <3>2, <1>1, Keys
    <2>5. CASE peek_timeout \/ interrupt_and_join_timeout
      BY <2>5 DEF peek_timeout, interrupt_and_join_timeout, AssertFails
    <2> QED
      BY <1>5, <2>1, <2>2, <2>3, <2>4, <2>5 DEF Forced
  <1>6. CASE Poller
    BY <1>6 DEF Poller, loop_prepare, loop_break, sift_collect, sift_collected, sift_host,
                sift_bucket, sift_done, Walks
  <1> QED
    BY <1>2, <1>4, <1>5, <1>6 DEF Next

\* The sleep queue links members of S only, if it did and whoever is live is in S,
\* whoever is scheduled and however often.
LEMMA SqLinks ==
    ASSUME BaseInv, Next, NEW S \in SUBSET Ctx,
           sq \in SQOver(S), runq \in Seq(S), tmp \in Seq(S),
           \A c \in Ctx : state'[c] # "DORMANT" => c \in S
    PROVE  sq' \in SQOver(S) /\ runq' \in Seq(S) /\ tmp' \in Seq(S)
  <1> DEFINE G == sq' \in SQOver(S) /\ runq' \in Seq(S) /\ tmp' \in Seq(S)
  <1> SUFFICES G
    OBVIOUS
  <1>0. /\ prio \in [Ctx -> BOOLEAN]
        /\ ctl = "thread" => me \in Ctx /\ state[me] # "DORMANT"
    BY DEF BaseInv, TypeOK, Running
  <1>1. CASE UNCHANGED sqvars
    BY <1>1 DEF sqvars
  <1>2. ASSUME NEW c \in Ctx, NEW k \in Key, Scheduled(c, k), state'[c] # "DORMANT" PROVE G
    <2>1. prio[c] \in BOOLEAN /\ c \in S
      BY <1>0, <1>2
    <2>2. sq' \in SQOver(S)
      BY <1>2, <2>1, RescheduleOver DEF Scheduled
    <2> QED
      BY <1>2, <2>2 DEF Scheduled
  <1>3. CASE TimedSleep
    <2>1. me \in Ctx /\ me \in S /\ call[me].until \in Key /\ prio[me] \in BOOLEAN
      BY <1>0, <1>3 DEF TimedSleep, BaseInv, Entering, covars
    <2>2. \E q \in {sq, WithExpire(sq, me, call[me].until)} :
             sq' = reschedule(q, me, call[me].until, prio[me])
      BY <1>3 DEF TimedSleep, WithExpire
    <2>3. WithExpire(sq, me, call[me].until) \in SQOver(S)
      BY <2>1, RescheduleOver
    <2>4. sq' \in SQOver(S)
      BY <2>1, <2>2, <2>3, RescheduleOver
    <2> QED
      BY <1>3, <2>4 DEF TimedSleep
  <1>4. CASE Exit \/ TimedReturnGone
    <2>1. me \in Ctx /\ RESUME_NOW \in Key /\ TRUE \in BOOLEAN
      BY <1>0, <1>4, Keys DEF Exit, TimedReturnGone, Calling, Returning
    <2>2. sq' = Unlinked(sq, me) \/ sq' = sleepq_remove(sq, me)
      BY <1>4 DEF Exit, TimedReturnGone, Unlinked
    <2>3. sq' \in SQOver(S)
      BY <2>1, <2>2, RescheduleOver
    <2> QED
      BY <1>4, <2>3 DEF Exit, TimedReturnGone
  <1>5. ASSUME NEW t, Prepare(t) \/ CollectDone \/ SiftDone PROVE G
    BY <1>5 DEF Prepare, CollectDone, SiftDone
  <1>6. PICK U \in [Key -> S \cup {NULL}], V \in [Ctx -> Seq(S)], W \in [Ctx -> 0..FOREVER] :
              sq = [trie |-> U, bucket |-> V, expire |-> W]
    BY DEF SQOver
  <1>7. UNDEFINED \in 0..FOREVER /\ <<>> \in Seq(S)
    BY TimeAssumption DEF UNDEFINED
  <1>8. ASSUME NEW k \in Key, Collect(k) PROVE G
    <2>1. U[k] \in S /\ runq' = Append(runq, U[k])
      BY <1>6, <1>8 DEF Collect, MinExpired, IsMin
    <2>2. PICK U2 \in [Key -> S \cup {NULL}] : U2 = [U EXCEPT ![k] = NULL]
      OBVIOUS
    <2>3. sq' = [trie |-> U2, bucket |-> V, expire |-> W]
      BY <1>6, <1>8, <2>2 DEF Collect
    <2>4. [trie |-> U2, bucket |-> V, expire |-> W] \in SQOver(S)
      BY MakeOver, Zenon
    <2>5. runq' \in Seq(S)
      BY <2>1
    <2> QED
      BY <2>3, <2>4, <2>5, <1>8 DEF Collect
  <1>9. CASE PopHost
    <2>1. Head(runq) \in S /\ Head(runq) \in Ctx /\ Tail(runq) \in Seq(S)
      BY <1>9 DEF PopHost
    <2>2. /\ \E V2 \in [Ctx -> Seq(S)] : V2 = [V EXCEPT ![Head(runq)] = <<>>]
          /\ \E W2 \in [Ctx -> 0..FOREVER] : W2 = [W EXCEPT ![Head(runq)] = UNDEFINED]
      BY <1>7
    <2>3. PICK V2 \in [Ctx -> Seq(S)], W2 \in [Ctx -> 0..FOREVER] :
             /\ V2 = [V EXCEPT ![Head(runq)] = <<>>]
             /\ W2 = [W EXCEPT ![Head(runq)] = UNDEFINED]
      BY <2>2, Zenon
    <2>4. sq' = [trie |-> U, bucket |-> V2, expire |-> W2]
      BY <1>6, <1>9, <2>3 DEF PopHost
    <2>5. [trie |-> U, bucket |-> V2, expire |-> W2] \in SQOver(S)
      BY MakeOver, Zenon
    <2>6. runq' = Tail(runq) /\ tmp' = V[Head(runq)] /\ V[Head(runq)] \in Seq(S)
      BY <1>6, <1>9, <2>1 DEF PopHost
    <2> QED
      BY <2>1, <2>4, <2>5, <2>6
  <1>10. CASE PopBucket
    <2>1. Tail(tmp) \in Seq(S)
      BY <1>10 DEF PopBucket
    <2>2. PICK W2 \in [Ctx -> 0..FOREVER] : W2 = [W EXCEPT ![Head(tmp)] = UNDEFINED]
      BY <1>7
    <2>3. sq' = [trie |-> U, bucket |-> V, expire |-> W2]
      BY <1>6, <1>10, <2>2 DEF PopBucket
    <2>4. [trie |-> U, bucket |-> V, expire |-> W2] \in SQOver(S)
      BY MakeOver, Zenon
    <2> QED
      BY <2>1, <2>3, <2>4, <1>10 DEF PopBucket
  <1> QED
    BY SqEffect, <1>1, <1>2, <1>3, <1>4, <1>5, <1>8, <1>9, <1>10 DEF Walks

\* The sleep queue keeps its types.
LEMMA SqTypes ==
    ASSUME BaseInv, Next
    PROVE  SQTypeOK'
  <1>0. /\ sq \in SQOver(Ctx) /\ runq \in Seq(Ctx) /\ tmp \in Seq(Ctx) /\ now \in Nat
        /\ phase \in {"main", "loop", "collect", "run"}
        /\ SQ = SQOver(Ctx)
    BY DEF BaseInv, TypeOK, SQTypeOK, SQ, SQOver
  <1>1. sq' \in SQ /\ runq' \in Seq(Ctx) /\ tmp' \in Seq(Ctx)
    BY <1>0, SqLinks
  <1>2. now' \in Nat /\ phase' \in {"main", "loop", "collect", "run"}
    <2>1. ASSUME NEW t \in now..MaxNow, Prepare(t) PROVE now' \in Nat /\ phase' = "collect"
      BY <2>1, <1>0, TimeAssumption DEF Prepare
    <2> QED
      BY <2>1, <1>0, SqEffect
         DEF sqvars, Scheduled, TimedSleep, Exit, TimedReturnGone, Walks, Collect, CollectDone,
             PopHost, PopBucket, SiftDone
  <1> QED
    BY <1>1, <1>2 DEF SQTypeOK
-----------------------------------------------------------------------------
(***************************************************************************)
(* What a step does to the wait queues.                                    *)
(***************************************************************************)

\* The thread at the head of w is taken off.
TakesHead(w) == /\ waitq' = [waitq EXCEPT ![w] = Tail(@)]
                /\ hosting' = [hosting EXCEPT ![Head(waitq[w])] = NULL]

\* The context that is finalized leaves the queue it stands in.
Leaves(c) == /\ hosting[c] # NULL
             /\ waitq' = [waitq EXCEPT ![hosting[c]] = DTQUEUE_REMOVE(@, c)]
             /\ hosting' = [hosting EXCEPT ![c] = NULL]

\* The running thread enters a queue or leaves the one it stands in, the head of
\* a queue is taken off, a dying context leaves its queue; all else leaves the
\* queues alone.
LEMMA WqEffect ==
    ASSUME BaseInv, Next
    PROVE  \/ UNCHANGED <<waitq, hosting>>
           \/ ctl = "thread" /\ me \in Ctx /\ \E w \in WaitQ : append_me_to_waitq(w)
           \/ me \in Ctx /\ \E w \in WaitQ : hosting[me] \in {w, NULL} /\ remove_me_from_waitq(w)
           \/ \E w \in WaitQ : waitq[w] # <<>> /\ TakesHead(w)
           \/ dying \in Ctx /\ Leaves(dying)
  <1> DEFINE G == \/ UNCHANGED <<waitq, hosting>>
                  \/ ctl = "thread" /\ me \in Ctx /\ \E w \in WaitQ : append_me_to_waitq(w)
                  \/ me \in Ctx /\ \E w \in WaitQ :
                        hosting[me] \in {w, NULL} /\ remove_me_from_waitq(w)
                  \/ \E w \in WaitQ : waitq[w] # <<>> /\ TakesHead(w)
                  \/ dying \in Ctx /\ Leaves(dying)
  <1>0. /\ ctl = "thread" => me \in Ctx
        /\ owner # NULL => owner \in Ctx
        /\ dying # NULL => dying \in Ctx
        /\ drain # NULL => drain \in WaitQ /\ waitq[drain] # <<>>
        /\ Cond \in WaitQ /\ Ctx \subseteq WaitQ
    BY DEF BaseInv, TypeOK, Running, Draining, WaitQ
  <1>1. CASE Switching
    <2>1. ASSUME NEW d \in Delays, mnthr_sleep(d) PROVE G
      BY <2>1 DEF mnthr_sleep, SleepUntil, wqvars
    <2>2. CASE mnthr_yield \/ mnthr_giveup \/ Exit \/ ExitEINTR \/ mnthr_signal_subscribe
      BY <2>2 DEF mnthr_yield, mnthr_giveup, Exit, ExitEINTR, mnthr_signal_subscribe,
                  SleepUntil, wqvars
    <2>3. CASE mnthr_cond_wait
      BY <2>3, <1>0 DEF mnthr_cond_wait, Calling
    <2>4. ASSUME NEW t \in Ctx, mnthr_join(t) PROVE G
      BY <2>4, <1>0 DEF mnthr_join, Calling
    <2>5. ASSUME NEW t \in Ctx, mnthr_set_interrupt_and_join(t) PROVE G
      BY <2>5, <1>0 DEF mnthr_set_interrupt_and_join, Calling
    <2>6. ASSUME NEW t \in Ctx, NEW d \in Delays,
                 mnthr_set_interrupt_and_join_with_timeout(t, d)
          PROVE  G
      BY <2>6, <1>0 DEF mnthr_set_interrupt_and_join_with_timeout, Enter, Calling
    <2>7. ASSUME NEW c \in Ctx, NEW d \in Delays, mnthr_wait_for(c, d) PROVE G
      BY <2>7, <1>0 DEF mnthr_wait_for, Enter, Calling
    <2>8. ASSUME NEW t \in Ctx, NEW d \in Delays, mnthr_peek(t, d) PROVE G
      BY <2>8, <1>0 DEF mnthr_peek, Enter, Calling
    <2>9. ASSUME NEW d \in Delays, mnthr_signal_subscribe_with_timeout(d) PROVE G
      BY <2>9 DEF mnthr_signal_subscribe_with_timeout, wqvars
    <2>10. ASSUME NEW v \in Retvals, mnthr_signal_error_and_join(v) PROVE G
      BY <2>10, <1>0 DEF mnthr_signal_error_and_join, Subscribed, Calling
    <2> QED
      BY <1>1, <2>1, <2>2, <2>3, <2>4, <2>5, <2>6, <2>7, <2>8, <2>9, <2>10 DEF Switching
  <1>2. ASSUME NEW w \in WaitQ, waitq[w] # <<>>, resume_waitq_head(w) PROVE G
    BY <1>2 DEF resume_waitq_head, TakesHead
  <1>3. CASE Continuing
    <2>1. ASSUME NEW c \in Ctx, mnthr_new(c) \/ mnthr_run(c) \/ mnthr_spawn(c) \/ mnthr_shutdown(c)
          PROVE  G
      BY <2>1 DEF mnthr_new, mnthr_run, mnthr_spawn, mnthr_shutdown, wqvars
    <2>2. CASE mnthr_gc \/ mnthr_cond_signal_all \/ mnthr_signal_send
      BY <2>2 DEF mnthr_gc, mnthr_cond_signal_all, mnthr_signal_send, wqvars
    <2>3. ASSUME NEW v \in Retvals, mnthr_set_retval(v) \/ mnthr_signal_error(v) PROVE G
      BY <2>3 DEF mnthr_set_retval, mnthr_signal_error, wqvars
    <2>4. ASSUME NEW c \in Ctx, NEW flag \in BOOLEAN, mnthr_set_prio(c, flag) PROVE G
      BY <2>4 DEF mnthr_set_prio, wqvars
    <2>5. ASSUME NEW c \in Ctx, mnthr_incabac(c) \/ mnthr_decabac(c) \/ mnthr_set_interrupt(c)
          PROVE  G
      BY <2>5 DEF mnthr_incabac, mnthr_decabac, mnthr_set_interrupt, wqvars
    <2>6. CASE mnthr_cond_signal_one
      BY <2>6, <1>0, <1>2 DEF mnthr_cond_signal_one
    <2> QED
      BY <1>3, <2>1, <2>2, <2>3, <2>4, <2>5, <2>6 DEF Continuing
  <1>4. CASE Forced
    <2>1. CASE resume_waitq_all
      BY <2>1, <1>0, <1>2 DEF resume_waitq_all
    <2>2. CASE push_free_ctx
      BY <2>2, <1>0 DEF push_free_ctx, Leaves
    <2>3. CASE subscribe_return \/ TimedSleep \/ TimedReturnGone
      BY <2>3 DEF subscribe_return, TimedSleep, TimedReturnGone, wqvars
    <2>4. ASSUME NEW c \in Ctx, mnthr_ctx_fini(c) PROVE G
      BY <2>4 DEF mnthr_ctx_fini
    <2>5. CASE wait_for_timeout \/ peek_timeout \/ interrupt_and_join_timeout
      <3>1. me \in Ctx /\ call[me].tgt \in WaitQ /\ hosting[me] \in {call[me].tgt, NULL}
        BY <2>5, <1>0 DEF wait_for_timeout, peek_timeout, interrupt_and_join_timeout,
                          Returning, BaseInv, TimedInQueue, TimedOps
      <3>2. UNCHANGED <<waitq, hosting>> \/ remove_me_from_waitq(call[me].tgt)
        BY <2>5 DEF wait_for_timeout, peek_timeout, interrupt_and_join_timeout,
                    AssertFails, wqvars
      <3> QED
        BY <3>1, <3>2
    <2> QED
      BY <1>4, <2>1, <2>2, <2>3, <2>4, <2>5 DEF Forced
  <1>5. CASE Poller
    BY <1>5 DEF Poller, loop_prepare, loop_break, sift_collect, sift_collected, sift_host,
                sift_bucket, sift_done, poller_resume, threadvars, wqvars
  <1> QED
    BY <1>1, <1>3, <1>4, <1>5 DEF Next

\* The wait queues keep their types and agree with hosting_waitq.
LEMMA WqConsistent ==
    ASSUME BaseInv, Next
    PROVE  /\ waitq' \in [WaitQ -> Seq(Ctx)]
           /\ hosting' \in [Ctx -> WaitQ \cup {NULL}]
           /\ WaitqConsistent'
  <1> DEFINE G == /\ waitq' \in [WaitQ -> Seq(Ctx)]
                  /\ hosting' \in [Ctx -> WaitQ \cup {NULL}]
                  /\ \A w \in WaitQ : /\ Distinct(waitq'[w])
                                      /\ \A c \in Ctx : c \in Elems(waitq'[w]) <=> hosting'[c] = w
  <1>0. /\ waitq \in [WaitQ -> Seq(Ctx)]
        /\ hosting \in [Ctx -> WaitQ \cup {NULL}]
        /\ \A w \in WaitQ : /\ Distinct(waitq[w])
                            /\ \A c \in Ctx : c \in Elems(waitq[w]) <=> hosting[c] = w
        /\ NULL \notin WaitQ
    BY NullAssumption, SchedulerAssumption DEF BaseInv, TypeOK, WaitqConsistent, WaitQ
  <1>1. \A w \in WaitQ, c \in Ctx :
           /\ DTQUEUE_REMOVE(waitq[w], c) \in Seq(Ctx)
           /\ Elems(DTQUEUE_REMOVE(waitq[w], c)) = Elems(waitq[w]) \ {c}
           /\ Distinct(DTQUEUE_REMOVE(waitq[w], c))
    BY <1>0, RemoveElems
  <1>2. ASSUME UNCHANGED <<waitq, hosting>> PROVE G
    BY <1>0, <1>2
  <1>3. ASSUME me \in Ctx, NEW w \in WaitQ, append_me_to_waitq(w) PROVE G
    <2> DEFINE r(v) == IF v = hosting[me] THEN DTQUEUE_REMOVE(waitq[v], me) ELSE waitq[v]
    <2>1. \A v \in WaitQ : /\ r(v) \in Seq(Ctx) /\ Distinct(r(v))
                           /\ Elems(r(v)) = Elems(waitq[v]) \ {me}
      BY <1>0, <1>1, <1>3
    <2>2. waitq' = [v \in WaitQ |-> IF v = w THEN DTQUEUE_ENQUEUE(r(v), me) ELSE r(v)]
      BY <1>3 DEF append_me_to_waitq
    <2>3. hosting' = [hosting EXCEPT ![me] = w]
      BY <1>3 DEF append_me_to_waitq
    <2> HIDE DEF r
    <2>4. /\ DTQUEUE_ENQUEUE(r(w), me) \in Seq(Ctx)
          /\ Elems(DTQUEUE_ENQUEUE(r(w), me)) = Elems(r(w)) \cup {me}
          /\ Distinct(DTQUEUE_ENQUEUE(r(w), me))
      BY <2>1, <1>3, EnqueueElems
    <2>5. waitq' \in [WaitQ -> Seq(Ctx)] /\ hosting' \in [Ctx -> WaitQ \cup {NULL}]
      BY <2>1, <2>2, <2>3, <2>4, <1>0
    <2>6. \A v \in WaitQ : Distinct(waitq'[v])
      BY <2>1, <2>2, <2>4
    <2>7. ASSUME NEW v \in WaitQ, NEW c \in Ctx
          PROVE  c \in Elems(waitq'[v]) <=> hosting'[c] = v
      <3>1. CASE v = w
        BY <3>1, <2>1, <2>2, <2>3, <2>4, <1>0, <1>3
      <3>2. CASE v # w
        BY <3>2, <2>1, <2>2, <2>3, <1>0, <1>3
      <3> QED
        BY <3>1, <3>2
    <2> QED
      BY <2>5, <2>6, <2>7
  <1>4. ASSUME NEW c \in Ctx, NEW w \in WaitQ, hosting[c] \in {w, NULL},
               waitq' = [waitq EXCEPT ![w] = DTQUEUE_REMOVE(@, c)],
               hosting' = [hosting EXCEPT ![c] = NULL]
        PROVE  G
    <2>1. waitq' \in [WaitQ -> Seq(Ctx)] /\ hosting' \in [Ctx -> WaitQ \cup {NULL}]
      BY <1>0, <1>1, <1>4
    <2>2. \A v \in WaitQ : Distinct(waitq'[v])
      BY <1>0, <1>1, <1>4
    <2>3. ASSUME NEW v \in WaitQ, NEW d \in Ctx
          PROVE  d \in Elems(waitq'[v]) <=> hosting'[d] = v
      BY <1>0, <1>1, <1>4
    <2> QED
      BY <2>1, <2>2, <2>3
  <1>5. ASSUME NEW w \in WaitQ, waitq[w] # <<>>, TakesHead(w) PROVE G
    <2> DEFINE t == Head(waitq[w])
    <2>1. /\ t \in Ctx /\ Tail(waitq[w]) \in Seq(Ctx) /\ t \in Elems(waitq[w])
          /\ Elems(Tail(waitq[w])) = Elems(waitq[w]) \ {t}
          /\ Distinct(Tail(waitq[w]))
      BY <1>0, <1>5, TailElems
    <2> HIDE DEF t
    <2>2. waitq' = [waitq EXCEPT ![w] = Tail(@)] /\ hosting' = [hosting EXCEPT ![t] = NULL]
      BY <1>5 DEF TakesHead, t
    <2>3. waitq' \in [WaitQ -> Seq(Ctx)] /\ hosting' \in [Ctx -> WaitQ \cup {NULL}]
      BY <1>0, <2>1, <2>2
    <2>4. \A v \in WaitQ : Distinct(waitq'[v])
      BY <1>0, <2>1, <2>2
    <2>5. ASSUME NEW v \in WaitQ, NEW d \in Ctx
          PROVE  d \in Elems(waitq'[v]) <=> hosting'[d] = v
      BY <1>0, <2>1, <2>2
    <2> QED
      BY <2>3, <2>4, <2>5
  <1>6. ASSUME me \in Ctx, NEW w \in WaitQ, hosting[me] \in {w, NULL}, remove_me_from_waitq(w)
        PROVE  G
    BY <1>4, <1>6 DEF remove_me_from_waitq
  <1>7. ASSUME dying \in Ctx, Leaves(dying) PROVE G
    <2>1. hosting[dying] \in WaitQ
      BY <1>0, <1>7 DEF Leaves
    <2> QED
      BY <2>1, <1>4, <1>7 DEF Leaves
  <1>8. G
    BY WqEffect, <1>2, <1>3, <1>5, <1>6, <1>7
  <1> QED
    BY <1>8 DEF WaitqConsistent, WaitQ
-----------------------------------------------------------------------------
(***************************************************************************)
(* What a step does to the threads.                                        *)
(***************************************************************************)

\* A new thread gets the next number.
LEMMA NewNumber ==
    ASSUME TypeOK, NEW c \in Ctx, vnew_body(c)
    PROVE  /\ id' = [id EXCEPT ![c] = co_id] /\ id' \in [Ctx -> -1..MaxId]
           /\ last' = [last EXCEPT ![c] = co_id] /\ last' \in [Ctx -> -1..MaxId]
           /\ co_id' = co_id + 1 /\ co_id' \in 0..MaxId /\ co_id # NoId
  <1>1. /\ id' = [id EXCEPT ![c] = co_id] /\ last' = [last EXCEPT ![c] = co_id]
        /\ co_id' = co_id + 1 /\ co_id < MaxId
    BY DEF vnew_body
  <1>2. /\ id \in [Ctx -> -1..MaxId] /\ last \in [Ctx -> -1..MaxId] /\ co_id \in 0..MaxId
        /\ MaxId \in Nat
    BY SchedulerAssumption DEF TypeOK
  <1>3. co_id \in -1..MaxId /\ co_id + 1 \in 0..MaxId /\ co_id # NoId
    BY <1>1, <1>2 DEF NoId
  <1> QED
    BY <1>1, <1>2, <1>3

\* Threads get their numbers when they are created, and then only.
LEMMA NumberEffect ==
    Next => UNCHANGED <<co_id, last>> \/ \E c \in Ctx : vnew_body(c)
  <1> SUFFICES ASSUME Next PROVE UNCHANGED <<co_id, last>> \/ \E c \in Ctx : vnew_body(c)
    OBVIOUS
  <1>1. CASE Switching
    BY <1>1 DEF Switching, mnthr_sleep, mnthr_yield, mnthr_giveup, SleepUntil, Exit, ExitEINTR,
                mnthr_cond_wait, mnthr_signal_subscribe, mnthr_join, mnthr_set_interrupt_and_join,
                mnthr_set_interrupt_and_join_with_timeout, mnthr_peek, mnthr_wait_for,
                mnthr_signal_subscribe_with_timeout, mnthr_signal_error_and_join, ctxvars
  <1>2. CASE Continuing
    BY <1>2 DEF Continuing, mnthr_new, mnthr_spawn, mnthr_shutdown, mnthr_run, mnthr_incabac,
                mnthr_decabac, mnthr_set_retval, mnthr_signal_error, mnthr_set_prio, mnthr_gc,
                mnthr_cond_signal_one, mnthr_cond_signal_all, mnthr_signal_send,
                mnthr_set_interrupt, resume_waitq_head, ctxvars
  <1>3. CASE Forced
    BY <1>3 DEF Forced, TimedSleep, TimedReturnGone, subscribe_return, wait_for_timeout,
                peek_timeout, interrupt_and_join_timeout, AssertFails, push_free_ctx,
                mnthr_ctx_fini, resume_waitq_all, resume_waitq_head, ctxvars
  <1>4. CASE Poller
    BY <1>4 DEF Poller, loop_prepare, loop_break, sift_collect, sift_collected, sift_host,
                sift_bucket, sift_done, poller_resume, threadvars, ctxvars
  <1> QED
    BY <1>1, <1>2, <1>3, <1>4 DEF Next

\* A thread that is running stays what it is until it switches; only a live
\* context is ever scheduled, interrupted or resumed.
LEMMA ThreadTypes ==
    ASSUME BaseInv, Next
    PROVE  /\ me' \in Ctx \cup {NULL}
           /\ ctl' \in {"main", "thread"}
           /\ state' \in [Ctx -> RESUMABLE \cup {"DORMANT", "RESUMED"}]
           /\ id' \in [Ctx -> -1..MaxId]
           /\ co_id' \in 0..MaxId /\ last' \in [Ctx -> -1..MaxId]
           /\ Running'
           /\ LiveHasId'
  <1> DEFINE G == /\ me' \in Ctx \cup {NULL}
                  /\ ctl' \in {"main", "thread"}
                  /\ state' \in [Ctx -> RESUMABLE \cup {"DORMANT", "RESUMED"}]
                  /\ id' \in [Ctx -> -1..MaxId]
                  /\ co_id' \in 0..MaxId
                  /\ ctl' = "thread" => me' \in Ctx /\ state'[me'] # "DORMANT"
                  /\ \A c \in Ctx : state'[c] # "DORMANT" => id'[c] # NoId
  <1>9. last' \in [Ctx -> -1..MaxId]
    BY NumberEffect, NewNumber DEF BaseInv, TypeOK
  <1> SUFFICES G
    BY <1>9 DEF Running, LiveHasId
  <1>0. /\ TypeOK
        /\ me \in Ctx \cup {NULL}
        /\ ctl \in {"main", "thread"}
        /\ state \in [Ctx -> RESUMABLE \cup {"DORMANT", "RESUMED"}]
        /\ id \in [Ctx -> -1..MaxId]
        /\ co_id \in 0..MaxId
        /\ ctl = "thread" => me \in Ctx /\ state[me] # "DORMANT"
        /\ \A c \in Ctx : state[c] # "DORMANT" => id[c] # NoId
        /\ owner # NULL => owner \in Ctx
        /\ dying # NULL => dying \in Ctx
        /\ drain # NULL => drain \in WaitQ /\ waitq[drain] # <<>>
    BY DEF BaseInv, TypeOK, Running, LiveHasId, Draining
  <1>1. /\ "DORMANT" \notin RESUMABLE /\ "RESUMED" \notin RESUMABLE
        /\ "SLEEP" \in RESUMABLE /\ "SET_RESUME" \in RESUMABLE /\ "SET_INTERRUPT" \in RESUMABLE
        /\ "SIGNAL_SUBSCRIBE" \in RESUMABLE /\ "JOIN" \in RESUMABLE
        /\ "JOIN_INTERRUPTED" \in RESUMABLE /\ "CONDWAIT" \in RESUMABLE
        /\ "WAITFOR" \in RESUMABLE /\ "PEEK" \in RESUMABLE
    BY DEF RESUMABLE
  <1>2. ASSUME UNCHANGED <<me, ctl, state, id, co_id>> PROVE G
    BY <1>0, <1>2
  <1>3. CASE Switching
    <2>1. ASSUME NEW d \in Delays, mnthr_sleep(d) PROVE G
      BY <2>1, <1>0, <1>1 DEF mnthr_sleep, SleepUntil, Calling, Block, SwitchToMain, ctxvars
    <2>2. CASE mnthr_yield \/ mnthr_giveup
      BY <2>2, <1>0, <1>1 DEF mnthr_yield, mnthr_giveup, SleepUntil, Calling, Block,
                              SwitchToMain, ctxvars
    <2>3. CASE Exit
      BY <2>3, <1>0, <1>1, SchedulerAssumption DEF Exit, Calling, mnthr_ctx_finalize, NoId
    <2>4. CASE ExitEINTR
      BY <2>4, <1>0 DEF ExitEINTR, covars, ctxvars
    <2>5. CASE mnthr_cond_wait \/ mnthr_signal_subscribe
      BY <2>5, <1>0, <1>1 DEF mnthr_cond_wait, mnthr_signal_subscribe, Calling, Block,
                              SwitchToMain, ctxvars
    <2>6. ASSUME NEW t \in Ctx, mnthr_join(t) PROVE G
      BY <2>6, <1>0, <1>1 DEF mnthr_join, Calling, SwitchToMain, ctxvars
    <2>7. ASSUME NEW t \in Ctx, mnthr_set_interrupt_and_join(t) PROVE G
      BY <2>7, <1>0, <1>1 DEF mnthr_set_interrupt_and_join, Calling, SwitchToMain, ctxvars
    <2>8. ASSUME NEW t \in Ctx, NEW d \in Delays,
                 mnthr_set_interrupt_and_join_with_timeout(t, d)
          PROVE  G
      BY <2>8, <1>0, <1>1 DEF mnthr_set_interrupt_and_join_with_timeout, Calling, ctxvars
    <2>9. ASSUME NEW c \in Ctx, NEW d \in Delays, mnthr_wait_for(c, d) PROVE G
      BY <2>9, <1>0, <1>1, NewNumber DEF mnthr_wait_for, Calling
    <2>10. ASSUME NEW t \in Ctx, NEW d \in Delays, mnthr_peek(t, d) PROVE G
      BY <2>10, <1>0, <1>1 DEF mnthr_peek, Calling, ctxvars
    <2>11. ASSUME NEW d \in Delays, mnthr_signal_subscribe_with_timeout(d) PROVE G
      BY <2>11, <1>0, <1>1 DEF mnthr_signal_subscribe_with_timeout, Calling, Block,
                               SwitchToMain, ctxvars
    <2>12. ASSUME NEW v \in Retvals, mnthr_signal_error_and_join(v) PROVE G
      BY <2>12, <1>0, <1>1 DEF mnthr_signal_error_and_join, Subscribed, Calling,
                               SwitchToMain, ctxvars
    <2> QED
      BY <1>3, <2>1, <2>2, <2>3, <2>4, <2>5, <2>6, <2>7, <2>8, <2>9, <2>10, <2>11, <2>12
         DEF Switching
  <1>4. ASSUME NEW w \in WaitQ, waitq[w] # <<>>, resume_waitq_head(w) PROVE G
    <2>1. Head(waitq[w]) \in Ctx
      BY <1>4, WaitqHead DEF BaseInv
    <2>2. \/ UNCHANGED state
          \/ /\ id[Head(waitq[w])] # NoId
             /\ state' = [state EXCEPT ![Head(waitq[w])] = "SET_RESUME"]
      BY <1>4 DEF resume_waitq_head, set_resume
    <2>3. UNCHANGED <<me, ctl, id, co_id>>
      BY <1>4 DEF resume_waitq_head, ctxvars
    <2> QED
      BY <2>1, <2>2, <2>3, <1>0, <1>1
  <1>5. CASE Continuing
    <2>1. ASSUME NEW c \in Ctx, mnthr_new(c) PROVE G
      BY <2>1, <1>0, <1>1, NewNumber DEF mnthr_new
    <2>2. ASSUME NEW c \in Ctx, mnthr_run(c) PROVE G
      BY <2>2, <1>0, <1>1 DEF mnthr_run, set_resume, ctxvars
    <2>3. ASSUME NEW c \in Ctx, mnthr_spawn(c) \/ mnthr_shutdown(c) PROVE G
      <3>1. /\ vnew_body(c) /\ state' = [state EXCEPT ![c] = "SET_RESUME"]
            /\ UNCHANGED <<me, ctl>>
        BY <2>3 DEF mnthr_spawn, mnthr_shutdown, set_resume
      <3> QED
        BY <3>1, <1>0, <1>1, NewNumber
    <2>4. CASE mnthr_gc \/ mnthr_cond_signal_all
      BY <2>4, <1>2 DEF mnthr_gc, mnthr_cond_signal_all, covars, ctxvars
    <2>5. ASSUME NEW v \in Retvals, mnthr_set_retval(v) PROVE G
      BY <2>5, <1>2 DEF mnthr_set_retval, ctxvars
    <2>6. ASSUME NEW c \in Ctx, NEW flag \in BOOLEAN, mnthr_set_prio(c, flag) PROVE G
      BY <2>6, <1>2 DEF mnthr_set_prio, ctxvars
    <2>7. ASSUME NEW c \in Ctx, mnthr_incabac(c) \/ mnthr_decabac(c) PROVE G
      BY <2>7, <1>2 DEF mnthr_incabac, mnthr_decabac, ctxvars
    <2>8. CASE mnthr_cond_signal_one
      BY <2>8, <1>4 DEF mnthr_cond_signal_one, WaitQ
    <2>9. ASSUME NEW t \in Ctx, mnthr_set_interrupt(t) PROVE G
      BY <2>9, <1>0, <1>1 DEF mnthr_set_interrupt, ctxvars
    <2>10. CASE mnthr_signal_send
      BY <2>10, <1>0, <1>1 DEF mnthr_signal_send, Subscribed, set_resume, ctxvars
    <2>11. ASSUME NEW v \in Retvals, mnthr_signal_error(v) PROVE G
      BY <2>11, <1>0, <1>1 DEF mnthr_signal_error, Subscribed, set_resume, ctxvars
    <2> QED
      BY <1>5, <2>1, <2>2, <2>3, <2>4, <2>5, <2>6, <2>7, <2>8, <2>9, <2>10, <2>11
         DEF Continuing
  <1>6. CASE Forced
    <2>1. CASE resume_waitq_all
      BY <2>1, <1>0, <1>4 DEF resume_waitq_all
    <2>2. CASE push_free_ctx \/ subscribe_return \/ TimedReturnGone
      BY <2>2, <1>2 DEF push_free_ctx, subscribe_return, TimedReturnGone, covars, ctxvars
    <2>3. CASE TimedSleep
      BY <2>3, <1>0 DEF TimedSleep, SwitchToMain, covars, ctxvars
    <2>4. ASSUME NEW c \in Ctx, mnthr_ctx_fini(c) PROVE G
      BY <2>4, <1>2 DEF mnthr_ctx_fini
    <2>5. CASE wait_for_timeout
      <3>1. call[me].tgt \in Ctx
        BY <2>5, <1>0 DEF wait_for_timeout, Returning, BaseInv, TimedInQueue, TimedOps
      <3>2. /\ UNCHANGED <<me, ctl, id, co_id>>
            /\ \/ UNCHANGED state
               \/ /\ state[call[me].tgt] \in RESUMABLE
                  /\ state' = [state EXCEPT ![call[me].tgt] = "SET_INTERRUPT"]
        BY <2>5 DEF wait_for_timeout, AssertFails, covars, ctxvars
      <3> QED
        BY <3>1, <3>2, <1>0, <1>1
    <2>6. CASE peek_timeout \/ interrupt_and_join_timeout
      BY <2>6, <1>2 DEF peek_timeout, interrupt_and_join_timeout, AssertFails, covars, ctxvars
    <2> QED
      BY <1>6, <2>1, <2>2, <2>3, <2>4, <2>5, <2>6 DEF Forced
  <1>7. CASE Poller
    <2>1. ASSUME NEW c \in Ctx, MainRuns, poller_resume(c) PROVE G
      <3>1. CASE /\ state[c] \in RESUMABLE /\ state' = [state EXCEPT ![c] = "RESUMED"]
                 /\ me' = c /\ ctl' = "thread" /\ UNCHANGED <<id, co_id>>
        BY <3>1, <1>0, <1>1
      <3>2. CASE mnthr_ctx_finalize(c) /\ UNCHANGED <<me, ctl, co_id>>
        BY <3>2, <2>1, <1>0, <1>1, SchedulerAssumption DEF MainRuns, mnthr_ctx_finalize, NoId
      <3> QED
        BY <2>1, <3>1, <3>2 DEF poller_resume, ctxvars
    <2>2. CASE sift_host \/ sift_bucket
      <3>1. runq \in Seq(Ctx) /\ tmp \in Seq(Ctx)
        BY DEF BaseInv, TypeOK, SQTypeOK
      <3> QED
        BY <2>1, <2>2, <3>1 DEF sift_host, sift_bucket, PopHost, PopBucket
    <2>3. ASSUME NEW t \in now..MaxNow, loop_prepare(t) PROVE G
      BY <2>3, <1>2 DEF loop_prepare, threadvars, covars, ctxvars
    <2>4. ASSUME NEW k \in Key, sift_collect(k) PROVE G
      BY <2>4, <1>2 DEF sift_collect, threadvars, covars, ctxvars
    <2>5. CASE loop_break \/ sift_collected \/ sift_done
      BY <2>5, <1>2 DEF loop_break, sift_collected, sift_done, threadvars, covars, ctxvars
    <2> QED
      BY <1>7, <2>2, <2>3, <2>4, <2>5 DEF Poller
  <1> QED
    BY <1>3, <1>5, <1>6, <1>7 DEF Next
-----------------------------------------------------------------------------
(***************************************************************************)
(* What a step does to the calls under way.                                *)
(***************************************************************************)

\* The updates of a call record.
LEMMA CallUpdates ==
    ASSUME NEW r \in Call
    PROVE  /\ \A x \in Rc :
                 LET u == [r EXCEPT !.exitrc = x]
                 IN  u \in Call /\ u.op = r.op /\ u.ph = r.ph /\ u.tgt = r.tgt
                     /\ u.until = r.until /\ u.gid = r.gid /\ u.exitrc = x
           /\ LET u == [r EXCEPT !.ph = "wait"]
              IN  u \in Call /\ u.op = r.op /\ u.ph = "wait" /\ u.tgt = r.tgt
                  /\ u.until = r.until /\ u.gid = r.gid /\ u.exitrc = r.exitrc
  BY DEF Call

\* The records of the calls that wait.
LEMMA CallRecords ==
    /\ NoCall \in Call /\ NoCall.op = "none" /\ NoCall.ph = "wait" /\ NoCall.tgt = NULL
    /\ \A op \in {"none", "sleep"} \cup CallNames, ph \in {"enter", "wait"},
          t \in Ctx \cup {NULL}, i \in -1..MaxId, k \in 0..FOREVER :
          /\ CallOf(op, ph, t, i, k) \in Call
          /\ CallOf(op, ph, t, i, k).op = op /\ CallOf(op, ph, t, i, k).ph = ph
          /\ CallOf(op, ph, t, i, k).tgt = t /\ CallOf(op, ph, t, i, k).until = k
          /\ CallOf(op, ph, t, i, k).gid = i /\ CallOf(op, ph, t, i, k).exitrc = NoRc
  <1>1. -1 \in -1..MaxId /\ 0 \in 0..FOREVER
    BY SchedulerAssumption, TimeAssumption
  <1>2. ASSUME NEW op \in {"none", "sleep"} \cup CallNames, NEW ph \in {"enter", "wait"},
               NEW t \in Ctx \cup {NULL}, NEW i \in -1..MaxId, NEW k \in 0..FOREVER
        PROVE  /\ CallOf(op, ph, t, i, k) \in Call
               /\ CallOf(op, ph, t, i, k).op = op /\ CallOf(op, ph, t, i, k).ph = ph
               /\ CallOf(op, ph, t, i, k).tgt = t /\ CallOf(op, ph, t, i, k).until = k
               /\ CallOf(op, ph, t, i, k).gid = i /\ CallOf(op, ph, t, i, k).exitrc = NoRc
    BY DEF CallOf, Call
  <1> QED
    BY <1>1, <1>2 DEF NoCall, NoId

\* A call record that fits the queue h its thread stands in.
Fits(r, h) == /\ r \in Call
              /\ r.ph = "enter" => r.op \in TimedOps /\ r.until \in Key
              /\ r.op \in TimedOps => r.tgt \in Ctx /\ h \in {r.tgt, NULL}

\* The calls under way keep their types; a timed wait names the queue its thread
\* stands in from its first step to its return.
LEMMA CallTypes ==
    ASSUME BaseInv, Next
    PROVE  /\ call' \in [Ctx -> Call]
           /\ Entering'
           /\ TimedInQueue'
  <1> DEFINE G == /\ call' \in [Ctx -> Call]
                  /\ \A c \in Ctx : Fits(call'[c], hosting'[c])
  <1> SUFFICES G
    BY DEF Entering, TimedInQueue, Fits
  <1>0. /\ call \in [Ctx -> Call]
        /\ \A c \in Ctx : Fits(call[c], hosting[c])
        /\ hosting \in [Ctx -> WaitQ \cup {NULL}]
        /\ rc \in [Ctx -> Rc]
        /\ state \in [Ctx -> RESUMABLE \cup {"DORMANT", "RESUMED"}]
        /\ id \in [Ctx -> -1..MaxId]
        /\ co_id \in -1..MaxId
        /\ now \in Nat
        /\ ctl = "thread" => me \in Ctx
        /\ owner # NULL => owner \in Ctx
        /\ dying # NULL => dying \in Ctx
        /\ drain # NULL => drain \in WaitQ /\ waitq[drain] # <<>>
    BY SchedulerAssumption
       DEF BaseInv, TypeOK, SQTypeOK, Entering, TimedInQueue, Running, Draining, Fits
  <1>1. ASSUME UNCHANGED call,
               \A c \in Ctx : hosting'[c] \in {hosting[c], NULL} \/ call[c].op = "none"
        PROVE  G
    <2>1. "none" \notin TimedOps
      BY DEF TimedOps
    <2>2. \A c \in Ctx : Fits(call[c], hosting'[c])
      BY <1>0, <1>1, <2>1 DEF Fits
    <2> QED
      BY <1>0, <1>1, <2>2
  <1>2. ASSUME me \in Ctx, NEW r \in Call, call' = [call EXCEPT ![me] = r],
               Fits(r, hosting'[me]),
               \A c \in Ctx : c # me => hosting'[c] \in {hosting[c], NULL}
        PROVE  G
    <2>1. \A c \in Ctx : c # me => Fits(call[c], hosting'[c])
      BY <1>0, <1>2 DEF Fits
    <2> QED
      BY <1>0, <1>2, <2>1
  <1>3. ASSUME UNCHANGED <<call, hosting>> PROVE G
    BY <1>0, <1>3, <1>1
  <1>4. ASSUME NEW r \in Call, r.ph = "wait", r.op \notin TimedOps, NEW h PROVE Fits(r, h)
    BY <1>4 DEF Fits
  <1>5. ASSUME me \in Ctx, NEW op \in {"sleep", "subscribe", "subscribe_with_timeout"},
               NEW k \in 0..FOREVER, Block(op, NULL, k), UNCHANGED hosting
        PROVE  G
    <2>1. op \in {"none", "sleep"} \cup CallNames /\ op \notin TimedOps
      BY DEF CallNames, TimedOps
    <2>2. -1 \in -1..MaxId
      BY SchedulerAssumption
    <2>3. call' = [call EXCEPT ![me] = CallOf(op, "wait", NULL, -1, k)]
      BY <1>5 DEF Block, NoId
    <2>4. LET r == CallOf(op, "wait", NULL, -1, k)
          IN  r \in Call /\ r.ph = "wait" /\ r.op \notin TimedOps
      BY <2>1, <2>2, CallRecords
    <2>5. Fits(CallOf(op, "wait", NULL, -1, k), hosting'[me])
      BY <2>4, <1>4
    <2> QED
      BY <2>3, <2>4, <2>5, <1>2, <1>5
  <1>6. ASSUME me \in Ctx, NEW op \in TimedOps, NEW t \in Ctx, NEW i \in -1..MaxId,
               NEW k \in Key, Enter(op, t, i, k)
        PROVE  G
    <2>1. op \in {"none", "sleep"} \cup CallNames /\ k \in 0..FOREVER
      BY DEF CallNames, TimedOps, Key
    <2>2. hosting' = [hosting EXCEPT ![me] = t]
      BY <1>6 DEF Enter, append_me_to_waitq
    <2>3. /\ CallOf(op, "enter", t, i, k) \in Call
          /\ CallOf(op, "enter", t, i, k).op = op
          /\ CallOf(op, "enter", t, i, k).tgt = t
          /\ CallOf(op, "enter", t, i, k).until = k
      BY <2>1, CallRecords
    <2>4. Fits(CallOf(op, "enter", t, i, k), hosting'[me])
      BY <2>2, <2>3, <1>0, <1>6 DEF Fits
    <2> QED
      BY <2>2, <2>3, <2>4, <1>0, <1>2, <1>6 DEF Enter
  <1>7. ASSUME me \in Ctx, NEW w \in WaitQ, append_me_to_waitq(w), call[me].op = "none",
               UNCHANGED call
        PROVE  G
    BY <1>0, <1>1, <1>7 DEF append_me_to_waitq
  <1>8. ASSUME me \in Ctx, Returned,
               \A c \in Ctx : hosting'[c] \in {hosting[c], NULL}
        PROVE  G
    <2>1. NoCall \in Call /\ NoCall.ph = "wait" /\ NoCall.op \notin TimedOps
      BY CallRecords DEF TimedOps
    <2>2. Fits(NoCall, hosting'[me])
      BY <2>1, <1>4
    <2> QED
      BY <2>1, <2>2, <1>2, <1>8 DEF Returned
  <1>9. /\ RESUME_NOW \in 0..FOREVER /\ FOREVER \in 0..FOREVER /\ 0 \in 0..FOREVER
        /\ \A d \in Delays : InHorizon(d) => Deadline(d) \in Key /\ Deadline(d) \in 0..FOREVER
    BY <1>0, Keys, TimeAssumption DEF Key
  <1>10. ASSUME NEW t \in Ctx, mnthr_ctx_finalize(t), UNCHANGED hosting PROVE G
    <2>1. rc[t] \in Rc
      BY <1>0
    <2>2. ASSUME NEW c \in Ctx
          PROVE  Fits([call[c] EXCEPT !.exitrc = rc[t]], hosting[c])
      <3>1. call[c] \in Call /\ Fits(call[c], hosting[c])
        BY <1>0
      <3> DEFINE u == [call[c] EXCEPT !.exitrc = rc[t]]
      <3>2. /\ u \in Call /\ u.op = call[c].op /\ u.ph = call[c].ph /\ u.tgt = call[c].tgt
            /\ u.until = call[c].until
        BY <2>1, <3>1, CallUpdates
      <3> HIDE DEF u
      <3> QED
        BY <3>1, <3>2 DEF Fits, u
    <2>3. \A c \in Ctx : [call[c] EXCEPT !.exitrc = rc[t]] \in Call
      BY <2>2 DEF Fits
    <2>4. call' = [c \in Ctx |-> IF call[c].tgt = t /\ call[c].gid = id[t]
                                 THEN [call[c] EXCEPT !.exitrc = rc[t]] ELSE call[c]]
      BY <1>10 DEF mnthr_ctx_finalize
    <2> QED
      BY <2>2, <2>3, <2>4, <1>0, <1>10
  <1>11. CASE Switching
    <2>1. ASSUME NEW d \in Delays, mnthr_sleep(d) PROVE G
      BY <2>1, <1>0, <1>5, <1>9 DEF mnthr_sleep, SleepUntil, Calling, wqvars
    <2>2. CASE mnthr_yield \/ mnthr_giveup
      BY <2>2, <1>0, <1>5, <1>9 DEF mnthr_yield, mnthr_giveup, SleepUntil, Calling, wqvars
    <2>3. CASE Exit
      BY <2>3, <1>0, <1>10 DEF Exit, Calling
    <2>4. CASE ExitEINTR
      BY <2>4, <1>3 DEF ExitEINTR, wqvars
    <2>5. CASE mnthr_cond_wait
      BY <2>5, <1>0, <1>7 DEF mnthr_cond_wait, Calling, WaitQ
    <2>6. CASE mnthr_signal_subscribe
      BY <2>6, <1>0, <1>5, <1>9 DEF mnthr_signal_subscribe, Calling, wqvars
    <2>7. ASSUME NEW t \in Ctx, mnthr_join(t) PROVE G
      BY <2>7, <1>0, <1>7 DEF mnthr_join, Calling, WaitQ
    <2>8. ASSUME NEW t \in Ctx, mnthr_set_interrupt_and_join(t) PROVE G
      BY <2>8, <1>0, <1>7 DEF mnthr_set_interrupt_and_join, Calling, WaitQ
    <2>9. ASSUME NEW t \in Ctx, NEW d \in Delays,
                 mnthr_set_interrupt_and_join_with_timeout(t, d)
          PROVE  G
      BY <2>9, <1>0, <1>6, <1>9
         DEF mnthr_set_interrupt_and_join_with_timeout, Calling, TimedOps
    <2>10. ASSUME NEW c \in Ctx, NEW d \in Delays, mnthr_wait_for(c, d) PROVE G
      BY <2>10, <1>0, <1>6, <1>9 DEF mnthr_wait_for, Calling, TimedOps
    <2>11. ASSUME NEW t \in Ctx, NEW d \in Delays, mnthr_peek(t, d) PROVE G
      BY <2>11, <1>0, <1>6, <1>9 DEF mnthr_peek, Calling, TimedOps
    <2>12. ASSUME NEW d \in Delays, mnthr_signal_subscribe_with_timeout(d) PROVE G
      BY <2>12, <1>0, <1>5, <1>9 DEF mnthr_signal_subscribe_with_timeout, Calling, wqvars
    <2>13. ASSUME NEW v \in Retvals, mnthr_signal_error_and_join(v) PROVE G
      BY <2>13, <1>0, <1>7 DEF mnthr_signal_error_and_join, Subscribed, Calling, WaitQ
    <2> QED
      BY <1>11, <2>1, <2>2, <2>3, <2>4, <2>5, <2>6, <2>7, <2>8, <2>9, <2>10, <2>11, <2>12,
         <2>13 DEF Switching
  <1>12. ASSUME NEW w \in WaitQ, waitq[w] # <<>>, resume_waitq_head(w) PROVE G
    <2>1. Head(waitq[w]) \in Ctx
      BY <1>12, WaitqHead DEF BaseInv
    <2>2. hosting' = [hosting EXCEPT ![Head(waitq[w])] = NULL] /\ UNCHANGED call
      BY <1>12 DEF resume_waitq_head
    <2> QED
      BY <2>1, <2>2, <1>0, <1>1
  <1>13. CASE Continuing
    <2>1. ASSUME NEW c \in Ctx, mnthr_new(c) \/ mnthr_run(c) \/ mnthr_spawn(c) \/ mnthr_shutdown(c)
          PROVE  G
      BY <2>1, <1>3 DEF mnthr_new, mnthr_run, mnthr_spawn, mnthr_shutdown, wqvars
    <2>2. CASE mnthr_gc \/ mnthr_cond_signal_all \/ mnthr_signal_send
      BY <2>2, <1>3 DEF mnthr_gc, mnthr_cond_signal_all, mnthr_signal_send, wqvars
    <2>3. ASSUME NEW v \in Retvals, mnthr_set_retval(v) \/ mnthr_signal_error(v) PROVE G
      BY <2>3, <1>3 DEF mnthr_set_retval, mnthr_signal_error, wqvars
    <2>4. ASSUME NEW c \in Ctx, NEW flag \in BOOLEAN, mnthr_set_prio(c, flag) PROVE G
      BY <2>4, <1>3 DEF mnthr_set_prio, wqvars
    <2>5. ASSUME NEW c \in Ctx, mnthr_incabac(c) \/ mnthr_decabac(c) \/ mnthr_set_interrupt(c)
          PROVE  G
      BY <2>5, <1>3 DEF mnthr_incabac, mnthr_decabac, mnthr_set_interrupt, wqvars
    <2>6. CASE mnthr_cond_signal_one
      BY <2>6, <1>12 DEF mnthr_cond_signal_one, WaitQ
    <2> QED
      BY <1>13, <2>1, <2>2, <2>3, <2>4, <2>5, <2>6 DEF Continuing
  <1>14. CASE Forced
    <2>1. CASE resume_waitq_all
      BY <2>1, <1>0, <1>12 DEF resume_waitq_all
    <2>2. CASE push_free_ctx
      BY <2>2, <1>0, <1>1 DEF push_free_ctx
    <2>3. CASE TimedSleep
      <3>1. me \in Ctx /\ UNCHANGED hosting
        BY <2>3, <1>0 DEF TimedSleep, wqvars
      <3> DEFINE u == [call[me] EXCEPT !.ph = "wait"]
      <3>2. call[me] \in Call /\ Fits(call[me], hosting[me])
        BY <3>1, <1>0
      <3>3. u \in Call /\ u.op = call[me].op /\ u.ph = "wait" /\ u.tgt = call[me].tgt
        BY <3>2, CallUpdates
      <3>4. call' = [call EXCEPT ![me] = u]
        BY <2>3 DEF TimedSleep
      <3> HIDE DEF u
      <3>5. Fits(u, hosting'[me])
        BY <3>1, <3>2, <3>3 DEF Fits
      <3> QED
        BY <3>1, <3>3, <3>4, <3>5, <1>2
    <2>4. CASE TimedReturnGone \/ subscribe_return
      BY <2>4, <1>0, <1>8 DEF TimedReturnGone, subscribe_return, Returning, wqvars
    <2>5. ASSUME NEW c \in Ctx, mnthr_ctx_fini(c) PROVE G
      BY <2>5, <1>3 DEF mnthr_ctx_fini
    <2>6. CASE wait_for_timeout \/ peek_timeout \/ interrupt_and_join_timeout
      <3>1. me \in Ctx
        BY <2>6, <1>0 DEF wait_for_timeout, peek_timeout, interrupt_and_join_timeout, Returning
      <3>2. \/ UNCHANGED <<call, hosting>>
            \/ Returned /\ hosting' = [hosting EXCEPT ![me] = NULL]
        BY <2>6 DEF wait_for_timeout, peek_timeout, interrupt_and_join_timeout,
                    AssertFails, remove_me_from_waitq, wqvars
      <3> QED
        BY <3>1, <3>2, <1>0, <1>3, <1>8
    <2> QED
      BY <1>14, <2>1, <2>2, <2>3, <2>4, <2>5, <2>6 DEF Forced
  <1>15. CASE Poller
    <2>1. ASSUME NEW c \in Ctx, poller_resume(c) PROVE G
      <3>1. CASE mnthr_ctx_finalize(c) /\ UNCHANGED hosting
        BY <3>1, <1>10
      <3>2. CASE call' = [call EXCEPT ![c] = NoCall] /\ UNCHANGED hosting
        <4>1. NoCall \in Call /\ NoCall.ph = "wait" /\ NoCall.op \notin TimedOps
          BY CallRecords DEF TimedOps
        <4>2. Fits(NoCall, hosting'[c])
          BY <4>1, <1>4
        <4> QED
          BY <4>1, <4>2, <3>2, <1>0
      <3>3. CASE UNCHANGED <<call, hosting>>
        BY <3>3, <1>3
      <3> QED
        BY <2>1, <3>1, <3>2, <3>3 DEF poller_resume, wqvars
    <2>2. CASE sift_host \/ sift_bucket
      <3>1. runq \in Seq(Ctx) /\ tmp \in Seq(Ctx)
        BY DEF BaseInv, TypeOK, SQTypeOK
      <3> QED
        BY <2>1, <2>2, <3>1 DEF sift_host, sift_bucket, PopHost, PopBucket
    <2>3. ASSUME NEW t \in now..MaxNow, loop_prepare(t) PROVE G
      BY <2>3, <1>3 DEF loop_prepare, threadvars, wqvars
    <2>4. ASSUME NEW k \in Key, sift_collect(k) PROVE G
      BY <2>4, <1>3 DEF sift_collect, threadvars, wqvars
    <2>5. CASE loop_break \/ sift_collected \/ sift_done
      BY <2>5, <1>3 DEF loop_break, sift_collected, sift_done, threadvars, wqvars
    <2> QED
      BY <1>15, <2>2, <2>3, <2>4, <2>5 DEF Poller
  <1> QED
    BY <1>11, <1>13, <1>14, <1>15 DEF Next
-----------------------------------------------------------------------------
(***************************************************************************)
(* The rest of the state.                                                  *)
(***************************************************************************)

\* Codes, priorities, holds, the event, the flags and the faults keep their types.
LEMMA FlagTypes ==
    ASSUME BaseInv, Next
    PROVE  /\ rc' \in [Ctx -> Rc]
           /\ prio' \in [Ctx -> BOOLEAN]
           /\ abac' \in [Ctx -> Nat]
           /\ owner' \in Ctx \cup {NULL}
           /\ shutdown' \in {"no", "asked", "done"}
           /\ dying' \in Ctx \cup {NULL}
           /\ slice' \in SUBSET Ctx
           /\ fault' \in {"none", "assert", "list", "freed"}
  <1> DEFINE G == /\ rc' \in [Ctx -> Rc]
                  /\ prio' \in [Ctx -> BOOLEAN]
                  /\ abac' \in [Ctx -> Nat]
                  /\ owner' \in Ctx \cup {NULL}
                  /\ shutdown' \in {"no", "asked", "done"}
                  /\ dying' \in Ctx \cup {NULL}
                  /\ slice' \in SUBSET Ctx
                  /\ fault' \in {"none", "assert", "list", "freed"}
  <1> SUFFICES G
    OBVIOUS
  <1>0. /\ rc \in [Ctx -> Rc]
        /\ prio \in [Ctx -> BOOLEAN]
        /\ abac \in [Ctx -> Nat]
        /\ owner \in Ctx \cup {NULL}
        /\ shutdown \in {"no", "asked", "done"}
        /\ dying \in Ctx \cup {NULL}
        /\ slice \in SUBSET Ctx
        /\ fault \in {"none", "assert", "list", "freed"}
        /\ ctl = "thread" => me \in Ctx
    BY DEF BaseInv, TypeOK, Running
  <1>1. 0 \in Rc /\ INTERRUPTED \in Rc /\ TIMEDOUT \in Rc /\ Retvals \subseteq Rc
    BY DEF Rc
  <1>2. ASSUME NEW c, NEW k, Enqueue(c, k) PROVE fault' \in {fault, "list"}
    BY <1>2 DEF Enqueue
  <1>3. ASSUME fault' \in {fault, "assert", "list", "freed"},
               UNCHANGED <<rc, prio, abac, owner, shutdown, dying, slice>>
        PROVE  G
    BY <1>0, <1>3
  <1>4. CASE Switching
    <2>1. ASSUME NEW d \in Delays, mnthr_sleep(d) PROVE G
      BY <2>1, <1>2, <1>3 DEF mnthr_sleep, SleepUntil, ctxvars
    <2>2. CASE mnthr_yield \/ mnthr_giveup
      BY <2>2, <1>2, <1>3 DEF mnthr_yield, mnthr_giveup, SleepUntil, ctxvars
    <2>3. CASE Exit
      BY <2>3, <1>0 DEF Exit, Calling, mnthr_ctx_finalize
    <2>4. CASE ExitEINTR \/ mnthr_cond_wait
      BY <2>4, <1>3 DEF ExitEINTR, mnthr_cond_wait, covars, ctxvars
    <2>5. CASE mnthr_signal_subscribe
      BY <2>5, <1>0 DEF mnthr_signal_subscribe, Calling, ctxvars
    <2>6. ASSUME NEW t \in Ctx, mnthr_join(t) PROVE G
      BY <2>6, <1>3 DEF mnthr_join, ctxvars
    <2>7. ASSUME NEW t \in Ctx, mnthr_set_interrupt_and_join(t) PROVE G
      BY <2>7, <1>0, <1>1, <1>2 DEF mnthr_set_interrupt_and_join, SetInterrupt, ctxvars
    <2>8. ASSUME NEW t \in Ctx, NEW d \in Delays,
                 mnthr_set_interrupt_and_join_with_timeout(t, d)
          PROVE  G
      BY <2>8, <1>0, <1>1, <1>2
         DEF mnthr_set_interrupt_and_join_with_timeout, SetInterrupt, ctxvars
    <2>9. ASSUME NEW c \in Ctx, NEW d \in Delays, mnthr_wait_for(c, d) PROVE G
      BY <2>9, <1>0, <1>1, <1>2 DEF mnthr_wait_for, vnew_body
    <2>10. ASSUME NEW t \in Ctx, NEW d \in Delays, mnthr_peek(t, d) PROVE G
      BY <2>10, <1>3 DEF mnthr_peek, ctxvars
    <2>11. ASSUME NEW d \in Delays, mnthr_signal_subscribe_with_timeout(d) PROVE G
      BY <2>11, <1>0, <1>2 DEF mnthr_signal_subscribe_with_timeout, Calling, ctxvars
    <2>12. ASSUME NEW v \in Retvals, mnthr_signal_error_and_join(v) PROVE G
      BY <2>12, <1>0, <1>1, <1>2 DEF mnthr_signal_error_and_join, ctxvars
    <2> QED
      BY <1>4, <2>1, <2>2, <2>3, <2>4, <2>5, <2>6, <2>7, <2>8, <2>9, <2>10, <2>11, <2>12
         DEF Switching
  <1>5. ASSUME NEW w, resume_waitq_head(w) PROVE G
    <2>1. fault' \in {fault, "assert", "list"}
      BY <1>5, <1>2 DEF resume_waitq_head, set_resume
    <2> QED
      BY <2>1, <1>3, <1>5 DEF resume_waitq_head, ctxvars
  <1>6. CASE Continuing
    <2>1. ASSUME NEW c \in Ctx, mnthr_new(c) PROVE G
      BY <2>1, <1>0, <1>1 DEF mnthr_new, vnew_body
    <2>2. ASSUME NEW c \in Ctx, mnthr_run(c) PROVE G
      BY <2>2, <1>2, <1>3 DEF mnthr_run, set_resume, ctxvars
    <2>3. ASSUME NEW c \in Ctx, mnthr_spawn(c) \/ mnthr_shutdown(c) PROVE G
      BY <2>3, <1>0, <1>1, <1>2 DEF mnthr_spawn, mnthr_shutdown, vnew_body, set_resume
    <2>4. CASE mnthr_gc \/ mnthr_cond_signal_all
      BY <2>4, <1>3 DEF mnthr_gc, mnthr_cond_signal_all, covars, ctxvars
    <2>5. ASSUME NEW v \in Retvals, mnthr_set_retval(v) PROVE G
      BY <2>5, <1>0, <1>1 DEF mnthr_set_retval, ctxvars
    <2>6. ASSUME NEW c \in Ctx, NEW flag \in BOOLEAN, mnthr_set_prio(c, flag) PROVE G
      BY <2>6, <1>0 DEF mnthr_set_prio, ctxvars
    <2>7. ASSUME NEW c \in Ctx, mnthr_incabac(c) \/ mnthr_decabac(c) PROVE G
      BY <2>7, <1>0 DEF mnthr_incabac, mnthr_decabac, ctxvars
    <2>8. CASE mnthr_cond_signal_one
      BY <2>8, <1>5 DEF mnthr_cond_signal_one
    <2>9. ASSUME NEW t \in Ctx, mnthr_set_interrupt(t) PROVE G
      BY <2>9, <1>0, <1>1, <1>2 DEF mnthr_set_interrupt, SetInterrupt, ctxvars
    <2>10. CASE mnthr_signal_send
      BY <2>10, <1>2, <1>3 DEF mnthr_signal_send, set_resume, ctxvars
    <2>11. ASSUME NEW v \in Retvals, mnthr_signal_error(v) PROVE G
      BY <2>11, <1>0, <1>1, <1>2 DEF mnthr_signal_error, set_resume, ctxvars
    <2> QED
      BY <1>6, <2>1, <2>2, <2>3, <2>4, <2>5, <2>6, <2>7, <2>8, <2>9, <2>10, <2>11
         DEF Continuing
  <1>7. CASE Forced
    <2>1. CASE resume_waitq_all
      BY <2>1, <1>5 DEF resume_waitq_all
    <2>2. CASE push_free_ctx \/ subscribe_return
      BY <2>2, <1>0 DEF push_free_ctx, subscribe_return, covars, ctxvars
    <2>3. CASE TimedSleep \/ TimedReturnGone
      BY <2>3, <1>3 DEF TimedSleep, TimedReturnGone, covars, ctxvars
    <2>4. ASSUME NEW c \in Ctx, mnthr_ctx_fini(c) PROVE G
      BY <2>4, <1>0, <1>1 DEF mnthr_ctx_fini
    <2>5. CASE wait_for_timeout
      BY <2>5, <1>0, <1>1, <1>2 DEF wait_for_timeout, AssertFails, SetInterrupt, covars, ctxvars
    <2>6. CASE peek_timeout \/ interrupt_and_join_timeout
      BY <2>6, <1>0, <1>1
         DEF peek_timeout, interrupt_and_join_timeout, AssertFails, covars, ctxvars
    <2> QED
      BY <1>7, <2>1, <2>2, <2>3, <2>4, <2>5, <2>6 DEF Forced
  <1>8. CASE Poller
    <2>1. ASSUME NEW c \in Ctx, poller_resume(c) PROVE G
      BY <2>1, <1>0 DEF poller_resume, mnthr_ctx_finalize, ctxvars
    <2>2. CASE sift_host \/ sift_bucket
      <3>1. runq \in Seq(Ctx) /\ tmp \in Seq(Ctx)
        BY DEF BaseInv, TypeOK, SQTypeOK
      <3> QED
        BY <2>1, <2>2, <3>1 DEF sift_host, sift_bucket, PopHost, PopBucket
    <2>3. ASSUME NEW t \in now..MaxNow, loop_prepare(t) PROVE G
      BY <2>3, <1>0 DEF loop_prepare, threadvars, covars, ctxvars
    <2>4. ASSUME NEW k \in Key, sift_collect(k) PROVE G
      BY <2>4, <1>3 DEF sift_collect, threadvars, covars, ctxvars
    <2>5. CASE loop_break \/ sift_collected \/ sift_done
      BY <2>5, <1>0 DEF loop_break, sift_collected, sift_done, threadvars, covars, ctxvars
    <2> QED
      BY <1>8, <2>2, <2>3, <2>4, <2>5 DEF Poller
  <1> QED
    BY <1>4, <1>6, <1>7, <1>8 DEF Next

\* Finding a context for a new thread keeps the array and free_list typed.
LEMMA PopFreeTypes ==
    ASSUME TypeOK, NEW c \in Ctx, mnthr_ctx_pop_free(c) \/ mnthr_ctx_new(c)
    PROVE  ctxes' \in Seq(Ctx) /\ freelist' \in Seq(Ctx)
  <1>1. ctxes \in Seq(Ctx) /\ freelist \in Seq(Ctx) /\ DTQUEUE_REMOVE(freelist, c) \in Seq(Ctx)
    BY RemoveTyped DEF TypeOK
  <1>2. CASE mnthr_ctx_new(c)
    BY <1>1, <1>2 DEF mnthr_ctx_new
  <1> QED
    BY <1>1, <1>2 DEF mnthr_ctx_pop_free

\* The array of the contexts, free_list and what mnthr_gc left behind or frees keep
\* their types; mnthr_gc frees no context that is held; and resume_waitq_all, once
\* started, always finds somebody to resume.
LEMMA ListTypes ==
    ASSUME BaseInv, Next
    PROVE  /\ ctxes' \in Seq(Ctx) /\ freelist' \in Seq(Ctx)
           /\ left' \in SUBSET (SUBSET Ctx)
           /\ doomed' \in SUBSET Ctx
           /\ drain' \in WaitQ \cup {NULL}
           /\ Draining'
           /\ DoomedUnheld'
  <1> DEFINE L == /\ ctxes' \in Seq(Ctx) /\ freelist' \in Seq(Ctx)
                  /\ left' \in SUBSET (SUBSET Ctx)
                  /\ doomed' \in SUBSET Ctx
                  /\ \A c \in doomed' : abac'[c] = 0
             D == /\ drain' \in WaitQ \cup {NULL}
                  /\ drain' # NULL => waitq'[drain'] # <<>>
             G == L /\ D
  <1> SUFFICES G
    BY DEF Draining, DoomedUnheld
  <1>0. /\ ctxes \in Seq(Ctx) /\ freelist \in Seq(Ctx)
        /\ left \in SUBSET (SUBSET Ctx)
        /\ doomed \in SUBSET Ctx
        /\ abac \in [Ctx -> Nat]
        /\ \A c \in doomed : abac[c] = 0
        /\ drain \in WaitQ \cup {NULL}
        /\ drain # NULL => waitq[drain] # <<>>
        /\ ctl = "thread" => me \in Ctx
        /\ Ctx \subseteq WaitQ /\ Cond \in WaitQ
        /\ waitq \in [WaitQ -> Seq(Ctx)]
    BY DEF BaseInv, TypeOK, Running, DoomedUnheld, Draining, WaitQ
  <1>1. ASSUME UNCHANGED <<ctxes, freelist, left, doomed, abac>> PROVE L
    BY <1>0, <1>1
  <1>2. ASSUME UNCHANGED <<drain, waitq>> PROVE D
    BY <1>0, <1>2
  <1>3. ASSUME drain = NULL, UNCHANGED drain PROVE D
    BY <1>0, <1>3
  <1>4. ASSUME NEW c \in Ctx, mnthr_ctx_pop_free(c) \/ mnthr_ctx_new(c), vnew_body(c),
               UNCHANGED abac
        PROVE  L
    <2>1. ctxes' \in Seq(Ctx) /\ freelist' \in Seq(Ctx)
      BY <1>4, PopFreeTypes DEF BaseInv
    <2> QED
      BY <2>1, <1>0, <1>4 DEF vnew_body
  <1> HIDE DEF L, D
  <1>5. CASE Switching
    <2>1. ASSUME NEW d \in Delays, mnthr_sleep(d) PROVE G
      BY <2>1, <1>1, <1>2 DEF mnthr_sleep, SleepUntil, ctxvars, wqvars
    <2>2. CASE mnthr_yield \/ mnthr_giveup \/ ExitEINTR \/ mnthr_signal_subscribe
      BY <2>2, <1>1, <1>2 DEF mnthr_yield, mnthr_giveup, SleepUntil, ExitEINTR,
                              mnthr_signal_subscribe, covars, ctxvars, wqvars
    <2>3. CASE Exit
      <3>1. L
        BY <2>3, <1>1 DEF Exit
      <3>2. D
        BY <2>3, <1>0 DEF Exit, Calling, mnthr_ctx_finalize, D
      <3> QED
        BY <3>1, <3>2
    <2>4. CASE mnthr_cond_wait
      BY <2>4, <1>1, <1>3 DEF mnthr_cond_wait, Calling, append_me_to_waitq, ctxvars
    <2>5. ASSUME NEW t \in Ctx, mnthr_join(t) \/ mnthr_set_interrupt_and_join(t) PROVE G
      BY <2>5, <1>1, <1>3 DEF mnthr_join, mnthr_set_interrupt_and_join, Calling,
                              append_me_to_waitq, ctxvars
    <2>6. ASSUME NEW t \in Ctx, NEW d \in Delays,
                 \/ mnthr_set_interrupt_and_join_with_timeout(t, d)
                 \/ mnthr_peek(t, d)
          PROVE  G
      BY <2>6, <1>1, <1>3
         DEF mnthr_set_interrupt_and_join_with_timeout, mnthr_peek, Enter, Calling,
             append_me_to_waitq, ctxvars
    <2>7. ASSUME NEW c \in Ctx, NEW d \in Delays, mnthr_wait_for(c, d) PROVE G
      BY <2>7, <1>3, <1>4 DEF mnthr_wait_for, Enter, Calling, append_me_to_waitq
    <2>8. ASSUME NEW d \in Delays, mnthr_signal_subscribe_with_timeout(d) PROVE G
      BY <2>8, <1>1, <1>2 DEF mnthr_signal_subscribe_with_timeout, ctxvars, wqvars
    <2>9. ASSUME NEW v \in Retvals, mnthr_signal_error_and_join(v) PROVE G
      BY <2>9, <1>1, <1>3 DEF mnthr_signal_error_and_join, Calling, append_me_to_waitq, ctxvars
    <2> QED
      BY <1>5, <2>1, <2>2, <2>3, <2>4, <2>5, <2>6, <2>7, <2>8, <2>9 DEF Switching
  <1>6. CASE Continuing
    <2>1. ASSUME NEW c \in Ctx, mnthr_new(c) \/ mnthr_spawn(c) \/ mnthr_shutdown(c) PROVE G
      BY <2>1, <1>2, <1>4 DEF mnthr_new, mnthr_spawn, mnthr_shutdown, wqvars
    <2>2. ASSUME NEW c \in Ctx, mnthr_run(c) PROVE G
      BY <2>2, <1>1, <1>2 DEF mnthr_run, ctxvars, wqvars
    <2>3. CASE mnthr_gc
      <3>1. UNCHANGED <<drain, waitq, abac, ctxes>>
        BY <2>3 DEF mnthr_gc, wqvars, covars
      <3>2. doomed' \subseteq Ctx /\ \A c \in doomed' : abac[c] = 0
        BY <2>3 DEF mnthr_gc, Garbage, Unheld
      <3>3. {q \in left : Alone(q)} \in SUBSET (SUBSET Ctx) /\ Linked \subseteq Ctx
        <4>1. Elems(freelist) \subseteq Ctx
          BY <1>0, ElemsType
        <4> QED
          BY <4>1, <1>0 DEF Linked
      <3>4. left' \in SUBSET (SUBSET Ctx) /\ freelist' \in Seq(Ctx)
        <4> DEFINE alone == {q \in left : Alone(q)}
                   held == Linked \ Garbage
        <4>1. CASE freelist' = <<>> /\ left' = alone
          BY <4>1, <3>3
        <4>2. ASSUME NEW c \in Ctx, freelist' = <<c>>,
                     left' = alone \cup ({held \ {c}} \ {{}})
              PROVE  left' \in SUBSET (SUBSET Ctx) /\ freelist' \in Seq(Ctx)
          <5>1. held \ {c} \in SUBSET Ctx
            BY <3>3
          <5> HIDE DEF held, alone
          <5>2. alone \in SUBSET (SUBSET Ctx)
            BY <3>3 DEF alone
          <5>3. left' \in SUBSET (SUBSET Ctx)
            BY <5>1, <5>2, <4>2
          <5> QED
            BY <5>3, <4>2
        <4> QED
          BY <2>3, <4>1, <4>2 DEF mnthr_gc
      <3> QED
        BY <3>1, <3>2, <3>4, <1>0, <1>2 DEF L
    <2>4. CASE mnthr_cond_signal_all
      <3>1. L
        BY <2>4, <1>1 DEF mnthr_cond_signal_all, covars, ctxvars
      <3>2. D
        BY <2>4, <1>0 DEF mnthr_cond_signal_all, D
      <3> QED
        BY <3>1, <3>2
    <2>5. ASSUME NEW v \in Retvals, mnthr_set_retval(v) \/ mnthr_signal_error(v) PROVE G
      BY <2>5, <1>1, <1>2 DEF mnthr_set_retval, mnthr_signal_error, ctxvars, wqvars
    <2>6. ASSUME NEW c \in Ctx, NEW flag \in BOOLEAN, mnthr_set_prio(c, flag) PROVE G
      BY <2>6, <1>1, <1>2 DEF mnthr_set_prio, ctxvars, wqvars
    <2>7. ASSUME NEW c \in Ctx, mnthr_incabac(c) \/ mnthr_decabac(c) PROVE G
      <3>1. UNCHANGED <<drain, waitq, ctxes, freelist, left, doomed>> /\ doomed = {}
        BY <2>7 DEF mnthr_incabac, mnthr_decabac, Calling, ctxvars, wqvars
      <3> QED
        BY <3>1, <1>0, <1>2 DEF L
    <2>8. CASE mnthr_cond_signal_one
      BY <2>8, <1>1, <1>3 DEF mnthr_cond_signal_one, Calling, resume_waitq_head, ctxvars
    <2>9. ASSUME NEW t \in Ctx, mnthr_set_interrupt(t) PROVE G
      BY <2>9, <1>1, <1>2 DEF mnthr_set_interrupt, ctxvars, wqvars
    <2>10. CASE mnthr_signal_send
      BY <2>10, <1>1, <1>2 DEF mnthr_signal_send, ctxvars, wqvars
    <2> QED
      BY <1>6, <2>1, <2>2, <2>3, <2>4, <2>5, <2>6, <2>7, <2>8, <2>9, <2>10 DEF Continuing
  <1>7. CASE Forced
    <2>1. CASE resume_waitq_all
      <3>1. L
        BY <2>1, <1>1 DEF resume_waitq_all, resume_waitq_head, ctxvars
      <3>2. drain \in WaitQ /\ waitq[drain] \in Seq(Ctx) /\ waitq[drain] # <<>>
        BY <2>1, <1>0 DEF resume_waitq_all
      <3>3. Len(waitq[drain]) # 1 => Tail(waitq[drain]) # <<>>
        <4>1. Len(Tail(waitq[drain])) = Len(waitq[drain]) - 1
          BY <3>2
        <4>2. ASSUME Tail(waitq[drain]) = <<>> PROVE Len(Tail(waitq[drain])) = 0
          <5>1. Len(<<>>) = 0
            OBVIOUS
          <5> QED
            BY <4>2, <5>1, Zenon
        <4>3. Len(waitq[drain]) \in Nat
          BY <3>2
        <4> QED
          BY <4>1, <4>2, <4>3
      <3>4. /\ drain' = IF Len(waitq[drain]) = 1 THEN NULL ELSE drain
            /\ waitq' = [waitq EXCEPT ![drain] = Tail(@)]
        BY <2>1 DEF resume_waitq_all, resume_waitq_head
      <3>5. D
        BY <3>2, <3>3, <3>4, <1>0 DEF D
      <3> QED
        BY <3>1, <3>5
    <2>2. CASE push_free_ctx
      <3>1. D
        BY <2>2, <1>3 DEF push_free_ctx
      <3>2. dying \in Ctx
        BY <2>2 DEF push_free_ctx, BaseInv, TypeOK
      <3>3. freelist' \in Seq(Ctx)
        BY <2>2, <3>2, <1>0, EnqueueElems DEF push_free_ctx, DTQUEUE_ENQUEUE
      <3>4. UNCHANGED <<ctxes, left, doomed, abac>>
        BY <2>2 DEF push_free_ctx, covars
      <3> QED
        BY <3>1, <3>3, <3>4, <1>0 DEF L
    <2>3. CASE TimedSleep \/ TimedReturnGone \/ subscribe_return
      BY <2>3, <1>1, <1>2 DEF TimedSleep, TimedReturnGone, subscribe_return, covars, ctxvars,
                              wqvars
    <2>4. ASSUME NEW c \in Ctx, mnthr_ctx_fini(c) PROVE G
      <3>1. UNCHANGED <<freelist, left, abac, waitq>>
        BY <2>4 DEF mnthr_ctx_fini
      <3>2. DTQUEUE_REMOVE(ctxes, c) \in Seq(Ctx)
        BY <1>0, RemoveTyped
      <3>3. L
        BY <2>4, <3>1, <3>2, <1>0 DEF mnthr_ctx_fini, L
      <3>4. D
        BY <2>4, <3>1, <1>0 DEF mnthr_ctx_fini, D
      <3> QED
        BY <3>3, <3>4
    <2>5. CASE wait_for_timeout \/ peek_timeout \/ interrupt_and_join_timeout
      BY <2>5, <1>1, <1>2, <1>3
         DEF wait_for_timeout, peek_timeout, interrupt_and_join_timeout, Returning,
             remove_me_from_waitq, AssertFails, covars, ctxvars, wqvars
    <2> QED
      BY <1>7, <2>1, <2>2, <2>3, <2>4, <2>5 DEF Forced
  <1>8. CASE Poller
    <2>1. ASSUME NEW c \in Ctx, poller_resume(c) PROVE G
      <3>1. L
        BY <2>1, <1>1 DEF poller_resume, ctxvars
      <3>2. D
        <4>1. CASE UNCHANGED <<drain, waitq>>
          BY <4>1, <1>2
        <4>2. CASE mnthr_ctx_finalize(c) /\ UNCHANGED waitq
          BY <4>2, <1>0 DEF mnthr_ctx_finalize, D
        <4> QED
          BY <2>1, <4>1, <4>2 DEF poller_resume, wqvars
      <3> QED
        BY <3>1, <3>2
    <2>2. CASE sift_host \/ sift_bucket
      <3>1. runq \in Seq(Ctx) /\ tmp \in Seq(Ctx)
        BY DEF BaseInv, TypeOK, SQTypeOK
      <3> QED
        BY <2>1, <2>2, <3>1 DEF sift_host, sift_bucket, PopHost, PopBucket
    <2>3. ASSUME NEW t \in now..MaxNow, loop_prepare(t) PROVE G
      BY <2>3, <1>1, <1>2 DEF loop_prepare, threadvars, covars, ctxvars, wqvars
    <2>4. ASSUME NEW k \in Key, sift_collect(k) PROVE G
      BY <2>4, <1>1, <1>2 DEF sift_collect, threadvars, covars, ctxvars, wqvars
    <2>5. CASE loop_break \/ sift_collected \/ sift_done
      BY <2>5, <1>1, <1>2 DEF loop_break, sift_collected, sift_done, threadvars, covars,
                              ctxvars, wqvars
    <2> QED
      BY <1>8, <2>2, <2>3, <2>4, <2>5 DEF Poller
  <1> QED
    BY <1>5, <1>6, <1>7, <1>8 DEF Next
-----------------------------------------------------------------------------
(***************************************************************************)
(* What holds whatever the application calls.                              *)
(***************************************************************************)

\* The invariant holds at the start.
LEMMA BaseInit == Init => BaseInv
  <1> SUFFICES ASSUME Init PROVE BaseInv
    OBVIOUS
  <1>1. SQTypeOK
    BY InitGood DEF Init, SQInv
  <1>2. call \in [Ctx -> Call] /\ \A c \in Ctx : call[c].op = "none" /\ call[c].ph = "wait"
    BY CallRecords DEF Init
  <1>3. 0 \in Rc /\ NoId \in -1..MaxId /\ 0 \in 0..MaxId /\ NULL \notin WaitQ
    BY SchedulerAssumption, NullAssumption DEF Rc, NoId, WaitQ
  <1>4. /\ waitq \in [WaitQ -> Seq(Ctx)] /\ hosting \in [Ctx -> WaitQ \cup {NULL}]
        /\ WaitqConsistent
    <2>1. Distinct(<<>>) /\ Elems(<<>>) = {} /\ <<>> \in Seq(Ctx)
      BY DEF Distinct, Elems
    <2> QED
      BY <2>1, <1>3 DEF Init, WaitqConsistent
  <1>5. TypeOK
    <2>1. /\ rc \in [Ctx -> Rc] /\ id \in [Ctx -> -1..MaxId] /\ co_id \in 0..MaxId
          /\ prio \in [Ctx -> BOOLEAN] /\ abac \in [Ctx -> Nat]
          /\ state \in [Ctx -> RESUMABLE \cup {"DORMANT", "RESUMED"}]
      BY <1>3 DEF Init
    <2>2. /\ ctxes \in Seq(Ctx) /\ freelist \in Seq(Ctx) /\ left \in SUBSET (SUBSET Ctx)
          /\ doomed \in SUBSET Ctx /\ slice \in SUBSET Ctx
      BY DEF Init
    <2> QED
      BY <2>1, <2>2, <1>1, <1>2, <1>4 DEF Init, TypeOK
  <1> QED
    BY <1>2, <1>4, <1>5
       DEF Init, BaseInv, Running, Entering, TimedInQueue, TimedOps, Draining, LiveHasId,
           DoomedUnheld

\* Every step keeps it.
LEMMA BaseNext == BaseInv /\ [Next]_vars => BaseInv'
  <1>1. ASSUME BaseInv, Next PROVE BaseInv'
    <2>1. TypeOK'
      BY <1>1, SqTypes, WqConsistent, ThreadTypes, CallTypes, FlagTypes, ListTypes DEF TypeOK
    <2> QED
      BY <2>1, <1>1, WqConsistent, ThreadTypes, CallTypes, ListTypes DEF BaseInv
  <1>2. ASSUME BaseInv, UNCHANGED vars PROVE BaseInv'
    <2>1. TypeOK'
      BY <1>2 DEF BaseInv, TypeOK, SQTypeOK, vars, sqvars, covars, wqvars, ctxvars
    <2>2. WaitqConsistent' /\ Draining'
      BY <1>2 DEF BaseInv, WaitqConsistent, Draining, vars, wqvars
    <2>3. Running' /\ LiveHasId' /\ DoomedUnheld'
      BY <1>2 DEF BaseInv, Running, LiveHasId, DoomedUnheld, vars, covars, ctxvars
    <2>4. Entering' /\ TimedInQueue'
      BY <1>2 DEF BaseInv, Entering, TimedInQueue, vars, wqvars
    <2> QED
      BY <2>1, <2>2, <2>3, <2>4 DEF BaseInv
  <1> QED
    BY <1>1, <1>2

\* The scheduler keeps BaseInv for every set of contexts, every set of library
\* calls, with and without EINTR, and also where a thread is scheduled while the
\* walk holds it.
THEOREM SchedulerBase == Spec => []BaseInv
  BY BaseInit, BaseNext, PTL DEF Spec

\* Every variable of the scheduler keeps its type.
THEOREM SchedulerTypes == Spec => []TypeOK
  <1>1. BaseInv => TypeOK
    BY DEF BaseInv
  <1> QED
    BY <1>1, SchedulerBase, PTL

\* The wait queues and hosting_waitq always say the same, so that whoever unlinks
\* through the one (mnthr_ctx_finalize, append_me_to_waitq) or through the other
\* (the timed waits, resume_waitq_all) unlinks from a queue the thread stands in.
THEOREM SchedulerWaitqConsistent == Spec => []WaitqConsistent
  <1>1. BaseInv => WaitqConsistent
    BY DEF BaseInv
  <1> QED
    BY <1>1, SchedulerBase, PTL

\* What HeldKeepsCode says of a step.
KeepsCode == \A c \in Elems(ctxes) : id[c] = NoId /\ abac[c] > 0 =>
                 c \in Elems(ctxes') /\ id'[c] = NoId /\ rc'[c] = rc[c]

\* The first element of a queue in a set is an element of both.
LEMMA FirstIsIn ==
    ASSUME NEW S, NEW q \in Seq(S), NEW T, NEW c, First(q, T, c)
    PROVE  c \in S /\ c \in T /\ c \in Elems(q)
  BY DEF First, Elems

\* A new thread gets a context nobody holds.
LEMMA PopFreeUnheld ==
    ASSUME TypeOK, NEW c \in Ctx, mnthr_ctx_pop_free(c) \/ mnthr_ctx_new(c), vnew_body(c)
    PROVE  KeepsCode
  <1>0. /\ ctxes \in Seq(Ctx) /\ freelist \in Seq(Ctx)
        /\ id \in [Ctx -> -1..MaxId] /\ rc \in [Ctx -> Rc]
    BY DEF TypeOK
  <1>1. \A d \in Elems(ctxes) : d \in Ctx
    BY <1>0, ElemsType
  <1>2. \A d \in Elems(ctxes) : d \in Elems(ctxes') /\ (d = c => abac[c] = 0)
    <2>1. CASE mnthr_ctx_new(c)
      <3>1. Elems(DTQUEUE_ENQUEUE(ctxes, c)) = Elems(ctxes) \cup {c}
        BY <1>0, EnqueueElems
      <3> QED
        BY <2>1, <3>1 DEF mnthr_ctx_new, DTQUEUE_ENQUEUE
    <2>2. CASE First(freelist, Unheld, c) /\ UNCHANGED ctxes
      BY <2>2, <1>0, FirstIsIn DEF Unheld
    <2> QED
      BY <2>1, <2>2 DEF mnthr_ctx_pop_free
  <1>3. id' = [id EXCEPT ![c] = co_id] /\ rc' = [rc EXCEPT ![c] = 0]
    BY DEF vnew_body
  <1> QED
    BY <1>0, <1>1, <1>2, <1>3 DEF KeepsCode

\* No step changes the code of a held context whose thread has exited.
LEMMA StepKeepsCode == BaseInv /\ Next => KeepsCode
  <1> SUFFICES ASSUME BaseInv, Next PROVE KeepsCode
    OBVIOUS
  <1>0. /\ TypeOK
        /\ ctxes \in Seq(Ctx)
        /\ id \in [Ctx -> -1..MaxId] /\ rc \in [Ctx -> Rc]
        /\ ctl = "thread" => me \in Ctx /\ id[me] # NoId
        /\ \A c \in Ctx : state[c] # "DORMANT" => id[c] # NoId
        /\ \A c \in doomed : abac[c] = 0
        /\ \A c \in Ctx : call[c].op \in TimedOps => call[c].tgt \in Ctx
    BY DEF BaseInv, TypeOK, Running, LiveHasId, DoomedUnheld, TimedInQueue
  <1>1. \A d \in Elems(ctxes) : d \in Ctx
    BY <1>0, ElemsType
  <1>2. "DORMANT" \notin RESUMABLE
    BY DEF RESUMABLE
  <1>3. ASSUME UNCHANGED <<ctxes, id>>,
               UNCHANGED rc \/ \E c \in Ctx, v \in Rc :
                  id[c] # NoId /\ rc' = [rc EXCEPT ![c] = v]
        PROVE  KeepsCode
    BY <1>0, <1>1, <1>3 DEF KeepsCode
  <1>4. ASSUME NEW c \in Ctx, mnthr_ctx_finalize(c), UNCHANGED <<ctxes, rc>> PROVE KeepsCode
    BY <1>0, <1>1, <1>4 DEF mnthr_ctx_finalize, KeepsCode
  <1>5. INTERRUPTED \in Rc /\ TIMEDOUT \in Rc /\ Retvals \subseteq Rc
    BY DEF Rc
  <1>6. CASE Switching
    <2>1. ASSUME NEW d \in Delays, mnthr_sleep(d) PROVE KeepsCode
      BY <2>1, <1>3 DEF mnthr_sleep, SleepUntil, ctxvars
    <2>2. CASE mnthr_yield \/ mnthr_giveup \/ ExitEINTR \/ mnthr_cond_wait \/ mnthr_signal_subscribe
      BY <2>2, <1>3 DEF mnthr_yield, mnthr_giveup, SleepUntil, ExitEINTR, mnthr_cond_wait,
                        mnthr_signal_subscribe, covars, ctxvars
    <2>3. CASE Exit
      BY <2>3, <1>0, <1>4 DEF Exit, Calling
    <2>4. ASSUME NEW t \in Ctx, mnthr_join(t) PROVE KeepsCode
      BY <2>4, <1>3 DEF mnthr_join, ctxvars
    <2>5. ASSUME NEW t \in Ctx, mnthr_set_interrupt_and_join(t) PROVE KeepsCode
      BY <2>5, <1>0, <1>2, <1>3, <1>5 DEF mnthr_set_interrupt_and_join, SetInterrupt, ctxvars
    <2>6. ASSUME NEW t \in Ctx, NEW d \in Delays,
                 mnthr_set_interrupt_and_join_with_timeout(t, d)
          PROVE  KeepsCode
      BY <2>6, <1>0, <1>2, <1>3, <1>5
         DEF mnthr_set_interrupt_and_join_with_timeout, SetInterrupt, ctxvars
    <2>7. ASSUME NEW c \in Ctx, NEW d \in Delays, mnthr_wait_for(c, d) PROVE KeepsCode
      BY <2>7, <1>0, PopFreeUnheld DEF mnthr_wait_for
    <2>8. ASSUME NEW t \in Ctx, NEW d \in Delays, mnthr_peek(t, d) PROVE KeepsCode
      BY <2>8, <1>3 DEF mnthr_peek, ctxvars
    <2>9. ASSUME NEW d \in Delays, mnthr_signal_subscribe_with_timeout(d) PROVE KeepsCode
      BY <2>9, <1>3 DEF mnthr_signal_subscribe_with_timeout, ctxvars
    <2>10. ASSUME NEW v \in Retvals, mnthr_signal_error_and_join(v) PROVE KeepsCode
      <3>1. owner \in Ctx /\ id[owner] # NoId
        BY <2>10, <1>0 DEF mnthr_signal_error_and_join, Subscribed, TypeOK
      <3> QED
        BY <2>10, <3>1, <1>3, <1>5 DEF mnthr_signal_error_and_join, ctxvars
    <2> QED
      BY <1>6, <2>1, <2>2, <2>3, <2>4, <2>5, <2>6, <2>7, <2>8, <2>9, <2>10 DEF Switching
  <1>7. CASE Continuing
    <2>1. ASSUME NEW c \in Ctx, mnthr_new(c) \/ mnthr_spawn(c) \/ mnthr_shutdown(c)
          PROVE  KeepsCode
      BY <2>1, <1>0, PopFreeUnheld DEF mnthr_new, mnthr_spawn, mnthr_shutdown
    <2>2. ASSUME NEW c \in Ctx, mnthr_run(c) PROVE KeepsCode
      BY <2>2, <1>3 DEF mnthr_run, ctxvars
    <2>3. CASE mnthr_gc \/ mnthr_cond_signal_all \/ mnthr_cond_signal_one
      BY <2>3, <1>3 DEF mnthr_gc, mnthr_cond_signal_all, mnthr_cond_signal_one,
                        resume_waitq_head, covars, ctxvars
    <2>4. ASSUME NEW v \in Retvals, mnthr_set_retval(v) PROVE KeepsCode
      BY <2>4, <1>0, <1>3, <1>5 DEF mnthr_set_retval, Calling, ctxvars
    <2>5. ASSUME NEW c \in Ctx, NEW flag \in BOOLEAN, mnthr_set_prio(c, flag) PROVE KeepsCode
      BY <2>5, <1>3 DEF mnthr_set_prio, ctxvars
    <2>6. ASSUME NEW c \in Ctx, mnthr_incabac(c) \/ mnthr_decabac(c) PROVE KeepsCode
      BY <2>6, <1>3 DEF mnthr_incabac, mnthr_decabac, ctxvars
    <2>7. ASSUME NEW t \in Ctx, mnthr_set_interrupt(t) PROVE KeepsCode
      BY <2>7, <1>3, <1>5 DEF mnthr_set_interrupt, SetInterrupt, ctxvars
    <2>8. CASE mnthr_signal_send
      BY <2>8, <1>3 DEF mnthr_signal_send, ctxvars
    <2>9. ASSUME NEW v \in Retvals, mnthr_signal_error(v) PROVE KeepsCode
      <3>1. owner \in Ctx /\ id[owner] # NoId
        BY <2>9, <1>0 DEF mnthr_signal_error, Subscribed, TypeOK
      <3> QED
        BY <2>9, <3>1, <1>3, <1>5 DEF mnthr_signal_error, ctxvars
    <2> QED
      BY <1>7, <2>1, <2>2, <2>3, <2>4, <2>5, <2>6, <2>7, <2>8, <2>9 DEF Continuing
  <1>8. CASE Forced
    <2>1. CASE resume_waitq_all \/ push_free_ctx \/ TimedSleep \/ TimedReturnGone \/ subscribe_return
      BY <2>1, <1>3 DEF resume_waitq_all, resume_waitq_head, push_free_ctx, TimedSleep,
                        TimedReturnGone, subscribe_return, covars, ctxvars
    <2>2. ASSUME NEW c \in Ctx, mnthr_ctx_fini(c) PROVE KeepsCode
      <3>1. abac[c] = 0
        BY <2>2, <1>0, FirstIsIn DEF mnthr_ctx_fini
      <3>2. \A d \in Elems(ctxes) : d # c => d \in Elems(DTQUEUE_REMOVE(ctxes, c))
        BY <1>0, RemoveKeepsOthers
      <3>3. CASE UNCHANGED <<ctxes, id, rc>>
        BY <3>3, <1>3
      <3>4. CASE /\ ctxes' = DTQUEUE_REMOVE(ctxes, c)
                 /\ rc' = [rc EXCEPT ![c] = 0]
                 /\ UNCHANGED id
        BY <3>1, <3>2, <3>4, <1>0, <1>1 DEF KeepsCode
      <3> QED
        BY <2>2, <3>3, <3>4 DEF mnthr_ctx_fini
    <2>3. CASE wait_for_timeout \/ peek_timeout \/ interrupt_and_join_timeout
      <3>1. call[me].tgt \in Ctx
        BY <2>3, <1>0 DEF wait_for_timeout, peek_timeout, interrupt_and_join_timeout,
                          Returning, TimedOps
      <3>2. /\ UNCHANGED <<ctxes, id>>
            /\ \/ UNCHANGED rc
               \/ /\ state[call[me].tgt] \in RESUMABLE
                  /\ rc' = [rc EXCEPT ![call[me].tgt] = TIMEDOUT]
        BY <2>3 DEF wait_for_timeout, peek_timeout, interrupt_and_join_timeout, SetInterrupt,
                    AssertFails, covars, ctxvars
      <3> QED
        BY <3>1, <3>2, <1>0, <1>2, <1>3, <1>5
    <2> QED
      BY <1>8, <2>1, <2>2, <2>3 DEF Forced
  <1>9. CASE Poller
    <2>1. ASSUME NEW c \in Ctx, poller_resume(c) PROVE KeepsCode
      BY <2>1, <1>3, <1>4 DEF poller_resume, ctxvars
    <2>2. CASE sift_host \/ sift_bucket
      <3>1. runq \in Seq(Ctx) /\ tmp \in Seq(Ctx)
        BY DEF BaseInv, TypeOK, SQTypeOK
      <3> QED
        BY <2>1, <2>2, <3>1 DEF sift_host, sift_bucket, PopHost, PopBucket
    <2>3. ASSUME NEW t \in now..MaxNow, loop_prepare(t) PROVE KeepsCode
      BY <2>3, <1>3 DEF loop_prepare, threadvars, covars, ctxvars
    <2>4. ASSUME NEW k \in Key, sift_collect(k) PROVE KeepsCode
      BY <2>4, <1>3 DEF sift_collect, threadvars, covars, ctxvars
    <2>5. CASE loop_break \/ sift_collected \/ sift_done
      BY <2>5, <1>3 DEF loop_break, sift_collected, sift_done, threadvars, covars, ctxvars
    <2> QED
      BY <1>9, <2>2, <2>3, <2>4, <2>5 DEF Poller
  <1> QED
    BY <1>6, <1>7, <1>8, <1>9 DEF Next

\* A held context is neither reused nor freed, and nobody writes its code: not
\* mnthr_ctx_pop_free, not mnthr_gc, not an interrupt, a timeout or a signal that
\* comes too late.
THEOREM SchedulerHeldKeepsCode == Spec => HeldKeepsCode
  <1>1. BaseInv /\ [Next]_vars => [KeepsCode]_vars
    BY StepKeepsCode
  <1> QED
    BY <1>1, SchedulerBase, PTL DEF Spec, HeldKeepsCode, KeepsCode
-----------------------------------------------------------------------------
(***************************************************************************)
(* What a step of the sleep queue does to expire_ticks and to what is      *)
(* staged.                                                                 *)
(***************************************************************************)

\* Enqueueing leaves expire_ticks alone.
LEMMA EnqueueKeepsExpire ==
    ASSUME NEW X, NEW Y, NEW Z, NEW c, NEW p \in BOOLEAN
    PROVE  sleepq_enqueue([trie |-> X, bucket |-> Y, expire |-> Z], c, p).expire = Z
  BY DEF sleepq_enqueue, sleepq_insert, sleepq_append

\* Scheduling a context that is not staged sets its expire_ticks and touches
\* nothing that is staged.
LEMMA ScheduleEffect ==
    ASSUME SQInv, NEW c \in Ctx, NEW k \in Key, NEW p \in BOOLEAN, Schedule(c, k, p)
    PROVE  /\ sq'.expire = [sq.expire EXCEPT ![c] = k]
           /\ \A x : x \in Staged' <=> x \in Staged
  <1>1. GoodNow /\ \A x : x \in Staged <=> Stg(x, sq.bucket, runq, tmp)
    BY InvKnown DEF Known
  <1>2. SQInv'
    BY StepKeepsInv DEF SQNext
  <1>3. \A x : x \in Staged' <=> Stg(x, sq'.bucket, runq', tmp')
    BY <1>2, InvKnownNext DEF Known
  <1>4. c \notin Staged /\ runq' = runq /\ tmp' = tmp /\ sq' = reschedule(sq, c, k, p)
    BY DEF Schedule
  <1>5. sq'.expire = [sq.expire EXCEPT ![c] = k]
    <2>1. PICK X, Y : sleepq_remove(sq, c) = [trie |-> X, bucket |-> Y, expire |-> sq.expire]
      BY <1>1, RemoveShape DEF GoodNow
    <2>2. PICK Z : Z = [sq.expire EXCEPT ![c] = k]
      OBVIOUS
    <2>3. WithExpire(sleepq_remove(sq, c), c, k) = [trie |-> X, bucket |-> Y, expire |-> Z]
      BY <2>1, <2>2, SetExpire
    <2>4. sq' = sleepq_enqueue([trie |-> X, bucket |-> Y, expire |-> Z], c, p)
      BY <2>3, <1>4 DEF reschedule, WithExpire
    <2> QED
      BY <2>2, <2>4, EnqueueKeepsExpire
  <1>6. Kept(sq.bucket, sq'.bucket, runq)
    <2> DEFINE u == Unlinked(sq, c)
               r == Enqueued(u, c, k, p)
    <2>0. ~ Stg(c, sq.bucket, runq, tmp)
      BY <1>1, <1>4
    <2>1. u \in SQ /\ Dropped(c, sq.trie, sq.bucket, u.trie, u.bucket, u.expire, runq, tmp)
      BY <2>0, <1>1, RemoveGood, Zenon DEF GoodNow
    <2>2. Free(c, u.trie, u.bucket, u.expire, runq, tmp)
      BY <2>0, <1>1, UnlinkedIsFree, Zenon DEF GoodNow
    <2>3. Good(u.trie, u.bucket, u.expire, runq, tmp) /\ Kept(sq.bucket, u.bucket, runq)
      BY <2>1 DEF Dropped
    <2>4. Joined(c, k, Arrival(u, c, k, p), u.trie, u.bucket, r.trie, r.bucket, r.expire,
                 runq, tmp)
      BY <2>1, <2>2, <2>3, <1>1, EnqueueGood, Zenon DEF GoodNow
    <2>5. sq' = r
      BY <1>1, <1>4, RescheduleSteps DEF GoodNow
    <2>6. Kept(u.bucket, r.bucket, runq)
      BY <2>4 DEF Joined
    <2> HIDE DEF u, r
    <2> QED
      BY <2>3, <2>5, <2>6 DEF Kept
  <1>7. \A x : Stg(x, sq'.bucket, runq', tmp') <=> Stg(x, sq.bucket, runq, tmp)
    BY <1>4, <1>6 DEF Stg, Kept
  <1> QED
    BY <1>1, <1>3, <1>5, <1>7

\* What the walk collects is due; what it hands to poller_resume was staged, is no
\* longer, and has no expire_ticks any more.
LEMMA WalkEffect ==
    ASSUME SQInv
    PROVE  /\ \A k \in Key : Collect(k) =>
                 /\ sq'.expire = sq.expire
                 /\ \A x \in Staged' : x \in Staged \/ (x \in Ctx /\ sq.expire[x] = k /\ k < now)
           /\ PopHost => /\ Head(runq) \in Ctx /\ Head(runq) \in Staged
                         /\ sq'.expire = [sq.expire EXCEPT ![Head(runq)] = UNDEFINED]
                         /\ \A x \in Staged' : x \in Staged /\ x # Head(runq)
           /\ PopBucket => /\ Head(tmp) \in Ctx /\ Head(tmp) \in Staged
                           /\ sq'.expire = [sq.expire EXCEPT ![Head(tmp)] = UNDEFINED]
                           /\ \A x \in Staged' : x \in Staged /\ x # Head(tmp)
  <1> DEFINE T == sq.trie
             B == sq.bucket
             E == sq.expire
  <1>1. GoodNow /\ \A x : x \in Staged <=> Stg(x, B, runq, tmp)
    BY InvKnown DEF Known
  <1>2. ASSUME SQNext PROVE \A x : x \in Staged' <=> Stg(x, sq'.bucket, runq', tmp')
    <2>1. SQInv'
      BY <1>2, StepKeepsInv
    <2> QED
      BY <2>1, InvKnownNext DEF Known
  <1>3. /\ T \in [Key -> Ctx \cup {NULL}] /\ B \in [Ctx -> Seq(Ctx)]
        /\ E \in [Ctx -> 0..FOREVER] /\ runq \in Seq(Ctx) /\ tmp \in Seq(Ctx)
        /\ sq = [trie |-> T, bucket |-> B, expire |-> E]
        /\ Keyed(T, B, E) /\ Once(T, B, runq, tmp)
    BY <1>1 DEF GoodNow, SQ, Good
  <1>4. PICK X, Y, Z : /\ sq = [trie |-> X, bucket |-> Y, expire |-> Z]
                       /\ X = T /\ Y = B /\ Z = E
    BY <1>3
  <1>5. ASSUME NEW k \in Key, Collect(k)
        PROVE  /\ sq'.expire = E
               /\ \A x \in Staged' : x \in Staged \/ (x \in Ctx /\ E[x] = k /\ k < now)
    <2>1. /\ T[k] \in Ctx /\ E[T[k]] < now /\ runq' = Append(runq, T[k]) /\ tmp' = tmp
          /\ sq' = [trie |-> [X EXCEPT ![k] = NULL], bucket |-> Y, expire |-> Z]
      BY <1>3, <1>4, <1>5 DEF Collect, MinExpired, IsMin
    <2>2. sq'.expire = E /\ sq'.bucket = B
      BY <2>1, <1>4
    <2>3. E[T[k]] = k /\ \A x \in Elems(B[T[k]]) : x \in Ctx /\ E[x] = k
      <3>1. \A x \in Elems(B[T[k]]) : x \in Ctx
        BY <1>3, <2>1, ElemsType
      <3> QED
        BY <3>1, <2>1, <1>3, NullAssumption DEF Keyed
    <2>4. Elems(runq') = Elems(runq) \cup {T[k]}
      BY <2>1, <1>3, EnqueueElems DEF DTQUEUE_ENQUEUE
    <2>5. \A x \in Staged' : Stg(x, B, runq', tmp)
      BY <2>1, <2>2, <1>2, <1>5 DEF SQNext
    <2> HIDE DEF T, B, E
    <2>6. \A x : Stg(x, B, runq', tmp) => Stg(x, B, runq, tmp) \/ x = T[k] \/ x \in Elems(B[T[k]])
      BY <2>4 DEF Stg
    <2> QED
      BY <2>1, <2>2, <2>3, <2>5, <2>6, <1>1
  <1>6. ASSUME PopHost
        PROVE  /\ Head(runq) \in Ctx /\ Head(runq) \in Staged
               /\ sq'.expire = [sq.expire EXCEPT ![Head(runq)] = UNDEFINED]
               /\ \A x \in Staged' : x \in Staged /\ x # Head(runq)
    <2>1. PICK c : c = Head(runq)
      OBVIOUS
    <2>2. /\ runq # <<>> /\ tmp = <<>> /\ runq' = Tail(runq) /\ tmp' = B[c]
          /\ sq' = [trie |-> X, bucket |-> [Y EXCEPT ![c] = <<>>],
                    expire |-> [Z EXCEPT ![c] = UNDEFINED]]
      BY <2>1, <1>4, <1>6 DEF PopHost
    <2>3. sq'.expire = [E EXCEPT ![c] = UNDEFINED] /\ sq'.bucket = [B EXCEPT ![c] = <<>>]
      BY <2>2, <1>4
    <2>4. /\ c \in Ctx /\ c \in Elems(runq) /\ Elems(runq') = Elems(runq) \ {c}
      BY <2>1, <2>2, <1>3, TailElems DEF Once
    <2>5. \A x \in Staged' : Stg(x, sq'.bucket, runq', B[c])
      BY <2>2, <1>2, <1>6 DEF SQNext
    <2> HIDE DEF T, B, E
    <2>6. \A x : Stg(x, [B EXCEPT ![c] = <<>>], runq', B[c]) => Stg(x, B, runq, tmp) /\ x # c
      <3>1. ASSUME NEW x, Stg(x, [B EXCEPT ![c] = <<>>], runq', B[c])
            PROVE  Stg(x, B, runq, tmp) /\ x # c
        <4>1. \A h \in Elems(runq') : h \in Ctx /\ h # c /\ h \in Elems(runq)
          BY <2>4, <1>3, ElemsType
        <4>2. c \notin Elems(B[c]) /\ \A h \in Ctx : c \notin Elems(B[h])
          BY <2>4, <1>3 DEF Once
        <4> QED
          BY <3>1, <4>1, <4>2, <2>4, <1>3 DEF Stg
      <3> QED
        BY <3>1
    <2>7. Stg(c, B, runq, tmp)
      BY <2>4 DEF Stg
    <2> QED
      BY <2>1, <2>3, <2>4, <2>5, <2>6, <2>7, <1>1 DEF E
  <1>7. ASSUME PopBucket
        PROVE  /\ Head(tmp) \in Ctx /\ Head(tmp) \in Staged
               /\ sq'.expire = [sq.expire EXCEPT ![Head(tmp)] = UNDEFINED]
               /\ \A x \in Staged' : x \in Staged /\ x # Head(tmp)
    <2>1. PICK c : c = Head(tmp)
      OBVIOUS
    <2>2. /\ tmp # <<>> /\ tmp' = Tail(tmp) /\ runq' = runq
          /\ sq' = [trie |-> X, bucket |-> Y, expire |-> [Z EXCEPT ![c] = UNDEFINED]]
      BY <2>1, <1>4, <1>7 DEF PopBucket
    <2>3. sq'.expire = [E EXCEPT ![c] = UNDEFINED] /\ sq'.bucket = B
      BY <2>2, <1>4
    <2>4. /\ c \in Ctx /\ c \in Elems(tmp) /\ Elems(tmp') = Elems(tmp) \ {c}
      BY <2>1, <2>2, <1>3, TailElems DEF Once
    <2>5. \A x \in Staged' : Stg(x, B, runq, tmp')
      BY <2>2, <2>3, <1>2, <1>7 DEF SQNext
    <2> HIDE DEF T, B, E
    <2>6. \A x : Stg(x, B, runq, tmp') => Stg(x, B, runq, tmp) /\ x # c
      <3>1. ASSUME NEW x, Stg(x, B, runq, tmp') PROVE Stg(x, B, runq, tmp) /\ x # c
        <4>1. \A h \in Elems(runq) : h \in Ctx /\ h # c /\ c \notin Elems(B[h])
          BY <2>4, <1>3, ElemsType DEF Once
        <4> QED
          BY <3>1, <4>1, <2>4 DEF Stg
      <3> QED
        BY <3>1
    <2>7. Stg(c, B, runq, tmp)
      BY <2>4 DEF Stg
    <2> QED
      BY <2>1, <2>3, <2>4, <2>5, <2>6, <2>7, <1>1 DEF E
  <1> QED
    BY <1>5, <1>6, <1>7
-----------------------------------------------------------------------------
(***************************************************************************)
(* What holds as long as nobody schedules a thread that the walk holds.    *)
(* That is so when the application keeps to calls that schedule only       *)
(* threads which are parked, and in the behaviours without the staged race *)
(* whatever it calls.                                                      *)
(***************************************************************************)

\* The calls that may schedule a thread which is scheduled already, and the one
\* that lets a thread wait for the event and for a time at once.
Hasty == {"set_interrupt", "set_interrupt_and_join", "set_interrupt_and_join_with_timeout",
          "wait_for", "peek", "subscribe_with_timeout"}

\* The application makes none of them.
PlainCalls == Calls \cap Hasty = {}

\* No thread that the walk holds is scheduled again.
Tame == StagedRace => PlainCalls

\* The states of a thread that stands in a wait queue.
Queued == {"JOIN", "JOIN_INTERRUPTED", "CONDWAIT"}

\* Who has the processor, and what may be under way meanwhile.
Control ==
    /\ ctl = "thread" => /\ phase = "run" /\ dying = NULL
                         /\ state[me] = "RESUMED" \/ call[me].ph = "enter"
    /\ \A c \in Ctx : call[c].ph = "enter" =>
          ctl = "thread" /\ c = me /\ drain = NULL /\ doomed = {} /\ state[c] \in RESUMABLE
    /\ drain # NULL => phase # "collect"
    /\ ctl = "main" /\ drain # NULL => me = NULL
    /\ dying # NULL => ctl = "main" /\ phase = "run" /\ me = NULL /\ doomed = {}
    /\ ctl = "main" /\ doomed # {} => phase = "main"
    /\ phase = "main" => me = NULL /\ ctl = "main"

\* A thread that runs, has ended or has not started is not in the sleep queue.
Idle == \A c \in Ctx :
            state[c] \in {"DORMANT", "RESUMED"} \/ call[c].ph = "enter" =>
                sq.expire[c] = UNDEFINED

\* Who waits in the queue of c will be resumed from there.
Attended(w) == w = Cond \/ (w \in Ctx /\ (id[w] # NoId \/ drain = w))

\* A thread that has switched and is not in the sleep queue waits for the event, or
\* in a queue that is attended.
Accounted == \A c \in Ctx :
    sq.expire[c] = UNDEFINED /\ call[c].ph # "enter" /\ state[c] \in RESUMABLE =>
        \/ state[c] = "SIGNAL_SUBSCRIBE"
        \/ state[c] \in Queued /\ Attended(hosting[c])

\* The owner of the event is the thread that is in a call to wait for it.
Subscriber ==
    \A c \in Ctx : /\ state[c] = "SIGNAL_SUBSCRIBE" => owner = c
                   /\ owner = c <=> call[c].op \in {"subscribe", "subscribe_with_timeout"}

\* What the walk holds is due.
StagedDue == \A c \in Staged : sq.expire[c] # UNDEFINED /\ sq.expire[c] < now

\* A walk that still collects has resumed nobody; whom it has resumed it no longer
\* holds.
Slices == /\ \A c \in slice : c \notin Staged
          /\ phase = "collect" => slice = {}

\* Every context of the array that is no thread is in one of the four places.
Pools ==
    /\ Distinct(ctxes) /\ Distinct(freelist)
    /\ Elems(freelist) \cap LeftBehind = {}
    /\ \A p, q \in left : p # q => p \cap q = {}
    /\ Elems(freelist) \cup LeftBehind
          = {c \in Elems(ctxes) : id[c] = NoId} \ ({dying} \cup doomed)
    /\ doomed \subseteq {c \in Elems(ctxes) : id[c] = NoId}
    /\ dying # NULL => dying \in Elems(ctxes) /\ id[dying] = NoId
    /\ \A c \in Ctx : id[c] # NoId => c \in Elems(ctxes)

\* A context that is no thread stands in no queue.
Retired == \A c \in Ctx : id[c] = NoId /\ c # dying => hosting[c] = NULL

\* A thread that has ended or has not started is in no call.
Unstarted == \A c \in Ctx : state[c] = "DORMANT" => call[c].op = "none"

\* The calls under way are among those the application makes.
CallsMade == \A c \in Ctx : call[c].op \in Calls \cup {"none", "sleep"}

\* Without the hasty calls a thread waits for one thing at a time.
OneWait == PlainCalls => \A c \in Ctx :
    /\ hosting[c] # NULL => state[c] \in Queued
    /\ state[c] \in Queued \cup {"SIGNAL_SUBSCRIBE"} => sq.expire[c] = UNDEFINED
    /\ call[c].op = "sleep" => state[c] = "SLEEP" /\ sq.expire[c] = call[c].until

\* The parts together are inductive.
TameInv == /\ BaseInv
           /\ SQInv
           /\ Control
           /\ Idle
           /\ Accounted
           /\ Subscriber
           /\ StagedDue
           /\ Slices
           /\ Pools
           /\ Retired
           /\ Unstarted
           /\ CallsMade
           /\ OneWait

\* What a step that schedules c for k does to the sleep queue.
Puts(c, k) == /\ Schedule(c, k, prio[c])
              /\ sq'.expire = [sq.expire EXCEPT ![c] = k]
              /\ \A x : x \in Staged' <=> x \in Staged

\* A thread that runs, has ended, has not started, waits in a queue or waits for the
\* event is not held by the walk, if the hasty calls are not made.
LEMMA NotHeld ==
    ASSUME TameInv, Tame, NEW c \in Ctx
    PROVE  /\ state[c] \in {"DORMANT", "RESUMED"} => c \notin Staged
           /\ call[c].ph = "enter" => c \notin Staged
           /\ StagedRace /\ hosting[c] # NULL => c \notin Staged
           /\ StagedRace /\ state[c] = "SIGNAL_SUBSCRIBE" => c \notin Staged
  <1>1. c \in Staged => sq.expire[c] # UNDEFINED
    BY DEF TameInv, StagedDue
  <1> QED
    BY <1>1 DEF TameInv, Tame, Idle, OneWait

\* Scheduling whom the walk does not hold is a step of module SleepQueue.
LEMMA EnqueuePuts ==
    ASSUME TameInv, phase # "collect", NEW c \in Ctx, NEW k \in Key, c \notin Staged,
           Enqueue(c, k)
    PROVE  Puts(c, k)
  <1>1. Schedule(c, k, prio[c])
    BY DEF Enqueue, Schedule
  <1>2. prio[c] \in BOOLEAN /\ SQInv
    BY DEF TameInv, BaseInv, TypeOK
  <1> QED
    BY <1>1, <1>2, ScheduleEffect DEF Puts

\* The context a new thread is given is no thread, stands in no queue and is in
\* no call; unless it is new it was free.
LEMMA NewIsIdle ==
    ASSUME TameInv, NEW c \in Ctx, mnthr_ctx_pop_free(c) \/ mnthr_ctx_new(c)
    PROVE  /\ id[c] = NoId /\ state[c] = "DORMANT" /\ call[c].op = "none"
           /\ c # dying /\ c \notin doomed /\ hosting[c] = NULL /\ c \notin Staged
           /\ c \in Elems(freelist) \/ c \notin Elems(ctxes)
           /\ ctl = "thread" => c # me
  <1>0. /\ freelist \in Seq(Ctx)
        /\ \A d \in Ctx : state[d] # "DORMANT" => id[d] # NoId
        /\ ctl = "thread" => me \in Ctx /\ state[me] # "DORMANT"
        /\ dying # NULL => dying \in Elems(ctxes)
        /\ doomed \subseteq Elems(ctxes)
        /\ dying \in Ctx \cup {NULL}
    BY DEF TameInv, BaseInv, TypeOK, LiveHasId, Running, Pools
  <1>1. c \in Elems(freelist) \/ c \notin Elems(ctxes)
    <2>1. CASE mnthr_ctx_new(c)
      BY <2>1 DEF mnthr_ctx_new
    <2>2. CASE First(freelist, Unheld, c)
      BY <2>2, <1>0, FirstIsIn
    <2> QED
      BY <2>1, <2>2 DEF mnthr_ctx_pop_free
  <1>2. id[c] = NoId /\ c # dying /\ c \notin doomed
    <2>1. CASE c \in Elems(freelist)
      BY <2>1 DEF TameInv, Pools
    <2>2. CASE c \notin Elems(ctxes)
      BY <2>2, <1>0, NullAssumption DEF TameInv, Pools
    <2> QED
      BY <1>1, <2>1, <2>2
  <1>3. state[c] = "DORMANT" /\ hosting[c] = NULL /\ call[c].op = "none"
    BY <1>0, <1>2 DEF TameInv, Retired, Unstarted
  <1>4. c \notin Staged
    BY <1>3 DEF TameInv, Idle, StagedDue
  <1> QED
    BY <1>0, <1>1, <1>2, <1>3, <1>4

\* Whoever makes a call, the walk is not collecting.
LEMMA NotCollecting ==
    ASSUME TameInv
    PROVE  /\ ctl = "thread" => phase # "collect" /\ me \in Ctx
           /\ drain # NULL => phase # "collect"
           /\ \A name : Calling(name) => /\ ctl = "thread" /\ me \in Ctx /\ phase = "run"
                                         /\ state[me] = "RESUMED" /\ call[me].ph = "wait"
           /\ \A name : CallingOrMain(name) =>
                 phase # "collect" /\ dying = NULL /\ drain = NULL /\ doomed = {}
  <1>1. /\ ctl = "thread" => phase = "run" /\ dying = NULL
                             /\ (state[me] = "RESUMED" \/ call[me].ph = "enter")
        /\ drain # NULL => phase # "collect"
        /\ ctl = "thread" => me \in Ctx
    BY DEF TameInv, Control, BaseInv, Running
  <1>2. ASSUME NEW name, Calling(name)
        PROVE  /\ ctl = "thread" /\ me \in Ctx /\ phase = "run"
               /\ state[me] = "RESUMED" /\ call[me].ph = "wait"
               /\ dying = NULL /\ drain = NULL /\ doomed = {}
    <2>1. ctl = "thread" /\ me \in Ctx /\ call[me].op = "none" /\ drain = NULL /\ doomed = {}
      BY <1>1, <1>2 DEF Calling
    <2>2. call[me].ph # "enter"
      BY <2>1 DEF TameInv, BaseInv, Entering, TimedOps
    <2>3. call[me].ph \in {"enter", "wait"}
      BY <2>1 DEF TameInv, BaseInv, TypeOK, Call
    <2> QED
      BY <1>1, <2>1, <2>2, <2>3
  <1>3. ASSUME NEW name, CallingOrMain(name)
        PROVE  phase # "collect" /\ dying = NULL /\ drain = NULL /\ doomed = {}
    BY <1>2, <1>3 DEF CallingOrMain, MainRuns
  <1> QED
    BY <1>1, <1>2, <1>3

\* Who is scheduled by which call, and that the walk does not hold him.
LEMMA CallPuts ==
    ASSUME TameInv, Tame
    PROVE  /\ \A d \in Delays : mnthr_sleep(d) => Deadline(d) \in Key /\ Puts(me, Deadline(d))
           /\ mnthr_yield => Puts(me, RESUME_NOW)
           /\ mnthr_giveup => Puts(me, FOREVER)
           /\ \A c \in Ctx : mnthr_run(c) \/ mnthr_spawn(c) \/ mnthr_shutdown(c) =>
                 Puts(c, RESUME_NOW)
           /\ \A t \in Ctx : mnthr_set_interrupt(t) \/ mnthr_set_interrupt_and_join(t) =>
                 Puts(t, RESUME_NOW) /\ ~ PlainCalls
           /\ \A t \in Ctx, d \in Delays :
                 /\ mnthr_set_interrupt_and_join_with_timeout(t, d) =>
                       Puts(t, RESUME_NOW) /\ ~ PlainCalls
                 /\ mnthr_wait_for(t, d) => Puts(t, RESUME_NOW) /\ ~ PlainCalls
                 /\ mnthr_peek(t, d) => ~ PlainCalls
           /\ \A d \in Delays : mnthr_signal_subscribe_with_timeout(d) =>
                 Deadline(d) \in Key /\ Puts(me, Deadline(d)) /\ ~ PlainCalls
           /\ mnthr_signal_send => Puts(owner, RESUME_NOW)
           /\ \A v \in Retvals : mnthr_signal_error(v) \/ mnthr_signal_error_and_join(v) =>
                 Puts(owner, RESUME_NOW)
  <1>0. /\ now \in Nat
        /\ RESUME_NOW \in Key /\ FOREVER \in Key
        /\ \A d \in Delays : InHorizon(d) => Deadline(d) \in Key
        /\ owner # NULL => owner \in Ctx
    BY Keys DEF TameInv, BaseInv, TypeOK, SQTypeOK
  <1>1. ASSUME NEW name, Calling(name), NEW k \in Key, Enqueue(me, k) PROVE Puts(me, k)
    <2>1. me \in Ctx /\ phase # "collect" /\ me \notin Staged
      BY <1>1, NotCollecting, NotHeld
    <2> QED
      BY <2>1, <1>1, EnqueuePuts
  <1>2. ASSUME NEW name, CallingOrMain(name), NEW c \in Ctx, c \notin Staged,
               Enqueue(c, RESUME_NOW)
        PROVE  Puts(c, RESUME_NOW)
    BY <1>0, <1>2, NotCollecting, EnqueuePuts
  <1>3. ASSUME NEW name \in Hasty, Calling(name) PROVE ~ PlainCalls /\ ~ StagedRace
    BY <1>3 DEF Calling, PlainCalls, Tame
  <1>4. ASSUME NEW name \in Hasty, Calling(name), NEW c \in Ctx, Enqueue(c, RESUME_NOW)
        PROVE  Puts(c, RESUME_NOW)
    <2>1. c \notin Staged
      BY <1>3, <1>4 DEF Enqueue
    <2> QED
      BY <2>1, <1>2, <1>4 DEF CallingOrMain
  <1>5. ASSUME NEW name, Calling(name), Subscribed, Enqueue(owner, RESUME_NOW)
        PROVE  Puts(owner, RESUME_NOW)
    <2>1. owner \in Ctx /\ owner \notin Staged
      BY <1>0, <1>5, NotHeld DEF Subscribed, Enqueue
    <2> QED
      BY <2>1, <1>2, <1>5 DEF CallingOrMain
  <1>6. ASSUME NEW d \in Delays, mnthr_sleep(d)
        PROVE  Deadline(d) \in Key /\ Puts(me, Deadline(d))
    BY <1>0, <1>1, <1>6 DEF mnthr_sleep, SleepUntil
  <1>7. mnthr_yield => Puts(me, RESUME_NOW)
    BY <1>0, <1>1 DEF mnthr_yield, SleepUntil
  <1>8. mnthr_giveup => Puts(me, FOREVER)
    BY <1>0, <1>1 DEF mnthr_giveup, SleepUntil
  <1>9. ASSUME NEW c \in Ctx, mnthr_run(c) \/ mnthr_spawn(c) \/ mnthr_shutdown(c)
        PROVE  Puts(c, RESUME_NOW)
    <2>1. c \notin Staged
      BY <1>9, NotHeld, NewIsIdle DEF mnthr_run, mnthr_spawn, mnthr_shutdown
    <2> QED
      BY <2>1, <1>2, <1>9 DEF mnthr_run, mnthr_spawn, mnthr_shutdown, set_resume
  <1>10. ASSUME NEW t \in Ctx, mnthr_set_interrupt(t) \/ mnthr_set_interrupt_and_join(t)
         PROVE  Puts(t, RESUME_NOW) /\ ~ PlainCalls
    BY <1>3, <1>4, <1>10 DEF mnthr_set_interrupt, mnthr_set_interrupt_and_join, SetInterrupt,
                             Hasty
  <1>11. ASSUME NEW t \in Ctx, NEW d \in Delays
         PROVE  /\ mnthr_set_interrupt_and_join_with_timeout(t, d) =>
                      Puts(t, RESUME_NOW) /\ ~ PlainCalls
                /\ mnthr_wait_for(t, d) => Puts(t, RESUME_NOW) /\ ~ PlainCalls
                /\ mnthr_peek(t, d) => ~ PlainCalls
    BY <1>3, <1>4 DEF mnthr_set_interrupt_and_join_with_timeout, mnthr_wait_for, mnthr_peek,
                      SetInterrupt, Hasty
  <1>12. ASSUME NEW d \in Delays, mnthr_signal_subscribe_with_timeout(d)
         PROVE  Deadline(d) \in Key /\ Puts(me, Deadline(d)) /\ ~ PlainCalls
    BY <1>0, <1>1, <1>3, <1>12 DEF mnthr_signal_subscribe_with_timeout, Hasty
  <1>13. mnthr_signal_send => Puts(owner, RESUME_NOW)
    BY <1>5 DEF mnthr_signal_send, set_resume
  <1>14. ASSUME NEW v \in Retvals, mnthr_signal_error(v) \/ mnthr_signal_error_and_join(v)
         PROVE  Puts(owner, RESUME_NOW)
    BY <1>5, <1>14 DEF mnthr_signal_error, mnthr_signal_error_and_join, set_resume
  <1> QED
    BY <1>6, <1>7, <1>8, <1>9, <1>10, <1>11, <1>12, <1>13, <1>14

\* One turn of resume_waitq_all takes the head of the queue off and schedules it, if
\* it is a thread and not the running one.
LEMMA HeadPuts ==
    ASSUME TameInv, Tame, NEW w \in WaitQ, waitq[w] # <<>>, phase # "collect",
           resume_waitq_head(w)
    PROVE  LET t == Head(waitq[w]) IN
           /\ t \in Ctx /\ hosting[t] = w
           /\ \/ t = me /\ UNCHANGED <<sqvars, state>>
              \/ t # me /\ id[t] = NoId /\ UNCHANGED <<sqvars, state>>
              \/ /\ t # me /\ id[t] # NoId /\ Puts(t, RESUME_NOW)
                 /\ state' = [state EXCEPT ![t] = "SET_RESUME"]
  <1>1. PICK t : t = Head(waitq[w])
    OBVIOUS
  <1>2. t \in Ctx /\ t \in Elems(waitq[w])
    <2>1. waitq[w] \in Seq(Ctx) /\ Distinct(waitq[w])
      BY DEF TameInv, BaseInv, TypeOK, WaitqConsistent
    <2> QED
      BY <1>1, <2>1, TailElems
  <1>3. hosting[t] = w /\ w # NULL
    BY <1>2, NullAssumption, SchedulerAssumption DEF TameInv, BaseInv, WaitqConsistent, WaitQ
  <1>4. ASSUME Enqueue(t, RESUME_NOW) PROVE Puts(t, RESUME_NOW)
    <2>1. t \notin Staged
      BY <1>2, <1>3, <1>4, NotHeld DEF Enqueue
    <2> QED
      BY <2>1, <1>2, <1>4, EnqueuePuts, Keys
  <1>5. \/ t = me /\ UNCHANGED <<sqvars, state>>
        \/ t # me /\ id[t] = NoId /\ UNCHANGED <<sqvars, state>>
        \/ /\ t # me /\ id[t] # NoId /\ Enqueue(t, RESUME_NOW)
           /\ state' = [state EXCEPT ![t] = "SET_RESUME"]
    BY <1>1 DEF resume_waitq_head, set_resume
  <1> QED
    BY <1>1, <1>2, <1>3, <1>4, <1>5

\* The context that poller_resume is handed is a thread that has switched.
LEMMA HandedIsResumable ==
    ASSUME TameInv
    PROVE  /\ PopHost => LET c == Head(runq) IN
                 /\ c \in Ctx /\ c \in Staged /\ state[c] \in RESUMABLE /\ call[c].ph = "wait"
           /\ PopBucket => LET c == Head(tmp) IN
                 /\ c \in Ctx /\ c \in Staged /\ state[c] \in RESUMABLE /\ call[c].ph = "wait"
  <1>1. ASSUME NEW c \in Ctx, c \in Staged PROVE state[c] \in RESUMABLE /\ call[c].ph = "wait"
    <2>1. sq.expire[c] # UNDEFINED
      BY <1>1 DEF TameInv, StagedDue
    <2>2. state[c] \in RESUMABLE \cup {"DORMANT", "RESUMED"} /\ call[c].ph \in {"enter", "wait"}
      BY DEF TameInv, BaseInv, TypeOK, Call
    <2> QED
      BY <2>1, <2>2 DEF TameInv, Idle
  <1> QED
    BY <1>1, WalkEffect DEF TameInv

\* Setting expire_ticks first makes no difference to a thread that is not in the
\* sleep queue: sleepq_remove looks for it in the line it is about to enter.
LEMMA SetFirstIsHarmless ==
    ASSUME NEW q \in SQ, Keyed(q.trie, q.bucket, q.expire), NEW c \in Ctx,
           q.expire[c] = UNDEFINED, NEW k \in Key, NEW p \in BOOLEAN
    PROVE  /\ reschedule(WithExpire(q, c, k), c, k, p) = reschedule(q, c, k, p)
           /\ sleepq_remove(q, c) = q
           /\ Unlinked(q, c) = q
  <1>1. PICK T \in [Key -> Ctx \cup {NULL}], B \in [Ctx -> Seq(Ctx)], E \in [Ctx -> 0..FOREVER] :
              /\ q = [trie |-> T, bucket |-> B, expire |-> E]
              /\ q.trie = T /\ q.bucket = B /\ q.expire = E
    BY DEF SQ
  <1>2. k # UNDEFINED
    BY DEF Key, UNDEFINED
  <1>3. sleepq_remove(q, c) = q
    BY DEF sleepq_remove
  <1>4. PICK E2 \in [Ctx -> 0..FOREVER] : E2 = [E EXCEPT ![c] = k]
    <2>1. k \in 0..FOREVER
      BY DEF Key
    <2> QED
      BY <2>1
  <1>5. WithExpire(q, c, k) = [trie |-> T, bucket |-> B, expire |-> E2]
    BY <1>1, <1>4, SetExpire
  <1>6. T[k] # c /\ (T[k] # NULL => T[k] \in Ctx /\ c \notin Elems(B[T[k]]))
    <2>1. Typed(T, B, E) /\ Keyed(T, B, E) /\ E[c] # k
      BY <1>1, <1>2 DEF Typed
    <2> QED
      BY <2>1, NotInOtherLines
  <1>7. PICK r : r = [trie |-> T, bucket |-> B, expire |-> E2]
    OBVIOUS
  <1>8. sleepq_remove(r, c) = r
    <2>1. r.expire[c] = k /\ r.trie = T /\ r.bucket = B
      BY <1>4, <1>7
    <2>2. CASE T[k] = NULL
      BY <2>1, <2>2 DEF sleepq_remove
    <2>3. CASE T[k] # NULL
      <3>1. sleepq_remove(r, c) = [r EXCEPT !.bucket[T[k]] = DTQUEUE_REMOVE(@, c)]
        BY <2>1, <2>3, <1>2, <1>6 DEF sleepq_remove
      <3>2. DTQUEUE_REMOVE(B[T[k]], c) = B[T[k]]
        BY <2>3, <1>6 DEF DTQUEUE_REMOVE
      <3>3. [B EXCEPT ![T[k]] = B[T[k]]] = B
        BY <2>3, <1>6
      <3>4. sleepq_remove(r, c)
               = [trie |-> T, bucket |-> [B EXCEPT ![T[k]] = B[T[k]]], expire |-> E2]
        BY <3>1, <3>2, <1>7
      <3> QED
        BY <3>3, <3>4, <1>7
    <2> QED
      BY <2>2, <2>3
  <1>9. WithExpire(r, c, k) = r
    <2>1. [E2 EXCEPT ![c] = k] = E2
      BY <1>4
    <2> QED
      BY <2>1, <1>7, SetExpire
  <1>10. reschedule(WithExpire(q, c, k), c, k, p) = reschedule(q, c, k, p)
    <2>1. reschedule(r, c, k, p) = sleepq_enqueue(r, c, p)
      BY <1>8, <1>9 DEF reschedule, WithExpire
    <2>2. reschedule(q, c, k, p) = sleepq_enqueue(r, c, p)
      BY <1>3, <1>5, <1>7 DEF reschedule, WithExpire
    <2> QED
      BY <2>1, <2>2, <1>5, <1>7
  <1>11. Unlinked(q, c) = q
    <2>1. [E EXCEPT ![c] = UNDEFINED] = E
      BY <1>1
    <2>2. WithExpire(q, c, UNDEFINED) = q
      BY <2>1, <1>1, SetExpire
    <2> QED
      BY <2>2, <1>3 DEF Unlinked, WithExpire
  <1> QED
    BY <1>3, <1>10, <1>11

\* The rest of a timed wait: its sleep is a step of module SleepQueue, and its
\* return finds nothing to remove; so does an exit.
LEMMA TimedPuts ==
    ASSUME TameInv, Tame
    PROVE  /\ TimedSleep => /\ me \in Ctx /\ call[me].until \in Key
                            /\ Puts(me, call[me].until) /\ ~ PlainCalls
           /\ Exit => UNCHANGED sqvars
           /\ TimedReturnGone => UNCHANGED sqvars
           /\ wait_for_timeout \/ peek_timeout \/ interrupt_and_join_timeout =>
                 me \in Ctx /\ call[me].tgt \in Ctx /\ ~ PlainCalls
           /\ wait_for_timeout /\ state[call[me].tgt] \in RESUMABLE =>
                 Puts(call[me].tgt, RESUME_NOW)
  <1>0. /\ sq \in SQ /\ Keyed(sq.trie, sq.bucket, sq.expire)
        /\ \A c \in Ctx : prio[c] \in BOOLEAN
    <2>1. sq \in SQ /\ Good(sq.trie, sq.bucket, sq.expire, runq, tmp)
      BY InvKnown DEF TameInv, Known, GoodNow
    <2> QED
      BY <2>1 DEF Good, TameInv, BaseInv, TypeOK
  <1>1. ASSUME NEW c \in Ctx, call[c].op \in TimedOps PROVE ~ PlainCalls /\ ~ StagedRace
    BY <1>1 DEF TameInv, CallsMade, PlainCalls, Hasty, TimedOps, Tame
  <1>2. ASSUME TimedSleep
        PROVE  /\ me \in Ctx /\ call[me].until \in Key
               /\ Puts(me, call[me].until) /\ ~ PlainCalls
    <2>1. /\ me \in Ctx /\ phase # "collect" /\ call[me].ph = "enter" /\ prio[me] \in BOOLEAN
      BY <1>0, <1>2, NotCollecting DEF TimedSleep
    <2>2. call[me].op \in TimedOps /\ call[me].until \in Key /\ sq.expire[me] = UNDEFINED
      BY <2>1 DEF TameInv, BaseInv, Entering, Idle
    <2>3. me \notin Staged
      BY <2>1, NotHeld
    <2>4. PICK k \in Key : k = call[me].until
      BY <2>2
    <2>5. \/ sq' = reschedule(sq, me, k, prio[me])
          \/ sq' = reschedule(WithExpire(sq, me, k), me, k, prio[me])
      BY <1>2, <2>4 DEF TimedSleep, WithExpire
    <2>6. sq' = reschedule(sq, me, k, prio[me])
      BY <2>1, <2>2, <2>5, <1>0, SetFirstIsHarmless
    <2>7. Schedule(me, k, prio[me])
      BY <2>1, <2>3, <2>6, <1>2 DEF TimedSleep, Schedule
    <2>8. Puts(me, k)
      BY <2>1, <2>7, ScheduleEffect DEF Puts, TameInv
    <2> QED
      BY <2>1, <2>2, <2>4, <2>8, <1>1
  <1>3. ASSUME Exit PROVE UNCHANGED sqvars
    <2>1. me \in Ctx /\ sq.expire[me] = UNDEFINED
      BY <1>3, NotCollecting DEF Exit, TameInv, Idle
    <2>2. sq' = Unlinked(sq, me) /\ UNCHANGED <<runq, tmp, now, phase>>
      BY <1>3 DEF Exit, Unlinked
    <2>3. Unlinked(sq, me) = sq
      BY <2>1, <1>0, Keys, SetFirstIsHarmless
    <2> QED
      BY <2>2, <2>3 DEF sqvars
  <1>4. ASSUME TimedReturnGone PROVE UNCHANGED sqvars
    <2>1. me \in Ctx /\ sq.expire[me] = UNDEFINED
      <3>1. ctl = "thread" /\ call[me].ph = "wait"
        BY <1>4 DEF TimedReturnGone, Returning
      <3> QED
        BY <3>1, NotCollecting DEF TameInv, Control, Idle
    <2>2. sq' = sleepq_remove(sq, me) /\ UNCHANGED <<runq, tmp, now, phase>>
      BY <1>4 DEF TimedReturnGone
    <2>3. sleepq_remove(sq, me) = sq
      BY <2>1, <1>0, Keys, SetFirstIsHarmless
    <2> QED
      BY <2>2, <2>3 DEF sqvars
  <1>5. ASSUME wait_for_timeout \/ peek_timeout \/ interrupt_and_join_timeout
        PROVE  me \in Ctx /\ call[me].tgt \in Ctx /\ ~ PlainCalls /\ ~ StagedRace
    <2>1. me \in Ctx /\ call[me].op \in TimedOps
      BY <1>5, NotCollecting DEF wait_for_timeout, peek_timeout, interrupt_and_join_timeout,
                                 Returning, TimedOps
    <2> QED
      BY <2>1, <1>1 DEF TameInv, BaseInv, TimedInQueue
  <1>6. ASSUME wait_for_timeout, state[call[me].tgt] \in RESUMABLE
        PROVE  Puts(call[me].tgt, RESUME_NOW)
    <2>1. Enqueue(call[me].tgt, RESUME_NOW) /\ phase # "collect"
      BY <1>6, NotCollecting DEF wait_for_timeout, SetInterrupt, Returning
    <2>2. call[me].tgt \in Ctx /\ call[me].tgt \notin Staged
      BY <2>1, <1>5, <1>6 DEF Enqueue
    <2> QED
      BY <2>1, <2>2, Keys, EnqueuePuts
  <1> QED
    BY <1>2, <1>3, <1>4, <1>5, <1>6

\* Every step of the scheduler is a step of the sleep queue, or none.
LEMMA SqStep ==
    ASSUME TameInv, Tame, Next
    PROVE  \/ UNCHANGED sqvars
           \/ \E c \in Ctx, k \in Key : Puts(c, k)
           \/ Poller /\ Walks
  <1> DEFINE G == \/ UNCHANGED sqvars
                  \/ \E c \in Ctx, k \in Key : Puts(c, k)
                  \/ Poller /\ Walks
  <1> SUFFICES G
    OBVIOUS
  <1>0. /\ RESUME_NOW \in Key /\ FOREVER \in Key
        /\ owner # NULL => owner \in Ctx
        /\ drain # NULL => drain \in WaitQ /\ waitq[drain] # <<>> /\ phase # "collect"
    BY Keys DEF TameInv, BaseInv, TypeOK, Draining, Control
  <1>1. ASSUME NEW w \in WaitQ, waitq[w] # <<>>, phase # "collect", resume_waitq_head(w) PROVE G
    BY <1>0, <1>1, HeadPuts
  <1>2. CASE Switching
    <2>1. ASSUME NEW d \in Delays, mnthr_sleep(d) PROVE G
      BY <2>1, CallPuts, NotCollecting DEF mnthr_sleep
    <2>2. CASE mnthr_yield \/ mnthr_giveup
      BY <2>2, <1>0, CallPuts, NotCollecting DEF mnthr_yield, mnthr_giveup
    <2>3. CASE Exit
      BY <2>3, TimedPuts
    <2>4. CASE ExitEINTR \/ mnthr_cond_wait \/ mnthr_signal_subscribe
      BY <2>4 DEF ExitEINTR, mnthr_cond_wait, mnthr_signal_subscribe
    <2>5. ASSUME NEW t \in Ctx, mnthr_join(t) PROVE G
      BY <2>5 DEF mnthr_join
    <2>6. ASSUME NEW t \in Ctx, mnthr_set_interrupt_and_join(t) PROVE G
      BY <2>6, <1>0, CallPuts
    <2>7. ASSUME NEW t \in Ctx, NEW d \in Delays,
                 mnthr_set_interrupt_and_join_with_timeout(t, d) \/ mnthr_wait_for(t, d)
          PROVE  G
      BY <2>7, <1>0, CallPuts
    <2>8. ASSUME NEW t \in Ctx, NEW d \in Delays, mnthr_peek(t, d) PROVE G
      BY <2>8 DEF mnthr_peek
    <2>9. ASSUME NEW d \in Delays, mnthr_signal_subscribe_with_timeout(d) PROVE G
      BY <2>9, CallPuts, NotCollecting DEF mnthr_signal_subscribe_with_timeout
    <2>10. ASSUME NEW v \in Retvals, mnthr_signal_error_and_join(v) PROVE G
      BY <2>10, <1>0, CallPuts DEF mnthr_signal_error_and_join, Subscribed
    <2> QED
      BY <1>2, <2>1, <2>2, <2>3, <2>4, <2>5, <2>6, <2>7, <2>8, <2>9, <2>10 DEF Switching
  <1>3. CASE Continuing
    <2>1. ASSUME NEW c \in Ctx, mnthr_new(c) PROVE G
      BY <2>1 DEF mnthr_new
    <2>2. ASSUME NEW c \in Ctx, mnthr_run(c) \/ mnthr_spawn(c) \/ mnthr_shutdown(c) PROVE G
      BY <2>2, <1>0, CallPuts
    <2>3. CASE mnthr_gc \/ mnthr_cond_signal_all
      BY <2>3 DEF mnthr_gc, mnthr_cond_signal_all
    <2>4. ASSUME NEW v \in Retvals, mnthr_set_retval(v) PROVE G
      BY <2>4 DEF mnthr_set_retval
    <2>5. ASSUME NEW c \in Ctx, NEW flag \in BOOLEAN, mnthr_set_prio(c, flag) PROVE G
      BY <2>5 DEF mnthr_set_prio
    <2>6. ASSUME NEW c \in Ctx, mnthr_incabac(c) \/ mnthr_decabac(c) PROVE G
      BY <2>6 DEF mnthr_incabac, mnthr_decabac
    <2>7. CASE mnthr_cond_signal_one
      BY <2>7, <1>1, NotCollecting DEF mnthr_cond_signal_one, WaitQ
    <2>8. ASSUME NEW t \in Ctx, mnthr_set_interrupt(t) PROVE G
      BY <2>8, <1>0, CallPuts
    <2>9. CASE mnthr_signal_send
      BY <2>9, <1>0, CallPuts DEF mnthr_signal_send, Subscribed
    <2>10. ASSUME NEW v \in Retvals, mnthr_signal_error(v) PROVE G
      BY <2>10, <1>0, CallPuts DEF mnthr_signal_error, Subscribed
    <2> QED
      BY <1>3, <2>1, <2>2, <2>3, <2>4, <2>5, <2>6, <2>7, <2>8, <2>9, <2>10 DEF Continuing
  <1>4. CASE Forced
    <2>1. CASE resume_waitq_all
      BY <2>1, <1>0, <1>1 DEF resume_waitq_all
    <2>2. CASE push_free_ctx \/ subscribe_return
      BY <2>2 DEF push_free_ctx, subscribe_return
    <2>3. CASE TimedSleep \/ TimedReturnGone
      BY <2>3, TimedPuts
    <2>4. ASSUME NEW c \in Ctx, mnthr_ctx_fini(c) PROVE G
      BY <2>4 DEF mnthr_ctx_fini
    <2>5. CASE wait_for_timeout
      <3>1. CASE state[call[me].tgt] \in RESUMABLE
        BY <2>5, <3>1, <1>0, TimedPuts
      <3>2. CASE state[call[me].tgt] \notin RESUMABLE
        BY <2>5, <3>2 DEF wait_for_timeout, AssertFails
      <3> QED
        BY <3>1, <3>2
    <2>6. CASE peek_timeout \/ interrupt_and_join_timeout
      BY <2>6 DEF peek_timeout, interrupt_and_join_timeout, AssertFails
    <2> QED
      BY <1>4, <2>1, <2>2, <2>3, <2>4, <2>5, <2>6 DEF Forced
  <1>5. CASE Poller
    BY <1>5 DEF Poller, loop_prepare, loop_break, sift_collect, sift_collected, sift_host,
                sift_bucket, sift_done, Walks
  <1> QED
    BY <1>2, <1>3, <1>4, <1>5 DEF Next

\* So the sleep queue keeps its invariant, and what the walk holds is due and is
\* resumed once.
LEMMA SqKept ==
    ASSUME TameInv, Tame, Next
    PROVE  [SQNext]_sqvars /\ SQInv' /\ StagedDue'
  <1>0. /\ SQInv /\ SQTypeOK /\ sq.expire \in [Ctx -> 0..FOREVER] /\ now \in Nat
        /\ prio \in [Ctx -> BOOLEAN]
    BY DEF TameInv, SQInv, SQTypeOK, SQ, BaseInv, TypeOK
  <1>1. [SQNext]_sqvars
    <2>1. ASSUME NEW c \in Ctx, NEW k \in Key, Puts(c, k) PROVE SQNext
      BY <1>0, <2>1 DEF Puts, SQNext
    <2>2. Walks => SQNext
      BY DEF Walks, SQNext
    <2> QED
      BY <2>1, <2>2, SqStep
  <1>2. SQInv'
    BY <1>0, <1>1, StepKeepsInv
  <1>3. Staged \subseteq Ctx
    <2>1. Known
      BY <1>0, InvKnown
    <2>2. \A x : Stg(x, sq.bucket, runq, tmp) => x \in Ctx
      BY <1>0, ElemsType DEF Stg, SQTypeOK, SQ
    <2> QED
      BY <2>1, <2>2 DEF Known
  <1>4. \A c \in Staged : sq.expire[c] # UNDEFINED /\ sq.expire[c] < now
    BY DEF TameInv, StagedDue
  <1> DEFINE G == \A c \in Staged' : sq'.expire[c] # UNDEFINED /\ sq'.expire[c] < now'
  <1>5. ASSUME UNCHANGED <<sq, runq, tmp>>, now' \in Nat, now <= now' PROVE G
    <2>1. Staged' = Staged
      BY <1>5 DEF Staged
    <2> QED
      BY <1>0, <1>3, <1>4, <1>5, <2>1
  <1>6. ASSUME NEW c \in Ctx, NEW k \in Key, Puts(c, k) PROVE G
    <2>1. c \notin Staged /\ now' = now
      BY <1>6 DEF Puts, Schedule
    <2> QED
      BY <2>1, <1>0, <1>3, <1>4, <1>6 DEF Puts
  <1>7. ASSUME NEW k \in Key, Collect(k) PROVE G
    <2>1. now' = now /\ k # UNDEFINED
      BY <1>7 DEF Collect, Key, UNDEFINED
    <2> QED
      BY <2>1, <1>0, <1>4, <1>7, WalkEffect
  <1>8. ASSUME NEW c \in Ctx, sq'.expire = [sq.expire EXCEPT ![c] = UNDEFINED],
               \A x \in Staged' : x \in Staged /\ x # c, now' = now
        PROVE  G
    BY <1>0, <1>3, <1>4, <1>8
  <1>9. ASSUME PopHost PROVE G
    BY <1>0, <1>8, <1>9, WalkEffect DEF PopHost
  <1>10. ASSUME PopBucket PROVE G
    BY <1>0, <1>8, <1>10, WalkEffect DEF PopBucket
  <1>11. ASSUME NEW t \in now..MaxNow, Prepare(t) PROVE G
    BY <1>0, <1>5, <1>11, TimeAssumption DEF Prepare
  <1>12. ASSUME CollectDone \/ SiftDone \/ UNCHANGED sqvars PROVE G
    BY <1>0, <1>5, <1>12 DEF CollectDone, SiftDone, sqvars
  <1>13. G
    BY SqStep, <1>6, <1>7, <1>9, <1>10, <1>11, <1>12 DEF Walks
  <1> QED
    BY <1>1, <1>2, <1>13 DEF StagedDue
-----------------------------------------------------------------------------
(***************************************************************************)
(* The parts of the invariant, one by one.                                 *)
(***************************************************************************)

\* The calls of all but c are what they were, as far as the invariant looks at them.
OthersKeep(c) == \A d \in Ctx : d # c => /\ call'[d].op = call[d].op
                                         /\ call'[d].ph = call[d].ph
                                         /\ call'[d].until = call[d].until
                                         /\ call'[d].tgt = call[d].tgt
                                         /\ call'[d].gid = call[d].gid

\* Now c is in call op, phase ph.
SetsCall(c, op, ph) == call'[c].op = op /\ call'[c].ph = ph /\ OthersKeep(c)

\* Nobody's call changes in those parts.
KeepsCalls == \A d \in Ctx : /\ call'[d].op = call[d].op
                             /\ call'[d].ph = call[d].ph
                             /\ call'[d].until = call[d].until
                             /\ call'[d].tgt = call[d].tgt
                             /\ call'[d].gid = call[d].gid

\* c goes on waiting for the same thread, and as long.
Targets(c) == /\ call'[c].tgt = call[c].tgt /\ call'[c].gid = call[c].gid
              /\ call'[c].until = call[c].until

\* What the steps do to the calls under way.
LEMMA CallFields ==
    ASSUME TypeOK
    PROVE  /\ UNCHANGED call => KeepsCalls
           /\ \A op \in {"sleep", "subscribe", "subscribe_with_timeout"}, k \in 0..FOREVER :
                 me \in Ctx /\ Block(op, NULL, k) =>
                    SetsCall(me, op, "wait") /\ call'[me].until = k
           /\ \A op \in TimedOps, t \in Ctx, i \in -1..MaxId, k \in Key :
                 me \in Ctx /\ Enter(op, t, i, k) =>
                    SetsCall(me, op, "enter") /\ call'[me].tgt = t /\ call'[me].gid = i
           /\ me \in Ctx /\ Returned => SetsCall(me, "none", "wait")
           /\ \A c \in Ctx : mnthr_ctx_finalize(c) => KeepsCalls
           /\ me \in Ctx /\ Exit => KeepsCalls
           /\ me \in Ctx /\ TimedSleep => SetsCall(me, call[me].op, "wait") /\ Targets(me)
           /\ \A c \in Ctx : state[c] \in RESUMABLE /\ poller_resume(c) =>
                 IF call[c].op \in {"none", "sleep"} THEN SetsCall(c, "none", "wait")
                 ELSE SetsCall(c, call[c].op, call[c].ph) /\ Targets(c)
  <1>0. /\ call \in [Ctx -> Call] /\ rc \in [Ctx -> Rc]
        /\ -1 \in -1..MaxId
    BY SchedulerAssumption DEF TypeOK
  <1>1. ASSUME NEW c \in Ctx, NEW r \in Call, call' = [call EXCEPT ![c] = r]
        PROVE  /\ SetsCall(c, r.op, r.ph) /\ call'[c].until = r.until
               /\ call'[c].tgt = r.tgt /\ call'[c].gid = r.gid
    BY <1>0, <1>1 DEF SetsCall, OthersKeep
  <1>2. UNCHANGED call => KeepsCalls
    BY DEF KeepsCalls
  <1>9. ASSUME NEW c \in Ctx, call' = [call EXCEPT ![c] = NoCall]
        PROVE  SetsCall(c, "none", "wait")
    <2>1. PICK r \in Call : r = NoCall /\ r.op = "none" /\ r.ph = "wait"
      BY CallRecords
    <2> QED
      BY <2>1, <1>1, <1>9
  <1>3. ASSUME NEW op \in {"sleep", "subscribe", "subscribe_with_timeout"}, NEW k \in 0..FOREVER,
               me \in Ctx, Block(op, NULL, k)
        PROVE  SetsCall(me, op, "wait") /\ call'[me].until = k
    <2>1. op \in {"none", "sleep"} \cup CallNames
      BY DEF CallNames
    <2>2. call' = [call EXCEPT ![me] = CallOf(op, "wait", NULL, -1, k)]
      BY <1>3 DEF Block, NoId
    <2>3. PICK t \in Ctx \cup {NULL}, i \in -1..MaxId : t = NULL /\ i = -1
      BY <1>0
    <2>4. PICK r : r = CallOf(op, "wait", t, i, k)
      OBVIOUS
    <2>5. r \in Call /\ r.op = op /\ r.ph = "wait" /\ r.until = k
      BY <2>1, <2>4, CallRecords
    <2> QED
      BY <2>2, <2>3, <2>4, <2>5, <1>1, <1>3
  <1>4. ASSUME NEW op \in TimedOps, NEW t \in Ctx, NEW i \in -1..MaxId, NEW k \in Key,
               me \in Ctx, Enter(op, t, i, k)
        PROVE  SetsCall(me, op, "enter") /\ call'[me].tgt = t /\ call'[me].gid = i
    <2>1. op \in {"none", "sleep"} \cup CallNames /\ k \in 0..FOREVER
      BY DEF CallNames, TimedOps, Key
    <2>2. call' = [call EXCEPT ![me] = CallOf(op, "enter", t, i, k)]
      BY <1>4 DEF Enter
    <2>3. LET r == CallOf(op, "enter", t, i, k)
          IN  r \in Call /\ r.op = op /\ r.ph = "enter" /\ r.tgt = t /\ r.gid = i
      BY <2>1, CallRecords
    <2> QED
      BY <2>2, <2>3, <1>1, <1>4
  <1>5. ASSUME me \in Ctx, Returned PROVE SetsCall(me, "none", "wait")
    BY <1>5, <1>9 DEF Returned
  <1>10. ASSUME NEW c \in Ctx, mnthr_ctx_finalize(c) PROVE KeepsCalls
    <2>1. \A d \in Ctx : LET u == [call[d] EXCEPT !.exitrc = rc[c]]
                         IN  /\ u.op = call[d].op /\ u.ph = call[d].ph /\ u.until = call[d].until
                             /\ u.tgt = call[d].tgt /\ u.gid = call[d].gid
      BY <1>0, CallUpdates
    <2>2. call' = [d \in Ctx |-> IF call[d].tgt = c /\ call[d].gid = id[c]
                                 THEN [call[d] EXCEPT !.exitrc = rc[c]] ELSE call[d]]
      BY <1>10 DEF mnthr_ctx_finalize
    <2> QED
      BY <2>1, <2>2 DEF KeepsCalls
  <1>6. ASSUME me \in Ctx, Exit PROVE KeepsCalls
    BY <1>6, <1>10 DEF Exit
  <1>7. ASSUME me \in Ctx, TimedSleep
        PROVE  SetsCall(me, call[me].op, "wait") /\ Targets(me)
    <2> DEFINE u == [call[me] EXCEPT !.ph = "wait"]
    <2>1. /\ u \in Call /\ u.op = call[me].op /\ u.ph = "wait" /\ u.until = call[me].until
          /\ u.tgt = call[me].tgt /\ u.gid = call[me].gid
      BY <1>0, <1>7, CallUpdates
    <2>2. call' = [call EXCEPT ![me] = u]
      BY <1>7 DEF TimedSleep
    <2> HIDE DEF u
    <2> QED
      BY <2>1, <2>2, <1>1, <1>7 DEF Targets
  <1>8. ASSUME NEW c \in Ctx, state[c] \in RESUMABLE, poller_resume(c)
        PROVE  IF call[c].op \in {"none", "sleep"} THEN SetsCall(c, "none", "wait")
               ELSE SetsCall(c, call[c].op, call[c].ph) /\ Targets(c)
    <2>1. call' = IF call[c].op \in {"none", "sleep"} THEN [call EXCEPT ![c] = NoCall] ELSE call
      BY <1>8 DEF poller_resume
    <2> QED
      BY <2>1, <1>9 DEF SetsCall, OthersKeep, Targets
  <1> QED
    BY <1>2, <1>3, <1>4, <1>5, <1>6, <1>7, <1>8, <1>10

\* The same, by library call.
LEMMA CallSteps ==
    ASSUME TameInv
    PROVE  /\ \A d \in Delays : mnthr_sleep(d) =>
                 SetsCall(me, "sleep", "wait") /\ call'[me].until = Deadline(d)
           /\ mnthr_yield => SetsCall(me, "sleep", "wait") /\ call'[me].until = RESUME_NOW
           /\ mnthr_giveup => SetsCall(me, "sleep", "wait") /\ call'[me].until = FOREVER
           /\ mnthr_signal_subscribe => SetsCall(me, "subscribe", "wait")
           /\ \A d \in Delays : mnthr_signal_subscribe_with_timeout(d) =>
                 SetsCall(me, "subscribe_with_timeout", "wait")
           /\ \A t \in Ctx, d \in Delays :
                 /\ mnthr_set_interrupt_and_join_with_timeout(t, d) =>
                       /\ SetsCall(me, "set_interrupt_and_join_with_timeout", "enter")
                       /\ call'[me].tgt = t /\ call'[me].gid = id[t]
                 /\ mnthr_wait_for(t, d) =>
                       /\ SetsCall(me, "wait_for", "enter")
                       /\ call'[me].tgt = t /\ call'[me].gid = co_id
                 /\ mnthr_peek(t, d) =>
                       /\ SetsCall(me, "peek", "enter")
                       /\ call'[me].tgt = t /\ call'[me].gid = id[t]
           /\ Exit => KeepsCalls
           /\ TimedSleep => SetsCall(me, call[me].op, "wait") /\ Targets(me)
           /\ TimedReturnGone \/ subscribe_return => SetsCall(me, "none", "wait")
           /\ wait_for_timeout \/ peek_timeout \/ interrupt_and_join_timeout =>
                 IF state[call[me].tgt] \in RESUMABLE THEN SetsCall(me, "none", "wait")
                 ELSE KeepsCalls
  <1>0. /\ TypeOK
        /\ ctl = "thread" => me \in Ctx
        /\ id \in [Ctx -> -1..MaxId] /\ co_id \in -1..MaxId /\ now \in Nat
        /\ \A k \in Key : k \in 0..FOREVER
        /\ 0 \in 0..FOREVER
        /\ RESUME_NOW \in Key /\ FOREVER \in Key
        /\ \A d \in Delays : InHorizon(d) => Deadline(d) \in Key
    <2>1. TypeOK /\ (ctl = "thread" => me \in Ctx)
      BY DEF TameInv, BaseInv, Running
    <2>2. id \in [Ctx -> -1..MaxId] /\ co_id \in 0..MaxId /\ now \in Nat
      BY <2>1 DEF TypeOK, SQTypeOK
    <2>3. co_id \in -1..MaxId /\ 0 \in 0..FOREVER /\ \A k \in Key : k \in 0..FOREVER
      BY <2>2, SchedulerAssumption, TimeAssumption DEF Key
    <2> QED
      BY <2>1, <2>2, <2>3, Keys
  <1>1. ASSUME NEW k \in Key, NEW name, Calling(name), SleepUntil(k)
        PROVE  SetsCall(me, "sleep", "wait") /\ call'[me].until = k
    BY <1>0, <1>1, CallFields DEF Calling, SleepUntil
  <1>2. ASSUME NEW d \in Delays, mnthr_sleep(d)
        PROVE  SetsCall(me, "sleep", "wait") /\ call'[me].until = Deadline(d)
    BY <1>0, <1>1, <1>2 DEF mnthr_sleep
  <1>3. mnthr_yield => SetsCall(me, "sleep", "wait") /\ call'[me].until = RESUME_NOW
    BY <1>0, <1>1 DEF mnthr_yield
  <1>4. mnthr_giveup => SetsCall(me, "sleep", "wait") /\ call'[me].until = FOREVER
    BY <1>0, <1>1 DEF mnthr_giveup
  <1>5. mnthr_signal_subscribe => SetsCall(me, "subscribe", "wait")
    BY <1>0, CallFields DEF mnthr_signal_subscribe, Calling
  <1>6. ASSUME NEW d \in Delays, mnthr_signal_subscribe_with_timeout(d)
        PROVE  SetsCall(me, "subscribe_with_timeout", "wait")
    <2>1. PICK k \in 0..FOREVER : k = Deadline(d)
      BY <1>0, <1>6 DEF mnthr_signal_subscribe_with_timeout
    <2> QED
      BY <2>1, <1>0, <1>6, CallFields DEF mnthr_signal_subscribe_with_timeout, Calling
  <1>7. ASSUME NEW t \in Ctx, NEW d \in Delays
        PROVE  /\ mnthr_set_interrupt_and_join_with_timeout(t, d) =>
                     /\ SetsCall(me, "set_interrupt_and_join_with_timeout", "enter")
                     /\ call'[me].tgt = t /\ call'[me].gid = id[t]
               /\ mnthr_wait_for(t, d) =>
                     /\ SetsCall(me, "wait_for", "enter")
                     /\ call'[me].tgt = t /\ call'[me].gid = co_id
               /\ mnthr_peek(t, d) =>
                     /\ SetsCall(me, "peek", "enter")
                     /\ call'[me].tgt = t /\ call'[me].gid = id[t]
    <2>1. ASSUME NEW op \in TimedOps, NEW i \in -1..MaxId, Calling(op), InHorizon(d),
                 Enter(op, t, i, Deadline(d))
          PROVE  SetsCall(me, op, "enter") /\ call'[me].tgt = t /\ call'[me].gid = i
      BY <1>0, <2>1, CallFields DEF Calling
    <2>2. /\ "set_interrupt_and_join_with_timeout" \in TimedOps
          /\ "wait_for" \in TimedOps /\ "peek" \in TimedOps /\ id[t] \in -1..MaxId
      BY <1>0 DEF TimedOps
    <2>3. mnthr_set_interrupt_and_join_with_timeout(t, d) =>
             /\ SetsCall(me, "set_interrupt_and_join_with_timeout", "enter")
             /\ call'[me].tgt = t /\ call'[me].gid = id[t]
      BY <2>1, <2>2 DEF mnthr_set_interrupt_and_join_with_timeout
    <2>4. mnthr_wait_for(t, d) =>
             SetsCall(me, "wait_for", "enter") /\ call'[me].tgt = t /\ call'[me].gid = co_id
      BY <2>1, <2>2, <1>0 DEF mnthr_wait_for
    <2>5. mnthr_peek(t, d) =>
             SetsCall(me, "peek", "enter") /\ call'[me].tgt = t /\ call'[me].gid = id[t]
      BY <2>1, <2>2 DEF mnthr_peek
    <2> QED
      BY <2>3, <2>4, <2>5
  <1>8. Exit => KeepsCalls
    BY <1>0, CallFields DEF Exit, Calling
  <1>9. TimedSleep => SetsCall(me, call[me].op, "wait") /\ Targets(me)
    BY <1>0, CallFields DEF TimedSleep
  <1>10. TimedReturnGone \/ subscribe_return => SetsCall(me, "none", "wait")
    BY <1>0, CallFields DEF TimedReturnGone, subscribe_return, Returning
  <1>11. wait_for_timeout \/ peek_timeout \/ interrupt_and_join_timeout =>
            IF state[call[me].tgt] \in RESUMABLE THEN SetsCall(me, "none", "wait")
            ELSE KeepsCalls
    <2>1. wait_for_timeout \/ peek_timeout \/ interrupt_and_join_timeout =>
             /\ me \in Ctx
             /\ IF state[call[me].tgt] \in RESUMABLE THEN Returned ELSE UNCHANGED call
      BY <1>0 DEF wait_for_timeout, peek_timeout, interrupt_and_join_timeout, AssertFails,
                  Returning
    <2> QED
      BY <2>1, <1>0, CallFields
  <1> QED
    BY <1>2, <1>3, <1>4, <1>5, <1>6, <1>7, <1>8, <1>9, <1>10, <1>11

\* The owner of the event stays the thread that is in a call to wait for it, and the
\* calls under way stay among those the application makes.
LEMMA SubscriberKept ==
    ASSUME TameInv, Next
    PROVE  Subscriber' /\ CallsMade' /\ Unstarted'
  <1> DEFINE Subs == {"subscribe", "subscribe_with_timeout"}
             N == \A c \in Ctx : \A x \in {"SIGNAL_SUBSCRIBE", "DORMANT"} :
                     state'[c] = x => state[c] = x
             G == \A c \in Ctx : /\ state'[c] = "SIGNAL_SUBSCRIBE" => owner' = c
                                 /\ owner' = c <=> call'[c].op \in Subs
                                 /\ call'[c].op \in Calls \cup {"none", "sleep"}
                                 /\ state'[c] = "DORMANT" => call'[c].op = "none"
  <1> SUFFICES G
    BY DEF Subscriber, CallsMade, Unstarted
  <1>0. /\ state \in [Ctx -> RESUMABLE \cup {"DORMANT", "RESUMED"}]
        /\ \A c \in Ctx : /\ state[c] = "SIGNAL_SUBSCRIBE" => owner = c
                          /\ owner = c <=> call[c].op \in Subs
                          /\ call[c].op \in Calls \cup {"none", "sleep"}
                          /\ state[c] = "DORMANT" => call[c].op = "none"
        /\ ctl = "thread" => me \in Ctx /\ state[me] # "DORMANT" /\ (state[me] = "RESUMED" \/ call[me].ph = "enter")
        /\ NULL \notin Ctx
    BY NullAssumption DEF TameInv, BaseInv, TypeOK, Running, Control, Subscriber,
                           CallsMade, Unstarted
  <1>1. ASSUME NEW c, NEW x, x \notin {"SIGNAL_SUBSCRIBE", "DORMANT"}, state' = [state EXCEPT ![c] = x] PROVE N
    BY <1>0, <1>1
  <1>2. ASSUME NEW c, NEW x, NEW d, NEW y, x \notin {"SIGNAL_SUBSCRIBE", "DORMANT"},
               y \notin {"SIGNAL_SUBSCRIBE", "DORMANT"},
               state' = [state EXCEPT ![c] = x, ![d] = y]
        PROVE  N
    BY <1>0, <1>2
  <1>3. UNCHANGED state => N
    OBVIOUS
  <1>4. N /\ UNCHANGED owner /\ KeepsCalls => G
    BY <1>0 DEF KeepsCalls
  <1>5. N /\ UNCHANGED <<owner, call>> => G
    BY <1>0
  <1>6. ASSUME N, UNCHANGED owner, NEW c \in Ctx, NEW op \in Calls \cup {"none", "sleep"}, NEW ph,
               SetsCall(c, op, ph), op = call[c].op \/ (call[c].op \notin Subs /\ op \notin Subs),
               op = "none" \/ state'[c] # "DORMANT"
        PROVE  G
    BY <1>0, <1>6 DEF SetsCall, OthersKeep
  <1>7. ASSUME NEW w, resume_waitq_head(w) PROVE G
    <2>1. N
      BY <1>1, <1>3, <1>7 DEF resume_waitq_head, set_resume
    <2> QED
      BY <2>1, <1>5, <1>7 DEF resume_waitq_head
  <1>8. ASSUME NEW name, Calling(name)
        PROVE  me \in Ctx /\ call[me].op = "none" /\ name \in Calls
    BY <1>0, <1>8 DEF Calling
  <1>9. ASSUME owner = NULL, owner' = me, me \in Ctx, NEW op \in Calls \cap Subs,
               SetsCall(me, op, "wait"), state' = [state EXCEPT ![me] = "SIGNAL_SUBSCRIBE"]
        PROVE  G
    BY <1>0, <1>9 DEF SetsCall, OthersKeep
  <1>10. CASE Switching
    <2>1. ASSUME NEW d \in Delays, mnthr_sleep(d) PROVE G
      BY <2>1, <1>0, <1>1, <1>6, <1>8, CallSteps DEF mnthr_sleep, SleepUntil
    <2>2. CASE mnthr_yield \/ mnthr_giveup
      BY <2>2, <1>0, <1>1, <1>6, <1>8, CallSteps DEF mnthr_yield, mnthr_giveup, SleepUntil
    <2>3. CASE Exit
      <3>1. /\ state' = [state EXCEPT ![me] = "DORMANT"] /\ UNCHANGED owner /\ KeepsCalls
            /\ Calling("exit")
        BY <2>3, CallSteps DEF Exit, mnthr_ctx_finalize
      <3> QED
        BY <3>1, <1>0, <1>8 DEF KeepsCalls
    <2>4. CASE ExitEINTR \/ mnthr_cond_wait
      BY <2>4, <1>1, <1>3, <1>5 DEF ExitEINTR, mnthr_cond_wait, covars
    <2>5. ASSUME NEW t \in Ctx, mnthr_join(t) PROVE G
      BY <2>5, <1>1, <1>5 DEF mnthr_join
    <2>6. ASSUME NEW t \in Ctx, mnthr_set_interrupt_and_join(t) PROVE G
      <3>1. N
        BY <2>6, <1>0 DEF mnthr_set_interrupt_and_join
      <3> QED
        BY <3>1, <2>6, <1>5 DEF mnthr_set_interrupt_and_join
    <2>7. ASSUME NEW t \in Ctx, NEW d \in Delays,
                 mnthr_set_interrupt_and_join_with_timeout(t, d)
          PROVE  G
      <3>1. N /\ state'[me] # "DORMANT"
        BY <2>7, <1>0, <1>2, <1>8 DEF mnthr_set_interrupt_and_join_with_timeout
      <3> QED
        BY <3>1, <2>7, <1>6, <1>8, CallSteps DEF mnthr_set_interrupt_and_join_with_timeout
    <2>8. ASSUME NEW t \in Ctx, NEW d \in Delays, mnthr_wait_for(t, d) PROVE G
      <3>1. N /\ state'[me] # "DORMANT"
        BY <2>8, <1>0, <1>2, <1>8 DEF mnthr_wait_for
      <3> QED
        BY <3>1, <2>8, <1>6, <1>8, CallSteps DEF mnthr_wait_for
    <2>9. ASSUME NEW t \in Ctx, NEW d \in Delays, mnthr_peek(t, d) PROVE G
      BY <2>9, <1>0, <1>1, <1>6, <1>8, CallSteps DEF mnthr_peek
    <2>10. CASE mnthr_signal_subscribe
      BY <2>10, <1>8, <1>9, CallSteps DEF mnthr_signal_subscribe
    <2>11. ASSUME NEW d \in Delays, mnthr_signal_subscribe_with_timeout(d) PROVE G
      BY <2>11, <1>8, <1>9, CallSteps DEF mnthr_signal_subscribe_with_timeout
    <2>12. ASSUME NEW v \in Retvals, mnthr_signal_error_and_join(v) PROVE G
      <3>1. N
        BY <2>12, <1>0 DEF mnthr_signal_error_and_join
      <3> QED
        BY <3>1, <2>12, <1>5 DEF mnthr_signal_error_and_join
    <2> QED
      BY <1>10, <2>1, <2>2, <2>3, <2>4, <2>5, <2>6, <2>7, <2>8, <2>9, <2>10, <2>11, <2>12
         DEF Switching
  <1>11. CASE Continuing
    <2>1. ASSUME NEW c \in Ctx, mnthr_new(c) \/ mnthr_incabac(c) \/ mnthr_decabac(c) PROVE G
      BY <2>1, <1>3, <1>5 DEF mnthr_new, mnthr_incabac, mnthr_decabac
    <2>2. ASSUME NEW c \in Ctx, mnthr_run(c) \/ mnthr_spawn(c) \/ mnthr_shutdown(c) PROVE G
      BY <2>2, <1>1, <1>5 DEF mnthr_run, mnthr_spawn, mnthr_shutdown, set_resume
    <2>3. CASE mnthr_gc \/ mnthr_cond_signal_all
      BY <2>3, <1>3, <1>5 DEF mnthr_gc, mnthr_cond_signal_all, covars
    <2>4. ASSUME NEW v \in Retvals, mnthr_set_retval(v) PROVE G
      BY <2>4, <1>3, <1>5 DEF mnthr_set_retval
    <2>5. ASSUME NEW c \in Ctx, NEW flag \in BOOLEAN, mnthr_set_prio(c, flag) PROVE G
      BY <2>5, <1>3, <1>5 DEF mnthr_set_prio
    <2>6. CASE mnthr_cond_signal_one
      BY <2>6, <1>7 DEF mnthr_cond_signal_one
    <2>7. ASSUME NEW t \in Ctx, mnthr_set_interrupt(t) PROVE G
      BY <2>7, <1>1, <1>5 DEF mnthr_set_interrupt
    <2>8. CASE mnthr_signal_send
      BY <2>8, <1>1, <1>5 DEF mnthr_signal_send, set_resume
    <2>9. ASSUME NEW v \in Retvals, mnthr_signal_error(v) PROVE G
      BY <2>9, <1>1, <1>5 DEF mnthr_signal_error, set_resume
    <2> QED
      BY <1>11, <2>1, <2>2, <2>3, <2>4, <2>5, <2>6, <2>7, <2>8, <2>9 DEF Continuing
  <1>12. CASE Forced
    <2>1. CASE resume_waitq_all
      BY <2>1, <1>7 DEF resume_waitq_all
    <2>2. CASE push_free_ctx
      BY <2>2, <1>3, <1>5 DEF push_free_ctx, covars
    <2>3. ASSUME NEW c \in Ctx, mnthr_ctx_fini(c) PROVE G
      BY <2>3, <1>3, <1>5 DEF mnthr_ctx_fini
    <2>4. CASE TimedSleep
      BY <2>4, <1>0, <1>3, <1>6, CallSteps DEF TimedSleep, covars
    <2>5. CASE TimedReturnGone
      <3>1. me \in Ctx /\ call[me].op \notin Subs
        BY <2>5, <1>0 DEF TimedReturnGone, Returning, TimedOps
      <3> QED
        BY <3>1, <2>5, <1>3, <1>6, CallSteps DEF TimedReturnGone, covars
    <2>6. CASE subscribe_return
      <3>1. me \in Ctx /\ call[me].op \in Subs /\ state[me] = "RESUMED" /\ owner = me
        BY <2>6, <1>0 DEF subscribe_return, Returning
      <3>2. SetsCall(me, "none", "wait") /\ owner' = NULL /\ UNCHANGED state
        BY <2>6, CallSteps DEF subscribe_return, covars
      <3> QED
        BY <3>1, <3>2, <1>0 DEF SetsCall, OthersKeep
    <2>7. CASE wait_for_timeout \/ peek_timeout \/ interrupt_and_join_timeout
      <3>1. N
        BY <2>7, <1>1, <1>3 DEF wait_for_timeout, peek_timeout, interrupt_and_join_timeout,
                                AssertFails, covars
      <3>2. me \in Ctx /\ call[me].op \notin Subs /\ UNCHANGED owner
        BY <2>7, <1>0 DEF wait_for_timeout, peek_timeout, interrupt_and_join_timeout,
                          Returning, AssertFails
      <3> QED
        BY <3>1, <3>2, <2>7, <1>4, <1>6, CallSteps
    <2> QED
      BY <1>12, <2>1, <2>2, <2>3, <2>4, <2>5, <2>6, <2>7 DEF Forced
  <1>13. CASE Poller
    <2>1. ASSUME NEW c \in Ctx, state[c] \in RESUMABLE, poller_resume(c) PROVE G
      <3>1. N /\ UNCHANGED owner /\ state'[c] # "DORMANT"
        BY <2>1, <1>0, <1>1 DEF poller_resume
      <3>2. TypeOK
        BY DEF TameInv, BaseInv
      <3> QED
        BY <3>1, <3>2, <2>1, <1>0, <1>6, CallFields
    <2>2. CASE sift_host \/ sift_bucket
      BY <2>1, <2>2, HandedIsResumable DEF sift_host, sift_bucket
    <2>3. ASSUME NEW t, loop_prepare(t) PROVE G
      BY <2>3, <1>3, <1>5 DEF loop_prepare, threadvars, covars
    <2>4. ASSUME NEW k, sift_collect(k) PROVE G
      BY <2>4, <1>3, <1>5 DEF sift_collect, threadvars, covars
    <2>5. CASE loop_break \/ sift_collected \/ sift_done
      BY <2>5, <1>3, <1>5 DEF loop_break, sift_collected, sift_done, threadvars, covars
    <2> QED
      BY <1>13, <2>2, <2>3, <2>4, <2>5 DEF Poller
  <1> QED
    BY <1>10, <1>11, <1>12, <1>13 DEF Next

\* Who has the processor: the main context while it drains the queue of a thread that
\* has exited, one thread at a time, and in the midst of a timed wait nobody else.
LEMMA ControlKept ==
    ASSUME TameInv, Tame, Next
    PROVE  Control'
  <1> DEFINE G == /\ ctl' = "thread" => /\ phase' = "run" /\ dying' = NULL
                                        /\ state'[me'] = "RESUMED" \/ call'[me'].ph = "enter"
                  /\ \A c \in Ctx : call'[c].ph = "enter" =>
                        /\ ctl' = "thread" /\ c = me' /\ drain' = NULL /\ doomed' = {}
                        /\ state'[c] \in RESUMABLE
                  /\ drain' # NULL => phase' # "collect"
                  /\ ctl' = "main" /\ drain' # NULL => me' = NULL
                  /\ dying' # NULL => ctl' = "main" /\ phase' = "run" /\ me' = NULL /\ doomed' = {}
                  /\ ctl' = "main" /\ doomed' # {} => phase' = "main"
                  /\ phase' = "main" => me' = NULL /\ ctl' = "main"
             Waiting == \A c \in Ctx : call'[c].ph # "enter"
             Same == UNCHANGED <<phase, dying, drain, doomed>>
  <1> SUFFICES G
    BY DEF Control
  <1>0. /\ ctl = "thread" => /\ phase = "run" /\ dying = NULL
                             /\ state[me] = "RESUMED" \/ call[me].ph = "enter"
        /\ \A c \in Ctx : call[c].ph = "enter" =>
              ctl = "thread" /\ c = me /\ drain = NULL /\ doomed = {} /\ state[c] \in RESUMABLE
        /\ drain # NULL => phase # "collect"
        /\ ctl = "main" /\ drain # NULL => me = NULL
        /\ dying # NULL => ctl = "main" /\ phase = "run" /\ me = NULL /\ doomed = {}
        /\ ctl = "main" /\ doomed # {} => phase = "main"
        /\ phase = "main" => me = NULL /\ ctl = "main"
    BY DEF TameInv, Control
  <1>1. /\ state \in [Ctx -> RESUMABLE \cup {"DORMANT", "RESUMED"}]
        /\ call \in [Ctx -> Call]
        /\ ctl \in {"main", "thread"}
        /\ ctl = "thread" => me \in Ctx
        /\ "RESUMED" \notin RESUMABLE
        /\ drain # NULL => drain \in WaitQ /\ waitq[drain] # <<>>
        /\ NULL \notin WaitQ /\ NULL \notin Ctx
    BY NullAssumption, SchedulerAssumption
       DEF TameInv, BaseInv, TypeOK, Running, Draining, RESUMABLE, WaitQ
  <1>2. ASSUME NEW name, Calling(name)
        PROVE  /\ ctl = "thread" /\ me \in Ctx /\ phase = "run" /\ dying = NULL /\ drain = NULL
               /\ doomed = {} /\ state[me] = "RESUMED"
               /\ \A c \in Ctx : call[c].ph # "enter"
    BY <1>0, <1>2, NotCollecting DEF Calling
  <1>3. ASSUME NEW name, CallingOrMain(name)
        PROVE  /\ dying = NULL /\ drain = NULL /\ doomed = {} /\ phase \in {"run", "main"}
               /\ ctl = "thread" => phase = "run" /\ state[me] = "RESUMED"
               /\ ctl = "main" => phase = "main"
               /\ \A c \in Ctx : call[c].ph # "enter"
    BY <1>0, <1>2, <1>3 DEF CallingOrMain, MainRuns
  <1>4. ASSUME NEW name, Calling(name), Same, ctl' = "main", Waiting PROVE G
    BY <1>2, <1>4
  <1>5. ASSUME UNCHANGED <<me, ctl>>, Same, KeepsCalls \/ UNCHANGED call,
               ctl = "thread" => state'[me] = state[me]
        PROVE  G
    BY <1>0, <1>1, <1>5 DEF KeepsCalls
  <1>6. ASSUME NEW op, Calling(op), Same, UNCHANGED <<me, ctl>>, SetsCall(me, op, "enter"),
               state'[me] \in RESUMABLE
        PROVE  G
    BY <1>2, <1>6 DEF SetsCall, OthersKeep
  <1>7. ASSUME NEW name, Calling(name), NEW op, SetsCall(me, op, "wait") PROVE Waiting
    BY <1>2, <1>7 DEF SetsCall, OthersKeep
  <1>8. ASSUME NEW name, Calling(name), UNCHANGED call \/ KeepsCalls PROVE Waiting
    BY <1>2, <1>8 DEF KeepsCalls
  <1>9. ASSUME NEW c, NEW k, Puts(c, k) PROVE UNCHANGED phase
    BY <1>9 DEF Puts, Schedule
  <1>10. CASE Switching
    <2>1. ASSUME NEW d \in Delays, mnthr_sleep(d) PROVE G
      BY <2>1, <1>4, <1>7, CallSteps
         DEF mnthr_sleep, SleepUntil, Enqueue, Block, SwitchToMain, wqvars, ctxvars
    <2>2. CASE mnthr_yield \/ mnthr_giveup
      BY <2>2, <1>4, <1>7, CallSteps
         DEF mnthr_yield, mnthr_giveup, SleepUntil, Enqueue, Block, SwitchToMain, wqvars, ctxvars
    <2>3. CASE Exit
      <3>1. /\ Calling("exit") /\ me' = NULL /\ ctl' = "main" /\ UNCHANGED <<phase, doomed>>
        BY <2>3 DEF Exit
      <3>2. Waiting
        BY <3>1, <2>3, <1>8, CallSteps
      <3> QED
        BY <3>1, <3>2, <1>2
    <2>4. CASE ExitEINTR
      BY <2>4, <1>4, <1>8 DEF ExitEINTR, sqvars, wqvars, ctxvars
    <2>5. CASE mnthr_cond_wait
      BY <2>5, <1>4, <1>8 DEF mnthr_cond_wait, append_me_to_waitq, SwitchToMain, sqvars, ctxvars
    <2>6. ASSUME NEW t \in Ctx, mnthr_join(t) PROVE G
      BY <2>6, <1>4, <1>8 DEF mnthr_join, append_me_to_waitq, SwitchToMain, sqvars, ctxvars
    <2>7. ASSUME NEW t \in Ctx, mnthr_set_interrupt_and_join(t) PROVE G
      BY <2>7, <1>4, <1>8 DEF mnthr_set_interrupt_and_join, SetInterrupt, Enqueue,
                              append_me_to_waitq, SwitchToMain, ctxvars
    <2>8. ASSUME NEW t \in Ctx, NEW d \in Delays,
                 mnthr_set_interrupt_and_join_with_timeout(t, d)
          PROVE  G
      <3>1. state'[me] \in RESUMABLE
        BY <2>8, <1>1, <1>2 DEF mnthr_set_interrupt_and_join_with_timeout, RESUMABLE
      <3> QED
        BY <3>1, <2>8, <1>6, CallSteps DEF mnthr_set_interrupt_and_join_with_timeout, SetInterrupt,
                                           Enqueue, Enter, append_me_to_waitq, ctxvars
    <2>9. ASSUME NEW t \in Ctx, NEW d \in Delays, mnthr_wait_for(t, d) PROVE G
      <3>1. state'[me] \in RESUMABLE
        BY <2>9, <1>1, <1>2 DEF mnthr_wait_for, RESUMABLE
      <3> QED
        BY <3>1, <2>9, <1>6, CallSteps
           DEF mnthr_wait_for, vnew_body, Enqueue, Enter, append_me_to_waitq
    <2>10. ASSUME NEW t \in Ctx, NEW d \in Delays, mnthr_peek(t, d) PROVE G
      <3>1. state'[me] \in RESUMABLE
        BY <2>10, <1>1, <1>2 DEF mnthr_peek, RESUMABLE
      <3> QED
        BY <3>1, <2>10, <1>6, CallSteps DEF mnthr_peek, Enter, append_me_to_waitq, sqvars, ctxvars
    <2>11. CASE mnthr_signal_subscribe
      BY <2>11, <1>4, <1>7, CallSteps
         DEF mnthr_signal_subscribe, Block, SwitchToMain, sqvars, wqvars, ctxvars
    <2>12. ASSUME NEW d \in Delays, mnthr_signal_subscribe_with_timeout(d) PROVE G
      BY <2>12, <1>4, <1>7, CallSteps
         DEF mnthr_signal_subscribe_with_timeout, Enqueue, Block, SwitchToMain, wqvars, ctxvars
    <2>13. ASSUME NEW v \in Retvals, mnthr_signal_error_and_join(v) PROVE G
      BY <2>13, <1>4, <1>8
         DEF mnthr_signal_error_and_join, Enqueue, append_me_to_waitq, SwitchToMain, ctxvars
    <2> QED
      BY <1>10, <2>1, <2>2, <2>3, <2>4, <2>5, <2>6, <2>7, <2>8, <2>9, <2>10, <2>11, <2>12, <2>13
         DEF Switching
  <1>11. ASSUME NEW w \in WaitQ, waitq[w] # <<>>, phase # "collect", resume_waitq_head(w)
         PROVE  /\ UNCHANGED <<me, ctl, phase, dying, doomed, call>>
                /\ ctl = "thread" => state'[me] = state[me]
    <2>1. UNCHANGED <<me, ctl, dying, doomed, call>>
      BY <1>11 DEF resume_waitq_head, ctxvars
    <2>2. \/ UNCHANGED <<sqvars, state>>
          \/ \E t \in Ctx : /\ t # me /\ Puts(t, RESUME_NOW)
                            /\ state' = [state EXCEPT ![t] = "SET_RESUME"]
      BY <1>11, HeadPuts
    <2> QED
      BY <2>1, <2>2, <1>1, <1>9 DEF sqvars
  <1>12. CASE Continuing
    <2>1. ASSUME NEW c \in Ctx, mnthr_new(c) \/ mnthr_incabac(c) \/ mnthr_decabac(c) PROVE G
      BY <2>1, <1>5 DEF mnthr_new, vnew_body, mnthr_incabac, mnthr_decabac, sqvars, wqvars, ctxvars
    <2>2. ASSUME NEW c \in Ctx, mnthr_run(c) PROVE G
      BY <2>2, <1>1, <1>3, <1>5 DEF mnthr_run, set_resume, Enqueue, wqvars, ctxvars
    <2>3. ASSUME NEW c \in Ctx, mnthr_spawn(c) \/ mnthr_shutdown(c) PROVE G
      <3>1. ctl = "thread" => c # me
        BY <2>3, NewIsIdle DEF mnthr_spawn, mnthr_shutdown
      <3> QED
        BY <3>1, <2>3, <1>1, <1>5
           DEF mnthr_spawn, mnthr_shutdown, vnew_body, set_resume, Enqueue, wqvars, ctxvars
    <2>4. CASE mnthr_gc
      <3>1. CallingOrMain("gc") /\ UNCHANGED <<me, ctl, phase, dying, drain, call, state>>
        BY <2>4 DEF mnthr_gc, sqvars, wqvars, ctxvars, covars
      <3> QED
        BY <3>1, <1>0, <1>1, <1>3
    <2>5. CASE mnthr_cond_signal_all
      <3>1. /\ Calling("cond_signal_all")
            /\ UNCHANGED <<me, ctl, phase, dying, doomed, call, state>>
        BY <2>5 DEF mnthr_cond_signal_all, sqvars, ctxvars, covars
      <3> QED
        BY <3>1, <1>2
    <2>6. ASSUME NEW v \in Retvals, mnthr_set_retval(v) PROVE G
      BY <2>6, <1>5 DEF mnthr_set_retval, sqvars, wqvars, ctxvars
    <2>7. ASSUME NEW c \in Ctx, NEW flag \in BOOLEAN, mnthr_set_prio(c, flag) PROVE G
      BY <2>7, <1>5 DEF mnthr_set_prio, sqvars, wqvars, ctxvars
    <2>8. CASE mnthr_cond_signal_one
      <3>1. Cond \in WaitQ /\ waitq[Cond] # <<>> /\ resume_waitq_head(Cond) /\ phase # "collect"
        BY <2>8, <1>2 DEF mnthr_cond_signal_one, WaitQ
      <3> QED
        BY <3>1, <2>8, <1>5, <1>11 DEF mnthr_cond_signal_one
    <2>9. ASSUME NEW t \in Ctx, mnthr_set_interrupt(t) PROVE G
      BY <2>9, <1>1, <1>5 DEF mnthr_set_interrupt, SetInterrupt, Enqueue, wqvars, ctxvars
    <2>10. CASE mnthr_signal_send
      BY <2>10, <1>1, <1>2, <1>5
         DEF mnthr_signal_send, Subscribed, set_resume, Enqueue, wqvars, ctxvars
    <2>11. ASSUME NEW v \in Retvals, mnthr_signal_error(v) PROVE G
      BY <2>11, <1>1, <1>2, <1>5
         DEF mnthr_signal_error, Subscribed, set_resume, Enqueue, wqvars, ctxvars
    <2> QED
      BY <1>12, <2>1, <2>2, <2>3, <2>4, <2>5, <2>6, <2>7, <2>8, <2>9, <2>10, <2>11 DEF Continuing
  <1>13. CASE Forced
    <2>1. CASE resume_waitq_all
      <3>1. /\ drain \in WaitQ /\ waitq[drain] # <<>> /\ phase # "collect"
            /\ resume_waitq_head(drain) /\ drain' \in {NULL, drain}
        BY <2>1, <1>0, <1>1 DEF resume_waitq_all
      <3>2. /\ UNCHANGED <<me, ctl, phase, dying, doomed, call>>
            /\ ctl = "thread" => state'[me] = state[me]
        BY <3>1, <1>11
      <3> QED
        BY <3>1, <3>2, <1>0
    <2>2. CASE push_free_ctx
      <3>1. /\ UNCHANGED <<me, ctl, phase, drain, doomed, call, state>> /\ dying' = NULL
        BY <2>2 DEF push_free_ctx, sqvars, covars
      <3> QED
        BY <3>1, <1>0
    <2>3. ASSUME NEW c \in Ctx, mnthr_ctx_fini(c) PROVE G
      <3>1. doomed # {}
        BY <2>3 DEF mnthr_ctx_fini, First
      <3>2. /\ UNCHANGED <<me, ctl, phase, dying, call, state>> /\ drain = NULL
            /\ doomed' = doomed \/ doomed' = doomed \ {c}
        BY <2>3 DEF mnthr_ctx_fini, sqvars
      <3> QED
        BY <3>1, <3>2, <1>0, <1>1
    <2>4. CASE TimedSleep
      <3>1. /\ me \in Ctx /\ ctl = "thread" /\ call[me].ph = "enter"
            /\ ctl' = "main" /\ UNCHANGED <<phase, dying, drain, doomed>>
        BY <2>4, <1>1 DEF TimedSleep, SwitchToMain, wqvars, ctxvars
      <3>2. SetsCall(me, call[me].op, "wait")
        BY <2>4, CallSteps
      <3> QED
        BY <3>1, <3>2, <1>0 DEF SetsCall, OthersKeep
    <2>5. ASSUME me \in Ctx, ctl = "thread", call[me].ph = "wait", SetsCall(me, "none", "wait"),
                 UNCHANGED <<me, ctl>>, Same, state'[me] = state[me]
          PROVE  G
      BY <2>5, <1>0 DEF SetsCall, OthersKeep
    <2>6. CASE TimedReturnGone \/ subscribe_return
      BY <2>5, <2>6, <1>1, CallSteps
         DEF TimedReturnGone, subscribe_return, Returning, sqvars, covars, wqvars, ctxvars
    <2>7. CASE wait_for_timeout \/ peek_timeout \/ interrupt_and_join_timeout
      <3>1. /\ me \in Ctx /\ ctl = "thread" /\ call[me].ph = "wait" /\ state[me] = "RESUMED"
            /\ UNCHANGED <<me, ctl>>
        BY <2>7, <1>0, <1>1 DEF wait_for_timeout, peek_timeout, interrupt_and_join_timeout,
                                Returning, AssertFails
      <3>2. Same
        BY <2>7 DEF wait_for_timeout, peek_timeout, interrupt_and_join_timeout, AssertFails,
                    SetInterrupt, Enqueue, remove_me_from_waitq, sqvars, wqvars, ctxvars
      <3>3. state'[me] = state[me]
        BY <3>1, <2>7, <1>1 DEF wait_for_timeout, peek_timeout, interrupt_and_join_timeout,
                                AssertFails, covars
      <3> QED
        BY <3>1, <3>2, <3>3, <2>5, <2>7, <1>5, CallSteps
    <2> QED
      BY <1>13, <2>1, <2>2, <2>3, <2>4, <2>6, <2>7 DEF Forced
  <1>14. CASE Poller
    <2>0. MainRuns
      BY <1>14 DEF Poller, loop_prepare, loop_break, sift_collect, sift_collected, sift_host,
                   sift_bucket, sift_done
    <2>1. ASSUME NEW c \in Ctx, state[c] \in RESUMABLE, poller_resume(c), phase = "run",
                 phase' = "run", call[c].ph = "wait"
          PROVE  G
      <3>1. /\ state' = [state EXCEPT ![c] = "RESUMED"] /\ me' = c /\ ctl' = "thread"
            /\ UNCHANGED <<dying, drain, doomed>>
        BY <2>1 DEF poller_resume, wqvars, ctxvars
      <3>2. Waiting
        <4>1. TypeOK
          BY DEF TameInv, BaseInv
        <4>2. SetsCall(c, "none", "wait") \/ SetsCall(c, call[c].op, "wait")
          BY <2>1, <4>1, CallFields
        <4> QED
          BY <4>2, <2>0, <1>0 DEF SetsCall, OthersKeep, MainRuns
      <3> QED
        BY <3>1, <3>2, <2>0, <2>1, <1>1 DEF MainRuns
    <2>2. CASE sift_host \/ sift_bucket
      BY <2>1, <2>2, HandedIsResumable DEF sift_host, sift_bucket, PopHost, PopBucket
    <2>3. ASSUME UNCHANGED <<me, ctl, dying, drain, doomed, call, state>>,
                 phase' = phase \/ phase' # "main"
          PROVE  G
      BY <2>0, <2>3, <1>0 DEF MainRuns
    <2>4. ASSUME NEW t, loop_prepare(t) PROVE G
      BY <2>3, <2>4 DEF loop_prepare, Prepare, threadvars, covars, wqvars, ctxvars
    <2>5. ASSUME NEW k, sift_collect(k) PROVE G
      BY <2>3, <2>5 DEF sift_collect, Collect, threadvars, covars, wqvars, ctxvars
    <2>6. CASE loop_break \/ sift_collected \/ sift_done
      BY <2>3, <2>6 DEF loop_break, sift_collected, CollectDone, sift_done, SiftDone, threadvars,
                        sqvars, covars, wqvars, ctxvars
    <2> QED
      BY <1>14, <2>2, <2>4, <2>5, <2>6 DEF Poller
  <1> QED
    BY <1>10, <1>12, <1>13, <1>14 DEF Next

\* The thread that makes a call.
LEMMA Caller ==
    ASSUME TameInv, NEW name, Calling(name)
    PROVE  /\ me \in Ctx /\ state[me] = "RESUMED" /\ call[me].op = "none"
           /\ owner # me /\ sq.expire[me] = UNDEFINED /\ id[me] # NoId
           /\ ctl = "thread" /\ dying = NULL /\ drain = NULL /\ doomed = {} /\ name \in Calls
           /\ \A c \in Ctx : call[c].ph = "wait"
  <1>1. /\ me \in Ctx /\ state[me] = "RESUMED" /\ call[me].ph = "wait" /\ call[me].op = "none"
        /\ ctl = "thread" /\ dying = NULL /\ drain = NULL /\ doomed = {} /\ name \in Calls
    BY NotCollecting DEF Calling, CallingOrMain
  <1>2. \A c \in Ctx : call[c].ph \in {"enter", "wait"}
    BY DEF TameInv, BaseInv, TypeOK, Call
  <1>3. \A c \in Ctx : call[c].ph = "wait"
    BY <1>1, <1>2 DEF TameInv, Control
  <1>4. owner # me /\ sq.expire[me] = UNDEFINED /\ id[me] # NoId
    BY <1>1 DEF TameInv, Subscriber, Idle, BaseInv, LiveHasId
  <1> QED
    BY <1>1, <1>3, <1>4

\* A thread that runs, has ended or has not started stays out of the sleep queue.
LEMMA IdleKept ==
    ASSUME TameInv, Tame, Next
    PROVE  Idle'
  <1> DEFINE Still == {"DORMANT", "RESUMED"}
             G == \A c \in Ctx : state'[c] \in Still \/ call'[c].ph = "enter" =>
                                    sq'.expire[c] = UNDEFINED
             Keeps == \A c \in Ctx : state'[c] \in Still \/ call'[c].ph = "enter" =>
                                        state[c] \in Still \/ call[c].ph = "enter"
             Wakes(t) == /\ \A c \in Ctx : state'[c] \in Still => c # t /\ state[c] \in Still
                         /\ \A c \in Ctx : call'[c].ph = "enter" =>
                               c # t /\ (state[c] \in Still \/ call[c].ph = "enter")
  <1> SUFFICES G
    BY DEF Idle
  <1>0. /\ \A c \in Ctx : state[c] \in Still \/ call[c].ph = "enter" => sq.expire[c] = UNDEFINED
        /\ \A c \in Ctx : call[c].ph = "enter" => ctl = "thread" /\ c = me /\ drain = NULL
        /\ state \in [Ctx -> RESUMABLE \cup Still]
        /\ "DORMANT" \notin RESUMABLE /\ "RESUMED" \notin RESUMABLE
        /\ sq.expire \in [Ctx -> 0..FOREVER]
        /\ ctl = "thread" => me \in Ctx /\ (state[me] = "RESUMED" \/ call[me].ph = "enter")
        /\ drain # NULL => drain \in WaitQ /\ waitq[drain] # <<>> /\ phase # "collect"
    BY DEF TameInv, Idle, Control, BaseInv, TypeOK, SQTypeOK, SQ, Running, Draining, RESUMABLE
  <1>1. UNCHANGED sq /\ Keeps => G
    BY <1>0
  <1>2. UNCHANGED <<sqvars, state, call>> => G
    BY <1>0 DEF sqvars
  <1>3. ASSUME NEW t \in Ctx, NEW k, Puts(t, k), Wakes(t) PROVE G
    BY <1>0, <1>3 DEF Puts
  <1>4. ASSUME NEW w \in WaitQ, waitq[w] # <<>>, phase # "collect", resume_waitq_head(w),
               \A c \in Ctx : call[c].ph # "enter"
        PROVE  G
    <2>1. UNCHANGED call
      BY <1>4 DEF resume_waitq_head
    <2>2. PICK t \in Ctx : \/ UNCHANGED <<sqvars, state>>
                           \/ /\ Puts(t, RESUME_NOW)
                              /\ state' = [state EXCEPT ![t] = "SET_RESUME"]
      BY <1>4, HeadPuts
    <2> QED
      BY <2>1, <2>2, <1>0, <1>2, <1>3, <1>4
  <1>5. CASE Switching
    <2>1. ASSUME NEW k \in Key, SleepUntil(k), NEW name, Calling(name), Puts(me, k),
                 SetsCall(me, "sleep", "wait")
          PROVE  G
      <3>1. state' = [state EXCEPT ![me] = "SLEEP"]
        BY <2>1 DEF SleepUntil
      <3> QED
        BY <3>1, <2>1, <1>0, <1>3, Caller DEF SetsCall, OthersKeep
    <2>2. ASSUME NEW d \in Delays, mnthr_sleep(d) PROVE G
      BY <2>1, <2>2, CallPuts, CallSteps DEF mnthr_sleep
    <2>3. CASE mnthr_yield \/ mnthr_giveup
      BY <2>1, <2>3, CallPuts, CallSteps, Keys DEF mnthr_yield, mnthr_giveup
    <2>4. CASE Exit
      <3>1. /\ Calling("exit") /\ UNCHANGED sq /\ KeepsCalls
            /\ state' = [state EXCEPT ![me] = "DORMANT"]
        BY <2>4, TimedPuts, CallSteps DEF Exit, mnthr_ctx_finalize, sqvars
      <3> QED
        BY <3>1, <1>0, <1>1, Caller DEF KeepsCalls
    <2>5. CASE ExitEINTR
      BY <2>5, <1>2 DEF ExitEINTR, covars
    <2>6. ASSUME NEW name, Calling(name), UNCHANGED <<sqvars, call>>,
                 NEW x \in RESUMABLE, state' = [state EXCEPT ![me] = x]
          PROVE  G
      BY <2>6, <1>0, <1>1 DEF sqvars
    <2>7. CASE mnthr_cond_wait
      BY <2>6, <2>7 DEF mnthr_cond_wait, RESUMABLE
    <2>8. ASSUME NEW t \in Ctx, mnthr_join(t) PROVE G
      BY <2>6, <2>8 DEF mnthr_join, RESUMABLE
    <2>9. ASSUME NEW t \in Ctx, mnthr_set_interrupt_and_join(t) PROVE G
      <3>1. /\ state' = [state EXCEPT ![t] = "SET_INTERRUPT", ![me] = "JOIN_INTERRUPTED"]
            /\ Calling("set_interrupt_and_join") /\ UNCHANGED call /\ Puts(t, RESUME_NOW)
        BY <2>9, CallPuts DEF mnthr_set_interrupt_and_join
      <3> QED
        BY <3>1, <1>0, <1>3, Caller
    <2>10. ASSUME NEW t \in Ctx, NEW d \in Delays,
                  mnthr_set_interrupt_and_join_with_timeout(t, d)
           PROVE  G
      <3>1. /\ state' = [state EXCEPT ![t] = "SET_INTERRUPT", ![me] = "JOIN_INTERRUPTED"]
            /\ Calling("set_interrupt_and_join_with_timeout") /\ state[t] \in RESUMABLE
            /\ Puts(t, RESUME_NOW) /\ SetsCall(me, "set_interrupt_and_join_with_timeout", "enter")
        BY <2>10, CallPuts, CallSteps DEF mnthr_set_interrupt_and_join_with_timeout
      <3> QED
        BY <3>1, <1>0, <1>3, Caller DEF SetsCall, OthersKeep
    <2>11. ASSUME NEW t \in Ctx, NEW d \in Delays, mnthr_wait_for(t, d) PROVE G
      <3>1. /\ state' = [state EXCEPT ![me] = "WAITFOR", ![t] = "SET_RESUME"]
            /\ Calling("wait_for") /\ mnthr_ctx_pop_free(t)
            /\ Puts(t, RESUME_NOW) /\ SetsCall(me, "wait_for", "enter")
        BY <2>11, CallPuts, CallSteps DEF mnthr_wait_for
      <3>2. t # me
        BY <3>1, NewIsIdle, Caller
      <3> QED
        BY <3>1, <3>2, <1>0, <1>3, Caller DEF SetsCall, OthersKeep
    <2>12. ASSUME NEW t \in Ctx, NEW d \in Delays, mnthr_peek(t, d) PROVE G
      <3>1. /\ state' = [state EXCEPT ![me] = "PEEK"] /\ Calling("peek") /\ UNCHANGED sq
            /\ SetsCall(me, "peek", "enter")
        BY <2>12, CallSteps DEF mnthr_peek, sqvars
      <3> QED
        BY <3>1, <1>0, <1>1, Caller DEF SetsCall, OthersKeep
    <2>13. CASE mnthr_signal_subscribe
      <3>1. /\ state' = [state EXCEPT ![me] = "SIGNAL_SUBSCRIBE"] /\ Calling("subscribe")
            /\ UNCHANGED sq /\ SetsCall(me, "subscribe", "wait")
        BY <2>13, CallSteps DEF mnthr_signal_subscribe, sqvars
      <3> QED
        BY <3>1, <1>0, <1>1, Caller DEF SetsCall, OthersKeep
    <2>14. ASSUME NEW d \in Delays, mnthr_signal_subscribe_with_timeout(d) PROVE G
      <3>1. /\ state' = [state EXCEPT ![me] = "SIGNAL_SUBSCRIBE"]
            /\ Calling("subscribe_with_timeout")
            /\ Puts(me, Deadline(d)) /\ SetsCall(me, "subscribe_with_timeout", "wait")
        BY <2>14, CallPuts, CallSteps DEF mnthr_signal_subscribe_with_timeout
      <3> QED
        BY <3>1, <1>0, <1>3, Caller DEF SetsCall, OthersKeep
    <2>15. ASSUME NEW v \in Retvals, mnthr_signal_error_and_join(v) PROVE G
      <3>1. /\ state' = [state EXCEPT ![owner] = "SET_RESUME", ![me] = "JOIN_INTERRUPTED"]
            /\ Calling("signal_error_and_join") /\ UNCHANGED call /\ Puts(owner, RESUME_NOW)
            /\ owner \in Ctx
        BY <2>15, CallPuts DEF mnthr_signal_error_and_join, Subscribed, TameInv, BaseInv, TypeOK
      <3> QED
        BY <3>1, <1>0, <1>3, Caller
    <2> QED
      BY <1>5, <2>2, <2>3, <2>4, <2>5, <2>7, <2>8, <2>9, <2>10, <2>11, <2>12, <2>13, <2>14, <2>15
         DEF Switching
  <1>6. CASE Continuing
    <2>1. ASSUME NEW c \in Ctx, mnthr_new(c) \/ mnthr_incabac(c) \/ mnthr_decabac(c) PROVE G
      BY <2>1, <1>2 DEF mnthr_new, mnthr_incabac, mnthr_decabac
    <2>2. ASSUME NEW c \in Ctx, Puts(c, RESUME_NOW), UNCHANGED call, call[c].ph # "enter",
                 NEW x \in RESUMABLE, state' = [state EXCEPT ![c] = x]
          PROVE  G
      BY <2>2, <1>0, <1>3
    <2>3. ASSUME NEW c \in Ctx, mnthr_run(c) \/ mnthr_spawn(c) \/ mnthr_shutdown(c) PROVE G
      <3>1. call[c].ph # "enter"
        BY <2>3, <1>0, Caller
           DEF mnthr_run, mnthr_spawn, mnthr_shutdown, CallingOrMain, MainRuns
      <3> QED
        BY <3>1, <2>2, <2>3, CallPuts
           DEF mnthr_run, mnthr_spawn, mnthr_shutdown, set_resume, RESUMABLE
    <2>4. CASE mnthr_gc \/ mnthr_cond_signal_all
      BY <2>4, <1>2 DEF mnthr_gc, mnthr_cond_signal_all, covars
    <2>5. ASSUME NEW v \in Retvals, mnthr_set_retval(v) PROVE G
      BY <2>5, <1>2 DEF mnthr_set_retval
    <2>6. ASSUME NEW c \in Ctx, NEW flag \in BOOLEAN, mnthr_set_prio(c, flag) PROVE G
      BY <2>6, <1>2 DEF mnthr_set_prio
    <2>7. CASE mnthr_cond_signal_one
      <3>1. Cond \in WaitQ /\ phase # "collect" /\ \A c \in Ctx : call[c].ph # "enter"
        BY <2>7, Caller, NotCollecting DEF mnthr_cond_signal_one, WaitQ
      <3> QED
        BY <3>1, <2>7, <1>4 DEF mnthr_cond_signal_one
    <2>8. ASSUME NEW t \in Ctx, mnthr_set_interrupt(t) PROVE G
      <3>1. call[t].ph # "enter"
        BY <2>8, Caller DEF mnthr_set_interrupt
      <3> QED
        BY <3>1, <2>2, <2>8, CallPuts DEF mnthr_set_interrupt, RESUMABLE
    <2>9. ASSUME NEW name, Calling(name), Subscribed, set_resume(owner), Puts(owner, RESUME_NOW),
                 UNCHANGED call
          PROVE  G
      <3>1. owner \in Ctx /\ call[owner].ph # "enter"
        BY <2>9, Caller DEF Subscribed, TameInv, BaseInv, TypeOK
      <3> QED
        BY <3>1, <2>2, <2>9 DEF set_resume, RESUMABLE
    <2>10. CASE mnthr_signal_send
      BY <2>9, <2>10, CallPuts DEF mnthr_signal_send
    <2>11. ASSUME NEW v \in Retvals, mnthr_signal_error(v) PROVE G
      BY <2>9, <2>11, CallPuts DEF mnthr_signal_error
    <2> QED
      BY <1>6, <2>1, <2>3, <2>4, <2>5, <2>6, <2>7, <2>8, <2>10, <2>11 DEF Continuing
  <1>7. CASE Forced
    <2>1. CASE resume_waitq_all
      BY <2>1, <1>0, <1>4 DEF resume_waitq_all
    <2>2. CASE push_free_ctx
      BY <2>2, <1>2 DEF push_free_ctx, covars
    <2>3. ASSUME NEW c \in Ctx, mnthr_ctx_fini(c) PROVE G
      BY <2>3, <1>2 DEF mnthr_ctx_fini
    <2>4. CASE TimedSleep
      <3>1. /\ me \in Ctx /\ Puts(me, call[me].until) /\ SetsCall(me, call[me].op, "wait")
            /\ ctl = "thread" /\ call[me].ph = "enter" /\ UNCHANGED state
        BY <2>4, TimedPuts, CallSteps DEF TimedSleep, covars
      <3>2. state[me] \in RESUMABLE
        BY <3>1 DEF TameInv, Control
      <3> QED
        BY <3>1, <3>2, <1>0, <1>3 DEF SetsCall, OthersKeep
    <2>5. CASE TimedReturnGone \/ subscribe_return
      <3>1. /\ me \in Ctx /\ SetsCall(me, "none", "wait") /\ UNCHANGED <<sq, state>>
        BY <2>5, <1>0, TimedPuts, CallSteps
           DEF TimedReturnGone, subscribe_return, Returning, sqvars, covars
      <3> QED
        BY <3>1, <1>0, <1>1 DEF SetsCall, OthersKeep
    <2>6. CASE wait_for_timeout \/ peek_timeout \/ interrupt_and_join_timeout
      <3>1. /\ me \in Ctx /\ ctl = "thread" /\ call[me].ph = "wait" /\ call[me].tgt \in Ctx
        BY <2>6, TimedPuts DEF wait_for_timeout, peek_timeout, interrupt_and_join_timeout, Returning
      <3>2. \A c \in Ctx : call'[c].ph # "enter" /\ call[c].ph # "enter"
        BY <3>1, <2>6, <1>0, CallSteps DEF SetsCall, OthersKeep, KeepsCalls
      <3>3. CASE wait_for_timeout /\ state[call[me].tgt] \in RESUMABLE
        <4>1. /\ Puts(call[me].tgt, RESUME_NOW)
              /\ state' = [state EXCEPT ![call[me].tgt] = "SET_INTERRUPT"]
          BY <3>3, TimedPuts DEF wait_for_timeout
        <4> QED
          BY <4>1, <3>1, <3>2, <1>0, <1>3
      <3>4. CASE UNCHANGED <<sq, state>>
        BY <3>2, <3>4, <1>1
      <3> QED
        BY <3>3, <3>4, <2>6
           DEF wait_for_timeout, peek_timeout, interrupt_and_join_timeout, AssertFails, sqvars, covars
    <2> QED
      BY <1>7, <2>1, <2>2, <2>3, <2>4, <2>5, <2>6 DEF Forced
  <1>8. CASE Poller
    <2>1. ASSUME NEW c \in Ctx, state[c] \in RESUMABLE, poller_resume(c), MainRuns,
                 sq'.expire = [sq.expire EXCEPT ![c] = UNDEFINED]
          PROVE  G
      <3>1. state' = [state EXCEPT ![c] = "RESUMED"]
        BY <2>1 DEF poller_resume
      <3>2. OthersKeep(c)
        <4>1. TypeOK
          BY DEF TameInv, BaseInv
        <4> QED
          BY <2>1, <4>1, CallFields DEF SetsCall
      <3> QED
        BY <3>1, <3>2, <2>1, <1>0 DEF OthersKeep
    <2>2. CASE sift_host \/ sift_bucket
      BY <2>1, <2>2, HandedIsResumable, WalkEffect DEF sift_host, sift_bucket, TameInv
    <2>3. ASSUME sq'.expire = sq.expire, UNCHANGED <<state, call>> PROVE G
      BY <2>3, <1>0
    <2>4. ASSUME NEW t, loop_prepare(t) PROVE G
      BY <2>3, <2>4 DEF loop_prepare, Prepare, threadvars, covars
    <2>5. ASSUME NEW k \in Key, sift_collect(k) PROVE G
      BY <2>3, <2>5, WalkEffect DEF sift_collect, threadvars, covars, TameInv
    <2>6. CASE loop_break \/ sift_collected \/ sift_done
      BY <2>3, <2>6 DEF loop_break, sift_collected, CollectDone, sift_done, SiftDone, threadvars,
                        sqvars, covars
    <2> QED
      BY <1>8, <2>2, <2>4, <2>5, <2>6 DEF Poller
  <1> QED
    BY <1>5, <1>6, <1>7, <1>8 DEF Next

\* c is given to a new thread, while nobody is finalized or freed.
Creates(c) == /\ mnthr_ctx_pop_free(c) \/ mnthr_ctx_new(c)
              /\ vnew_body(c)
              /\ doomed = {} /\ (ctl = "main" => dying = NULL)

\* poller_resume is handed c and cannot resume it: "This is an error".
Discards(c) == /\ state[c] \notin RESUMABLE
               /\ \/ sift_host /\ c = Head(runq) /\ c \in Elems(runq)
                  \/ sift_bucket /\ c = Head(tmp) /\ c \in Elems(tmp)

\* Which steps create, retire, free or move a context.
LEMMA CtxSteps ==
    ASSUME BaseInv, Next
    PROVE  \/ UNCHANGED <<id, dying, ctxes, freelist, left, doomed, co_id, last>>
           \/ \E c \in Ctx : Creates(c)
           \/ Exit
           \/ \E c \in Ctx : Discards(c)
           \/ push_free_ctx
           \/ mnthr_gc
           \/ \E c \in Ctx : mnthr_ctx_fini(c)
  <1> DEFINE U == UNCHANGED <<id, dying, ctxes, freelist, left, doomed, co_id, last>>
             G == \/ U
                  \/ \E c \in Ctx : Creates(c)
                  \/ Exit
                  \/ \E c \in Ctx : Discards(c)
                  \/ push_free_ctx
                  \/ mnthr_gc
                  \/ \E c \in Ctx : mnthr_ctx_fini(c)
  <1> SUFFICES G
    OBVIOUS
  <1>1. CASE Switching
    <2>1. ASSUME NEW d \in Delays, mnthr_sleep(d) PROVE U
      BY <2>1 DEF mnthr_sleep, SleepUntil, ctxvars
    <2>2. CASE mnthr_yield \/ mnthr_giveup \/ ExitEINTR \/ mnthr_cond_wait \/ mnthr_signal_subscribe
      BY <2>2 DEF mnthr_yield, mnthr_giveup, SleepUntil, ExitEINTR, mnthr_cond_wait,
                  mnthr_signal_subscribe, covars, ctxvars
    <2>3. ASSUME NEW t \in Ctx, mnthr_join(t) \/ mnthr_set_interrupt_and_join(t) PROVE U
      BY <2>3 DEF mnthr_join, mnthr_set_interrupt_and_join, ctxvars
    <2>4. ASSUME NEW t \in Ctx, NEW d \in Delays,
                 mnthr_set_interrupt_and_join_with_timeout(t, d) \/ mnthr_peek(t, d)
          PROVE  U
      BY <2>4 DEF mnthr_set_interrupt_and_join_with_timeout, mnthr_peek, ctxvars
    <2>5. ASSUME NEW c \in Ctx, NEW d \in Delays, mnthr_wait_for(c, d) PROVE G
      BY <2>5 DEF mnthr_wait_for, Calling, Creates
    <2>6. ASSUME NEW d \in Delays, mnthr_signal_subscribe_with_timeout(d) PROVE U
      BY <2>6 DEF mnthr_signal_subscribe_with_timeout, ctxvars
    <2>7. ASSUME NEW v \in Retvals, mnthr_signal_error_and_join(v) PROVE U
      BY <2>7 DEF mnthr_signal_error_and_join, ctxvars
    <2> QED
      BY <1>1, <2>1, <2>2, <2>3, <2>4, <2>5, <2>6, <2>7 DEF Switching
  <1>2. CASE Continuing
    <2>1. ASSUME NEW c \in Ctx, mnthr_new(c) \/ mnthr_spawn(c) \/ mnthr_shutdown(c) PROVE G
      BY <2>1 DEF mnthr_new, mnthr_spawn, mnthr_shutdown, CallingOrMain, Calling, MainRuns, Creates
    <2>2. ASSUME NEW c \in Ctx, mnthr_run(c) \/ mnthr_incabac(c) \/ mnthr_decabac(c) PROVE U
      BY <2>2 DEF mnthr_run, mnthr_incabac, mnthr_decabac, ctxvars
    <2>3. ASSUME NEW v \in Retvals, mnthr_set_retval(v) \/ mnthr_signal_error(v) PROVE U
      BY <2>3 DEF mnthr_set_retval, mnthr_signal_error, ctxvars
    <2>4. ASSUME NEW c \in Ctx, NEW flag \in BOOLEAN, mnthr_set_prio(c, flag) PROVE U
      BY <2>4 DEF mnthr_set_prio, ctxvars
    <2>5. CASE mnthr_cond_signal_one \/ mnthr_cond_signal_all \/ mnthr_signal_send
      BY <2>5 DEF mnthr_cond_signal_one, mnthr_cond_signal_all, mnthr_signal_send,
                  resume_waitq_head, covars, ctxvars
    <2>6. ASSUME NEW t \in Ctx, mnthr_set_interrupt(t) PROVE U
      BY <2>6 DEF mnthr_set_interrupt, ctxvars
    <2> QED
      BY <1>2, <2>1, <2>2, <2>3, <2>4, <2>5, <2>6 DEF Continuing
  <1>3. CASE Forced
    <2>1. CASE resume_waitq_all
      BY <2>1 DEF resume_waitq_all, resume_waitq_head, ctxvars
    <2>2. CASE TimedSleep \/ TimedReturnGone \/ subscribe_return
      BY <2>2 DEF TimedSleep, TimedReturnGone, subscribe_return, covars, ctxvars
    <2>3. CASE wait_for_timeout \/ peek_timeout \/ interrupt_and_join_timeout
      BY <2>3 DEF wait_for_timeout, peek_timeout, interrupt_and_join_timeout, AssertFails,
                  covars, ctxvars
    <2> QED
      BY <1>3, <2>1, <2>2, <2>3 DEF Forced
  <1>4. CASE Poller
    <2>1. CASE sift_host \/ sift_bucket
      <3>1. PICK c \in Ctx : /\ poller_resume(c)
                             /\ \/ sift_host /\ c = Head(runq) /\ c \in Elems(runq)
                                \/ sift_bucket /\ c = Head(tmp) /\ c \in Elems(tmp)
        <4>1. runq \in Seq(Ctx) /\ tmp \in Seq(Ctx)
          BY DEF BaseInv, TypeOK, SQTypeOK
        <4> QED
          BY <2>1, <4>1 DEF sift_host, sift_bucket, PopHost, PopBucket, Elems
      <3>2. CASE state[c] \in RESUMABLE
        BY <3>1, <3>2 DEF poller_resume, ctxvars
      <3>3. CASE state[c] \notin RESUMABLE
        BY <3>1, <3>3 DEF Discards
      <3> QED
        BY <3>2, <3>3
    <2>2. ASSUME NEW t, loop_prepare(t) \/ sift_collect(t) PROVE U
      BY <2>2 DEF loop_prepare, sift_collect, threadvars, covars, ctxvars
    <2>3. CASE loop_break \/ sift_collected \/ sift_done
      BY <2>3 DEF loop_break, sift_collected, sift_done, threadvars, covars, ctxvars
    <2> QED
      BY <1>4, <2>1, <2>2, <2>3 DEF Poller
  <1> QED
    BY <1>1, <1>2, <1>3, <1>4 DEF Next

\* Outside of the staged races poller_resume discards nobody.
LEMMA CtxEffect ==
    ASSUME TameInv, Next
    PROVE  \/ UNCHANGED <<id, dying, ctxes, freelist, left, doomed>>
           \/ \E c \in Ctx : (mnthr_ctx_pop_free(c) \/ mnthr_ctx_new(c)) /\ vnew_body(c)
           \/ Exit
           \/ push_free_ctx
           \/ mnthr_gc
           \/ \E c \in Ctx : mnthr_ctx_fini(c)
  BY CtxSteps, HandedIsResumable DEF TameInv, Creates, Discards, sift_host, sift_bucket

\* Only the poller writes down whom it resumes.
LEMMA SliceEffect ==
    Switching \/ Continuing \/ Forced => UNCHANGED slice
  <1>1. CASE Switching
    BY <1>1 DEF Switching, mnthr_sleep, mnthr_yield, mnthr_giveup, SleepUntil, Exit, ExitEINTR,
                mnthr_cond_wait, mnthr_signal_subscribe, mnthr_join, mnthr_set_interrupt_and_join,
                mnthr_set_interrupt_and_join_with_timeout, mnthr_peek, mnthr_wait_for,
                mnthr_signal_subscribe_with_timeout, mnthr_signal_error_and_join
  <1>2. CASE Continuing
    BY <1>2 DEF Continuing, mnthr_new, mnthr_spawn, mnthr_shutdown, mnthr_run, mnthr_incabac,
                mnthr_decabac, mnthr_set_retval, mnthr_signal_error, mnthr_set_prio, mnthr_gc,
                mnthr_cond_signal_one, mnthr_cond_signal_all, mnthr_signal_send,
                resume_waitq_head, mnthr_set_interrupt
  <1>3. CASE Forced
    BY <1>3 DEF Forced, resume_waitq_all, resume_waitq_head, TimedSleep, TimedReturnGone,
                subscribe_return, wait_for_timeout, peek_timeout, interrupt_and_join_timeout,
                AssertFails, push_free_ctx, mnthr_ctx_fini
  <1> QED
    BY <1>1, <1>2, <1>3

\* Whom this walk has resumed it does not hold any more, whoever schedules him again.
LEMMA SlicesKept ==
    ASSUME TameInv, Tame, Next
    PROVE  Slices'
  <1>0. /\ \A c \in slice : c \notin Staged
        /\ phase = "collect" => slice = {}
        /\ SQInv
    BY DEF TameInv, Slices
  <1>1. ASSUME UNCHANGED <<sqvars, slice>> PROVE Slices'
    <2>1. Staged' = Staged
      BY <1>1 DEF sqvars, Staged
    <2> QED
      BY <2>1, <1>0, <1>1 DEF Slices, sqvars
  <1>2. ASSUME NEW c, NEW k, Puts(c, k), UNCHANGED slice PROVE Slices'
    BY <1>0, <1>2 DEF Slices, Puts, Schedule
  <1>4. CASE ~ Poller
    <2>1. UNCHANGED slice
      BY <1>4, SliceEffect DEF Next
    <2> QED
      BY <2>1, <1>1, <1>2, <1>4, SqStep
  <1>5. CASE Poller
    <2>1. ASSUME NEW t, loop_prepare(t) PROVE Slices'
      BY <2>1 DEF loop_prepare, Prepare, Slices
    <2>2. ASSUME NEW k \in Key, sift_collect(k) PROVE Slices'
      BY <2>2, <1>0 DEF sift_collect, Collect, Slices
    <2>3. CASE sift_collected \/ sift_done
      <3>1. /\ Staged' = Staged /\ UNCHANGED slice /\ phase' # "collect"
        BY <2>3 DEF sift_collected, CollectDone, sift_done, SiftDone, Staged
      <3> QED
        BY <3>1, <1>0 DEF Slices
    <2>4. CASE loop_break
      BY <2>4, <1>1 DEF loop_break
    <2>5. ASSUME NEW c, state[c] \in RESUMABLE, poller_resume(c), phase' = "run",
                 \A x \in Staged' : x \in Staged /\ x # c
          PROVE  Slices'
      BY <2>5, <1>0 DEF poller_resume, Slices
    <2>6. CASE sift_host \/ sift_bucket
      BY <2>5, <2>6, <1>0, WalkEffect, HandedIsResumable
         DEF sift_host, sift_bucket, PopHost, PopBucket
    <2> QED
      BY <1>5, <2>1, <2>2, <2>3, <2>4, <2>6 DEF Poller
  <1> QED
    BY <1>4, <1>5 DEF Next

\* Every context that is no thread stays in exactly one place: free_list, a chain that
\* mnthr_gc has left behind, or in the hands of mnthr_ctx_finalize or of mnthr_gc.
LEMMA PoolsKept ==
    ASSUME TameInv, Next
    PROVE  Pools'
  <1> DEFINE X == Elems(ctxes)
             F == Elems(freelist)
             L == UNION left
  <1>0. /\ ctxes \in Seq(Ctx) /\ freelist \in Seq(Ctx) /\ left \subseteq SUBSET Ctx
        /\ id \in [Ctx -> -1..MaxId] /\ co_id \in 0..MaxId
        /\ dying \in Ctx \cup {NULL} /\ NULL \notin Ctx
        /\ dying # NULL => doomed = {}
    BY NullAssumption DEF TameInv, BaseInv, TypeOK, Control
  <1>1. /\ Distinct(ctxes) /\ Distinct(freelist)
        /\ F \cap L = {}
        /\ \A p, q \in left : p # q => p \cap q = {}
        /\ F \cup L = {c \in X : id[c] = NoId} \ ({dying} \cup doomed)
        /\ doomed \subseteq {c \in X : id[c] = NoId}
        /\ dying # NULL => dying \in X /\ id[dying] = NoId
        /\ \A c \in Ctx : id[c] # NoId => c \in X
    BY DEF TameInv, Pools, LeftBehind
  <1>2. X \subseteq Ctx /\ F \subseteq Ctx
    BY <1>0, ElemsType
  <1>3. ASSUME Distinct(ctxes'), Distinct(freelist'),
               Elems(freelist') \cap UNION left' = {},
               \A p, q \in left' : p # q => p \cap q = {},
               Elems(freelist') \cup UNION left'
                  = {c \in Elems(ctxes') : id'[c] = NoId} \ ({dying'} \cup doomed'),
               doomed' \subseteq {c \in Elems(ctxes') : id'[c] = NoId},
               dying' # NULL => dying' \in Elems(ctxes') /\ id'[dying'] = NoId,
               \A c \in Ctx : id'[c] # NoId => c \in Elems(ctxes')
        PROVE  Pools'
    BY <1>3 DEF Pools, LeftBehind
  <1> HIDE DEF X, F, L
  <1>4. CASE UNCHANGED <<id, dying, ctxes, freelist, left, doomed>>
    BY <1>1, <1>4 DEF Pools, LeftBehind, X, F, L
  <1>5. ASSUME NEW c \in Ctx, mnthr_ctx_new(c), vnew_body(c) PROVE Pools'
    <2>1. c \notin X /\ UNCHANGED <<freelist, left, doomed, dying>> /\ id' = [id EXCEPT ![c] = co_id]
      BY <1>5 DEF mnthr_ctx_new, vnew_body, X
    <2>2. Distinct(ctxes') /\ Elems(ctxes') = X \cup {c}
      BY <2>1, <1>0, <1>1, <1>5, EnqueueElems DEF mnthr_ctx_new, DTQUEUE_ENQUEUE, X
    <2>3. id'[c] # NoId /\ \A d \in Ctx : d # c => id'[d] = id[d]
      BY <2>1, <1>0 DEF NoId
    <2>4. {d \in X \cup {c} : id'[d] = NoId} = {d \in X : id[d] = NoId}
      BY <2>1, <2>3, <1>2
    <2>5. \A d \in Ctx : id'[d] # NoId => d \in X \cup {c}
      BY <2>3, <1>1
    <2>6. dying # NULL => id'[dying] = NoId /\ dying \in X \cup {c}
      BY <2>1, <2>3, <1>0, <1>1
    <2> QED
      BY <2>1, <2>2, <2>4, <2>5, <2>6, <1>1, <1>3 DEF F, L
  <1>6. ASSUME NEW c \in Ctx, First(freelist, Unheld, c), UNCHANGED ctxes, vnew_body(c),
               freelist' = DTQUEUE_REMOVE(freelist, c)
        PROVE  Pools'
    <2>1. UNCHANGED <<left, doomed, dying>> /\ id' = [id EXCEPT ![c] = co_id]
      BY <1>6 DEF vnew_body
    <2>2. c \in F
      BY <1>0, <1>6, FirstIsIn DEF F
    <2>3. Distinct(freelist') /\ Elems(freelist') = F \ {c}
      BY <1>0, <1>1, <1>6, RemoveElems DEF F
    <2>4. id'[c] # NoId /\ \A d \in Ctx : d # c => id'[d] = id[d]
      BY <2>1, <1>0 DEF NoId
    <2>5. {d \in X : id'[d] = NoId} = {d \in X : id[d] = NoId} \ {c}
      BY <2>4, <1>2
    <2>6. c \in X /\ c # dying /\ c \notin doomed /\ c \notin L
      BY <2>2, <1>1
    <2>7. dying # NULL => id'[dying] = NoId
      BY <2>4, <2>6, <1>0, <1>1
    <2>8. \A d \in Ctx : id'[d] # NoId => d \in X
      BY <2>4, <2>6, <1>1
    <2> QED
      BY <2>1, <2>3, <2>5, <2>6, <2>7, <2>8, <1>1, <1>3, <1>6 DEF X, L
  <1>7. CASE Exit
    <2>1. /\ UNCHANGED <<ctxes, freelist, left, doomed>> /\ dying' = me
          /\ id' = [id EXCEPT ![me] = NoId] /\ Calling("exit")
      BY <1>7 DEF Exit, mnthr_ctx_finalize
    <2>2. me \in Ctx /\ id[me] # NoId /\ dying = NULL /\ doomed = {} /\ me # NULL
      BY <2>1, <1>0, Caller
    <2>3. me \in X
      BY <2>2, <1>1
    <2>4. {d \in X : id'[d] = NoId} = {d \in X : id[d] = NoId} \cup {me}
      BY <2>1, <2>2, <2>3, <1>0, <1>2
    <2>5. \A d \in Ctx : id'[d] # NoId => d \in X
      BY <2>1, <1>0, <1>1
    <2>6. me \notin {d \in X : id[d] = NoId} /\ NULL \notin X
      BY <2>2, <1>0, <1>2
    <2>7. F \cup L = {d \in X : id'[d] = NoId} \ ({me} \cup {})
      BY <2>2, <2>4, <2>6, <1>1
    <2>8. id'[me] = NoId
      BY <2>1, <2>2, <1>0
    <2> QED
      BY <2>1, <2>2, <2>3, <2>5, <2>7, <2>8, <1>1, <1>3 DEF X, F, L
  <1>8. CASE push_free_ctx
    <2>1. /\ UNCHANGED <<ctxes, left, doomed, id>> /\ dying # NULL /\ dying' = NULL
          /\ freelist' = DTQUEUE_ENQUEUE(freelist, dying)
      BY <1>8 DEF push_free_ctx, covars
    <2>2. dying \in Ctx /\ dying \notin F /\ dying \notin L /\ doomed = {}
      BY <2>1, <1>0, <1>1
    <2>3. Distinct(freelist') /\ Elems(freelist') = F \cup {dying}
      BY <2>1, <2>2, <1>0, <1>1, EnqueueElems DEF F
    <2>4. NULL \notin X
      BY <1>0, <1>2
    <2>5. (F \cup {dying}) \cup L = {c \in X : id[c] = NoId} \ ({NULL} \cup {})
      BY <2>1, <2>2, <2>4, <1>1
    <2> QED
      BY <2>1, <2>2, <2>3, <2>5, <1>1, <1>3 DEF X, L
  <1>9. CASE mnthr_gc
    <2> DEFINE alone == {q \in left : Alone(q)}
               held == Linked \ Garbage
    <2>1. /\ dying = NULL /\ doomed = {} /\ NULL \notin X
      BY <1>0, <1>2, <1>9, NotCollecting DEF mnthr_gc
    <2>2. /\ UNCHANGED <<id, ctxes, dying>> /\ doomed' = Garbage
          /\ \/ held = {} /\ freelist' = <<>> /\ left' = alone
             \/ \E c \in Ctx : /\ First(ctxes, held, c) /\ freelist' = <<c>>
                               /\ left' = alone \cup ({held \ {c}} \ {{}})
      BY <1>9 DEF mnthr_gc, covars
    <2>3. Garbage \subseteq Linked /\ Linked = F \cup UNION {q \in left : ~ Alone(q)}
      BY DEF Garbage, Linked, F
    <2>4. (UNION alone) \cap Linked = {} /\ (UNION alone) \cup Linked = F \cup L
      BY <2>3, <1>1 DEF L
    <2>5. \A p, q \in alone : p # q => p \cap q = {}
      BY <1>1
    <2>6. F \cup L = {c \in X : id[c] = NoId}
      BY <2>1, <1>1
    <2>7. Garbage \subseteq {c \in X : id[c] = NoId}
      BY <2>3, <2>4, <2>6
    <2>8. (UNION alone) \cup held = {c \in X : id[c] = NoId} \ ({NULL} \cup Garbage)
      BY <2>1, <2>3, <2>4, <2>6
    <2>9. (UNION alone) \cap held = {}
      BY <2>4
    <2> HIDE DEF alone, held
    <2>10. CASE held = {} /\ freelist' = <<>> /\ left' = alone
      <3>1. Distinct(<<>>) /\ Elems(<<>>) = {}
        BY DEF Distinct, Elems
      <3>2. Elems(freelist') \cup UNION left' = {c \in X : id[c] = NoId} \ ({NULL} \cup Garbage)
        BY <3>1, <2>8, <2>10
      <3> QED
        BY <3>1, <3>2, <2>1, <2>2, <2>5, <2>7, <2>10, <1>1, <1>3 DEF X
    <2>11. ASSUME NEW c \in Ctx, First(ctxes, held, c), freelist' = <<c>>,
                  left' = alone \cup ({held \ {c}} \ {{}})
           PROVE  Pools'
      <3>1. c \in held
        BY <2>11 DEF First
      <3>2. Distinct(<<c>>) /\ Elems(<<c>>) = {c}
        BY DEF Distinct, Elems
      <3>3. UNION left' = (UNION alone) \cup (held \ {c})
        BY <2>11
      <3>4. \A p, q \in left' : p # q => p \cap q = {}
        <4>1. \A p \in alone : p \cap held = {}
          BY <2>9
        <4> QED
          BY <4>1, <2>5, <2>11
      <3>5. Elems(freelist') \cap UNION left' = {}
        BY <3>1, <3>2, <3>3, <2>9, <2>11
      <3>6. Elems(freelist') \cup UNION left' = {d \in X : id[d] = NoId} \ ({NULL} \cup Garbage)
        BY <3>1, <3>2, <3>3, <2>8, <2>11
      <3> QED
        BY <3>2, <3>4, <3>5, <3>6, <2>1, <2>2, <2>7, <2>11, <1>1, <1>3 DEF X
    <2> QED
      BY <2>2, <2>10, <2>11
  <1>10. ASSUME NEW c \in Ctx, mnthr_ctx_fini(c) PROVE Pools'
    <2>1. UNCHANGED <<id, dying, freelist, left>> /\ c \in doomed
      BY <1>0, <1>10, FirstIsIn DEF mnthr_ctx_fini
    <2>2. CASE UNCHANGED <<ctxes, doomed>>
      BY <2>1, <2>2, <1>4
    <2>3. CASE ctxes' = DTQUEUE_REMOVE(ctxes, c) /\ doomed' = doomed \ {c}
      <3>1. Distinct(ctxes') /\ Elems(ctxes') = X \ {c}
        BY <2>3, <1>0, <1>1, RemoveElems DEF X
      <3>2. dying = NULL /\ id[c] = NoId
        BY <2>1, <1>0, <1>1
      <3>3. {d \in X \ {c} : id[d] = NoId} \ ({dying} \cup (doomed \ {c}))
               = {d \in X : id[d] = NoId} \ ({dying} \cup doomed)
        BY <2>1
      <3>4. doomed \ {c} \subseteq {d \in X \ {c} : id[d] = NoId}
        BY <1>1
      <3>5. \A d \in Ctx : id[d] # NoId => d \in X \ {c}
        BY <3>2, <1>1
      <3> QED
        BY <2>1, <2>3, <3>1, <3>2, <3>3, <3>4, <3>5, <1>1, <1>3 DEF F, L
    <2> QED
      BY <2>2, <2>3, <1>10 DEF mnthr_ctx_fini
  <1> QED
    BY <1>4, <1>5, <1>6, <1>7, <1>8, <1>9, <1>10, CtxEffect DEF mnthr_ctx_pop_free

\* A context that is no thread stays out of the wait queues.
LEMMA RetiredKept ==
    ASSUME TameInv, Next
    PROVE  Retired'
  <1>0. /\ \A c \in Ctx : id[c] = NoId /\ c # dying => hosting[c] = NULL
        /\ hosting \in [Ctx -> WaitQ \cup {NULL}] /\ waitq \in [WaitQ -> Seq(Ctx)]
        /\ id \in [Ctx -> -1..MaxId] /\ co_id \in 0..MaxId
        /\ dying \in Ctx \cup {NULL}
        /\ ctl = "thread" => me \in Ctx /\ id[me] # NoId
        /\ TypeOK /\ BaseInv
        /\ dying # NULL => id[dying] = NoId
    BY DEF TameInv, Retired, BaseInv, TypeOK, Running, LiveHasId, Pools
  <1>1. \A c \in Ctx : hosting'[c] # NULL =>
           \/ hosting[c] # NULL
           \/ ctl = "thread" /\ c = me
    <2>1. CASE UNCHANGED <<waitq, hosting>>
      BY <2>1
    <2>2. ASSUME NEW w, append_me_to_waitq(w), ctl = "thread", me \in Ctx
          PROVE  \A c \in Ctx : hosting'[c] # NULL => hosting[c] # NULL \/ c = me
      BY <2>2, <1>0 DEF append_me_to_waitq
    <2>3. ASSUME NEW w, remove_me_from_waitq(w)
          PROVE  \A c \in Ctx : hosting'[c] # NULL => hosting[c] # NULL
      BY <2>3, <1>0 DEF remove_me_from_waitq
    <2>4. ASSUME NEW w, TakesHead(w)
          PROVE  \A c \in Ctx : hosting'[c] # NULL => hosting[c] # NULL
      BY <2>4, <1>0 DEF TakesHead
    <2>5. ASSUME Leaves(dying)
          PROVE  \A c \in Ctx : hosting'[c] # NULL => hosting[c] # NULL
      BY <2>5, <1>0 DEF Leaves
    <2> QED
      BY <2>1, <2>2, <2>3, <2>4, <2>5, <1>0, WqEffect
  <1>2. CASE UNCHANGED <<id, dying>>
    BY <1>0, <1>1, <1>2 DEF Retired
  <1>3. ASSUME NEW c \in Ctx, vnew_body(c) PROVE Retired'
    <2>1. id' = [id EXCEPT ![c] = co_id] /\ UNCHANGED dying
      BY <1>3 DEF vnew_body
    <2>2. \A d \in Ctx : id'[d] = NoId => id[d] = NoId
      BY <2>1, <1>0 DEF NoId
    <2> QED
      BY <2>1, <2>2, <1>0, <1>1 DEF Retired
  <1>4. CASE Exit
    <2>1. /\ id' = [id EXCEPT ![me] = NoId] /\ dying' = me /\ UNCHANGED hosting
          /\ dying = NULL /\ me \in Ctx
      BY <1>4, Caller DEF Exit, mnthr_ctx_finalize
    <2> QED
      BY <2>1, <1>0, NullAssumption DEF Retired
  <1>5. CASE push_free_ctx
    <2>1. UNCHANGED id /\ dying \in Ctx
      BY <1>0, <1>5 DEF push_free_ctx, covars
    <2>2. \/ hosting[dying] = NULL /\ UNCHANGED hosting
          \/ hosting' = [hosting EXCEPT ![dying] = NULL]
      BY <1>5 DEF push_free_ctx
    <2> QED
      BY <2>1, <2>2, <1>0 DEF Retired
  <1>6. mnthr_gc \/ (\E c \in Ctx : mnthr_ctx_fini(c)) => UNCHANGED <<id, dying>>
    BY DEF mnthr_gc, mnthr_ctx_fini, covars
  <1> QED
    BY <1>2, <1>3, <1>4, <1>5, <1>6, CtxEffect

\* A queue that is being drained is drained to the end before another one is.
LEMMA DrainEffect ==
    ASSUME TameInv, Next
    PROVE  \/ UNCHANGED drain
           \/ resume_waitq_all
           \/ /\ drain = NULL
              /\ Exit \/ mnthr_cond_signal_all \/ \E c \in Ctx : mnthr_ctx_fini(c)
  <1> DEFINE G == \/ UNCHANGED drain
                  \/ resume_waitq_all
                  \/ /\ drain = NULL
                     /\ Exit \/ mnthr_cond_signal_all \/ \E c \in Ctx : mnthr_ctx_fini(c)
  <1> SUFFICES G
    OBVIOUS
  <1>1. CASE Switching
    BY <1>1 DEF Switching, mnthr_sleep, mnthr_yield, mnthr_giveup, SleepUntil, Exit, ExitEINTR,
                mnthr_cond_wait, mnthr_signal_subscribe, mnthr_join, mnthr_set_interrupt_and_join,
                mnthr_set_interrupt_and_join_with_timeout, mnthr_peek, mnthr_wait_for, Enter,
                mnthr_signal_subscribe_with_timeout, mnthr_signal_error_and_join, Calling,
                append_me_to_waitq, wqvars
  <1>2. CASE Continuing
    BY <1>2 DEF Continuing, mnthr_new, mnthr_spawn, mnthr_shutdown, mnthr_run, mnthr_incabac,
                mnthr_decabac, mnthr_set_retval, mnthr_signal_error, mnthr_set_prio, mnthr_gc,
                mnthr_cond_signal_one, mnthr_cond_signal_all, mnthr_signal_send,
                mnthr_set_interrupt, Calling, wqvars
  <1>3. CASE Forced
    BY <1>3 DEF Forced, TimedSleep, TimedReturnGone, subscribe_return, wait_for_timeout,
                peek_timeout, interrupt_and_join_timeout, remove_me_from_waitq, AssertFails,
                push_free_ctx, mnthr_ctx_fini, wqvars
  <1>4. CASE Poller
    <2>1. CASE sift_host \/ sift_bucket
      BY <2>1, HandedIsResumable DEF sift_host, sift_bucket, poller_resume, wqvars
    <2> QED
      BY <1>4, <2>1 DEF Poller, loop_prepare, loop_break, sift_collect, sift_collected,
                        sift_done, threadvars, wqvars
  <1> QED
    BY <1>1, <1>2, <1>3, <1>4 DEF Next

\* As long as somebody stands in a queue it stays attended: its thread lives, or the
\* queue is drained when that thread exits, to the end.
LEMMA AttendedKept ==
    ASSUME TameInv, Next, NEW c \in Ctx, hosting[c] # NULL, hosting'[c] = hosting[c],
           Attended(hosting[c])
    PROVE  Attended(hosting[c])'
  <1>0. /\ id \in [Ctx -> -1..MaxId] /\ co_id \in 0..MaxId
        /\ hosting \in [Ctx -> WaitQ \cup {NULL}] /\ waitq \in [WaitQ -> Seq(Ctx)]
        /\ c \in Elems(waitq[hosting[c]])
        /\ NULL \notin Ctx /\ Cond \notin Ctx /\ Cond # NULL
    BY NullAssumption, SchedulerAssumption DEF TameInv, BaseInv, TypeOK, WaitqConsistent
  <1>1. PICK w \in WaitQ : w = hosting[c]
    BY <1>0
  <1>2. w = Cond \/ (w \in Ctx /\ (id[w] # NoId \/ drain = w))
    BY <1>1 DEF Attended
  <1> SUFFICES w \in Ctx => id'[w] # NoId \/ drain' = w
    BY <1>1, <1>2 DEF Attended, WaitQ
  <1>3. CASE w \in Ctx /\ drain = w
    <2>1. CASE resume_waitq_all
      <3>1. /\ hosting' = [hosting EXCEPT ![Head(waitq[w])] = NULL]
            /\ drain' = IF Len(waitq[w]) = 1 THEN NULL ELSE w
        BY <2>1, <1>3 DEF resume_waitq_all, resume_waitq_head
      <3>2. c # Head(waitq[w])
        BY <3>1, <1>0
      <3>3. Len(waitq[w]) # 1
        BY <3>2, <1>0, <1>1 DEF Elems
      <3> QED
        BY <3>1, <3>3
    <2> QED
      BY <2>1, <1>0, <1>3, DrainEffect
  <1>4. CASE w \in Ctx /\ id[w] # NoId
    <2>1. CASE UNCHANGED id
      BY <2>1, <1>4
    <2>2. ASSUME NEW d \in Ctx, vnew_body(d) PROVE id'[w] # NoId
      BY <2>2, <1>0, <1>4 DEF vnew_body, NoId
    <2>3. CASE Exit
      <3>1. /\ id' = [id EXCEPT ![me] = NoId]
            /\ drain' = IF waitq[me] = <<>> THEN NULL ELSE me
        BY <2>3 DEF Exit, mnthr_ctx_finalize
      <3>2. waitq[w] # <<>>
        BY <1>0, <1>1 DEF Elems
      <3> QED
        BY <3>1, <3>2, <1>0, <1>4
    <2>4. push_free_ctx \/ mnthr_gc \/ (\E d \in Ctx : mnthr_ctx_fini(d)) => UNCHANGED id
      BY DEF push_free_ctx, mnthr_gc, mnthr_ctx_fini, covars
    <2> QED
      BY <2>1, <2>2, <2>3, <2>4, CtxEffect
  <1> QED
    BY <1>2, <1>3, <1>4, <1>0

\* No thread that has switched is left without somebody who will resume it.
LEMMA AccountedKept ==
    ASSUME TameInv, Tame, Next
    PROVE  Accounted'
  <1> DEFINE Parked(c) == /\ sq.expire[c] = UNDEFINED /\ call[c].ph # "enter"
                          /\ state[c] \in RESUMABLE
             ParkedNext(c) == /\ sq'.expire[c] = UNDEFINED /\ call'[c].ph # "enter"
                              /\ state'[c] \in RESUMABLE
             Served(w) == w = Cond \/ (w \in Ctx /\ (id'[w] # NoId \/ drain' = w))
             Fine(c) == state'[c] = "SIGNAL_SUBSCRIBE" \/ (state'[c] \in Queued /\ Served(hosting'[c]))
             Stays(c) == Parked(c) /\ state'[c] = state[c] /\ hosting'[c] = hosting[c]
             G == \A c \in Ctx : ParkedNext(c) => Fine(c)
  <1> SUFFICES G
    BY DEF Accounted, Attended
  <1>0. /\ state \in [Ctx -> RESUMABLE \cup {"DORMANT", "RESUMED"}]
        /\ hosting \in [Ctx -> WaitQ \cup {NULL}]
        /\ id \in [Ctx -> -1..MaxId] /\ co_id \in 0..MaxId
        /\ sq.expire \in [Ctx -> 0..FOREVER]
        /\ "DORMANT" \notin RESUMABLE /\ "RESUMED" \notin RESUMABLE
        /\ NULL \notin Ctx /\ Cond # NULL
        /\ \A c \in Ctx : state[c] # "DORMANT" => id[c] # NoId
        /\ ctl = "thread" => me \in Ctx /\ (state[me] = "RESUMED" \/ call[me].ph = "enter")
        /\ \A c \in Ctx : call[c].ph = "enter" => ctl = "thread" /\ c = me /\ drain = NULL
        /\ drain # NULL => drain \in WaitQ /\ waitq[drain] # <<>> /\ phase # "collect"
        /\ ctl = "main" /\ drain # NULL => me = NULL
        /\ ctl \in {"main", "thread"}
        /\ owner # NULL => owner \in Ctx
        /\ TypeOK
    BY NullAssumption, SchedulerAssumption
       DEF TameInv, BaseInv, TypeOK, SQTypeOK, SQ, LiveHasId, Running, Draining, Control, RESUMABLE
  <1>1. ASSUME NEW c \in Ctx, Stays(c) PROVE Fine(c)
    <2>1. state[c] = "SIGNAL_SUBSCRIBE" \/ (state[c] \in Queued /\ Attended(hosting[c]))
      BY <1>1 DEF TameInv, Accounted
    <2>2. CASE state[c] \in Queued /\ Attended(hosting[c])
      <3>1. hosting[c] # NULL
        BY <2>2, <1>0 DEF Attended
      <3>2. Attended(hosting[c])'
        BY <3>1, <2>2, <1>1, AttendedKept
      <3> QED
        BY <3>2, <2>2, <1>1 DEF Attended
    <2> QED
      BY <2>1, <2>2, <1>1
  <1> HIDE DEF Fine
  <1>2. ASSUME \A c \in Ctx : ParkedNext(c) => Stays(c) PROVE G
    BY <1>1, <1>2
  <1>3. ASSUME NEW t \in Ctx, NEW k \in Key, Puts(t, k),
               \A c \in Ctx : c # t /\ ParkedNext(c) =>
                  state'[c] = state[c] /\ hosting'[c] = hosting[c] /\ call[c].ph # "enter"
        PROVE  G
    <2>1. sq'.expire = [sq.expire EXCEPT ![t] = k] /\ k # UNDEFINED
      BY <1>3 DEF Puts, Key, UNDEFINED
    <2>2. \A c \in Ctx : ParkedNext(c) => Stays(c)
      BY <2>1, <1>0, <1>3
    <2> QED
      BY <2>2, <1>2
  <1>4. UNCHANGED <<sqvars, state, call, hosting>> => G
    BY <1>2 DEF sqvars
  <1>5. ASSUME NEW w \in WaitQ, waitq[w] # <<>>, phase # "collect", resume_waitq_head(w),
               ctl = "main" => me = NULL,
               \A c \in Ctx : call[c].ph # "enter"
        PROVE  G
    <2>1. PICK t : t = Head(waitq[w])
      OBVIOUS
    <2>2. UNCHANGED call /\ hosting' = [hosting EXCEPT ![t] = NULL]
      BY <2>1, <1>5 DEF resume_waitq_head
    <2>3. /\ t \in Ctx
          /\ \/ UNCHANGED <<sqvars, state>> /\ (t = me \/ id[t] = NoId)
             \/ Puts(t, RESUME_NOW) /\ state' = [state EXCEPT ![t] = "SET_RESUME"]
      BY <2>1, <1>5, HeadPuts
    <2>4. CASE UNCHANGED <<sqvars, state>> /\ (t = me \/ id[t] = NoId)
      <3>1. state[t] \notin RESUMABLE
        BY <2>3, <2>4, <1>0, <1>5
      <3> QED
        BY <3>1, <2>2, <2>4, <1>0, <1>2 DEF sqvars
    <2>5. CASE Puts(t, RESUME_NOW) /\ state' = [state EXCEPT ![t] = "SET_RESUME"]
      BY <2>2, <2>3, <2>5, <1>0, <1>3, <1>5, Keys
    <2> QED
      BY <2>3, <2>4, <2>5
  <1>6. ASSUME NEW name, Calling(name)
        PROVE  /\ me \in Ctx /\ state[me] = "RESUMED" /\ \A c \in Ctx : call[c].ph # "enter"
    BY <1>6, Caller
  <1>7. CASE Switching
    <2>1. ASSUME NEW k \in Key, SleepUntil(k), NEW name, Calling(name), Puts(me, k) PROVE G
      <3>1. state' = [state EXCEPT ![me] = "SLEEP"] /\ UNCHANGED hosting
        BY <2>1 DEF SleepUntil, wqvars
      <3> QED
        BY <3>1, <2>1, <1>0, <1>3, <1>6
    <2>2. ASSUME NEW d \in Delays, mnthr_sleep(d) PROVE G
      BY <2>1, <2>2, CallPuts DEF mnthr_sleep
    <2>3. CASE mnthr_yield \/ mnthr_giveup
      BY <2>1, <2>3, CallPuts, Keys DEF mnthr_yield, mnthr_giveup
    <2>4. CASE Exit
      <3>1. /\ Calling("exit") /\ UNCHANGED <<sq, hosting>> /\ KeepsCalls
            /\ state' = [state EXCEPT ![me] = "DORMANT"]
        BY <2>4, TimedPuts, CallSteps DEF Exit, mnthr_ctx_finalize, sqvars
      <3> QED
        BY <3>1, <1>0, <1>2, <1>6 DEF KeepsCalls
    <2>5. CASE ExitEINTR
      BY <2>5, <1>4 DEF ExitEINTR, covars, wqvars
    <2>6. ASSUME NEW name, Calling(name), NEW w \in WaitQ, append_me_to_waitq(w),
                 w = Cond \/ (w \in Ctx /\ state[w] \in RESUMABLE /\ UNCHANGED id)
          PROVE  /\ hosting' = [hosting EXCEPT ![me] = w]
                 /\ \A x \in Queued : state'[me] = x => Fine(me)
      <3>1. hosting' = [hosting EXCEPT ![me] = w] /\ hosting'[me] = w
        BY <2>6, <1>0, <1>6 DEF append_me_to_waitq
      <3>2. Served(w)
        BY <2>6, <1>0
      <3> QED
        BY <3>1, <3>2 DEF Fine
    <2>7. "JOIN" \in Queued /\ "JOIN_INTERRUPTED" \in Queued /\ "CONDWAIT" \in Queued
      BY DEF Queued
    <2>8. ASSUME NEW name, Calling(name), NEW w \in WaitQ, append_me_to_waitq(w),
                 w = Cond \/ (w \in Ctx /\ state[w] \in RESUMABLE /\ UNCHANGED id),
                 UNCHANGED <<sqvars, call>>, NEW x \in Queued, state' = [state EXCEPT ![me] = x]
          PROVE  G
      <3>1. hosting' = [hosting EXCEPT ![me] = w] /\ state'[me] = x /\ Fine(me)
        BY <2>6, <2>8, <1>0, <1>6
      <3>2. \A c \in Ctx : c # me /\ ParkedNext(c) => Stays(c)
        BY <3>1, <2>8, <1>0, <1>6 DEF sqvars
      <3> QED
        BY <3>1, <3>2, <1>1
    <2>9. CASE mnthr_cond_wait
      BY <2>7, <2>8, <2>9 DEF mnthr_cond_wait, WaitQ
    <2>10. ASSUME NEW t \in Ctx, mnthr_join(t) PROVE G
      BY <2>7, <2>8, <2>10 DEF mnthr_join, WaitQ
    <2>11. ASSUME NEW name, Calling(name), NEW t \in Ctx, append_me_to_waitq(t), t # me,
                  state[t] \in RESUMABLE, UNCHANGED <<id, call>>, Puts(t, RESUME_NOW),
                  NEW x, state' = [state EXCEPT ![t] = x, ![me] = "JOIN_INTERRUPTED"]
           PROVE  G
      <3>1. t \in WaitQ
        BY DEF WaitQ
      <3>2. hosting' = [hosting EXCEPT ![me] = t] /\ state'[me] = "JOIN_INTERRUPTED" /\ Fine(me)
        BY <3>1, <2>6, <2>7, <2>11, <1>0, <1>6
      <3>3. sq'.expire = [sq.expire EXCEPT ![t] = RESUME_NOW] /\ RESUME_NOW # UNDEFINED
        BY <2>11 DEF Puts, RESUME_NOW, UNDEFINED
      <3>4. \A c \in Ctx : c # me /\ ParkedNext(c) => Stays(c)
        BY <3>2, <3>3, <2>11, <1>0, <1>6
      <3> QED
        BY <3>2, <3>4, <1>1
    <2>12. ASSUME NEW t \in Ctx, mnthr_set_interrupt_and_join(t) PROVE G
      <3>1. t # me
        BY <2>12, <1>0, <1>6 DEF mnthr_set_interrupt_and_join
      <3> QED
        BY <3>1, <2>11, <2>12, CallPuts DEF mnthr_set_interrupt_and_join
    <2>13. ASSUME NEW v \in Retvals, mnthr_signal_error_and_join(v) PROVE G
      <3>1. /\ owner \in Ctx /\ owner # me /\ state[owner] \in RESUMABLE
        BY <2>13, <1>0, Caller DEF mnthr_signal_error_and_join, Subscribed, RESUMABLE
      <3> QED
        BY <3>1, <2>11, <2>13, CallPuts DEF mnthr_signal_error_and_join
    <2>14. ASSUME NEW t \in Ctx, NEW d \in Delays,
                  mnthr_set_interrupt_and_join_with_timeout(t, d)
           PROVE  G
      <3>1. /\ state' = [state EXCEPT ![t] = "SET_INTERRUPT", ![me] = "JOIN_INTERRUPTED"]
            /\ hosting' = [hosting EXCEPT ![me] = t]
            /\ Calling("set_interrupt_and_join_with_timeout")
            /\ Puts(t, RESUME_NOW) /\ SetsCall(me, "set_interrupt_and_join_with_timeout", "enter")
        BY <2>14, CallPuts, CallSteps DEF mnthr_set_interrupt_and_join_with_timeout, Enter,
                                          append_me_to_waitq
      <3> QED
        BY <3>1, <1>0, <1>3, <1>6, Keys DEF SetsCall, OthersKeep
    <2>15. ASSUME NEW t \in Ctx, NEW d \in Delays, mnthr_wait_for(t, d) PROVE G
      <3>1. /\ state' = [state EXCEPT ![me] = "WAITFOR", ![t] = "SET_RESUME"]
            /\ hosting' = [hosting EXCEPT ![me] = t] /\ Calling("wait_for")
            /\ Puts(t, RESUME_NOW) /\ SetsCall(me, "wait_for", "enter")
        BY <2>15, CallPuts, CallSteps DEF mnthr_wait_for, Enter, append_me_to_waitq
      <3> QED
        BY <3>1, <1>0, <1>3, <1>6, Keys DEF SetsCall, OthersKeep
    <2>16. ASSUME NEW t \in Ctx, NEW d \in Delays, mnthr_peek(t, d) PROVE G
      <3>1. /\ state' = [state EXCEPT ![me] = "PEEK"] /\ Calling("peek") /\ UNCHANGED sq
            /\ hosting' = [hosting EXCEPT ![me] = t] /\ SetsCall(me, "peek", "enter")
        BY <2>16, CallSteps DEF mnthr_peek, Enter, append_me_to_waitq, sqvars
      <3> QED
        BY <3>1, <1>0, <1>2, <1>6 DEF SetsCall, OthersKeep
    <2>17. CASE mnthr_signal_subscribe
      <3>1. /\ state' = [state EXCEPT ![me] = "SIGNAL_SUBSCRIBE"] /\ Calling("subscribe")
            /\ UNCHANGED <<sq, hosting>> /\ SetsCall(me, "subscribe", "wait")
        BY <2>17, CallSteps DEF mnthr_signal_subscribe, sqvars, wqvars
      <3>2. \A c \in Ctx : c # me /\ ParkedNext(c) => Stays(c)
        BY <3>1, <1>0, <1>6 DEF SetsCall, OthersKeep
      <3>3. Fine(me)
        BY <3>1, <1>0, <1>6 DEF Fine
      <3> QED
        BY <3>2, <3>3, <1>1
    <2>18. ASSUME NEW d \in Delays, mnthr_signal_subscribe_with_timeout(d) PROVE G
      <3>1. /\ state' = [state EXCEPT ![me] = "SIGNAL_SUBSCRIBE"] /\ UNCHANGED hosting
            /\ Calling("subscribe_with_timeout") /\ Deadline(d) \in Key
            /\ Puts(me, Deadline(d))
        BY <2>18, CallPuts DEF mnthr_signal_subscribe_with_timeout, wqvars
      <3> QED
        BY <3>1, <1>0, <1>3, <1>6
    <2> QED
      BY <1>7, <2>2, <2>3, <2>4, <2>5, <2>9, <2>10, <2>12, <2>13, <2>14, <2>15, <2>16, <2>17, <2>18
         DEF Switching
  <1>8. CASE Continuing
    <2>1. ASSUME NEW c \in Ctx, mnthr_new(c) \/ mnthr_incabac(c) \/ mnthr_decabac(c) PROVE G
      BY <2>1, <1>4 DEF mnthr_new, mnthr_incabac, mnthr_decabac, wqvars
    <2>2. ASSUME NEW c \in Ctx, Puts(c, RESUME_NOW), UNCHANGED <<call, hosting>>,
                 NEW x, state' = [state EXCEPT ![c] = x]
          PROVE  G
      BY <2>2, <1>0, <1>3, Keys
    <2>3. ASSUME NEW c \in Ctx, mnthr_run(c) \/ mnthr_spawn(c) \/ mnthr_shutdown(c) PROVE G
      BY <2>2, <2>3, CallPuts DEF mnthr_run, mnthr_spawn, mnthr_shutdown, set_resume, wqvars
    <2>4. CASE mnthr_gc \/ mnthr_cond_signal_all
      BY <2>4, <1>4 DEF mnthr_gc, mnthr_cond_signal_all, covars, wqvars
    <2>5. ASSUME NEW v \in Retvals, mnthr_set_retval(v) PROVE G
      BY <2>5, <1>4 DEF mnthr_set_retval, wqvars
    <2>6. ASSUME NEW c \in Ctx, NEW flag \in BOOLEAN, mnthr_set_prio(c, flag) PROVE G
      BY <2>6, <1>4 DEF mnthr_set_prio, wqvars
    <2>7. CASE mnthr_cond_signal_one
      <3>1. /\ Cond \in WaitQ /\ phase # "collect" /\ ctl = "thread"
            /\ \A c \in Ctx : call[c].ph # "enter"
        BY <2>7, Caller, NotCollecting DEF mnthr_cond_signal_one, WaitQ
      <3> QED
        BY <3>1, <2>7, <1>5 DEF mnthr_cond_signal_one
    <2>8. ASSUME NEW t \in Ctx, mnthr_set_interrupt(t) PROVE G
      BY <2>2, <2>8, CallPuts DEF mnthr_set_interrupt, wqvars
    <2>9. CASE mnthr_signal_send
      BY <2>2, <2>9, <1>0, CallPuts DEF mnthr_signal_send, Subscribed, set_resume, wqvars
    <2>10. ASSUME NEW v \in Retvals, mnthr_signal_error(v) PROVE G
      BY <2>2, <2>10, <1>0, CallPuts DEF mnthr_signal_error, Subscribed, set_resume, wqvars
    <2> QED
      BY <1>8, <2>1, <2>3, <2>4, <2>5, <2>6, <2>7, <2>8, <2>9, <2>10 DEF Continuing
  <1>9. CASE Forced
    <2>1. CASE resume_waitq_all
      BY <2>1, <1>0, <1>5 DEF resume_waitq_all
    <2>2. CASE push_free_ctx
      <3>1. /\ dying \in Ctx /\ state[dying] = "DORMANT" /\ UNCHANGED <<sqvars, state, call>>
        BY <2>2, <1>0 DEF push_free_ctx, covars, TypeOK, TameInv, Pools
      <3>2. \A c \in Ctx : c # dying => hosting'[c] = hosting[c]
        BY <2>2, <1>0 DEF push_free_ctx
      <3> QED
        BY <3>1, <3>2, <1>0, <1>2 DEF sqvars
    <2>3. ASSUME NEW c \in Ctx, mnthr_ctx_fini(c) PROVE G
      BY <2>3, <1>4 DEF mnthr_ctx_fini
    <2>4. CASE TimedSleep
      <3>1. /\ me \in Ctx /\ call[me].until \in Key /\ Puts(me, call[me].until)
            /\ SetsCall(me, call[me].op, "wait") /\ UNCHANGED <<state, hosting>>
        BY <2>4, TimedPuts, CallSteps DEF TimedSleep, covars, wqvars
      <3> QED
        BY <3>1, <1>0, <1>3 DEF SetsCall, OthersKeep
    <2>5. CASE TimedReturnGone \/ subscribe_return
      <3>1. /\ me \in Ctx /\ SetsCall(me, "none", "wait") /\ UNCHANGED <<sq, state, hosting>>
            /\ state[me] = "RESUMED"
        BY <2>5, <1>0, TimedPuts, CallSteps
           DEF TimedReturnGone, subscribe_return, Returning, sqvars, covars, wqvars
      <3> QED
        BY <3>1, <1>0, <1>2 DEF SetsCall, OthersKeep
    <2>6. CASE wait_for_timeout \/ peek_timeout \/ interrupt_and_join_timeout
      <3>1. /\ me \in Ctx /\ ctl = "thread" /\ call[me].ph = "wait" /\ call[me].tgt \in Ctx
            /\ state[me] = "RESUMED"
        BY <2>6, <1>0, TimedPuts
           DEF wait_for_timeout, peek_timeout, interrupt_and_join_timeout, Returning
      <3>2. \A c \in Ctx : call[c].ph # "enter"
        BY <3>1, <1>0
      <3>3. \A c \in Ctx : c # me => hosting'[c] = hosting[c]
        BY <2>6, <1>0 DEF wait_for_timeout, peek_timeout, interrupt_and_join_timeout,
                          remove_me_from_waitq, AssertFails, wqvars
      <3>4. CASE wait_for_timeout /\ state[call[me].tgt] \in RESUMABLE
        <4>1. /\ Puts(call[me].tgt, RESUME_NOW) /\ call[me].tgt # me
              /\ state' = [state EXCEPT ![call[me].tgt] = "SET_INTERRUPT"]
          BY <3>1, <3>4, <1>0, TimedPuts DEF wait_for_timeout
        <4>2. state'[me] = "RESUMED"
          BY <4>1, <3>1, <1>0
        <4>3. \A c \in Ctx : c # call[me].tgt => state'[c] = state[c]
          BY <4>1, <1>0
        <4> QED
          BY <4>1, <4>2, <4>3, <3>1, <3>2, <3>3, <1>0, <1>3, Keys
      <3>5. CASE UNCHANGED <<sq, state>>
        BY <3>1, <3>2, <3>3, <3>5, <1>0, <1>2
      <3> QED
        BY <3>4, <3>5, <2>6
           DEF wait_for_timeout, peek_timeout, interrupt_and_join_timeout, AssertFails, sqvars, covars
    <2> QED
      BY <1>9, <2>1, <2>2, <2>3, <2>4, <2>5, <2>6 DEF Forced
  <1>10. CASE Poller
    <2>1. ASSUME NEW c \in Ctx, state[c] \in RESUMABLE, poller_resume(c), MainRuns,
                 sq'.expire = [sq.expire EXCEPT ![c] = UNDEFINED]
          PROVE  G
      <3>1. state' = [state EXCEPT ![c] = "RESUMED"] /\ UNCHANGED hosting
        BY <2>1 DEF poller_resume, wqvars
      <3>2. OthersKeep(c)
        BY <2>1, <1>0, CallFields DEF SetsCall
      <3> QED
        BY <3>1, <3>2, <2>1, <1>0, <1>2 DEF OthersKeep
    <2>2. CASE sift_host \/ sift_bucket
      BY <2>1, <2>2, HandedIsResumable, WalkEffect DEF sift_host, sift_bucket, TameInv
    <2>3. ASSUME sq'.expire = sq.expire, UNCHANGED <<state, call, hosting>> PROVE G
      BY <2>3, <1>2
    <2>4. ASSUME NEW t, loop_prepare(t) PROVE G
      BY <2>3, <2>4 DEF loop_prepare, Prepare, threadvars, covars, wqvars
    <2>5. ASSUME NEW k \in Key, sift_collect(k) PROVE G
      BY <2>3, <2>5, WalkEffect DEF sift_collect, threadvars, covars, wqvars, TameInv
    <2>6. CASE loop_break \/ sift_collected \/ sift_done
      BY <2>3, <2>6 DEF loop_break, sift_collected, CollectDone, sift_done, SiftDone, threadvars,
                        sqvars, covars, wqvars
    <2> QED
      BY <1>10, <2>2, <2>4, <2>5, <2>6 DEF Poller
  <1> QED
    BY <1>7, <1>8, <1>9, <1>10 DEF Next

\* Without the hasty calls a thread goes on waiting for one thing at a time: whoever
\* resumes it from a queue or sends it the event does not find it asleep.
LEMMA OneWaitKept ==
    ASSUME TameInv, Tame, Next
    PROVE  OneWait'
  <1> DEFINE Parked == Queued \cup {"SIGNAL_SUBSCRIBE"}
             Fine(c) == /\ hosting'[c] # NULL => state'[c] \in Queued
                        /\ state'[c] \in Parked => sq'.expire[c] = UNDEFINED
                        /\ call'[c].op = "sleep" =>
                              state'[c] = "SLEEP" /\ sq'.expire[c] = call'[c].until
             G == \A c \in Ctx : Fine(c)
             Stays(c) == /\ state'[c] = state[c] /\ hosting'[c] \in {NULL, hosting[c]}
                         /\ sq'.expire[c] = sq.expire[c]
                         /\ call'[c].op = call[c].op /\ call'[c].until = call[c].until
  <1> SUFFICES ASSUME PlainCalls PROVE G
    BY DEF OneWait
  <1>0. /\ state \in [Ctx -> RESUMABLE \cup {"DORMANT", "RESUMED"}]
        /\ hosting \in [Ctx -> WaitQ \cup {NULL}]
        /\ sq.expire \in [Ctx -> 0..FOREVER]
        /\ NULL \notin WaitQ
        /\ ctl = "thread" => me \in Ctx /\ (state[me] = "RESUMED" \/ call[me].ph = "enter")
        /\ \A c \in Ctx : state[c] = "DORMANT" => call[c].op = "none"
        /\ drain # NULL => drain \in WaitQ /\ waitq[drain] # <<>> /\ phase # "collect"
        /\ owner # NULL => owner \in Ctx
        /\ TypeOK
    BY NullAssumption, SchedulerAssumption
       DEF TameInv, BaseInv, TypeOK, SQTypeOK, SQ, Running, Draining, Control, Unstarted, WaitQ
  <1>1. \A c \in Ctx : /\ hosting[c] # NULL => state[c] \in Queued
                       /\ state[c] \in Parked => sq.expire[c] = UNDEFINED
                       /\ call[c].op = "sleep" => state[c] = "SLEEP" /\ sq.expire[c] = call[c].until
    BY DEF TameInv, OneWait
  <1>2. ASSUME NEW c \in Ctx, Stays(c) PROVE Fine(c)
    BY <1>1, <1>2
  <1>3. ASSUME \A c \in Ctx : Stays(c) PROVE G
    BY <1>2, <1>3
  <1>4. UNCHANGED <<sqvars, state, call, hosting>> => G
    BY <1>3 DEF sqvars
  <1>5. ASSUME NEW t \in Ctx, NEW k \in Key, Puts(t, k), UNCHANGED call,
               call[t].op # "sleep", NEW x, x \notin Parked,
               state' = [state EXCEPT ![t] = x],
               hosting'[t] = NULL, \A c \in Ctx : c # t => hosting'[c] = hosting[c]
        PROVE  G
    <2>1. sq'.expire = [sq.expire EXCEPT ![t] = k]
      BY <1>5 DEF Puts
    <2>2. \A c \in Ctx : c # t => Stays(c)
      BY <2>1, <1>0, <1>5
    <2>3. Fine(t)
      BY <1>0, <1>5
    <2> QED
      BY <2>2, <2>3, <1>2
  <1> HIDE DEF Fine
  <1>6. "SET_RESUME" \notin Parked /\ RESUME_NOW \in Key
    BY Keys DEF Queued
  <1>7. ASSUME NEW w \in WaitQ, waitq[w] # <<>>, phase # "collect", resume_waitq_head(w)
        PROVE  G
    <2>1. PICK t : t = Head(waitq[w])
      OBVIOUS
    <2>2. UNCHANGED call /\ hosting' = [hosting EXCEPT ![t] = NULL]
      BY <2>1, <1>7 DEF resume_waitq_head
    <2>3. /\ t \in Ctx /\ hosting[t] = w
          /\ \/ UNCHANGED <<sqvars, state>>
             \/ Puts(t, RESUME_NOW) /\ state' = [state EXCEPT ![t] = "SET_RESUME"]
      BY <2>1, <1>7, HeadPuts
    <2>4. CASE UNCHANGED <<sqvars, state>>
      BY <2>2, <2>3, <2>4, <1>0, <1>3 DEF sqvars
    <2>5. CASE Puts(t, RESUME_NOW) /\ state' = [state EXCEPT ![t] = "SET_RESUME"]
      <3>1. call[t].op # "sleep"
        BY <2>3, <1>0, <1>1 DEF Queued
      <3>2. hosting'[t] = NULL /\ \A c \in Ctx : c # t => hosting'[c] = hosting[c]
        BY <2>2, <2>3, <1>0
      <3> QED
        BY <3>1, <3>2, <2>2, <2>3, <2>5, <1>5, <1>6
    <2> QED
      BY <2>3, <2>4, <2>5
  <1>8. ASSUME NEW name, Calling(name)
        PROVE  /\ me \in Ctx /\ state[me] = "RESUMED" /\ call[me].op = "none"
               /\ hosting[me] = NULL /\ sq.expire[me] = UNDEFINED
    <2>1. me \in Ctx /\ state[me] = "RESUMED" /\ call[me].op = "none" /\ sq.expire[me] = UNDEFINED
      BY <1>8, Caller
    <2> QED
      BY <2>1, <1>1 DEF Queued
  <1>9. CASE Switching
    <2>1. ASSUME NEW k \in Key, SleepUntil(k), NEW name, Calling(name), Puts(me, k),
                 SetsCall(me, "sleep", "wait"), call'[me].until = k
          PROVE  G
      <3>1. /\ state' = [state EXCEPT ![me] = "SLEEP"] /\ UNCHANGED hosting
            /\ sq'.expire = [sq.expire EXCEPT ![me] = k]
        BY <2>1 DEF SleepUntil, wqvars, Puts
      <3>2. \A c \in Ctx : c # me => Stays(c)
        BY <3>1, <2>1, <1>0 DEF SetsCall, OthersKeep
      <3>3. Fine(me)
        BY <3>1, <2>1, <1>0, <1>8 DEF SetsCall, Fine, Queued
      <3> QED
        BY <3>2, <3>3, <1>2
    <2>2. ASSUME NEW d \in Delays, mnthr_sleep(d) PROVE G
      <3>1. Deadline(d) \in Key /\ Puts(me, Deadline(d))
        BY <2>2, CallPuts
      <3>2. SetsCall(me, "sleep", "wait") /\ call'[me].until = Deadline(d)
        BY <2>2, CallSteps
      <3> QED
        BY <3>1, <3>2, <2>1, <2>2 DEF mnthr_sleep
    <2>3. CASE mnthr_yield
      BY <2>1, <2>3, CallPuts, CallSteps, Keys DEF mnthr_yield
    <2>4. CASE mnthr_giveup
      BY <2>1, <2>4, CallPuts, CallSteps, Keys DEF mnthr_giveup
    <2>5. CASE Exit
      <3>1. /\ Calling("exit") /\ UNCHANGED <<sq, hosting>> /\ KeepsCalls
            /\ state' = [state EXCEPT ![me] = "DORMANT"]
        BY <2>5, TimedPuts, CallSteps DEF Exit, mnthr_ctx_finalize, sqvars
      <3>2. \A c \in Ctx : c # me => Stays(c)
        BY <3>1, <1>0 DEF KeepsCalls
      <3>3. Fine(me)
        BY <3>1, <1>0, <1>8 DEF KeepsCalls, Fine, Queued
      <3> QED
        BY <3>2, <3>3, <1>2
    <2>6. CASE ExitEINTR
      BY <2>6, <1>4 DEF ExitEINTR, covars, wqvars
    <2>7. "JOIN" \in Queued /\ "JOIN_INTERRUPTED" \in Queued /\ "CONDWAIT" \in Queued
      BY DEF Queued
    <2>8. ASSUME NEW name, Calling(name), NEW w \in WaitQ, append_me_to_waitq(w),
                 UNCHANGED <<sqvars, call>>, NEW x \in Queued, state' = [state EXCEPT ![me] = x]
          PROVE  G
      <3>1. hosting' = [hosting EXCEPT ![me] = w] /\ state'[me] = x
        BY <2>8, <1>0, <1>8 DEF append_me_to_waitq
      <3>2. \A c \in Ctx : c # me => Stays(c)
        BY <3>1, <2>8, <1>0, <1>8 DEF sqvars
      <3>3. Fine(me)
        BY <3>1, <2>8, <1>8 DEF Fine, sqvars
      <3> QED
        BY <3>2, <3>3, <1>2
    <2>9. CASE mnthr_cond_wait
      BY <2>7, <2>8, <2>9 DEF mnthr_cond_wait, WaitQ
    <2>10. ASSUME NEW t \in Ctx, mnthr_join(t) PROVE G
      BY <2>7, <2>8, <2>10 DEF mnthr_join, WaitQ
    <2>11. ASSUME NEW v \in Retvals, mnthr_signal_error_and_join(v) PROVE G
      <3>1. PICK t \in Ctx : t = owner /\ t # me /\ state[t] = "SIGNAL_SUBSCRIBE"
        BY <2>11, <1>0, Caller DEF mnthr_signal_error_and_join, Subscribed
      <3>2. /\ state' = [state EXCEPT ![t] = "SET_RESUME", ![me] = "JOIN_INTERRUPTED"]
            /\ hosting' = [hosting EXCEPT ![me] = t] /\ UNCHANGED call
            /\ sq'.expire = [sq.expire EXCEPT ![t] = RESUME_NOW]
            /\ Calling("signal_error_and_join")
        BY <3>1, <2>11, CallPuts DEF mnthr_signal_error_and_join, append_me_to_waitq, Puts
      <3>3. me \in Ctx /\ call[me].op = "none" /\ sq.expire[me] = UNDEFINED
        BY <3>2, <1>8
      <3>4. \A c \in Ctx : c # me /\ c # t => Stays(c)
        BY <3>2, <1>0
      <3>5. Fine(me)
        BY <3>1, <3>2, <3>3, <2>7, <1>0 DEF Fine
      <3>6. Fine(t)
        <4>1. hosting[t] = NULL /\ call[t].op # "sleep"
          BY <3>1, <1>1 DEF Queued
        <4>2. state'[t] = "SET_RESUME" /\ hosting'[t] = NULL /\ call'[t].op # "sleep"
          BY <4>1, <3>1, <3>2, <1>0
        <4> QED
          BY <4>2, <1>6 DEF Fine
      <3> QED
        BY <3>4, <3>5, <3>6, <1>2
    <2>12. ASSUME NEW t \in Ctx PROVE ~ mnthr_set_interrupt_and_join(t)
      BY CallPuts
    <2>13. ASSUME NEW t \in Ctx, NEW d \in Delays
           PROVE  /\ ~ mnthr_set_interrupt_and_join_with_timeout(t, d)
                  /\ ~ mnthr_wait_for(t, d) /\ ~ mnthr_peek(t, d)
      BY CallPuts
    <2>14. ASSUME NEW d \in Delays PROVE ~ mnthr_signal_subscribe_with_timeout(d)
      BY CallPuts
    <2>15. CASE mnthr_signal_subscribe
      <3>1. /\ state' = [state EXCEPT ![me] = "SIGNAL_SUBSCRIBE"] /\ Calling("subscribe")
            /\ UNCHANGED <<sq, hosting>> /\ SetsCall(me, "subscribe", "wait")
        BY <2>15, CallSteps DEF mnthr_signal_subscribe, sqvars, wqvars
      <3>2. \A c \in Ctx : c # me => Stays(c)
        BY <3>1, <1>0 DEF SetsCall, OthersKeep
      <3>3. Fine(me)
        BY <3>1, <1>0, <1>8 DEF Fine, SetsCall
      <3> QED
        BY <3>2, <3>3, <1>2
    <2> QED
      BY <1>9, <2>2, <2>3, <2>4, <2>5, <2>6, <2>9, <2>10, <2>11, <2>12, <2>13, <2>14, <2>15
         DEF Switching
  <1>10. CASE Continuing
    <2>1. ASSUME NEW c \in Ctx, mnthr_new(c) \/ mnthr_incabac(c) \/ mnthr_decabac(c) PROVE G
      BY <2>1, <1>4 DEF mnthr_new, mnthr_incabac, mnthr_decabac, wqvars
    <2>2. ASSUME NEW c \in Ctx, Puts(c, RESUME_NOW), UNCHANGED <<call, hosting>>,
                 state' = [state EXCEPT ![c] = "SET_RESUME"],
                 state[c] \in {"DORMANT", "SIGNAL_SUBSCRIBE"}
          PROVE  G
      <3>1. call[c].op # "sleep" /\ hosting[c] = NULL
        BY <2>2, <1>0, <1>1 DEF Queued
      <3> QED
        BY <3>1, <2>2, <1>5, <1>6
    <2>3. ASSUME NEW c \in Ctx, mnthr_run(c) \/ mnthr_spawn(c) \/ mnthr_shutdown(c) PROVE G
      <3>1. state[c] = "DORMANT"
        BY <2>3, NewIsIdle DEF mnthr_run, mnthr_spawn, mnthr_shutdown
      <3> QED
        BY <3>1, <2>2, <2>3, CallPuts DEF mnthr_run, mnthr_spawn, mnthr_shutdown, set_resume, wqvars
    <2>4. CASE mnthr_gc \/ mnthr_cond_signal_all
      BY <2>4, <1>4 DEF mnthr_gc, mnthr_cond_signal_all, covars, wqvars
    <2>5. ASSUME NEW v \in Retvals, mnthr_set_retval(v) PROVE G
      BY <2>5, <1>4 DEF mnthr_set_retval, wqvars
    <2>6. ASSUME NEW c \in Ctx, NEW flag \in BOOLEAN, mnthr_set_prio(c, flag) PROVE G
      BY <2>6, <1>4 DEF mnthr_set_prio, wqvars
    <2>7. CASE mnthr_cond_signal_one
      <3>1. Cond \in WaitQ /\ phase # "collect"
        BY <2>7, NotCollecting DEF mnthr_cond_signal_one, WaitQ
      <3> QED
        BY <3>1, <2>7, <1>7 DEF mnthr_cond_signal_one
    <2>8. ASSUME NEW t \in Ctx PROVE ~ mnthr_set_interrupt(t)
      BY CallPuts
    <2>9. CASE mnthr_signal_send
      BY <2>2, <2>9, <1>0, CallPuts DEF mnthr_signal_send, Subscribed, set_resume, wqvars
    <2>10. ASSUME NEW v \in Retvals, mnthr_signal_error(v) PROVE G
      BY <2>2, <2>10, <1>0, CallPuts DEF mnthr_signal_error, Subscribed, set_resume, wqvars
    <2> QED
      BY <1>10, <2>1, <2>3, <2>4, <2>5, <2>6, <2>7, <2>8, <2>9, <2>10 DEF Continuing
  <1>11. CASE Forced
    <2>1. CASE resume_waitq_all
      BY <2>1, <1>0, <1>7 DEF resume_waitq_all
    <2>2. CASE push_free_ctx
      <3>1. UNCHANGED <<sqvars, state, call>>
        BY <2>2 DEF push_free_ctx, covars
      <3>2. \A c \in Ctx : hosting'[c] \in {NULL, hosting[c]}
        BY <2>2, <1>0 DEF push_free_ctx
      <3> QED
        BY <3>1, <3>2, <1>3 DEF sqvars
    <2>3. ASSUME NEW c \in Ctx, mnthr_ctx_fini(c) PROVE G
      BY <2>3, <1>4 DEF mnthr_ctx_fini
    <2>4. ~ TimedSleep /\ ~ wait_for_timeout /\ ~ peek_timeout /\ ~ interrupt_and_join_timeout
      BY TimedPuts
    <2>5. ~ TimedReturnGone
      <3>1. ASSUME TimedReturnGone PROVE FALSE
        <4>1. ctl = "thread" /\ call[me].op \in TimedOps
          BY <3>1 DEF TimedReturnGone, Returning
        <4>2. call[me].op \in Calls \cup {"none", "sleep"}
          BY <4>1, <1>0 DEF TameInv, CallsMade
        <4> QED
          BY <4>1, <4>2 DEF TimedOps, PlainCalls, Hasty
      <3> QED
        BY <3>1
    <2>6. CASE subscribe_return
      <3>1. /\ me \in Ctx /\ SetsCall(me, "none", "wait") /\ UNCHANGED <<sq, state, hosting>>
            /\ state[me] = "RESUMED"
        BY <2>6, <1>0, CallSteps DEF subscribe_return, Returning, sqvars, covars, wqvars
      <3>2. \A c \in Ctx : c # me => Stays(c)
        BY <3>1 DEF SetsCall, OthersKeep
      <3>3. Fine(me)
        BY <3>1, <1>1 DEF Fine, SetsCall
      <3> QED
        BY <3>2, <3>3, <1>2
    <2> QED
      BY <1>11, <2>1, <2>2, <2>3, <2>4, <2>5, <2>6 DEF Forced
  <1>12. CASE Poller
    <2>1. ASSUME NEW c \in Ctx, c \in Staged, state[c] \in RESUMABLE, poller_resume(c),
                 sq'.expire = [sq.expire EXCEPT ![c] = UNDEFINED]
          PROVE  G
      <3>1. /\ state' = [state EXCEPT ![c] = "RESUMED"] /\ UNCHANGED hosting
        BY <2>1 DEF poller_resume, wqvars
      <3>2. OthersKeep(c) /\ call'[c].op # "sleep"
        BY <2>1, <1>0, CallFields DEF SetsCall
      <3>3. hosting[c] = NULL
        <4>1. sq.expire[c] # UNDEFINED
          BY <2>1 DEF TameInv, StagedDue
        <4> QED
          BY <4>1, <1>1
      <3>4. \A d \in Ctx : d # c => Stays(d)
        BY <3>1, <3>2, <2>1, <1>0 DEF OthersKeep
      <3>5. Fine(c)
        BY <3>1, <3>2, <3>3, <1>0 DEF Fine, Queued
      <3> QED
        BY <3>4, <3>5, <1>2
    <2>2. CASE sift_host \/ sift_bucket
      BY <2>1, <2>2, HandedIsResumable, WalkEffect DEF sift_host, sift_bucket, TameInv
    <2>3. ASSUME sq'.expire = sq.expire, UNCHANGED <<state, call, hosting>> PROVE G
      BY <2>3, <1>3
    <2>4. ASSUME NEW t, loop_prepare(t) PROVE G
      BY <2>3, <2>4 DEF loop_prepare, Prepare, threadvars, covars, wqvars
    <2>5. ASSUME NEW k \in Key, sift_collect(k) PROVE G
      BY <2>3, <2>5, WalkEffect DEF sift_collect, threadvars, covars, wqvars, TameInv
    <2>6. CASE loop_break \/ sift_collected \/ sift_done
      BY <2>3, <2>6 DEF loop_break, sift_collected, CollectDone, sift_done, SiftDone, threadvars,
                        sqvars, covars, wqvars
    <2> QED
      BY <1>12, <2>2, <2>4, <2>5, <2>6 DEF Poller
  <1> QED
    BY <1>9, <1>10, <1>11, <1>12 DEF Next
-----------------------------------------------------------------------------
\* The invariant holds at the start.
LEMMA TameInit == Init => TameInv
  <1> SUFFICES ASSUME Init PROVE TameInv
    OBVIOUS
  <1>1. BaseInv /\ SQInv
    BY BaseInit, InitGood DEF Init
  <1>2. Elems(<<>>) = {} /\ Distinct(<<>>)
    BY DEF Elems, Distinct
  <1>3. \A c \in Ctx : call[c].op = "none" /\ call[c].ph = "wait"
    BY CallRecords DEF Init
  <1>4. Staged = {} /\ \A c \in Ctx : sq.expire[c] = UNDEFINED
    BY <1>2 DEF Init, SQInit, Staged
  <1>5. Control /\ Idle /\ Accounted
    BY <1>3, <1>4 DEF Init, SQInit, Control, Idle, Accounted, RESUMABLE
  <1>6. Subscriber /\ StagedDue /\ Slices /\ Unstarted /\ CallsMade
    BY <1>3, <1>4, NullAssumption DEF Init, Subscriber, StagedDue, Slices, Unstarted, CallsMade
  <1>7. Pools /\ Retired
    BY <1>2 DEF Init, Pools, Retired, LeftBehind
  <1>8. OneWait
    BY <1>3 DEF Init, OneWait, Queued
  <1> QED
    BY <1>1, <1>5, <1>6, <1>7, <1>8 DEF TameInv

\* Every step keeps it.
LEMMA TameNext ==
    ASSUME Tame
    PROVE  TameInv /\ [Next]_vars => TameInv'
  <1>1. ASSUME TameInv, Next PROVE TameInv'
    <2>1. BaseInv'
      BY <1>1, BaseNext DEF TameInv
    <2> QED
      BY <2>1, <1>1, SqKept, ControlKept, IdleKept, AccountedKept, SubscriberKept, SlicesKept,
         PoolsKept, RetiredKept, OneWaitKept DEF TameInv
  <1>2. ASSUME TameInv, UNCHANGED vars PROVE TameInv'
    <2>1. BaseInv' /\ SQInv'
      BY <1>2, BaseNext, StepKeepsInv DEF TameInv, vars
    <2>2. UNCHANGED <<sq, runq, tmp, now, phase, me, ctl, state, id, hosting, drain, owner, ctxes,
                      freelist, left, doomed, dying, call, slice>>
      BY <1>2 DEF vars, sqvars, covars, wqvars, ctxvars
    <2>3. Staged' = Staged /\ LeftBehind' = LeftBehind
      BY <2>2 DEF Staged, LeftBehind
    <2>4. Control' /\ Idle' /\ Accounted'
      BY <1>2, <2>2 DEF TameInv, Control, Idle, Accounted, Attended
    <2>5. Subscriber' /\ StagedDue' /\ Slices' /\ Unstarted' /\ CallsMade'
      BY <1>2, <2>2, <2>3 DEF TameInv, Subscriber, StagedDue, Slices, Unstarted, CallsMade
    <2>6. Pools' /\ Retired' /\ OneWait'
      BY <1>2, <2>2, <2>3 DEF TameInv, Pools, Retired, OneWait
    <2> QED
      BY <2>1, <2>4, <2>5, <2>6 DEF TameInv
  <1> QED
    BY <1>1, <1>2

\* The scheduler keeps TameInv for every set of contexts and every set of library
\* calls, as long as no call schedules a thread that the walk holds.
THEOREM SchedulerInvariant ==
    ASSUME Tame
    PROVE  Spec => []TameInv
  <1>1. TameInv /\ [Next]_vars => TameInv'
    BY TameNext
  <1> QED
    BY <1>1, TameInit, PTL DEF Spec

\* What the threads, the wait queues and the loop do with the sleep queue is what
\* module SleepQueue allows: it is removed from and added to under the right keys,
\* and nobody schedules a thread that is staged.  So all that is proved of the sleep
\* queue alone, its refinement of TimerMap too, holds of it in the running program.
THEOREM SchedulerUsesSleepQueue ==
    ASSUME Tame
    PROVE  Spec => UsesSleepQueue
  <1>1. Init => SQInit
    BY DEF Init
  <1>2. TameInv /\ [Next]_vars => [SQNext]_sqvars
    BY SqKept DEF vars
  <1> QED
    BY <1>1, <1>2, SchedulerInvariant, PTL DEF Spec, UsesSleepQueue, SQSpec

\* So the sleep queue of the running program is the multimap of first-come lines:
\* what the library's calls, the exits and the loop do to the trie of bucket hosts
\* between them is, step by step, what module TimerMap allows.
THEOREM SchedulerIsTimerMap ==
    ASSUME Tame
    PROVE  Spec => IsTimerMap
  <1> QED
    BY SchedulerUsesSleepQueue, SleepQueueIsTimerMap, PTL DEF UsesSleepQueue

\* A context the walk does not hold is linked, if at all, where sleepq_remove finds it:
\* in the bucket of the host of its expire_ticks.
LEMMA NoStray ==
    ASSUME TameInv, NEW c \in Ctx, c \notin Staged
    PROVE  ~ Stray(c)
  <1>1. c \notin Elems(tmp)
    BY DEF Staged
  <1>2. ASSUME NEW h \in Ctx, c \in Elems(sq.bucket[h])
        PROVE  LET k == sq.expire[c] IN
               k # UNDEFINED /\ sq.trie[k] # NULL /\ c \in Elems(sq.bucket[sq.trie[k]])
    <2>1. sq.bucket[h] # <<>>
      BY <1>2 DEF Elems
    <2>2. Host(h)
      BY <2>1 DEF TameInv, SQInv, OnlyHostsHaveBuckets
    <2>3. h \notin Elems(runq)
      BY <1>2 DEF Staged, Elems
    <2>4. PICK k \in Key : sq.trie[k] = h
      BY <2>2, <2>3 DEF Host
    <2>5. h # NULL
      BY NullAssumption
    <2>6. sq.bucket[h] \in Seq(Ctx)
      BY DEF TameInv, SQInv, SQTypeOK, SQ
    <2>7. c \in Elems(Line(k))
      <3>1. Line(k) = <<h>> \o sq.bucket[h]
        BY <2>4, <2>5 DEF Line
      <3>2. PICK i \in 1..Len(sq.bucket[h]) : sq.bucket[h][i] = c
        BY <1>2 DEF Elems
      <3>3. i + 1 \in 1..Len(Line(k)) /\ Line(k)[i + 1] = c
        BY <3>1, <3>2, <2>6
      <3> QED
        BY <3>3 DEF Elems
    <2>8. sq.expire[c] = k
      BY <2>4, <2>5, <2>7 DEF TameInv, SQInv, KeyIsExpire
    <2> QED
      BY <1>2, <2>4, <2>5, <2>8 DEF Key, UNDEFINED
  <1> QED
    BY <1>1, <1>2 DEF Stray

\* Scheduling a context the walk does not hold goes through no link in use.
LEMMA PutsNoFault ==
    ASSUME TameInv, NEW c \in Ctx, NEW k, Puts(c, k), Enqueue(c, k)
    PROVE  fault' = fault
  BY NoStray DEF Puts, Schedule, Enqueue, ListMisuse

\* No step of the scheduler modifies a list through a link that is in use.
LEMMA NoListFault ==
    ASSUME TameInv, Tame, Next
    PROVE  fault' # "list"
  <1> DEFINE G == fault' # "list"
  <1>0. /\ fault = "none"
        /\ RESUME_NOW \in Key /\ FOREVER \in Key
        /\ owner # NULL => owner \in Ctx
        /\ drain # NULL => drain \in WaitQ /\ waitq[drain] # <<>> /\ phase # "collect"
    BY Keys DEF Next, TameInv, BaseInv, TypeOK, Draining, Control
  <1>1. ASSUME NEW w \in WaitQ, waitq[w] # <<>>, phase # "collect", resume_waitq_head(w) PROVE G
    <2>1. PICK t : t = Head(waitq[w])
      OBVIOUS
    <2>2. /\ t \in Ctx
          /\ t # me /\ id[t] # NoId => Puts(t, RESUME_NOW)
      BY <1>1, <2>1, HeadPuts
    <2>3. \/ fault' = "assert"
          \/ UNCHANGED fault
          \/ t # me /\ id[t] # NoId /\ Enqueue(t, RESUME_NOW)
      BY <1>1, <2>1 DEF resume_waitq_head, set_resume
    <2> QED
      BY <2>2, <2>3, <1>0, PutsNoFault
  <1>2. CASE Switching
    <2>1. ASSUME NEW d \in Delays, mnthr_sleep(d) PROVE G
      BY <2>1, <1>0, CallPuts, NotCollecting, PutsNoFault DEF mnthr_sleep, SleepUntil
    <2>2. CASE mnthr_yield \/ mnthr_giveup
      BY <2>2, <1>0, CallPuts, NotCollecting, PutsNoFault DEF mnthr_yield, mnthr_giveup, SleepUntil
    <2>3. CASE Exit \/ ExitEINTR \/ mnthr_cond_wait \/ mnthr_signal_subscribe
      BY <2>3, <1>0 DEF Exit, ExitEINTR, mnthr_cond_wait, mnthr_signal_subscribe
    <2>4. ASSUME NEW t \in Ctx, mnthr_join(t) PROVE G
      BY <2>4, <1>0 DEF mnthr_join
    <2>5. ASSUME NEW t \in Ctx, mnthr_set_interrupt_and_join(t) PROVE G
      BY <2>5, <1>0, CallPuts, PutsNoFault DEF mnthr_set_interrupt_and_join, SetInterrupt
    <2>6. ASSUME NEW t \in Ctx, NEW d \in Delays,
                 mnthr_set_interrupt_and_join_with_timeout(t, d) \/ mnthr_wait_for(t, d)
          PROVE  G
      BY <2>6, <1>0, CallPuts, PutsNoFault
         DEF mnthr_set_interrupt_and_join_with_timeout, mnthr_wait_for, SetInterrupt
    <2>7. ASSUME NEW t \in Ctx, NEW d \in Delays, mnthr_peek(t, d) PROVE G
      BY <2>7, <1>0 DEF mnthr_peek
    <2>8. ASSUME NEW d \in Delays, mnthr_signal_subscribe_with_timeout(d) PROVE G
      BY <2>8, <1>0, CallPuts, NotCollecting, PutsNoFault DEF mnthr_signal_subscribe_with_timeout
    <2>9. ASSUME NEW v \in Retvals, mnthr_signal_error_and_join(v) PROVE G
      BY <2>9, <1>0, CallPuts, PutsNoFault DEF mnthr_signal_error_and_join, Subscribed
    <2> QED
      BY <1>2, <2>1, <2>2, <2>3, <2>4, <2>5, <2>6, <2>7, <2>8, <2>9 DEF Switching
  <1>3. CASE Continuing
    <2>1. ASSUME NEW c \in Ctx, mnthr_new(c) \/ mnthr_incabac(c) \/ mnthr_decabac(c) PROVE G
      BY <2>1, <1>0 DEF mnthr_new, mnthr_incabac, mnthr_decabac
    <2>2. ASSUME NEW c \in Ctx, mnthr_run(c) \/ mnthr_spawn(c) \/ mnthr_shutdown(c) PROVE G
      BY <2>2, <1>0, CallPuts, PutsNoFault
         DEF mnthr_run, mnthr_spawn, mnthr_shutdown, set_resume
    <2>3. CASE mnthr_gc \/ mnthr_cond_signal_all
      BY <2>3, <1>0 DEF mnthr_gc, mnthr_cond_signal_all
    <2>4. ASSUME NEW v \in Retvals, mnthr_set_retval(v) PROVE G
      BY <2>4, <1>0 DEF mnthr_set_retval
    <2>5. ASSUME NEW c \in Ctx, NEW flag \in BOOLEAN, mnthr_set_prio(c, flag) PROVE G
      BY <2>5, <1>0 DEF mnthr_set_prio
    <2>6. CASE mnthr_cond_signal_one
      BY <2>6, <1>1, NotCollecting DEF mnthr_cond_signal_one, WaitQ
    <2>7. ASSUME NEW t \in Ctx, mnthr_set_interrupt(t) PROVE G
      BY <2>7, <1>0, CallPuts, PutsNoFault DEF mnthr_set_interrupt, SetInterrupt
    <2>8. CASE mnthr_signal_send
      BY <2>8, <1>0, CallPuts, PutsNoFault DEF mnthr_signal_send, Subscribed, set_resume
    <2>9. ASSUME NEW v \in Retvals, mnthr_signal_error(v) PROVE G
      BY <2>9, <1>0, CallPuts, PutsNoFault DEF mnthr_signal_error, Subscribed, set_resume
    <2> QED
      BY <1>3, <2>1, <2>2, <2>3, <2>4, <2>5, <2>6, <2>7, <2>8, <2>9 DEF Continuing
  <1>4. CASE Forced
    <2>1. CASE resume_waitq_all
      BY <2>1, <1>0, <1>1 DEF resume_waitq_all
    <2>2. CASE push_free_ctx
      <3>1. dying \notin Linked
        BY DEF TameInv, Pools, LeftBehind, Linked
      <3> QED
        BY <2>2, <3>1, <1>0 DEF push_free_ctx
    <2>3. CASE TimedSleep \/ TimedReturnGone \/ subscribe_return
      BY <2>3, <1>0 DEF TimedSleep, TimedReturnGone, subscribe_return
    <2>4. ASSUME NEW c \in Ctx, mnthr_ctx_fini(c) PROVE G
      BY <2>4, <1>0 DEF mnthr_ctx_fini
    <2>5. CASE wait_for_timeout
      BY <2>5, <1>0, TimedPuts, PutsNoFault DEF wait_for_timeout, AssertFails, SetInterrupt
    <2>6. CASE peek_timeout \/ interrupt_and_join_timeout
      BY <2>6, <1>0 DEF peek_timeout, interrupt_and_join_timeout, AssertFails
    <2> QED
      BY <1>4, <2>1, <2>2, <2>3, <2>4, <2>5, <2>6 DEF Forced
  <1>5. CASE Poller
    <2>1. CASE sift_host \/ sift_bucket
      BY <2>1, <1>0, HandedIsResumable DEF sift_host, sift_bucket, poller_resume
    <2>2. ASSUME NEW k \in Key, sift_collect(k) PROVE G
      <3>1. sq.trie[k] \notin Elems(runq)
        BY DEF TameInv, SQInv, PlacedOnce
      <3> QED
        BY <2>2, <3>1, <1>0 DEF sift_collect
    <2>3. ASSUME NEW t, loop_prepare(t) PROVE G
      BY <2>3, <1>0 DEF loop_prepare
    <2>4. CASE loop_break \/ sift_collected \/ sift_done
      BY <2>4, <1>0 DEF loop_break, sift_collected, sift_done
    <2> QED
      BY <1>5, <2>1, <2>2, <2>3, <2>4 DEF Poller
  <1> QED
    BY <1>2, <1>3, <1>4, <1>5 DEF Next

\* The lists of the library are intrusive: a context has one link for the sleep queue's
\* lists and one for free_list.  Outside of the staged races no insertion and no removal
\* ever meets a link that is in use, neither in a bucket, on runq or in
\* sleepq_bucket_tmp, nor on free_list.
THEOREM SchedulerListsSound ==
    ASSUME Tame
    PROVE  Spec => [](fault # "list")
  <1>1. Init => fault # "list"
    BY DEF Init
  <1>2. TameInv /\ fault # "list" /\ [Next]_vars => (fault # "list")'
    BY NoListFault DEF vars
  <1> QED
    BY <1>1, <1>2, SchedulerInvariant, PTL DEF Spec

\* The head of a queue is in it.
LEMMA HandedIsStaged ==
    ASSUME TameInv, NEW c \in Ctx, Handed(c)
    PROVE  c \in Staged
  <1>1. runq \in Seq(Ctx) /\ tmp \in Seq(Ctx)
    BY DEF TameInv, SQInv, SQTypeOK
  <1>2. c \in Elems(runq) \/ c \in Elems(tmp)
    BY <1>1 DEF Handed, Elems
  <1> QED
    BY <1>2 DEF Staged

\* "Can only be the result of yield or start, ie, the state cannot be dormant or
\* resumed": poller_resume is handed threads that have switched, whoever has
\* exited, been reused or run since the walk collected them.
THEOREM SchedulerResumesResumable ==
    ASSUME Tame
    PROVE  Spec => []ResumesResumable
  <1>1. ASSUME TameInv, NEW c \in Ctx, Handed(c) PROVE state[c] \in RESUMABLE
    <2>1. sq.expire[c] # UNDEFINED
      BY <1>1, HandedIsStaged DEF TameInv, StagedDue
    <2>2. state[c] \in RESUMABLE \cup {"DORMANT", "RESUMED"}
      BY <1>1 DEF TameInv, BaseInv, TypeOK
    <2> QED
      BY <1>1, <2>1, <2>2 DEF TameInv, Idle
  <1>2. TameInv => ResumesResumable
    BY <1>1 DEF ResumesResumable
  <1> QED
    BY <1>2, SchedulerInvariant, PTL

\* "Give a single slice to those threads that have their sleep time expired": a
\* thread the walk has resumed is not handed to poller_resume again in this walk,
\* whatever it or the others schedule.
THEOREM SchedulerSingleSlice ==
    ASSUME Tame
    PROVE  Spec => []SingleSlice
  <1>1. TameInv => SingleSlice
    BY HandedIsStaged DEF SingleSlice, TameInv, Slices
  <1> QED
    BY <1>1, SchedulerInvariant, PTL

\* No thread is forgotten: each one that has switched is in the sleep queue, waits
\* for the event, or stands in a queue that somebody empties.
THEOREM SchedulerNoLostThread ==
    ASSUME Tame
    PROVE  Spec => []NoLostThread
  <1>1. ASSUME TameInv, NEW c \in Ctx, state[c] \in RESUMABLE, ~ (c = me /\ ctl = "thread")
        PROVE  \/ InSleepq(c)
               \/ owner = c
               \/ hosting[c] = Cond
               \/ hosting[c] \in Ctx /\ (id[hosting[c]] # NoId \/ drain = hosting[c])
    <2>1. call[c].ph # "enter"
      BY <1>1 DEF TameInv, Control
    <2>2. CASE sq.expire[c] = UNDEFINED
      BY <1>1, <2>1, <2>2 DEF TameInv, Accounted, Attended, Subscriber
    <2>3. CASE sq.expire[c] # UNDEFINED
      <3>1. c \in Staged \/ c \in Elems(Line(sq.expire[c]))
        BY <1>1, <2>3 DEF TameInv, SQInv, ExpireIsPlaced
      <3>2. sq.expire[c] \in Key
        BY <1>1, <2>3 DEF TameInv, SQInv, SQTypeOK, SQ, Key, UNDEFINED
      <3> QED
        BY <3>1, <3>2 DEF InSleepq
    <2> QED
      BY <2>2, <2>3
  <1>2. TameInv => NoLostThread
    BY <1>1 DEF NoLostThread
  <1> QED
    BY <1>2, SchedulerInvariant, PTL

\* A context with no expire_ticks is nowhere in the sleep queue.
LEMMA UndefinedIsOut ==
    ASSUME TameInv, NEW c \in Ctx, sq.expire[c] = UNDEFINED
    PROVE  ~ InSleepq(c)
  <1>1. c \notin Staged
    BY DEF TameInv, StagedDue
  <1>2. ASSUME NEW k \in Key, c \in Elems(Line(k)) PROVE FALSE
    <2>1. sq.trie[k] # NULL
      BY <1>2 DEF Line, Elems
    <2>2. sq.expire[c] = k
      BY <1>2, <2>1 DEF TameInv, SQInv, KeyIsExpire
    <2> QED
      BY <2>2 DEF Key, UNDEFINED
  <1> QED
    BY <1>1, <1>2 DEF InSleepq

\* free_list and the chains that mnthr_gc has left behind hold exactly the contexts
\* that are no thread, each once, and nothing refers to them any more: a context can
\* be given to a new thread, or freed, at any time.
THEOREM SchedulerFreeListExact ==
    ASSUME Tame
    PROVE  Spec => []FreeListExact
  <1>1. ASSUME TameInv, NEW c \in Elems(freelist) \cup LeftBehind
        PROVE  state[c] = "DORMANT" /\ ~ InSleepq(c) /\ hosting[c] = NULL /\ owner # c
    <2>1. c \in Elems(ctxes) /\ id[c] = NoId /\ c # dying
      BY <1>1 DEF TameInv, Pools
    <2>2. c \in Ctx
      BY <1>1, <2>1, ElemsType DEF TameInv, BaseInv, TypeOK
    <2>3. state[c] = "DORMANT" /\ hosting[c] = NULL
      BY <1>1, <2>1, <2>2 DEF TameInv, BaseInv, LiveHasId, Retired
    <2>4. ~ InSleepq(c)
      BY <1>1, <2>2, <2>3, UndefinedIsOut DEF TameInv, Idle
    <2>5. owner # c
      BY <1>1, <2>2, <2>3 DEF TameInv, Unstarted, Subscriber
    <2> QED
      BY <2>3, <2>4, <2>5
  <1>2. TameInv => FreeListExact
    BY <1>1 DEF FreeListExact, TameInv, Pools
  <1> QED
    BY <1>2, SchedulerInvariant, PTL

\* Who gets the processor from the main context was handed to poller_resume.
LEMMA ResumedWasHanded ==
    ASSUME TameInv, Tame, Next, NEW c \in Ctx, Resumes(c)
    PROVE  c \in Staged
  <1>0. ctl = "main" /\ ctl' = "thread" /\ me' = c
    BY DEF Resumes
  <1>1. CASE sift_host \/ sift_bucket
    <2>1. ASSUME NEW d, poller_resume(d) PROVE d = c
      BY <2>1, <1>0 DEF poller_resume
    <2> QED
      BY <2>1, <1>1, HandedIsResumable DEF sift_host, sift_bucket
  <1>2. CASE Switching
    BY <1>0, <1>2 DEF Switching, mnthr_sleep, mnthr_yield, mnthr_giveup, Exit, ExitEINTR,
                mnthr_cond_wait, mnthr_signal_subscribe, mnthr_join, mnthr_set_interrupt_and_join,
                mnthr_set_interrupt_and_join_with_timeout, mnthr_peek, mnthr_wait_for,
                mnthr_signal_subscribe_with_timeout, mnthr_signal_error_and_join, Calling
  <1>3. CASE Continuing
    BY <1>0, <1>3 DEF Continuing, mnthr_new, mnthr_spawn, mnthr_shutdown, mnthr_run, mnthr_incabac,
                mnthr_decabac, mnthr_set_retval, mnthr_signal_error, mnthr_set_prio, mnthr_gc,
                mnthr_cond_signal_one, mnthr_cond_signal_all, mnthr_signal_send,
                mnthr_set_interrupt, resume_waitq_head
  <1>4. CASE Forced
    BY <1>0, <1>4 DEF Forced, TimedSleep, TimedReturnGone, subscribe_return, wait_for_timeout,
                peek_timeout, interrupt_and_join_timeout, AssertFails, Returning,
                push_free_ctx, mnthr_ctx_fini, resume_waitq_all, resume_waitq_head
  <1>5. CASE Poller
    BY <1>0, <1>1, <1>5 DEF Poller, loop_prepare, loop_break, sift_collect, sift_collected, sift_done
  <1> QED
    BY <1>2, <1>3, <1>4, <1>5 DEF Next

\* A thread that sleeps is resumed after its time has passed, never before: the walk
\* finds it under the time it asked for, and nothing else knows of it.
THEOREM SchedulerNoEarlyWake ==
    ASSUME PlainCalls
    PROVE  Spec => NoEarlyWake
  <1>1. Tame
    BY DEF Tame
  <1>2. ASSUME TameInv, Next, NEW c \in Ctx, Resumes(c), call[c].op = "sleep"
        PROVE  call[c].until < now
    <2>1. c \in Staged
      BY <1>1, <1>2, ResumedWasHanded
    <2> QED
      BY <1>2, <2>1 DEF TameInv, StagedDue, OneWait
  <1>3. TameInv /\ [Next]_vars =>
           [\A c \in Ctx : Resumes(c) /\ call[c].op = "sleep" =>
                call[c].until < now \/ state[c] = "SET_INTERRUPT"]_vars
    BY <1>2
  <1>4. Spec => []TameInv
    BY <1>1, SchedulerInvariant
  <1> QED
    BY <1>3, <1>4, PTL DEF Spec, NoEarlyWake
-----------------------------------------------------------------------------
(***************************************************************************)
(* The timed waits.  mnthr_wait_for, mnthr_peek and                        *)
(* mnthr_set_interrupt_and_join_with_timeout tell why they were resumed by *)
(* looking at the id and the state of the context they waited for, which   *)
(* may have been given to another thread by then, and read its code.       *)
(* Nothing is assumed of the staged races here: a waiter may be scheduled  *)
(* twice, resumed too early, or finalized with an entry in the sleep queue *)
(* left over.                                                              *)
(***************************************************************************)

\* The application starts its threads when it creates them.  mnthr_peek takes a thread
\* that was created by mnthr_new and has not been run for one that has exited.
Spawned == Calls \cap {"new", "new_sig"} = {}

\* While a context is finalized no thread runs and no other context is freed.
Ending == dying # NULL => ctl = "main" /\ doomed = {} /\ id[dying] = NoId

\* While mnthr_gc is at work its caller is in no other call.
Busy == ctl = "thread" /\ (doomed # {} \/ fault = "freed") => call[me].op = "none"

\* Only a context that is no thread is dormant.
Started == \A c \in Ctx : id[c] # NoId => state[c] # "DORMANT"

\* The next number is new.
Recent == \A c \in Ctx : id[c] < co_id

\* The contexts of the chains that mnthr_gc will find.
Chained == UNION {q \in left : ~ Alone(q)}

\* Only contexts of the array that are no threads are free or freed, and each once.
Pooled == fault = "none" =>
    /\ Distinct(freelist)
    /\ Elems(freelist) \cap Chained = {}
    /\ Elems(freelist) \cup Chained \cup doomed \subseteq {c \in Elems(ctxes) : id[c] = NoId}
    /\ (Elems(freelist) \cup Chained) \cap doomed = {}
    /\ dying # NULL => dying \in Elems(ctxes)
    /\ \A c \in Ctx : id[c] # NoId => c \in Elems(ctxes)

\* The sleep queue and the walk link contexts of the array only.
Allocated == fault = "none" =>
    /\ sq \in SQOver(Elems(ctxes))
    /\ runq \in Seq(Elems(ctxes)) /\ tmp \in Seq(Elems(ctxes))

\* A timed wait for a thread knows its code if and only if the thread has left its
\* context, and the code stays there until the context is given away or freed.
Told == \A c \in Ctx : call[c].op \in TimedOps /\ call[c].gid # NoId =>
    /\ call[c].gid < co_id
    /\ call[c].exitrc = NoRc <=> id[call[c].tgt] = call[c].gid
    /\ last[call[c].tgt] = call[c].gid /\ id[call[c].tgt] # call[c].gid =>
          /\ id[call[c].tgt] = NoId
          /\ rc[call[c].tgt] = call[c].exitrc \/ fault = "freed"

\* Given BaseInv, the parts together are inductive.
WaitInv == /\ Ending
           /\ Busy
           /\ Started
           /\ Recent
           /\ Pooled
           /\ Allocated
           /\ Told

\* The thread of c ends: it has exited, or poller_resume cannot resume it.
Ends(c) == /\ mnthr_ctx_finalize(c)
           /\ ctl' = "main" /\ doomed = {}
           /\ UNCHANGED <<rc, ctxes, freelist, left, doomed, co_id, last, fault>>

\* Both ways to end.
LEMMA EndsEffect ==
    ASSUME BaseInv
    PROVE  /\ Exit => me \in Ctx /\ id[me] # NoId /\ Ends(me)
           /\ \A c \in Ctx : Discards(c) => Ends(c)
  <1>1. Exit => me \in Ctx /\ id[me] # NoId /\ Ends(me)
    BY DEF Exit, Calling, BaseInv, Running, LiveHasId, Ends
  <1>2. ASSUME NEW c \in Ctx, Discards(c) PROVE Ends(c)
    BY <1>2 DEF Discards, sift_host, sift_bucket, poller_resume, MainRuns, Ends
  <1> QED
    BY <1>1, <1>2

\* A thread ends, is created, or goes on; a new one gets a context that is no thread.
LEMMA IdSteps ==
    ASSUME BaseInv, Next
    PROVE  \/ UNCHANGED <<id, co_id, last>>
           \/ \E c \in Ctx : Creates(c)
           \/ \E c \in Ctx : Ends(c)
  BY CtxSteps, EndsEffect DEF push_free_ctx, mnthr_gc, mnthr_ctx_fini, covars

\* Nothing starts while a context is finalized.
LEMMA EndingKept ==
    ASSUME BaseInv, Ending, Next
    PROVE  Ending'
  <1>0. /\ id \in [Ctx -> -1..MaxId] /\ NULL \notin Ctx /\ dying \in Ctx \cup {NULL}
        /\ ctl \in {"main", "thread"} /\ TypeOK
    BY NullAssumption DEF BaseInv, TypeOK
  <1> SUFFICES ASSUME dying' # NULL PROVE ctl' = "main" /\ doomed' = {} /\ id'[dying'] = NoId
    BY DEF Ending
  <1>1. ASSUME NEW c \in Ctx, Ends(c) PROVE ctl' = "main" /\ doomed' = {} /\ id'[dying'] = NoId
    BY <1>0, <1>1 DEF Ends, mnthr_ctx_finalize
  <1>2. CASE dying # NULL /\ UNCHANGED dying /\ ~ Exit /\ ~ \E c \in Ctx : Discards(c)
    <2>1. ctl = "main" /\ doomed = {} /\ id[dying] = NoId
      BY <1>2 DEF Ending
    <2>2. ~ MainRuns /\ \A name : ~ Calling(name) /\ ~ CallingOrMain(name)
      BY <2>1, <1>2 DEF MainRuns, Calling, CallingOrMain
    <2>3. ~ Switching
      BY <2>2 DEF Switching, mnthr_sleep, mnthr_yield, mnthr_giveup, Exit, ExitEINTR,
                  mnthr_cond_wait, mnthr_signal_subscribe, mnthr_join,
                  mnthr_set_interrupt_and_join, mnthr_set_interrupt_and_join_with_timeout,
                  mnthr_peek, mnthr_wait_for, mnthr_signal_subscribe_with_timeout,
                  mnthr_signal_error_and_join
    <2>4. ~ Continuing
      BY <2>2 DEF Continuing, mnthr_new, mnthr_spawn, mnthr_shutdown, mnthr_run, mnthr_incabac,
                  mnthr_decabac, mnthr_set_retval, mnthr_signal_error, mnthr_set_prio, mnthr_gc,
                  mnthr_cond_signal_one, mnthr_cond_signal_all, mnthr_signal_send,
                  mnthr_set_interrupt
    <2>5. ~ Poller
      BY <2>2 DEF Poller, loop_prepare, loop_break, sift_collect, sift_collected, sift_host,
                  sift_bucket, sift_done
    <2>6. Forced
      BY <2>3, <2>4, <2>5 DEF Next
    <2>7. ctl' = ctl /\ UNCHANGED <<id, doomed>>
      BY <2>1, <2>6, <1>2
         DEF Forced, resume_waitq_all, resume_waitq_head, push_free_ctx, mnthr_ctx_fini, First,
             TimedSleep, TimedReturnGone, wait_for_timeout, peek_timeout,
             interrupt_and_join_timeout, subscribe_return, Returning, covars, ctxvars
    <2> QED
      BY <2>1, <2>7, <1>2
  <1>3. CASE dying = NULL /\ ~ Exit /\ ~ \E c \in Ctx : Discards(c)
    BY <1>3, CtxSteps DEF Creates, vnew_body, push_free_ctx, mnthr_gc, mnthr_ctx_fini
  <1>4. CASE dying # NULL /\ dying' # dying /\ ~ Exit /\ ~ \E c \in Ctx : Discards(c)
    BY <1>4, CtxSteps DEF Creates, vnew_body, push_free_ctx, mnthr_gc, mnthr_ctx_fini
  <1> QED
    BY <1>1, <1>2, <1>3, <1>4, EndsEffect

\* Numbers grow.
LEMMA RecentKept ==
    ASSUME BaseInv, Recent, Next
    PROVE  Recent'
  <1>0. TypeOK /\ id \in [Ctx -> -1..MaxId] /\ co_id \in 0..MaxId
    BY DEF BaseInv, TypeOK
  <1>1. ASSUME NEW c \in Ctx, Creates(c) PROVE Recent'
    <2>1. id' = [id EXCEPT ![c] = co_id] /\ co_id' = co_id + 1
      BY <1>0, <1>1, NewNumber DEF Creates
    <2> QED
      BY <2>1, <1>0 DEF Recent
  <1>2. ASSUME NEW c \in Ctx, Ends(c) PROVE Recent'
    BY <1>0, <1>2 DEF Ends, mnthr_ctx_finalize, Recent, NoId
  <1> QED
    BY <1>1, <1>2, IdSteps DEF Recent

\* The step writes the code of a live thread.
WritesLive == \E c \in Ctx, v \in Rc : id[c] # NoId /\ rc' = [rc EXCEPT ![c] = v]

\* Codes are written for live threads, for new ones, and when a context is freed.
LEMMA RcEffect ==
    ASSUME BaseInv, Next
    PROVE  \/ UNCHANGED rc
           \/ WritesLive
           \/ \E c \in Ctx : vnew_body(c)
           \/ \E c \in Ctx : mnthr_ctx_fini(c)
  <1> DEFINE G == \/ UNCHANGED rc
                  \/ WritesLive
                  \/ \E c \in Ctx : vnew_body(c)
                  \/ \E c \in Ctx : mnthr_ctx_fini(c)
  <1> SUFFICES G
    OBVIOUS
  <1>0. /\ ctl = "thread" => me \in Ctx /\ id[me] # NoId
        /\ \A c \in Ctx : state[c] \in RESUMABLE \cup {"SIGNAL_SUBSCRIBE"} => id[c] # NoId
        /\ \A c \in Ctx : call[c].op \in TimedOps => call[c].tgt \in Ctx
        /\ owner # NULL => owner \in Ctx
        /\ INTERRUPTED \in Rc /\ TIMEDOUT \in Rc /\ Retvals \subseteq Rc
    BY DEF BaseInv, TypeOK, Running, LiveHasId, TimedInQueue, RESUMABLE, Rc
  <1>1. CASE Switching
    <2>1. ASSUME NEW d \in Delays, mnthr_sleep(d) \/ mnthr_signal_subscribe_with_timeout(d) PROVE G
      BY <2>1 DEF mnthr_sleep, SleepUntil, mnthr_signal_subscribe_with_timeout
    <2>2. CASE mnthr_yield \/ mnthr_giveup \/ Exit \/ ExitEINTR \/ mnthr_cond_wait \/ mnthr_signal_subscribe
      BY <2>2 DEF mnthr_yield, mnthr_giveup, SleepUntil, Exit, ExitEINTR, mnthr_cond_wait,
                  mnthr_signal_subscribe, covars
    <2>3. ASSUME NEW t \in Ctx, mnthr_join(t) \/ mnthr_set_interrupt_and_join(t) PROVE G
      BY <2>3, <1>0 DEF mnthr_join, mnthr_set_interrupt_and_join, SetInterrupt, WritesLive
    <2>4. ASSUME NEW t \in Ctx, NEW d \in Delays,
                 \/ mnthr_set_interrupt_and_join_with_timeout(t, d)
                 \/ mnthr_wait_for(t, d) \/ mnthr_peek(t, d)
          PROVE  G
      BY <2>4, <1>0 DEF mnthr_set_interrupt_and_join_with_timeout, SetInterrupt, WritesLive,
                        mnthr_wait_for, mnthr_peek
    <2>5. ASSUME NEW v \in Retvals, mnthr_signal_error_and_join(v) PROVE G
      BY <2>5, <1>0 DEF mnthr_signal_error_and_join, Subscribed, WritesLive
    <2> QED
      BY <1>1, <2>1, <2>2, <2>3, <2>4, <2>5 DEF Switching
  <1>2. CASE Continuing
    <2>1. ASSUME NEW c \in Ctx, \/ mnthr_new(c) \/ mnthr_spawn(c) \/ mnthr_shutdown(c) \/ mnthr_run(c)
                                \/ mnthr_incabac(c) \/ mnthr_decabac(c)
          PROVE  G
      BY <2>1 DEF mnthr_new, mnthr_spawn, mnthr_shutdown, mnthr_run, mnthr_incabac, mnthr_decabac
    <2>2. CASE mnthr_gc \/ mnthr_cond_signal_all \/ mnthr_cond_signal_one \/ mnthr_signal_send
      BY <2>2 DEF mnthr_gc, mnthr_cond_signal_all, mnthr_cond_signal_one, resume_waitq_head,
                  mnthr_signal_send, covars
    <2>3. ASSUME NEW v \in Retvals, mnthr_set_retval(v) \/ mnthr_signal_error(v) PROVE G
      BY <2>3, <1>0 DEF mnthr_set_retval, mnthr_signal_error, Calling, Subscribed, WritesLive
    <2>4. ASSUME NEW c \in Ctx, NEW flag \in BOOLEAN, mnthr_set_prio(c, flag) PROVE G
      BY <2>4 DEF mnthr_set_prio
    <2>5. ASSUME NEW t \in Ctx, mnthr_set_interrupt(t) PROVE G
      BY <2>5, <1>0 DEF mnthr_set_interrupt, SetInterrupt, WritesLive
    <2> QED
      BY <1>2, <2>1, <2>2, <2>3, <2>4, <2>5 DEF Continuing
  <1>3. CASE Forced
    <2>1. CASE resume_waitq_all \/ push_free_ctx \/ TimedSleep \/ TimedReturnGone \/ subscribe_return
      BY <2>1 DEF resume_waitq_all, resume_waitq_head, push_free_ctx, TimedSleep,
                  TimedReturnGone, subscribe_return, covars
    <2>2. CASE wait_for_timeout \/ peek_timeout \/ interrupt_and_join_timeout
      <3>1. PICK t \in Ctx : t = call[me].tgt
        BY <2>2, <1>0 DEF wait_for_timeout, peek_timeout, interrupt_and_join_timeout, Returning,
                          TimedOps
      <3>2. \/ UNCHANGED rc
            \/ state[t] \in RESUMABLE /\ rc' = [rc EXCEPT ![t] = TIMEDOUT]
        BY <2>2, <3>1 DEF wait_for_timeout, peek_timeout, interrupt_and_join_timeout,
                          SetInterrupt, AssertFails, covars
      <3> QED
        BY <3>2, <1>0 DEF WritesLive
    <2> QED
      BY <1>3, <2>1, <2>2 DEF Forced
  <1>4. CASE Poller
    BY <1>4 DEF Poller, loop_prepare, loop_break, sift_collect, sift_collected, sift_host,
                sift_bucket, sift_done, poller_resume, threadvars, covars
  <1> QED
    BY <1>1, <1>2, <1>3, <1>4 DEF Next

\* Only mnthr_gc sees a context freed that somebody waits for.
LEMMA FreedEffect ==
    ASSUME Next, fault' = "freed"
    PROVE  \E c \in Ctx : mnthr_ctx_fini(c)
  <1>0. fault = "none" /\ "list" # "freed" /\ "assert" # "freed" /\ "none" # "freed"
    BY DEF Next
  <1>1. ASSUME NEW c, NEW k, Enqueue(c, k) PROVE FALSE
    BY <1>0, <1>1 DEF Enqueue
  <1>2. ASSUME NEW w, resume_waitq_head(w) PROVE FALSE
    BY <1>0, <1>1, <1>2 DEF resume_waitq_head, set_resume
  <1>3. CASE Switching
    BY <1>0, <1>1, <1>3
       DEF Switching, mnthr_sleep, mnthr_yield, mnthr_giveup, SleepUntil, Exit, ExitEINTR,
           mnthr_cond_wait, mnthr_signal_subscribe, mnthr_join, mnthr_set_interrupt_and_join,
           mnthr_set_interrupt_and_join_with_timeout, mnthr_peek, mnthr_wait_for,
           mnthr_signal_subscribe_with_timeout, mnthr_signal_error_and_join, SetInterrupt
  <1>4. CASE Continuing
    BY <1>0, <1>1, <1>2, <1>4
       DEF Continuing, mnthr_new, mnthr_spawn, mnthr_shutdown, mnthr_run, set_resume, mnthr_incabac,
           mnthr_decabac, mnthr_set_retval, mnthr_signal_error, mnthr_set_prio, mnthr_gc,
           mnthr_cond_signal_one, mnthr_cond_signal_all, mnthr_signal_send, mnthr_set_interrupt,
           SetInterrupt
  <1>5. CASE Forced
    BY <1>0, <1>1, <1>2, <1>5
       DEF Forced, TimedSleep, TimedReturnGone, subscribe_return, wait_for_timeout, peek_timeout,
           interrupt_and_join_timeout, AssertFails, SetInterrupt, push_free_ctx, resume_waitq_all
  <1>6. CASE Poller
    BY <1>0, <1>6 DEF Poller, loop_prepare, loop_break, sift_collect, sift_collected, sift_host,
                      sift_bucket, sift_done, poller_resume
  <1> QED
    BY <1>3, <1>4, <1>5, <1>6 DEF Next

\* What mnthr_gc has begun it ends before its caller goes on.
LEMMA BusyKept ==
    ASSUME BaseInv, Ending, Busy, Next
    PROVE  Busy'
  <1> SUFFICES ASSUME ctl' = "thread", doomed' # {} \/ fault' = "freed" PROVE call'[me'].op = "none"
    BY DEF Busy
  <1>0. ctxes \in Seq(Ctx)
    BY DEF BaseInv, TypeOK
  <1>1. \A c \in Ctx : mnthr_ctx_fini(c) => doomed # {}
    BY <1>0, FirstIsIn DEF mnthr_ctx_fini
  <1>2. CASE doomed = {}
    <2>1. mnthr_gc
      BY <1>1, <1>2, FreedEffect, CtxSteps, EndsEffect DEF Creates, vnew_body, Ends, push_free_ctx
    <2> QED
      BY <2>1 DEF mnthr_gc, CallingOrMain, Calling, MainRuns
  <1>3. CASE doomed # {}
    <2>1. UNCHANGED <<me, ctl, call>>
      <3>1. ~ MainRuns /\ \A name : ~ Calling(name) /\ ~ CallingOrMain(name)
        BY <1>3 DEF MainRuns, Calling, CallingOrMain
      <3>2. ~ Switching
        BY <3>1 DEF Switching, mnthr_sleep, mnthr_yield, mnthr_giveup, Exit, ExitEINTR,
                    mnthr_cond_wait, mnthr_signal_subscribe, mnthr_join,
                    mnthr_set_interrupt_and_join, mnthr_set_interrupt_and_join_with_timeout,
                    mnthr_peek, mnthr_wait_for, mnthr_signal_subscribe_with_timeout,
                    mnthr_signal_error_and_join
      <3>3. ~ Continuing
        BY <3>1 DEF Continuing, mnthr_new, mnthr_spawn, mnthr_shutdown, mnthr_run, mnthr_incabac,
                    mnthr_decabac, mnthr_set_retval, mnthr_signal_error, mnthr_set_prio, mnthr_gc,
                    mnthr_cond_signal_one, mnthr_cond_signal_all, mnthr_signal_send,
                    mnthr_set_interrupt
      <3>4. ~ Poller
        BY <3>1 DEF Poller, loop_prepare, loop_break, sift_collect, sift_collected, sift_host,
                    sift_bucket, sift_done
      <3>5. \A op : op # "none" => ~ Returning(op)
        BY <1>3 DEF Busy, Returning
      <3>6. Forced
        BY <3>2, <3>3, <3>4 DEF Next
      <3>7. ~ TimedSleep /\ ~ push_free_ctx
        BY <1>3 DEF TimedSleep, push_free_ctx, Busy, Ending, BaseInv, Entering, TimedOps, Running
      <3>8. /\ ~ TimedReturnGone /\ ~ subscribe_return /\ ~ wait_for_timeout /\ ~ peek_timeout
            /\ ~ interrupt_and_join_timeout
        BY <3>5 DEF TimedReturnGone, subscribe_return, wait_for_timeout, peek_timeout,
                    interrupt_and_join_timeout, TimedOps
      <3> QED
        BY <3>6, <3>7, <3>8 DEF Forced, resume_waitq_all, resume_waitq_head, mnthr_ctx_fini
    <2> QED
      BY <2>1, <1>3 DEF Busy
  <1> QED
    BY <1>2, <1>3

\* A thread is started when it is created, and dormant only when it has exited.
LEMMA StartedKept ==
    ASSUME BaseInv, Spawned, Started, Next
    PROVE  Started'
  <1> DEFINE G == \A c \in Ctx : id'[c] # NoId => state'[c] # "DORMANT"
  <1> SUFFICES G
    BY DEF Started
  <1>0. /\ state \in [Ctx -> RESUMABLE \cup {"DORMANT", "RESUMED"}] /\ TypeOK
        /\ id \in [Ctx -> -1..MaxId]
        /\ \A c \in Ctx : id[c] # NoId => state[c] # "DORMANT"
        /\ ctl = "thread" => me \in Ctx
        /\ owner # NULL => owner \in Ctx
    BY DEF BaseInv, TypeOK, SQTypeOK, Started, Running
  <1>1. UNCHANGED <<state, id>> => G
    BY <1>0
  <1>2. ASSUME UNCHANGED id, NEW c, NEW x, x # "DORMANT", state' = [state EXCEPT ![c] = x] PROVE G
    BY <1>0, <1>2
  <1>3. ASSUME UNCHANGED id, NEW c, NEW x, x # "DORMANT", NEW d, NEW y, y # "DORMANT",
               state' = [state EXCEPT ![c] = x, ![d] = y]
        PROVE  G
    BY <1>0, <1>3
  <1>4. ASSUME NEW c \in Ctx, mnthr_ctx_finalize(c) PROVE G
    BY <1>0, <1>4 DEF mnthr_ctx_finalize
  <1>5. ASSUME UNCHANGED id, NEW c, set_resume(c) PROVE G
    BY <1>2, <1>5 DEF set_resume
  <1>6. ASSUME UNCHANGED id, NEW w, resume_waitq_head(w) PROVE G
    BY <1>1, <1>5, <1>6 DEF resume_waitq_head
  <1>7. CASE Switching
    <2>1. CASE mnthr_yield \/ mnthr_giveup \/ mnthr_cond_wait \/ mnthr_signal_subscribe \/ ExitEINTR
      BY <2>1, <1>1, <1>2 DEF mnthr_yield, mnthr_giveup, SleepUntil, mnthr_cond_wait,
                              mnthr_signal_subscribe, ExitEINTR, covars
    <2>2. ASSUME NEW d \in Delays, mnthr_sleep(d) \/ mnthr_signal_subscribe_with_timeout(d) PROVE G
      BY <2>2, <1>2 DEF mnthr_sleep, SleepUntil, mnthr_signal_subscribe_with_timeout
    <2>3. CASE Exit
      BY <2>3, <1>0, <1>4 DEF Exit, Calling
    <2>4. ASSUME NEW t \in Ctx, mnthr_join(t) \/ mnthr_set_interrupt_and_join(t) PROVE G
      BY <2>4, <1>2, <1>3 DEF mnthr_join, mnthr_set_interrupt_and_join
    <2>5. ASSUME NEW t \in Ctx, NEW d \in Delays,
                 mnthr_set_interrupt_and_join_with_timeout(t, d) \/ mnthr_peek(t, d)
          PROVE  G
      BY <2>5, <1>2, <1>3 DEF mnthr_set_interrupt_and_join_with_timeout, mnthr_peek
    <2>6. ASSUME NEW c \in Ctx, NEW d \in Delays, mnthr_wait_for(c, d) PROVE G
      <3>1. /\ id' = [id EXCEPT ![c] = co_id]
            /\ state' = [state EXCEPT ![me] = "WAITFOR", ![c] = "SET_RESUME"]
        BY <2>6 DEF mnthr_wait_for, vnew_body
      <3> QED
        BY <3>1, <1>0
    <2>7. ASSUME NEW v \in Retvals, mnthr_signal_error_and_join(v) PROVE G
      BY <2>7, <1>3 DEF mnthr_signal_error_and_join
    <2> QED
      BY <1>7, <2>1, <2>2, <2>3, <2>4, <2>5, <2>6, <2>7 DEF Switching
  <1>8. CASE Continuing
    <2>1. ASSUME NEW c \in Ctx, mnthr_new(c) PROVE FALSE
      BY <2>1 DEF mnthr_new, CallingOrMain, Calling, Spawned
    <2>2. ASSUME NEW c \in Ctx, mnthr_spawn(c) \/ mnthr_shutdown(c) PROVE G
      <3>1. id' = [id EXCEPT ![c] = co_id] /\ state' = [state EXCEPT ![c] = "SET_RESUME"]
        BY <2>2 DEF mnthr_spawn, mnthr_shutdown, vnew_body, set_resume
      <3> QED
        BY <3>1, <1>0
    <2>3. ASSUME NEW c \in Ctx, mnthr_run(c) \/ mnthr_incabac(c) \/ mnthr_decabac(c) PROVE G
      BY <2>3, <1>1, <1>5 DEF mnthr_run, mnthr_incabac, mnthr_decabac
    <2>4. CASE mnthr_gc \/ mnthr_cond_signal_all
      BY <2>4, <1>1 DEF mnthr_gc, mnthr_cond_signal_all, covars
    <2>5. CASE mnthr_cond_signal_one
      BY <2>5, <1>6 DEF mnthr_cond_signal_one, resume_waitq_head
    <2>6. ASSUME NEW v \in Retvals, mnthr_set_retval(v) \/ mnthr_signal_error(v) PROVE G
      BY <2>6, <1>1, <1>5 DEF mnthr_set_retval, mnthr_signal_error
    <2>7. ASSUME NEW c \in Ctx, NEW flag \in BOOLEAN, mnthr_set_prio(c, flag) PROVE G
      BY <2>7, <1>1 DEF mnthr_set_prio
    <2>8. ASSUME NEW t \in Ctx, mnthr_set_interrupt(t) PROVE G
      BY <2>8, <1>2 DEF mnthr_set_interrupt
    <2>9. CASE mnthr_signal_send
      BY <2>9, <1>5 DEF mnthr_signal_send
    <2> QED
      BY <1>8, <2>1, <2>2, <2>3, <2>4, <2>5, <2>6, <2>7, <2>8, <2>9 DEF Continuing
  <1>9. CASE Forced
    <2>1. CASE resume_waitq_all
      BY <2>1, <1>6 DEF resume_waitq_all, resume_waitq_head
    <2>2. CASE push_free_ctx \/ TimedSleep \/ TimedReturnGone \/ subscribe_return
      BY <2>2, <1>1 DEF push_free_ctx, TimedSleep, TimedReturnGone, subscribe_return, covars
    <2>3. ASSUME NEW c \in Ctx, mnthr_ctx_fini(c) PROVE G
      BY <2>3, <1>1 DEF mnthr_ctx_fini
    <2>4. CASE wait_for_timeout \/ peek_timeout \/ interrupt_and_join_timeout
      BY <2>4, <1>1, <1>2 DEF wait_for_timeout, peek_timeout, interrupt_and_join_timeout,
                              AssertFails, covars
    <2> QED
      BY <1>9, <2>1, <2>2, <2>3, <2>4 DEF Forced
  <1>10. CASE Poller
    <2>1. ASSUME NEW c \in Ctx, poller_resume(c) PROVE G
      BY <2>1, <1>2, <1>4 DEF poller_resume
    <2>2. CASE sift_host \/ sift_bucket
      <3>1. runq \in Seq(Ctx) /\ tmp \in Seq(Ctx)
        BY DEF BaseInv, TypeOK, SQTypeOK
      <3> QED
        BY <2>1, <2>2, <3>1 DEF sift_host, sift_bucket, PopHost, PopBucket
    <2>3. ASSUME NEW t, loop_prepare(t) \/ sift_collect(t) PROVE G
      BY <2>3, <1>1 DEF loop_prepare, sift_collect, threadvars, covars
    <2>4. CASE loop_break \/ sift_collected \/ sift_done
      BY <2>4, <1>1 DEF loop_break, sift_collected, sift_done, threadvars, covars
    <2> QED
      BY <1>10, <2>2, <2>3, <2>4 DEF Poller
  <1> QED
    BY <1>7, <1>8, <1>9, <1>10 DEF Next

\* Nobody who is free becomes a thread without leaving free_list, and nobody gets there
\* twice.
LEMMA PooledKept ==
    ASSUME BaseInv, Ending, Pooled, Allocated, Next
    PROVE  Pooled'
  <1> DEFINE X == Elems(ctxes)
             F == Elems(freelist)
             L == Chained
  <1>0. /\ ctxes \in Seq(Ctx) /\ freelist \in Seq(Ctx)
        /\ id \in [Ctx -> -1..MaxId] /\ co_id \in 0..MaxId /\ doomed \subseteq Ctx /\ TypeOK
        /\ dying \in Ctx \cup {NULL} /\ NULL \notin Ctx
        /\ dying # NULL => ctl = "main" /\ doomed = {} /\ id[dying] = NoId
        /\ ctl \in {"main", "thread"}
        /\ fault = "none"
    BY NullAssumption DEF BaseInv, TypeOK, Ending, Next
  <1>1. /\ Distinct(freelist) /\ F \cap L = {}
        /\ F \subseteq X /\ L \subseteq X /\ doomed \subseteq X
        /\ \A c \in F \cup L \cup doomed : id[c] = NoId
        /\ F \cap doomed = {} /\ L \cap doomed = {}
        /\ dying # NULL => dying \in X
        /\ \A c \in Ctx : id[c] # NoId => c \in X
    BY <1>0 DEF Pooled
  <1>2. X \subseteq Ctx /\ F \subseteq Ctx
    BY <1>0, ElemsType
  <1>3. ASSUME Distinct(freelist'), Elems(freelist') \cap Chained' = {},
               Elems(freelist') \subseteq Elems(ctxes'), Chained' \subseteq Elems(ctxes'),
               doomed' \subseteq Elems(ctxes'),
               \A c \in Elems(freelist') \cup Chained' \cup doomed' : id'[c] = NoId,
               Elems(freelist') \cap doomed' = {}, Chained' \cap doomed' = {},
               dying' # NULL => dying' \in Elems(ctxes'),
               \A c \in Ctx : id'[c] # NoId => c \in Elems(ctxes')
        PROVE  Pooled'
    BY <1>3 DEF Pooled
  <1>4. UNCHANGED left => Chained' = L
    BY DEF Chained
  <1> HIDE DEF X, F, L
  <1>5. CASE UNCHANGED <<id, dying, ctxes, freelist, left, doomed>>
    BY <1>1, <1>3, <1>4, <1>5 DEF X, F
  <1>6. ASSUME NEW c \in Ctx, Creates(c) PROVE Pooled'
    <2>1. /\ id' = [id EXCEPT ![c] = co_id] /\ co_id # NoId
          /\ UNCHANGED <<left, doomed, dying>> /\ doomed = {} /\ dying = NULL
      BY <1>0, <1>6, NewNumber DEF Creates, vnew_body
    <2>2. id'[c] # NoId /\ \A d \in Ctx : d # c => id'[d] = id[d]
      BY <2>1, <1>0
    <2>3. CASE mnthr_ctx_new(c)
      <3>1. c \notin X /\ UNCHANGED freelist
        BY <2>3 DEF mnthr_ctx_new, X
      <3>2. Elems(ctxes') = X \cup {c}
        BY <2>3, <1>0, EnqueueElems DEF mnthr_ctx_new, DTQUEUE_ENQUEUE, X
      <3>3. \A d \in F \cup L : id'[d] = NoId
        BY <3>1, <2>2, <1>1, <1>2
      <3>4. \A d \in Ctx : id'[d] # NoId => d \in X \cup {c}
        BY <2>2, <1>1
      <3> QED
        BY <3>1, <3>2, <3>3, <3>4, <2>1, <1>1, <1>3, <1>4 DEF F
    <2>4. CASE First(freelist, Unheld, c) /\ freelist' = DTQUEUE_REMOVE(freelist, c) /\ UNCHANGED ctxes
      <3>1. c \in F
        BY <1>0, <2>4, FirstIsIn DEF F
      <3>2. Distinct(freelist') /\ Elems(freelist') = F \ {c}
        BY <1>0, <1>1, <2>4, RemoveElems DEF F
      <3>3. c \in X /\ c \notin L
        BY <3>1, <1>1
      <3>4. \A d \in (F \ {c}) \cup L : id'[d] = NoId
        BY <3>3, <2>2, <1>1, <1>2
      <3>5. \A d \in Ctx : id'[d] # NoId => d \in X
        BY <3>3, <2>2, <1>1
      <3> QED
        BY <3>2, <3>3, <3>4, <3>5, <2>1, <2>4, <1>1, <1>3, <1>4 DEF X
    <2> QED
      BY <2>3, <2>4, <1>6 DEF Creates, mnthr_ctx_pop_free
  <1>7. ASSUME NEW c \in Ctx, c \in X, Ends(c) PROVE Pooled'
    <2>1. /\ UNCHANGED <<ctxes, freelist, left, doomed>> /\ dying' = c
          /\ id' = [id EXCEPT ![c] = NoId]
      BY <1>7 DEF Ends, mnthr_ctx_finalize
    <2>2. /\ \A d \in F \cup L \cup doomed : id'[d] = NoId
          /\ \A d \in Ctx : id'[d] # NoId => d \in X
      BY <2>1, <1>0, <1>1, <1>2
    <2> QED
      BY <2>1, <2>2, <1>1, <1>3, <1>4, <1>7 DEF X, F
  <1>8. CASE Exit
    BY <1>1, <1>7, <1>8, EndsEffect
  <1>9. ASSUME NEW c \in Ctx, Discards(c) PROVE Pooled'
    <2>1. runq \in Seq(X) /\ tmp \in Seq(X)
      BY <1>0 DEF Allocated, X
    <2>2. c \in X
      BY <2>1, <1>9, ElemsType DEF Discards
    <2> QED
      BY <2>2, <1>7, <1>9, EndsEffect
  <1>10. CASE push_free_ctx
    <2>1. /\ UNCHANGED <<ctxes, left, doomed, id>> /\ dying # NULL /\ dying' = NULL
          /\ freelist' = DTQUEUE_ENQUEUE(freelist, dying)
          /\ fault' = "none" => dying \notin Linked
      BY <1>10 DEF push_free_ctx, covars
    <2>2. CASE dying \in Linked
      BY <2>1, <2>2 DEF Pooled
    <2>3. CASE dying \notin Linked
      <3>1. dying \in Ctx /\ dying \in X /\ dying \notin F /\ dying \notin L /\ doomed = {} /\ id[dying] = NoId
        BY <2>1, <2>3, <1>0, <1>1 DEF Linked, Chained, F, L
      <3>2. Distinct(freelist') /\ Elems(freelist') = F \cup {dying}
        BY <2>1, <3>1, <1>0, <1>1, EnqueueElems DEF F
      <3> QED
        BY <2>1, <3>1, <3>2, <1>1, <1>3, <1>4 DEF X
    <2> QED
      BY <2>2, <2>3
  <1>11. CASE mnthr_gc
    <2> DEFINE alone == {q \in left : Alone(q)}
               held == Linked \ Garbage
    <2>1. /\ UNCHANGED <<id, ctxes, dying>> /\ doomed' = Garbage
          /\ \/ held = {} /\ freelist' = <<>> /\ left' = alone
             \/ \E c \in Ctx : /\ First(ctxes, held, c) /\ freelist' = <<c>>
                               /\ left' = alone \cup ({held \ {c}} \ {{}})
      BY <1>11 DEF mnthr_gc, covars
    <2>2. Garbage \subseteq Linked /\ Linked = F \cup L
      BY DEF Garbage, Linked, Chained, F, L
    <2>3. /\ Linked \subseteq X /\ \A c \in Linked : id'[c] = NoId
          /\ held \subseteq Linked /\ held \cap Garbage = {}
      BY <2>1, <2>2, <1>1
    <2>4. \A q \in alone : Alone(q)
      OBVIOUS
    <2> HIDE DEF alone, held
    <2>5. CASE freelist' = <<>> /\ left' = alone
      <3>1. Distinct(<<>>) /\ Elems(<<>>) = {}
        BY DEF Distinct, Elems
      <3>2. Chained' = {}
        BY <2>4, <2>5 DEF Chained
      <3> QED
        BY <3>1, <3>2, <2>1, <2>2, <2>3, <2>5, <1>1, <1>3 DEF X
    <2>6. ASSUME NEW c \in Ctx, First(ctxes, held, c), freelist' = <<c>>,
                 left' = alone \cup ({held \ {c}} \ {{}})
          PROVE  Pooled'
      <3>1. c \in held
        BY <2>6 DEF First
      <3>2. Distinct(<<c>>) /\ Elems(<<c>>) = {c}
        BY DEF Distinct, Elems
      <3>3. Chained' \subseteq held \ {c}
        BY <2>4, <2>6 DEF Chained
      <3> QED
        BY <3>1, <3>2, <3>3, <2>1, <2>2, <2>3, <2>6, <1>1, <1>3 DEF X
    <2> QED
      BY <2>1, <2>5, <2>6
  <1>12. ASSUME NEW c \in Ctx, mnthr_ctx_fini(c) PROVE Pooled'
    <2>1. UNCHANGED <<id, dying, freelist, left>> /\ c \in doomed
      BY <1>0, <1>12, FirstIsIn DEF mnthr_ctx_fini
    <2>2. CASE UNCHANGED <<ctxes, doomed>>
      BY <2>1, <2>2, <1>5
    <2>3. CASE ctxes' = DTQUEUE_REMOVE(ctxes, c) /\ doomed' = doomed \ {c}
      <3>1. X \ {c} \subseteq Elems(ctxes')
        BY <2>3, <1>0, RemoveKeepsOthers DEF X
      <3>2. dying = NULL /\ id[c] = NoId /\ c \notin F /\ c \notin L
        BY <2>1, <1>0, <1>1
      <3>3. \A d \in Ctx : id'[d] # NoId => d \in Elems(ctxes')
        BY <2>1, <3>1, <3>2, <1>1
      <3> QED
        BY <2>1, <2>3, <3>1, <3>2, <3>3, <1>1, <1>3, <1>4 DEF F
    <2> QED
      BY <2>2, <2>3, <1>12 DEF mnthr_ctx_fini
  <1> QED
    BY CtxSteps, <1>5, <1>6, <1>8, <1>9, <1>10, <1>11, <1>12

\* A sleep queue over a set is one over every larger set.
LEMMA SQOverGrows ==
    ASSUME NEW S, NEW T, S \subseteq T, NEW q \in SQOver(S)
    PROVE  q \in SQOver(T)
  <1>1. PICK U \in [Key -> S \cup {NULL}], V \in [Ctx -> Seq(S)], W \in [Ctx -> 0..FOREVER] :
              q = [trie |-> U, bucket |-> V, expire |-> W]
    BY DEF SQOver
  <1>2. U \in [Key -> T \cup {NULL}] /\ V \in [Ctx -> Seq(T)]
    BY SeqGrows
  <1> QED
    BY <1>1, <1>2 DEF SQOver

\* Whoever is linked in the sleep queue is in the array.
LEMMA AllocatedKept ==
    ASSUME BaseInv, Pooled', Allocated, Next
    PROVE  Allocated'
  <1> DEFINE X == Elems(ctxes)
             Y == Elems(ctxes')
  <1> SUFFICES ASSUME fault' = "none"
               PROVE  sq' \in SQOver(Y) /\ runq' \in Seq(Y) /\ tmp' \in Seq(Y)
    BY DEF Allocated
  <1>0. /\ ctxes \in Seq(Ctx) /\ ctxes' \in Seq(Ctx) /\ BaseInv' /\ fault = "none"
    BY BaseNext DEF BaseInv, TypeOK, Next
  <1>1. X \subseteq Ctx /\ Y \subseteq Ctx
    BY <1>0, ElemsType
  <1>2. \A c \in Ctx : state'[c] # "DORMANT" => c \in Y
    BY <1>0 DEF BaseInv, LiveHasId, Pooled
  <1>3. sq \in SQOver(X) /\ runq \in Seq(X) /\ tmp \in Seq(X)
    BY <1>0 DEF Allocated
  <1>4. CASE X \subseteq Y
    <2> HIDE DEF X, Y
    <2>1. sq \in SQOver(Y) /\ runq \in Seq(Y) /\ tmp \in Seq(Y)
      BY <1>3, <1>4, SQOverGrows, SeqGrows
    <2> QED
      BY <2>1, <1>1, <1>2, SqLinks
  <1>5. ASSUME NEW c \in Ctx, mnthr_ctx_fini(c), ctxes' = DTQUEUE_REMOVE(ctxes, c), ~ Referred(c),
               UNCHANGED sqvars
        PROVE  sq' \in SQOver(Y) /\ runq' \in Seq(Y) /\ tmp' \in Seq(Y)
    <2>1. X \ {c} \subseteq Y
      BY <1>0, <1>5, RemoveKeepsOthers
    <2> HIDE DEF X, Y
    <2>2. runq \in Seq(Y) /\ tmp \in Seq(Y)
      BY <2>1, <1>3, <1>5, SeqOver DEF Referred
    <2>3. PICK U \in [Key -> X \cup {NULL}], V \in [Ctx -> Seq(X)], W \in [Ctx -> 0..FOREVER] :
              sq = [trie |-> U, bucket |-> V, expire |-> W]
      BY <1>3 DEF SQOver
    <2>4. sq.trie = U /\ sq.bucket = V
      BY <2>3
    <2>5. \A k \in Key : U[k] # c
      BY <2>4, <1>5 DEF Referred
    <2>6. \A h \in Ctx : V[h] \in Seq(X) /\ c \notin Elems(V[h])
      BY <2>4, <1>5 DEF Referred
    <2>7. U \in [Key -> Y \cup {NULL}]
      BY <2>1, <2>5
    <2>8. V \in [Ctx -> Seq(Y)]
      BY <2>1, <2>6, SeqOver
    <2>9. sq \in SQOver(Y)
      BY <2>3, <2>7, <2>8 DEF SQOver
    <2> QED
      BY <2>2, <2>9, <1>5 DEF sqvars
  <1>6. X \subseteq Y \/ \E c \in Ctx : mnthr_ctx_fini(c) /\ ctxes' # ctxes
    <2>1. ASSUME NEW c \in Ctx, Creates(c) PROVE X \subseteq Y
      <3>1. CASE mnthr_ctx_new(c)
        BY <3>1, <1>0, EnqueueElems DEF mnthr_ctx_new, DTQUEUE_ENQUEUE
      <3> QED
        BY <3>1, <2>1 DEF Creates, mnthr_ctx_pop_free
    <2> QED
      BY <2>1, CtxSteps, EndsEffect DEF Ends, push_free_ctx, mnthr_gc
  <1>7. ASSUME NEW c \in Ctx, mnthr_ctx_fini(c), ctxes' # ctxes
        PROVE  ctxes' = DTQUEUE_REMOVE(ctxes, c) /\ ~ Referred(c) /\ UNCHANGED sqvars
    BY <1>7 DEF mnthr_ctx_fini
  <1> QED
    BY <1>4, <1>5, <1>6, <1>7

\* The timed wait of c goes on.
Goes(c) == /\ call'[c].op = call[c].op /\ call'[c].tgt = call[c].tgt
           /\ call'[c].gid = call[c].gid /\ call'[c].exitrc = call[c].exitrc

\* The running thread begins one, for a thread that is there or that it creates.
Begins(c) == /\ call'[c].exitrc = NoRc
             /\ \E t \in Ctx : /\ call'[c].tgt = t
                               /\ \/ call'[c].gid = id[t] /\ UNCHANGED <<id, co_id, last>>
                                  \/ call'[c].gid = co_id /\ vnew_body(t)

\* What becomes of a timed wait in a step.
LEMMA TimedSteps ==
    ASSUME BaseInv, Next, NEW c \in Ctx, call'[c].op \in TimedOps
    PROVE  Goes(c) \/ Begins(c) \/ \E d \in Ctx : Ends(d)
  <1> DEFINE G == Goes(c) \/ Begins(c) \/ \E d \in Ctx : Ends(d)
  <1> SUFFICES G
    OBVIOUS
  <1>0. /\ call \in [Ctx -> Call]
        /\ ctl = "thread" => me \in Ctx
        /\ "none" \notin TimedOps /\ "sleep" \notin TimedOps /\ "subscribe" \notin TimedOps
        /\ "subscribe_with_timeout" \notin TimedOps
        /\ now \in Nat /\ id \in [Ctx -> -1..MaxId] /\ co_id \in -1..MaxId /\ NoId \in -1..MaxId
    BY SchedulerAssumption DEF BaseInv, TypeOK, SQTypeOK, Running, TimedOps, NoId
  <1>1. UNCHANGED call => G
    BY DEF Goes
  <1>2. ASSUME NEW d \in Ctx, NEW r \in Call, r.op \notin TimedOps, call' = [call EXCEPT ![d] = r] PROVE G
    BY <1>0, <1>2 DEF Goes
  <1>3. ASSUME me \in Ctx, Returned PROVE G
    <2>1. NoCall \in Call /\ NoCall.op \notin TimedOps
      BY <1>0, CallRecords
    <2> QED
      BY <2>1, <1>2, <1>3 DEF Returned
  <1>4. ASSUME me \in Ctx, NEW op \in {"sleep", "subscribe", "subscribe_with_timeout"},
               NEW k \in 0..FOREVER, Block(op, NULL, k)
        PROVE  G
    <2>1. call' = [call EXCEPT ![me] = CallOf(op, "wait", NULL, NoId, k)]
      BY <1>4 DEF Block
    <2>2. op \in {"none", "sleep"} \cup CallNames
      BY DEF CallNames
    <2>3. CallOf(op, "wait", NULL, NoId, k) \in Call /\ CallOf(op, "wait", NULL, NoId, k).op = op
      BY <2>2, <1>0 DEF CallOf, Call
    <2>4. CallOf(op, "wait", NULL, NoId, k).op \notin TimedOps
      BY <2>3, <1>0
    <2> QED
      BY <2>1, <2>3, <2>4, <1>2, <1>4
  <1>5. ASSUME me \in Ctx, NEW op \in TimedOps, NEW t \in Ctx, NEW i \in -1..MaxId, NEW k \in Key,
               Enter(op, t, i, k),
               (i = id[t] /\ UNCHANGED <<id, co_id, last>>) \/ (i = co_id /\ vnew_body(t))
        PROVE  G
    <2>1. call' = [call EXCEPT ![me] = CallOf(op, "enter", t, i, k)]
      BY <1>5 DEF Enter
    <2>2. op \in {"none", "sleep"} \cup CallNames /\ k \in 0..FOREVER
      BY DEF CallNames, TimedOps, Key
    <2>3. /\ CallOf(op, "enter", t, i, k).tgt = t
          /\ CallOf(op, "enter", t, i, k).gid = i
          /\ CallOf(op, "enter", t, i, k).exitrc = NoRc
      BY DEF CallOf
    <2>4. CASE c = me
      <3>1. call'[c] = CallOf(op, "enter", t, i, k)
        BY <2>1, <2>4, <1>0, <1>5
      <3> QED
        BY <3>1, <2>3, <1>5 DEF Begins
    <2>5. CASE c # me
      BY <2>1, <2>5, <1>0 DEF Goes
    <2> QED
      BY <2>4, <2>5
  <1>6. /\ RESUME_NOW \in 0..FOREVER /\ FOREVER \in 0..FOREVER /\ 0 \in 0..FOREVER
        /\ \A d \in Delays : InHorizon(d) => Deadline(d) \in Key /\ Deadline(d) \in 0..FOREVER
    BY <1>0, Keys, TimeAssumption DEF Key
  <1>7. CASE Switching
    <2>1. ASSUME NEW d \in Delays, mnthr_sleep(d) \/ mnthr_signal_subscribe_with_timeout(d) PROVE G
      BY <2>1, <1>0, <1>4, <1>6
         DEF mnthr_sleep, SleepUntil, mnthr_signal_subscribe_with_timeout, Calling
    <2>2. CASE mnthr_yield \/ mnthr_giveup \/ mnthr_signal_subscribe
      BY <2>2, <1>0, <1>4, <1>6 DEF mnthr_yield, mnthr_giveup, SleepUntil, mnthr_signal_subscribe,
                                    Calling
    <2>3. CASE ExitEINTR \/ mnthr_cond_wait
      BY <2>3, <1>1 DEF ExitEINTR, mnthr_cond_wait
    <2>4. ASSUME NEW t \in Ctx, mnthr_join(t) \/ mnthr_set_interrupt_and_join(t) PROVE G
      BY <2>4, <1>1 DEF mnthr_join, mnthr_set_interrupt_and_join
    <2>5. ASSUME NEW t \in Ctx, NEW d \in Delays, mnthr_set_interrupt_and_join_with_timeout(t, d)
          PROVE  G
      <3>1. /\ Enter("set_interrupt_and_join_with_timeout", t, id[t], Deadline(d))
            /\ UNCHANGED <<id, co_id, last>> /\ me \in Ctx /\ Deadline(d) \in Key
        BY <2>5, <1>0, <1>6 DEF mnthr_set_interrupt_and_join_with_timeout, Calling, ctxvars
      <3> QED
        BY <3>1, <1>0, <1>5 DEF TimedOps
    <2>6. ASSUME NEW t \in Ctx, NEW d \in Delays, mnthr_peek(t, d) PROVE G
      <3>1. /\ Enter("peek", t, id[t], Deadline(d))
            /\ UNCHANGED <<id, co_id, last>> /\ me \in Ctx /\ Deadline(d) \in Key
        BY <2>6, <1>0, <1>6 DEF mnthr_peek, Calling, ctxvars
      <3> QED
        BY <3>1, <1>0, <1>5 DEF TimedOps
    <2>7. ASSUME NEW t \in Ctx, NEW d \in Delays, mnthr_wait_for(t, d) PROVE G
      <3>1. /\ Enter("wait_for", t, co_id, Deadline(d)) /\ vnew_body(t)
            /\ me \in Ctx /\ Deadline(d) \in Key
        BY <2>7, <1>0, <1>6 DEF mnthr_wait_for, Calling
      <3> QED
        BY <3>1, <1>0, <1>5 DEF TimedOps
    <2>8. ASSUME NEW v \in Retvals, mnthr_signal_error_and_join(v) PROVE G
      BY <2>8, <1>1 DEF mnthr_signal_error_and_join
    <2> QED
      BY <1>7, <2>1, <2>2, <2>3, <2>4, <2>5, <2>6, <2>7, <2>8, EndsEffect DEF Switching
  <1>8. CASE Continuing
    BY <1>8, <1>1 DEF Continuing, mnthr_new, mnthr_spawn, mnthr_shutdown, mnthr_run, mnthr_incabac,
                mnthr_decabac, mnthr_set_retval, mnthr_signal_error, mnthr_set_prio, mnthr_gc,
                mnthr_cond_signal_one, mnthr_cond_signal_all, mnthr_signal_send,
                mnthr_set_interrupt, resume_waitq_head
  <1>9. CASE Forced
    <2>1. CASE resume_waitq_all \/ push_free_ctx \/ \E d \in Ctx : mnthr_ctx_fini(d)
      BY <2>1, <1>1 DEF resume_waitq_all, resume_waitq_head, push_free_ctx, mnthr_ctx_fini
    <2>2. CASE TimedSleep
      <3>1. call' = [call EXCEPT ![me].ph = "wait"] /\ me \in Ctx
        BY <2>2, <1>0 DEF TimedSleep
      <3>2. PICK q \in Call : q = call[me]
        BY <3>1, <1>0
      <3>3. CASE c = me
        <4>1. call'[c] = [q EXCEPT !.ph = "wait"]
          BY <3>1, <3>2, <3>3, <1>0
        <4> QED
          BY <4>1, <3>2, <3>3, CallUpdates DEF Goes
      <3>4. CASE c # me
        BY <3>1, <3>4, <1>0 DEF Goes
      <3> QED
        BY <3>3, <3>4
    <2>3. CASE TimedReturnGone \/ subscribe_return
      BY <2>3, <1>0, <1>3 DEF TimedReturnGone, subscribe_return, Returning
    <2>4. CASE wait_for_timeout \/ peek_timeout \/ interrupt_and_join_timeout
      BY <2>4, <1>0, <1>1, <1>3 DEF wait_for_timeout, peek_timeout, interrupt_and_join_timeout,
                                    AssertFails, Returning
    <2> QED
      BY <1>9, <2>1, <2>2, <2>3, <2>4 DEF Forced
  <1>10. CASE Poller
    <2>1. CASE sift_host \/ sift_bucket
      <3>1. PICK d \in Ctx : /\ poller_resume(d)
                             /\ \/ sift_host /\ d = Head(runq) /\ d \in Elems(runq)
                                \/ sift_bucket /\ d = Head(tmp) /\ d \in Elems(tmp)
        <4>1. runq \in Seq(Ctx) /\ tmp \in Seq(Ctx)
          BY DEF BaseInv, TypeOK, SQTypeOK
        <4> QED
          BY <2>1, <4>1 DEF sift_host, sift_bucket, PopHost, PopBucket, Elems
      <3>2. CASE state[d] \in RESUMABLE
        <4>1. UNCHANGED call \/ call' = [call EXCEPT ![d] = NoCall]
          BY <3>1, <3>2 DEF poller_resume
        <4> QED
          BY <4>1, <1>0, <1>1, <1>2, CallRecords
      <3>3. CASE state[d] \notin RESUMABLE
        BY <3>1, <3>3, EndsEffect DEF Discards
      <3> QED
        BY <3>2, <3>3
    <2>2. ASSUME NEW t, loop_prepare(t) \/ sift_collect(t) PROVE G
      BY <2>2, <1>1 DEF loop_prepare, sift_collect, threadvars
    <2>3. CASE loop_break \/ sift_collected \/ sift_done
      BY <2>3, <1>1 DEF loop_break, sift_collected, sift_done, threadvars
    <2> QED
      BY <1>10, <2>1, <2>2, <2>3 DEF Poller
  <1> QED
    BY <1>7, <1>8, <1>9, <1>10 DEF Next

\* What a timed wait is told when its thread ends stays true.
LEMMA ToldKept ==
    ASSUME BaseInv, Recent, Pooled, Told, Next
    PROVE  Told'
  <1>0. /\ call \in [Ctx -> Call] /\ rc \in [Ctx -> Rc] /\ TypeOK /\ co_id \in 0..MaxId
        /\ id \in [Ctx -> -1..MaxId] /\ last \in [Ctx -> -1..MaxId]
        /\ fault = "none" /\ NoRc \notin Rc /\ freelist \in Seq(Ctx)
        /\ \A c \in Ctx : id[c] < co_id
        /\ \A c \in Ctx : call[c].op \in TimedOps => call[c].tgt \in Ctx
    <2>1. NoRc \notin Rc
      BY SchedulerAssumption DEF Rc, NoRc, INTERRUPTED, TIMEDOUT
    <2>2. TypeOK
      BY DEF BaseInv
    <2> QED
      BY <2>1, <2>2 DEF TypeOK, BaseInv, TimedInQueue, Next, Recent
  <1> SUFFICES ASSUME NEW c \in Ctx, call'[c].op \in TimedOps, call'[c].gid # NoId
               PROVE  /\ call'[c].gid < co_id'
                      /\ call'[c].exitrc = NoRc <=> id'[call'[c].tgt] = call'[c].gid
                      /\ last'[call'[c].tgt] = call'[c].gid /\ id'[call'[c].tgt] # call'[c].gid =>
                            /\ id'[call'[c].tgt] = NoId
                            /\ rc'[call'[c].tgt] = call'[c].exitrc \/ fault' = "freed"
    BY DEF Told
  <1> DEFINE G(t, g, x) == /\ g < co_id'
                           /\ x = NoRc <=> id'[t] = g
                           /\ last'[t] = g /\ id'[t] # g =>
                                 id'[t] = NoId /\ (rc'[t] = x \/ fault' = "freed")
  <1> SUFFICES G(call'[c].tgt, call'[c].gid, call'[c].exitrc)
    OBVIOUS
  <1>1. ASSUME NEW t \in Ctx, NEW g \in -1..MaxId, NEW x, call[c].op \in TimedOps, g # NoId,
               t = call[c].tgt, g = call[c].gid, x = call[c].exitrc
        PROVE  /\ g < co_id
               /\ x = NoRc <=> id[t] = g
               /\ last[t] = g /\ id[t] # g => id[t] = NoId /\ rc[t] = x
    <2>1. "none" # "freed"
      OBVIOUS
    <2> QED
      BY <1>0, <1>1, <2>1 DEF Told
  <1>2. CASE Begins(c)
    <2>1. PICK t \in Ctx : /\ call'[c].tgt = t
                           /\ \/ call'[c].gid = id[t] /\ UNCHANGED <<id, co_id, last>>
                              \/ call'[c].gid = co_id /\ vnew_body(t)
      BY <1>2 DEF Begins
    <2>2. CASE call'[c].gid = id[t] /\ UNCHANGED <<id, co_id, last>>
      BY <2>1, <2>2, <1>0, <1>2 DEF Begins
    <2>3. CASE call'[c].gid = co_id /\ vnew_body(t)
      <3>1. id' = [id EXCEPT ![t] = co_id] /\ co_id' = co_id + 1
        BY <2>3, <1>0, NewNumber
      <3>2. id'[t] = co_id /\ co_id < co_id'
        BY <3>1, <1>0
      <3> QED
        BY <3>2, <2>1, <2>3, <1>2 DEF Begins
    <2> QED
      BY <2>1, <2>2, <2>3
  <1>3. CASE Goes(c)
    <2>1. call[c].op \in TimedOps /\ call[c].gid # NoId /\ call[c] \in Call
      BY <1>0, <1>3 DEF Goes
    <2>2. PICK t \in Ctx, g \in -1..MaxId, x \in Rc \cup {NoRc} :
             t = call[c].tgt /\ g = call[c].gid /\ x = call[c].exitrc
      BY <2>1, <1>0 DEF Call
    <2>3. /\ g < co_id /\ g # NoId
          /\ x = NoRc <=> id[t] = g
          /\ last[t] = g /\ id[t] # g => id[t] = NoId /\ rc[t] = x
      BY <1>1, <2>1, <2>2
    <2>4. SUFFICES G(t, g, x)
      BY <2>2, <1>3 DEF Goes
    <2>5. CASE UNCHANGED <<id, co_id, last>>
      <3>1. SUFFICES ASSUME id[t] = NoId PROVE rc'[t] = rc[t] \/ fault' = "freed"
        BY <2>3, <2>5
      <3>2. CASE WritesLive
        BY <3>1, <3>2, <1>0 DEF WritesLive
      <3>3. ASSUME NEW d \in Ctx, vnew_body(d) PROVE FALSE
        BY <3>3, <2>5, <1>0 DEF vnew_body
      <3>4. ASSUME NEW d \in Ctx, mnthr_ctx_fini(d) PROVE rc'[t] = rc[t] \/ fault' = "freed"
        <4>1. CASE d # t
          BY <4>1, <3>4, <1>0 DEF mnthr_ctx_fini
        <4>2. CASE d = t
          BY <4>2, <3>4, <2>2 DEF mnthr_ctx_fini
        <4> QED
          BY <4>1, <4>2
      <3> QED
        BY <3>2, <3>3, <3>4, RcEffect
    <2>6. ASSUME NEW d \in Ctx, Creates(d) PROVE G(t, g, x)
      <3>1. /\ id' = [id EXCEPT ![d] = co_id] /\ last' = [last EXCEPT ![d] = co_id]
            /\ co_id' = co_id + 1 /\ co_id # NoId /\ rc' = [rc EXCEPT ![d] = 0]
        BY <2>6, <1>0, NewNumber DEF Creates, vnew_body
      <3>2. id[d] = NoId
        <4>1. CASE mnthr_ctx_new(d)
          BY <4>1, <1>0 DEF mnthr_ctx_new, Pooled
        <4>2. CASE First(freelist, Unheld, d)
          <5>1. d \in Elems(freelist)
            BY <4>2, <1>0, FirstIsIn
          <5> QED
            BY <5>1, <1>0 DEF Pooled
        <4> QED
          BY <4>1, <4>2, <2>6 DEF Creates, mnthr_ctx_pop_free
      <3>3. g < co_id' /\ g # co_id
        BY <3>1, <2>3, <1>0
      <3>4. CASE d = t
        <4>1. id'[t] = co_id /\ last'[t] = co_id
          BY <3>1, <3>4, <1>0
        <4>2. x # NoRc
          BY <3>2, <3>4, <2>3
        <4> QED
          BY <4>1, <4>2, <3>3
      <3>5. CASE d # t
        <4>1. id'[t] = id[t] /\ last'[t] = last[t] /\ rc'[t] = rc[t]
          BY <3>1, <3>5, <1>0
        <4> QED
          BY <4>1, <3>3, <2>3
      <3> QED
        BY <3>4, <3>5
    <2>7. CASE ~ \E d \in Ctx : Ends(d)
      BY <2>5, <2>6, <2>7, IdSteps
    <2>8. ASSUME NEW d \in Ctx, Ends(d) PROVE G(t, g, x)
      <3>1. /\ id' = [id EXCEPT ![d] = NoId] /\ UNCHANGED <<rc, co_id, last>>
            /\ call'[c] = IF call[c].tgt = d /\ call[c].gid = id[d]
                          THEN [call[c] EXCEPT !.exitrc = rc[d]] ELSE call[c]
        BY <2>8 DEF Ends, mnthr_ctx_finalize
      <3>2. CASE d # t
        BY <3>1, <3>2, <2>3, <1>0
      <3>3. CASE d = t /\ g = id[d]
        <4>1. [call[c] EXCEPT !.exitrc = rc[d]].exitrc = rc[d] /\ rc[d] \in Rc
          BY <2>1, <1>0, CallUpdates
        <4>2. x = rc[d]
          BY <4>1, <3>1, <3>3, <2>2, <1>3 DEF Goes
        <4> QED
          BY <4>1, <4>2, <3>1, <3>3, <2>3, <1>0
      <3>4. CASE d = t /\ g # id[d]
        BY <3>1, <3>4, <2>3, <1>0
      <3> QED
        BY <3>2, <3>3, <3>4
    <2> QED
      BY <2>7, <2>8
  <1>4. ASSUME NEW d \in Ctx, Ends(d) PROVE G(call'[c].tgt, call'[c].gid, call'[c].exitrc)
    <2>1. /\ id' = [id EXCEPT ![d] = NoId] /\ UNCHANGED <<rc, co_id, last>>
          /\ call'[c] = IF call[c].tgt = d /\ call[c].gid = id[d]
                        THEN [call[c] EXCEPT !.exitrc = rc[d]] ELSE call[c]
      BY <1>4 DEF Ends, mnthr_ctx_finalize
    <2>2. CASE ~ (call[c].tgt = d /\ call[c].gid = id[d])
      BY <2>1, <2>2, <1>3 DEF Goes
    <2>3. CASE call[c].tgt = d /\ call[c].gid = id[d]
      <3>1. call'[c] = [call[c] EXCEPT !.exitrc = rc[d]] /\ call[c] \in Call /\ rc[d] \in Rc
        BY <2>1, <2>3, <1>0
      <3>2. /\ call'[c].op = call[c].op /\ call'[c].tgt = d /\ call'[c].gid = id[d]
            /\ call'[c].exitrc = rc[d]
        BY <3>1, <2>3, CallUpdates
      <3>3. id'[d] = NoId /\ id[d] < co_id /\ rc'[d] = rc[d] /\ id[d] # NoId
        BY <2>1, <3>2, <1>0
      <3> QED
        BY <2>1, <3>1, <3>2, <3>3, <1>0
    <2> QED
      BY <2>2, <2>3
  <1> QED
    BY <1>2, <1>3, <1>4, TimedSteps

\* The invariant of the timed waits holds at the start and is kept.
LEMMA WaitInitNext ==
    ASSUME Spawned
    PROVE  /\ Init => WaitInv
           /\ BaseInv /\ WaitInv /\ [Next]_vars => WaitInv'
  <1>1. ASSUME Init PROVE WaitInv
    <2>1. \A c \in Ctx : call[c].op \notin TimedOps
      BY <1>1, CallRecords DEF Init, TimedOps
    <2>2. Elems(<<>>) = {} /\ Distinct(<<>>)
      BY DEF Elems, Distinct
    <2>3. Chained = {}
      BY <1>1 DEF Init, Chained
    <2>4. Pooled
      BY <1>1, <2>2, <2>3 DEF Init, Pooled
    <2>5. Allocated
      <3>1. SQInit /\ ctxes = <<>>
        BY <1>1 DEF Init
      <3>2. [k \in Key |-> NULL] \in [Key -> {} \cup {NULL}]
        OBVIOUS
      <3>3. [c \in Ctx |-> <<>>] \in [Ctx -> Seq({})]
        OBVIOUS
      <3>4. [c \in Ctx |-> UNDEFINED] \in [Ctx -> 0..FOREVER]
        BY TimeAssumption DEF UNDEFINED
      <3>5. sq \in SQOver({}) /\ runq \in Seq({}) /\ tmp \in Seq({})
        BY <3>1, <3>2, <3>3, <3>4 DEF SQInit, SQOver
      <3> QED
        BY <3>1, <3>5, <2>2 DEF Allocated
    <2>6. Ending /\ Busy /\ Started /\ Told
      BY <1>1, <2>1 DEF Init, Ending, Busy, Started, Told
    <2>7. Recent
      BY <1>1 DEF Init, Recent, NoId
    <2> QED
      BY <2>4, <2>5, <2>6, <2>7 DEF WaitInv
  <1>2. ASSUME BaseInv, WaitInv, Next PROVE WaitInv'
    <2>1. Ending /\ Busy /\ Started /\ Recent /\ Pooled /\ Allocated /\ Told
      BY <1>2 DEF WaitInv
    <2>2. Ending' /\ Busy' /\ Started' /\ Recent' /\ Pooled' /\ Told'
      BY <1>2, <2>1, EndingKept, BusyKept, StartedKept, RecentKept, PooledKept, ToldKept
    <2>3. Allocated'
      BY <1>2, <2>1, <2>2, AllocatedKept
    <2> QED
      BY <2>2, <2>3 DEF WaitInv
  <1>3. ASSUME WaitInv, UNCHANGED vars PROVE WaitInv'
    <2>1. UNCHANGED <<sq, runq, tmp, me, ctl, state, id, rc, ctxes, freelist, left, doomed, co_id,
                      last, dying, call, fault>>
      BY <1>3 DEF vars, sqvars, covars, ctxvars
    <2>2. Ending' /\ Busy' /\ Started' /\ Recent' /\ Told'
      BY <2>1, <1>3 DEF WaitInv, Ending, Busy, Started, Recent, Told
    <2>3. Pooled' /\ Allocated'
      BY <2>1, <1>3 DEF WaitInv, Pooled, Allocated, Chained
    <2> QED
      BY <2>2, <2>3 DEF WaitInv
  <1> QED
    BY <1>1, <1>2, <1>3

\* What a waiter finds when it is back.
LEMMA Returns ==
    ASSUME BaseInv, WaitInv, NEW op \in TimedOps, Returning(op), call[me].gid # NoId
    PROVE  /\ me \in Ctx /\ call[me].tgt \in Ctx /\ fault # "freed"
           /\ Gone <=> id[call[me].tgt] # call[me].gid
           /\ Gone <=> call[me].exitrc # NoRc
           /\ Gone => TimedResult \in {rc[me], rc[call[me].tgt]}
           /\ ~ Gone => TimedResult = TIMEOUT
  <1>1. me \in Ctx /\ ctl = "thread" /\ call[me].op \in TimedOps /\ call[me].op # "none"
    BY DEF Returning, BaseInv, Running, TimedOps
  <1>2. call[me].tgt \in Ctx /\ fault # "freed"
    BY <1>1 DEF BaseInv, TimedInQueue, WaitInv, Busy
  <1>3. Gone <=> id[call[me].tgt] # call[me].gid
    BY <1>1, <1>2 DEF Gone, WaitInv, Started
  <1>4. Gone <=> call[me].exitrc # NoRc
    BY <1>1, <1>3 DEF WaitInv, Told
  <1>5. Gone => TimedResult \in {rc[me], rc[call[me].tgt]}
    BY DEF TimedResult
  <1>6. ~ Gone => TimedResult = TIMEOUT
    BY DEF TimedResult
  <1> QED
    BY <1>1, <1>2, <1>3, <1>4, <1>5, <1>6

\* The timed waits report MNTHR_WAIT_TIMEOUT exactly if their thread has not been
\* finalized, if threads are started as they are created: with every other call, with
\* EINTR, and also where the thread exits while the walk holds the waiter already, so
\* that the waiter is scheduled a second time.
THEOREM SchedulerTimedWaitTellsTrue ==
    ASSUME Spawned
    PROVE  Spec => []TimedWaitTellsTrue
  <1>1. BaseInv /\ WaitInv => TimedWaitTellsTrue
    <2> SUFFICES ASSUME BaseInv, WaitInv, NEW op \in TimedOps, Returning(op), call[me].gid # NoId
                 PROVE  TimedResult = TIMEOUT <=> call[me].exitrc = NoRc
      BY DEF TimedWaitTellsTrue
    <2>1. rc \in [Ctx -> Rc] /\ TIMEOUT \notin Rc
      BY SchedulerAssumption DEF BaseInv, TypeOK, Rc, TIMEOUT, INTERRUPTED, TIMEDOUT
    <2>2. Gone => TimedResult \in Rc
      BY <2>1, Returns
    <2> QED
      BY <2>1, <2>2, Returns
  <1> QED
    BY <1>1, WaitInitNext, SchedulerBase, PTL DEF Spec

\* mnthr_wait_for and mnthr_peek "return either thread's return code (typically >= 0),
\* or MNTHR_WAIT_TIMEOUT": between the exit of the thread and the read of its code
\* nobody writes that code, if threads are started as they are created and the context
\* has not been given to another thread.  The staged races change nothing here.
THEOREM SchedulerWaitReturnsCode ==
    ASSUME Spawned
    PROVE  Spec => []WaitReturnsCode
  <1>1. BaseInv /\ WaitInv => WaitReturnsCode
    <2> SUFFICES ASSUME BaseInv, WaitInv, NEW op \in {"wait_for", "peek"}, Returning(op),
                        call[me].gid # NoId, last[call[me].tgt] = call[me].gid
                 PROVE  TimedResult \in {TIMEOUT, call[me].exitrc}
      BY DEF WaitReturnsCode
    <2>1. op \in TimedOps /\ call[me].op \in TimedOps /\ call[me].op = op
      BY DEF Returning, TimedOps
    <2>2. CASE Gone
      <3>1. rc[call[me].tgt] = call[me].exitrc
        BY <2>1, <2>2, Returns DEF WaitInv, Told
      <3>2. TimedResult = rc[call[me].tgt]
        BY <2>1, <2>2 DEF TimedResult
      <3> QED
        BY <3>1, <3>2
    <2>3. CASE ~ Gone
      BY <2>1, <2>3, Returns
    <2> QED
      BY <2>2, <2>3
  <1> QED
    BY <1>1, WaitInitNext, SchedulerBase, PTL DEF Spec
=============================================================================
