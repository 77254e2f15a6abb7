--------------------------- MODULE EvPollerProofs ---------------------------
(***************************************************************************)
(* The waits of the libev poller, for any threads, items and users of      *)
(* them: who waits can be reached, an assertion never fails and a success  *)
(* is an event.                                                            *)
(***************************************************************************)
EXTENDS EvPoller, TLAPS

\* Who runs or has exited is not in a wait.
RunnerAwake == \A t \in Thr : t = me \/ t \notin live => wait[t] = NoEv

\* The three references between threads and items stay among the users of the
\* item; so does one that points to an item that was freed.
Known ==
    /\ \A t \in Thr : pdata[t] \in Items => t \in Users[pdata[t]]
    /\ \A t \in Thr : wait[t] \in Items => t \in Users[wait[t]]
    /\ \A t \in Thr : pdata[t] = Freed => \E e \in Stat : t \in Users[e]
    /\ \A e \in Items : data[e] # NoThread => data[e] \in Users[e]

\* The back reference of a waiting thread names the item it waits for, as long as
\* there is that item.
BackReference ==
    \A t \in Thr : wait[t] # NoEv =>
        \/ pdata[t] = wait[t]
        \/ pdata[t] = Freed /\ wait[t] \in Stat

\* A descriptor's item is carried by the thread that waits for it, and by none
\* when nobody does: whoever goes on gives it up, interrupted or not.
IoOwned == \A t \in Thr, e \in Io : wait[t] = e <=> data[e] = t

\* A thread that its watcher may still resume is in that wait and in no list of
\* the scheduler.
WatcherWakes ==
    \A e \in active, t \in Thr \ Resumable :
        data[e] = t /\ pdata[t] = e => wait[t] = e /\ t \notin due

\* A thread in a wait is scheduled by an interrupt only, and keeps the code of it.
DueIsInterrupted ==
    \A t \in due \ Resumable :
        /\ t # me
        /\ wait[t] # NoEv => t \in Interruptible /\ rc[t] # 0

\* What holds whatever the application does.
EvInv ==
    /\ TypeOK
    /\ RunnerAwake
    /\ Known
    /\ BackReference
    /\ IoOwned
    /\ WatcherWakes
    /\ DueIsInterrupted

\* The application leaves the threads that wait for paths alone.  mnthr_stat_wait
\* looks at its error before it gives the item up, so a thread that is interrupted
\* or resumed in it stays the owner of an item it no longer waits for.
StatUsersLeftAlone == \A e \in Stat : Users[e] \cap (Interruptible \cup Resumable) = {}

\* The watcher of a path is started for the thread that waits for it only.
StatWatched ==
    \A e \in Stat \cap active :
        data[e] # NoThread => wait[data[e]] = e /\ pdata[data[e]] = e

\* One thread uses a path: mnthr_stat_destroy does not look for the threads that
\* wait.
StatUsersAlone == \A e \in Stat : \A t, u \in Users[e] : t = u

\* Who waits for a path carries its item.
StatOwned == \A t \in Thr : wait[t] \in Stat => data[wait[t]] = t /\ pdata[t] = wait[t]
-----------------------------------------------------------------------------
\* The invariants hold when the loop begins.
LEMMA EvInit == Init => EvInv /\ StatWatched /\ StatOwned
  <1> SUFFICES ASSUME Init PROVE EvInv /\ StatWatched /\ StatOwned
    OBVIOUS
  <1>1. /\ made = {} /\ active = {} /\ live = Thr /\ due = Thr
        /\ me = NoThread /\ fault = FALSE
        /\ data = [e \in Items |-> NoThread]
        /\ pdata = [t \in Thr |-> NoEv] /\ wait = [t \in Thr |-> NoEv] /\ rc = [t \in Thr |-> 0]
    BY DEF Init
  <1>2. /\ NoThread \notin Thr /\ NoEv \notin Items /\ NoEv # Freed
        /\ Io \subseteq Items /\ Stat \subseteq Items
    BY EvPollerAssumption DEF Items
  <1>3. TypeOK
    <2>1. fault \in BOOLEAN
      BY <1>1
    <2> QED
      BY <1>1, <2>1 DEF TypeOK, Codes
  <1>4. RunnerAwake /\ Known /\ BackReference /\ WatcherWakes /\ DueIsInterrupted
    BY <1>1, <1>2 DEF RunnerAwake, Known, BackReference, WatcherWakes, DueIsInterrupted
  <1>5. IoOwned
    BY <1>1, <1>2 DEF IoOwned
  <1> QED
    BY <1>1, <1>2, <1>3, <1>4, <1>5 DEF EvInv, StatWatched, StatOwned

\* The facts about the constants and the types that the steps use.
LEMMA Types ==
    ASSUME TypeOK
    PROVE  /\ Items = Io \cup Stat /\ Io \cap Stat = {}
           /\ NoThread \notin Thr /\ NoEv \notin Items /\ Freed \notin Items /\ NoEv # Freed
           /\ \A e \in Items : Users[e] \subseteq Thr
           /\ Interruptible \subseteq Thr /\ Resumable \subseteq Thr
           /\ data \in [Items -> Thr \cup {NoThread}]
           /\ active \in SUBSET Items /\ made \in SUBSET Stat
           /\ pdata \in [Thr -> Items \cup {NoEv, Freed}]
           /\ wait \in [Thr -> Items \cup {NoEv}]
           /\ rc \in [Thr -> {0, 2, 4}]
           /\ live \in SUBSET Thr /\ due \in SUBSET live
           /\ me \in live \cup {NoThread}
  <1>1. \A e \in Items : Users[e] \subseteq Thr
    BY EvPollerAssumption DEF Items
  <1> QED
    BY <1>1, EvPollerAssumption DEF TypeOK, Items, Codes, INTERRUPTED, SIMULTANEOUS

\* A wait that is granted, and one that is turned away.
LEMMA BeginWaitKeeps ==
    ASSUME NEW t \in Thr, NEW e \in Items, EvInv, begin_wait(t, e)
    PROVE  EvInv'
  <1>1. TypeOK /\ RunnerAwake /\ Known /\ BackReference /\ IoOwned /\ WatcherWakes /\ DueIsInterrupted
    BY DEF EvInv
  <1>2. /\ me = t /\ t \in Users[e] /\ pdata' = [pdata EXCEPT ![t] = e]
        /\ made' = made /\ live' = live /\ due' = due /\ fault' = fault
    BY DEF begin_wait
  <1>3. wait[t] = NoEv
    BY <1>1, <1>2 DEF RunnerAwake
  <1>4. CASE data[e] \in {NoThread, t}
    <2>1. /\ data' = [data EXCEPT ![e] = t] /\ active' = active \cup {e}
          /\ wait' = [wait EXCEPT ![t] = e] /\ me' = NoThread /\ rc' = rc
      BY <1>4 DEF begin_wait
    <2>2. TypeOK'
      BY <1>1, <1>2, <2>1 DEF TypeOK
    <2>3. RunnerAwake'
      BY <1>1, <1>2, <2>1, Types DEF RunnerAwake
    <2>4. Known'
      BY <1>1, <1>2, <2>1, Types DEF Known
    <2>5. BackReference'
      BY <1>1, <1>2, <2>1, Types DEF BackReference
    <2>6. IoOwned'
      BY <1>1, <1>2, <1>3, <1>4, <2>1, Types DEF IoOwned
    <2>7. WatcherWakes'
      BY <1>1, <1>2, <1>3, <1>4, <2>1, Types DEF WatcherWakes, DueIsInterrupted
    <2>8. DueIsInterrupted'
      BY <1>1, <1>2, <2>1, Types DEF DueIsInterrupted
    <2> QED
      BY <2>2, <2>3, <2>4, <2>5, <2>6, <2>7, <2>8 DEF EvInv
  <1>5. CASE data[e] \notin {NoThread, t}
    <2>1. /\ rc' = [rc EXCEPT ![t] = SIMULTANEOUS]
          /\ data' = data /\ active' = active /\ wait' = wait /\ me' = me
      BY <1>5 DEF begin_wait
    <2>2. TypeOK'
      BY <1>1, <1>2, <2>1 DEF TypeOK, Codes
    <2>3. RunnerAwake'
      BY <1>1, <1>2, <2>1 DEF RunnerAwake
    <2>4. Known'
      BY <1>1, <1>2, <2>1, Types DEF Known
    <2>5. BackReference'
      BY <1>1, <1>2, <1>3, <2>1, Types DEF BackReference
    <2>6. IoOwned'
      BY <1>1, <2>1 DEF IoOwned
    <2>7. WatcherWakes'
      BY <1>1, <1>2, <1>3, <1>5, <2>1, Types DEF WatcherWakes
    <2>8. DueIsInterrupted'
      BY <1>1, <1>2, <2>1, Types DEF DueIsInterrupted
    <2> QED
      BY <2>2, <2>3, <2>4, <2>5, <2>6, <2>7, <2>8 DEF EvInv
  <1> QED
    BY <1>4, <1>5

\* mnthr_stat_new makes an item nobody waits for and nobody knows.
LEMMA StatNewKeeps ==
    ASSUME NEW t \in Thr, NEW e \in Stat, EvInv, mnthr_stat_new(t, e)
    PROVE  EvInv'
  BY DEF mnthr_stat_new, EvInv, TypeOK, RunnerAwake, Known, BackReference, IoOwned,
         WatcherWakes, DueIsInterrupted

\* Destroying the item of a path leaves the descriptors alone, and frees what the
\* back reference of a waiting thread may name.
LEMMA StatDestroyKeeps ==
    ASSUME NEW t \in Thr, NEW e \in Stat, EvInv, mnthr_stat_destroy(t, e)
    PROVE  EvInv'
  <1>1. TypeOK /\ RunnerAwake /\ Known /\ BackReference /\ IoOwned /\ WatcherWakes /\ DueIsInterrupted
    BY DEF EvInv
  <1>2. /\ me = t /\ t \in Users[e] /\ made' = made \ {e} /\ active' = active \ {e}
        /\ data' = [data EXCEPT ![e] = NoThread]
        /\ pdata' = [u \in Thr |-> IF pdata[u] = e THEN Freed ELSE pdata[u]]
        /\ wait' = wait /\ rc' = rc /\ live' = live /\ due' = due /\ me' = me /\ fault' = fault
    BY DEF mnthr_stat_destroy
  <1>3. TypeOK'
    BY <1>1, <1>2, Types DEF TypeOK
  <1>4. RunnerAwake'
    BY <1>1, <1>2 DEF RunnerAwake
  <1>5. Known'
    BY <1>1, <1>2, Types DEF Known
  <1>6. BackReference'
    BY <1>1, <1>2, Types DEF BackReference
  <1>7. IoOwned'
    BY <1>1, <1>2, Types DEF IoOwned
  <1>8. WatcherWakes'
    BY <1>1, <1>2, Types DEF WatcherWakes
  <1>9. DueIsInterrupted'
    BY <1>1, <1>2 DEF DueIsInterrupted
  <1> QED
    BY <1>3, <1>4, <1>5, <1>6, <1>7, <1>8, <1>9 DEF EvInv

\* Thread t, resumed from a list or by the watcher of the item it waits for, goes
\* on in its call: p is its back reference then.
LEMMA ContinueKeeps ==
    ASSUME NEW t \in Thr, NEW p \in {NoEv, pdata[t]}, EvInv, me = NoThread, t \in live,
           Continue(t, p),
           \/ due' = due \ {t} /\ active' = active /\ t \in due
           \/ due' = due /\ pdata[t] \in active /\ data[pdata[t]] = t
              /\ active' = active \ {pdata[t]}
    PROVE  EvInv'
  <1>1. TypeOK /\ RunnerAwake /\ Known /\ BackReference /\ IoOwned /\ WatcherWakes /\ DueIsInterrupted
    BY DEF EvInv
  <1> DEFINE e == wait[t]
  <1>2. /\ me' = t /\ wait' = [wait EXCEPT ![t] = NoEv]
        /\ made' = made /\ rc' = rc /\ live' = live
    BY DEF Continue
  <1>3. due' \in SUBSET live /\ active' \in SUBSET active /\ due' \in SUBSET due
    BY <1>1, Types
  \* Whether or not the item is given up.
  <1>4. \/ /\ pdata' = [pdata EXCEPT ![t] = p] /\ data' = data /\ fault' = fault
           /\ e \notin Io
        \/ /\ e \in Items
           /\ data' = [data EXCEPT ![e] = NoThread] /\ pdata' = [pdata EXCEPT ![t] = NoEv]
           /\ fault' \in BOOLEAN
    <2>1. e \in Items \cup {NoEv}
      BY <1>1, Types
    <2>2. CASE e = NoEv \/ ~ GivesUp(e, rc[t])
      BY <1>1, <2>2, Types DEF Continue, GivesUp
    <2>3. CASE ~ (e = NoEv \/ ~ GivesUp(e, rc[t]))
      BY <2>1, <2>3 DEF Continue
    <2> QED
      BY <2>2, <2>3
  <1> HIDE DEF e
  <1>5. TypeOK'
    <2>1. made' \in SUBSET Stat /\ rc' \in [Thr -> Codes] /\ live' \in SUBSET Thr
      BY <1>1, <1>2 DEF TypeOK
    <2>2. fault' \in BOOLEAN
      BY <1>1, <1>4 DEF TypeOK
    <2>3. active' \in SUBSET Items /\ due' \in SUBSET live' /\ me' \in live' \cup {NoThread}
      BY <1>1, <1>2, <1>3, Types
    <2>4. data' \in [Items -> Thr \cup {NoThread}]
      BY <1>1, <1>4, Types
    <2>5. /\ pdata' \in [Thr -> Items \cup {NoEv, Freed}]
          /\ wait' \in [Thr -> Items \cup {NoEv}]
      BY <1>1, <1>2, <1>4, Types
    <2> QED
      BY <2>1, <2>2, <2>3, <2>4, <2>5 DEF TypeOK
  <1>6. RunnerAwake'
    BY <1>1, <1>2, Types DEF RunnerAwake
  <1>7. Known'
    BY <1>1, <1>2, <1>4, Types DEF Known
  <1>8. BackReference'
    BY <1>1, <1>2, <1>4, Types DEF BackReference
  <1>9. IoOwned'
    <2>1. e = wait[t]
      BY DEF e
    <2> QED
      BY <1>1, <1>2, <1>4, <2>1, Types DEF IoOwned
  <1>10. WatcherWakes'
    <2> SUFFICES ASSUME NEW x \in active', NEW u \in Thr \ Resumable, data'[x] = u, pdata'[u] = x
                 PROVE  wait'[u] = x /\ u \notin due'
      BY DEF WatcherWakes
    <2>1. x \in active /\ x \in Items /\ data[x] = u /\ u # NoThread
      BY <1>1, <1>3, <1>4, Types
    <2>2. CASE u # t
      BY <1>1, <1>2, <1>3, <1>4, <2>1, <2>2, Types DEF WatcherWakes
    \* Resumed from a list, t was not watched; resumed by its watcher, it is not
    \* watched any more.
    <2>3. CASE u = t
      <3>1. pdata[t] = x
        BY <1>1, <1>4, <2>1, <2>3, Types
      <3>2. t \notin due
        BY <1>1, <2>1, <2>3, <3>1 DEF WatcherWakes
      <3> QED
        BY <3>1, <3>2
    <2> QED
      BY <2>2, <2>3
  <1>11. DueIsInterrupted'
    <2> SUFFICES ASSUME NEW u \in due' \ Resumable
                 PROVE  u # me' /\ (wait'[u] # NoEv => u \in Interruptible /\ rc'[u] # 0)
      BY DEF DueIsInterrupted
    <2>1. u \in due /\ u \in Thr
      BY <1>1, <1>3, Types
    <2>2. u # t
      BY <1>1, <2>1 DEF WatcherWakes
    <2> QED
      BY <1>1, <1>2, <2>1, <2>2, Types DEF DueIsInterrupted
  <1> QED
    BY <1>5, <1>6, <1>7, <1>8, <1>9, <1>10, <1>11 DEF EvInv

\* ev_io_cb and ev_stat_cb resume the thread that is in data of the watcher, if any.
LEMMA EvCbKeeps ==
    ASSUME NEW e \in Items, EvInv, ev_cb(e)
    PROVE  EvInv'
  <1>1. TypeOK /\ RunnerAwake /\ Known /\ BackReference /\ IoOwned /\ WatcherWakes /\ DueIsInterrupted
    BY DEF EvInv
  <1> DEFINE t == data[e]
  <1>2. me = NoThread /\ e \in active /\ due' = due /\ t \in Thr \cup {NoThread}
    BY <1>1, Types DEF ev_cb
  <1>3. CASE t = NoThread
    <2>1. active' = active \ {e} /\ UNCHANGED <<made, data, pdata, wait, rc, live, me, fault>>
      BY <1>3 DEF ev_cb
    <2> QED
      BY <1>1, <1>2, <2>1 DEF EvInv, TypeOK, RunnerAwake, Known, BackReference, IoOwned,
                              WatcherWakes, DueIsInterrupted
  <1>4. CASE t # NoThread /\ pdata[t] # e
    <2>1. fault' = TRUE /\ UNCHANGED <<made, data, active, pdata, wait, rc, live, me>>
      BY <1>4 DEF ev_cb
    <2>2. TypeOK'
      <3>1. fault' \in BOOLEAN
        BY <2>1
      <3> QED
        BY <1>1, <1>2, <2>1, <3>1 DEF TypeOK
    <2> QED
      BY <1>1, <1>2, <2>1, <2>2 DEF EvInv, RunnerAwake, Known, BackReference, IoOwned,
                                    WatcherWakes, DueIsInterrupted
  <1>5. CASE t # NoThread /\ pdata[t] = e /\ t \notin live
    <2>1. /\ active' = active \ {e} /\ pdata' = [pdata EXCEPT ![t] = NoEv]
          /\ UNCHANGED <<made, data, wait, rc, live, me, fault>>
      BY <1>5 DEF ev_cb
    <2>2. wait[t] = NoEv /\ t \in Thr
      BY <1>1, <1>2, <1>5 DEF RunnerAwake
    <2> HIDE DEF t
    <2>3. TypeOK'
      BY <1>1, <1>2, <2>1, <2>2 DEF TypeOK
    <2>4. RunnerAwake' /\ IoOwned' /\ DueIsInterrupted'
      BY <1>1, <1>2, <2>1 DEF RunnerAwake, IoOwned, DueIsInterrupted
    <2>5. Known' /\ BackReference' /\ WatcherWakes'
      BY <1>1, <1>2, <2>1, <2>2, Types DEF Known, BackReference, WatcherWakes
    <2> QED
      BY <2>3, <2>4, <2>5 DEF EvInv
  <1>6. CASE t # NoThread /\ pdata[t] = e /\ t \in live
    <2>1. active' = active \ {e} /\ Continue(t, NoEv)
      BY <1>6 DEF ev_cb
    <2> QED
      BY <1>2, <1>6, <2>1, ContinueKeeps
  <1> QED
    BY <1>2, <1>3, <1>4, <1>5, <1>6

\* The walk resumes a thread that is due, in its wait or at the place where it slept.
LEMMA SiftKeeps ==
    ASSUME NEW t \in Thr, EvInv, sift(t)
    PROVE  EvInv'
  <1>1. /\ me = NoThread /\ t \in due /\ due' = due \ {t} /\ active' = active
        /\ Continue(t, pdata[t])
    BY DEF sift
  <1>2. t \in live
    BY <1>1, Types DEF EvInv
  <1> QED
    BY <1>1, <1>2, ContinueKeeps

\* The steps that start and end no wait.
LEMMA SchedulingKeeps ==
    ASSUME NEW t \in Thr, NEW u \in Thr, EvInv,
           \/ mnthr_sleep(t) \/ mnthr_set_retval(t) \/ Exit(t)
           \/ mnthr_set_interrupt(u, t) \/ set_resume(u, t) \/ mnthr_spawn(u, t)
    PROVE  EvInv'
  <1>1. TypeOK /\ RunnerAwake /\ Known /\ BackReference /\ IoOwned /\ WatcherWakes /\ DueIsInterrupted
    BY DEF EvInv
  <1>2. CASE mnthr_sleep(t)
    <2>1. /\ me = t /\ me' = NoThread /\ due' = due \cup {t}
          /\ UNCHANGED <<made, data, active, pdata, wait, rc, live, fault>>
      BY <1>2 DEF mnthr_sleep
    <2>2. wait[t] = NoEv /\ t \in live
      BY <1>1, <2>1, Types DEF RunnerAwake
    <2>3. TypeOK'
      BY <1>1, <2>1, <2>2 DEF TypeOK
    <2>4. RunnerAwake' /\ Known' /\ BackReference' /\ IoOwned'
      BY <1>1, <2>1, Types DEF RunnerAwake, Known, BackReference, IoOwned
    <2>5. WatcherWakes' /\ DueIsInterrupted'
      BY <1>1, <2>1, <2>2, Types DEF WatcherWakes, DueIsInterrupted
    <2> QED
      BY <2>3, <2>4, <2>5 DEF EvInv
  <1>3. CASE mnthr_set_retval(t)
    <2>1. /\ me = t /\ rc' = [rc EXCEPT ![t] = 0]
          /\ UNCHANGED <<made, data, active, pdata, wait, live, due, me, fault>>
      BY <1>3 DEF mnthr_set_retval
    <2>2. TypeOK'
      BY <1>1, <2>1 DEF TypeOK, Codes
    <2>3. RunnerAwake' /\ Known' /\ BackReference' /\ IoOwned' /\ WatcherWakes'
      BY <1>1, <2>1 DEF RunnerAwake, Known, BackReference, IoOwned, WatcherWakes
    <2>4. DueIsInterrupted'
      BY <1>1, <2>1, Types DEF DueIsInterrupted
    <2> QED
      BY <2>2, <2>3, <2>4 DEF EvInv
  <1>4. CASE Exit(t)
    <2>1. /\ me = t /\ me' = NoThread /\ live' = live \ {t} /\ due' = due \ {t}
          /\ pdata' = [pdata EXCEPT ![t] = NoEv]
          /\ UNCHANGED <<made, data, active, wait, rc, fault>>
      BY <1>4 DEF Exit
    <2>2. wait[t] = NoEv
      BY <1>1, <2>1 DEF RunnerAwake
    <2>3. TypeOK'
      BY <1>1, <2>1 DEF TypeOK
    <2>4. RunnerAwake' /\ Known' /\ BackReference' /\ IoOwned'
      BY <1>1, <2>1, <2>2, Types DEF RunnerAwake, Known, BackReference, IoOwned
    <2>5. WatcherWakes' /\ DueIsInterrupted'
      BY <1>1, <2>1, Types DEF WatcherWakes, DueIsInterrupted
    <2> QED
      BY <2>3, <2>4, <2>5 DEF EvInv
  <1>5. CASE mnthr_set_interrupt(u, t)
    <2>1. /\ me = u /\ u # t /\ t \in Interruptible \cap live
          /\ active' = active \ {pdata[t]} /\ fault' = (pdata[t] = Freed)
          /\ rc' = [rc EXCEPT ![t] = INTERRUPTED] /\ due' = due \cup {t}
          /\ UNCHANGED <<made, data, pdata, wait, live, me>>
      BY <1>5 DEF mnthr_set_interrupt, poller_clear_event
    <2>2. TypeOK'
      <3>1. fault' \in BOOLEAN
        BY <2>1
      <3> QED
        BY <1>1, <2>1, <3>1 DEF TypeOK, Codes
    <2>3. RunnerAwake' /\ Known' /\ BackReference' /\ IoOwned'
      BY <1>1, <2>1 DEF RunnerAwake, Known, BackReference, IoOwned
    <2>4. WatcherWakes'
      BY <1>1, <2>1, Types DEF WatcherWakes
    <2>5. DueIsInterrupted'
      BY <1>1, <2>1, Types DEF DueIsInterrupted, INTERRUPTED
    <2> QED
      BY <2>2, <2>3, <2>4, <2>5 DEF EvInv
  <1>6. CASE set_resume(u, t)
    <2>1. /\ me = u /\ u # t /\ t \in Resumable \cap live /\ due' = due \cup {t}
          /\ UNCHANGED <<made, data, active, pdata, wait, rc, live, me, fault>>
      BY <1>6 DEF set_resume
    <2>2. TypeOK'
      BY <1>1, <2>1 DEF TypeOK
    <2>3. RunnerAwake' /\ Known' /\ BackReference' /\ IoOwned'
      BY <1>1, <2>1 DEF RunnerAwake, Known, BackReference, IoOwned
    <2>4. WatcherWakes' /\ DueIsInterrupted'
      BY <1>1, <2>1 DEF WatcherWakes, DueIsInterrupted
    <2> QED
      BY <2>2, <2>3, <2>4 DEF EvInv
  <1>7. CASE mnthr_spawn(u, t)
    <2>1. /\ me = u /\ t \notin live /\ live' = live \cup {t} /\ due' = due \cup {t}
          /\ rc' = [rc EXCEPT ![t] = 0]
          /\ UNCHANGED <<made, data, active, pdata, wait, me, fault>>
      BY <1>7 DEF mnthr_spawn
    <2>2. wait[t] = NoEv /\ t # me
      BY <1>1, <2>1, Types DEF RunnerAwake
    <2>3. TypeOK'
      BY <1>1, <2>1 DEF TypeOK, Codes
    <2>4. RunnerAwake' /\ Known' /\ BackReference' /\ IoOwned'
      BY <1>1, <2>1, <2>2 DEF RunnerAwake, Known, BackReference, IoOwned
    <2>5. WatcherWakes'
      BY <1>1, <2>1, <2>2, Types DEF WatcherWakes
    <2>6. DueIsInterrupted'
      BY <1>1, <2>1, <2>2, Types DEF DueIsInterrupted
    <2> QED
      BY <2>3, <2>4, <2>5, <2>6 DEF EvInv
  <1> QED
    BY <1>2, <1>3, <1>4, <1>5, <1>6, <1>7

\* The actions of Next, one by one.
LEMMA Actions ==
    ASSUME Next
    PROVE  \/ \E e \in Items : ev_cb(e)
           \/ \E t \in Thr : sift(t)
           \/ \E t \in Thr : \E e \in Io \cup made : begin_wait(t, e)
           \/ \E t \in Thr, e \in Stat : mnthr_stat_new(t, e)
           \/ \E t \in Thr, e \in Stat : mnthr_stat_destroy(t, e)
           \/ \E t, u \in Thr :
                 \/ mnthr_sleep(t) \/ mnthr_set_retval(t) \/ Exit(t)
                 \/ mnthr_set_interrupt(u, t) \/ set_resume(u, t) \/ mnthr_spawn(u, t)
  BY DEF Next, EndSlice, mnthr_wait_for_io, mnthr_stat_wait

\* Every step keeps the invariant.
LEMMA EvStep == EvInv /\ [Next]_vars => EvInv'
  <1> SUFFICES ASSUME EvInv, [Next]_vars PROVE EvInv'
    OBVIOUS
  <1>1. CASE UNCHANGED vars
    BY <1>1 DEF vars, EvInv, TypeOK, RunnerAwake, Known, BackReference, IoOwned,
                WatcherWakes, DueIsInterrupted
  <1>2. CASE Next
    <2>1. Io \cup made \subseteq Items
      BY Types DEF EvInv
    <2> QED
      BY <1>2, <2>1, Actions, EvCbKeeps, SiftKeeps, BeginWaitKeeps, StatNewKeeps,
         StatDestroyKeeps, SchedulingKeeps
  <1> QED
    BY <1>1, <1>2

\* Every field keeps its type; in particular only live threads are scheduled and
\* run.
THEOREM EvPollerTypes == Spec => []TypeOK
  <1>1. EvInv => TypeOK
    BY DEF EvInv
  <1> QED
    BY <1>1, EvInit, EvStep, PTL DEF Spec
-----------------------------------------------------------------------------
\* The steps that end a wait.
LEMMA WaitEndsBy ==
    ASSUME NEW t \in Thr, EvInv, Next, wait[t] # NoEv, wait'[t] # wait[t]
    PROVE  \/ sift(t)
           \/ /\ data[wait[t]] = t /\ wait[t] \in active /\ wait[t] \notin active'
              /\ ev_cb(wait[t])
  <1>1. TypeOK /\ RunnerAwake /\ BackReference
    BY DEF EvInv
  <1>2. t # me /\ t \in live
    BY <1>1 DEF RunnerAwake
  <1>3. CASE \E e \in Items : ev_cb(e)
    <2>1. PICK e \in Items : ev_cb(e)
      BY <1>3
    <2>2. /\ data[e] # NoThread /\ pdata[data[e]] = e /\ e \in active
          /\ active' = active \ {e} /\ Continue(data[e], NoEv)
      BY <2>1 DEF ev_cb
    <2>3. data[e] = t
      BY <1>1, <2>2, Types DEF Continue
    <2>4. wait[t] = e
      BY <1>1, <2>2, <2>3, Types DEF BackReference
    <2> QED
      BY <2>1, <2>2, <2>3, <2>4
  <1>4. CASE \E u \in Thr : sift(u)
    <2>1. PICK u \in Thr : sift(u)
      BY <1>4
    <2>2. u = t
      BY <1>1, <2>1, Types DEF sift, Continue
    <2> QED
      BY <2>1, <2>2
  <1>5. CASE \E u \in Thr : \E e \in Io \cup made : begin_wait(u, e)
    BY <1>1, <1>2, <1>5, Types DEF begin_wait
  <1>6. ASSUME wait' = wait PROVE FALSE
    BY <1>6
  <1> QED
    BY <1>3, <1>4, <1>5, <1>6, Actions
       DEF mnthr_stat_new, mnthr_stat_destroy, mnthr_sleep, mnthr_set_retval, Exit,
           mnthr_set_interrupt, set_resume, mnthr_spawn

\* A wait that returns 0 was ended by its own watcher, for any thread that does not
\* stand in another wait queue: an interrupt leaves its code, and nothing else
\* schedules a thread that waits.
THEOREM EvPollerSuccessIsAnEvent == Spec => SuccessIsAnEvent
  <1>1. EvInv /\ [Next]_vars =>
          [\A t \in Thr \ Resumable :
              wait[t] # NoEv /\ wait'[t] = NoEv /\ rc[t] = 0 => wait[t] \in active \ active']_vars
    <2> SUFFICES ASSUME EvInv, Next, NEW t \in Thr \ Resumable,
                        wait[t] # NoEv, wait'[t] = NoEv, rc[t] = 0
                 PROVE  wait[t] \in active \ active'
      OBVIOUS
    <2>1. ~ sift(t)
      BY DEF sift, EvInv, DueIsInterrupted
    <2> QED
      BY <2>1, WaitEndsBy
  <1> QED
    BY <1>1, EvInit, EvStep, PTL DEF Spec, SuccessIsAnEvent
-----------------------------------------------------------------------------
\* With the users of paths left alone, the watcher of a path that is started is
\* awaited and no assertion fails.
LEMMA AssertionsStep ==
    ASSUME StatUsersLeftAlone
    PROVE  EvInv /\ StatWatched /\ ~ fault /\ [Next]_vars => StatWatched' /\ ~ fault'
  <1> SUFFICES ASSUME EvInv, StatWatched, ~ fault, [Next]_vars
               PROVE  StatWatched' /\ ~ fault'
    OBVIOUS
  <1>1. TypeOK /\ RunnerAwake /\ Known /\ BackReference /\ IoOwned /\ WatcherWakes /\ DueIsInterrupted
    BY DEF EvInv
  \* A thread that waits for a path is not scheduled.
  <1>2. ASSUME NEW t \in Thr, wait[t] \in Stat PROVE t \notin due
    <2>1. t \notin Interruptible /\ t \notin Resumable
      BY <1>1, <1>2, Types DEF Known, StatUsersLeftAlone
    <2> QED
      BY <1>1, <1>2, <2>1, Types DEF DueIsInterrupted
  \* Whoever goes on from a wait carries the item, and an item's watcher is then
  \* stopped or the item is a descriptor.
  <1>3. ASSUME NEW t \in Thr, NEW p \in {NoEv, pdata[t]}, Continue(t, p),
               wait[t] \in Items => data[wait[t]] = t,
               wait[t] \in Stat => wait[t] \notin active',
               active' \in SUBSET active
        PROVE  StatWatched' /\ ~ fault'
    <2>1. ~ fault'
      BY <1>1, <1>3, Types DEF Continue
    <2>2. StatWatched'
      <3> SUFFICES ASSUME NEW x \in Stat \cap active', data'[x] # NoThread
                   PROVE  wait'[data'[x]] = x /\ pdata'[data'[x]] = x
        BY DEF StatWatched
      <3>1. /\ wait' = [wait EXCEPT ![t] = NoEv]
            /\ \A u \in Thr : u # t => pdata'[u] = pdata[u]
        BY <1>1, <1>3, Types DEF Continue
      <3>2. data'[x] = data[x] /\ x \in Stat \cap active /\ data[x] \in Thr
        BY <1>1, <1>3, Types DEF Continue
      <3>3. wait[data[x]] = x /\ pdata[data[x]] = x
        BY <3>2 DEF StatWatched
      <3>4. data[x] # t
        BY <1>3, <3>3
      <3> QED
        BY <1>1, <3>1, <3>2, <3>3, <3>4, Types
    <2> QED
      BY <2>1, <2>2
  <1>4. ASSUME NEW e \in Items, ev_cb(e) PROVE StatWatched' /\ ~ fault'
    <2> DEFINE t == data[e]
    <2>1. e \in active /\ t \in Thr \cup {NoThread}
      BY <1>1, <1>4, Types DEF ev_cb
    \* The item's thread waits for it.
    <2>2. t # NoThread => wait[t] = e /\ pdata[t] = e /\ t \in live
      <3> SUFFICES ASSUME t # NoThread PROVE wait[t] = e /\ pdata[t] = e /\ t \in live
        OBVIOUS
      <3>1. CASE e \in Stat
        BY <1>1, <2>1, <3>1, Types DEF StatWatched, RunnerAwake
      <3>2. CASE e \in Io
        BY <1>1, <2>1, <3>2, Types DEF IoOwned, BackReference, RunnerAwake
      <3> QED
        BY <3>1, <3>2, Types, <1>1
    <2>3. CASE t = NoThread
      <3>1. active' = active \ {e} /\ data' = data /\ wait' = wait /\ pdata' = pdata /\ fault' = fault
        BY <1>4, <2>3 DEF ev_cb
      <3> QED
        BY <3>1 DEF StatWatched
    <2>4. CASE t # NoThread
      <3>1. active' = active \ {e} /\ Continue(t, NoEv)
        BY <1>4, <2>2, <2>4 DEF ev_cb
      <3> QED
        BY <1>3, <2>1, <2>2, <2>4, <3>1
    <2> QED
      BY <2>3, <2>4
  <1>5. ASSUME NEW t \in Thr, sift(t) PROVE StatWatched' /\ ~ fault'
    <2>1. t \in due /\ Continue(t, pdata[t]) /\ active' = active
      BY <1>5 DEF sift
    <2>2. wait[t] \notin Stat
      BY <1>2, <2>1
    <2>3. wait[t] \in Items => data[wait[t]] = t
      BY <1>1, <2>2, Types DEF IoOwned
    <2> QED
      BY <1>3, <2>1, <2>2, <2>3
  <1>6. ASSUME NEW t \in Thr, NEW e \in Io \cup made, begin_wait(t, e)
        PROVE  StatWatched' /\ ~ fault'
    <2>1. e \in Items /\ me = t /\ wait[t] = NoEv /\ ~ fault'
      BY <1>1, <1>6, Types DEF begin_wait, RunnerAwake
    <2>2. CASE data[e] \in {NoThread, t}
      BY <1>1, <1>6, <2>1, <2>2, Types DEF begin_wait, StatWatched
    <2>3. CASE data[e] \notin {NoThread, t}
      BY <1>1, <1>6, <2>1, <2>3, Types DEF begin_wait, StatWatched
    <2> QED
      BY <2>1, <2>2, <2>3
  <1>7. ASSUME NEW t \in Thr, NEW e \in Stat, mnthr_stat_new(t, e)
        PROVE  StatWatched' /\ ~ fault'
    BY <1>7 DEF mnthr_stat_new, StatWatched
  <1>8. ASSUME NEW t \in Thr, NEW e \in Stat, mnthr_stat_destroy(t, e)
        PROVE  StatWatched' /\ ~ fault'
    BY <1>1, <1>8, Types DEF mnthr_stat_destroy, StatWatched
  <1>9. ASSUME NEW t \in Thr, NEW u \in Thr,
               \/ mnthr_sleep(t) \/ mnthr_set_retval(t) \/ Exit(t)
               \/ mnthr_set_interrupt(u, t) \/ set_resume(u, t) \/ mnthr_spawn(u, t)
        PROVE  StatWatched' /\ ~ fault'
    <2>1. CASE mnthr_set_interrupt(u, t)
      <3>1. /\ t \in Interruptible /\ active' = active \ {pdata[t]} /\ fault' = (pdata[t] = Freed)
            /\ data' = data /\ wait' = wait /\ pdata' = pdata
        BY <2>1 DEF mnthr_set_interrupt, poller_clear_event
      <3>2. pdata[t] # Freed
        BY <1>1, <3>1 DEF Known, StatUsersLeftAlone
      <3> QED
        BY <3>1, <3>2 DEF StatWatched
    <2>2. CASE Exit(t)
      <3>1. /\ me = t /\ pdata' = [pdata EXCEPT ![t] = NoEv]
            /\ active' = active /\ data' = data /\ wait' = wait /\ fault' = fault
        BY <2>2 DEF Exit
      <3>2. wait[t] = NoEv
        BY <1>1, <3>1 DEF RunnerAwake
      <3> QED
        BY <1>1, <3>1, <3>2, Types DEF StatWatched
    <2>3. CASE mnthr_sleep(t) \/ mnthr_set_retval(t) \/ set_resume(u, t) \/ mnthr_spawn(u, t)
      BY <2>3 DEF mnthr_sleep, mnthr_set_retval, set_resume, mnthr_spawn, StatWatched
    <2> QED
      BY <1>9, <2>1, <2>2, <2>3
  <1>10. CASE UNCHANGED vars
    BY <1>10 DEF vars, StatWatched
  <1> QED
    BY <1>4, <1>5, <1>6, <1>7, <1>8, <1>9, <1>10, Actions

\* The assertions of ev_io_cb, ev_stat_cb and of the waits hold and no interrupt
\* follows a back reference to an item that was freed, for any threads and items,
\* as long as the threads that wait for paths are not interrupted or resumed from
\* another wait queue (descriptors need no such care).
THEOREM EvPollerAssertionsHold ==
    ASSUME StatUsersLeftAlone
    PROVE  Spec => []AssertionsHold
  <1>1. Init => ~ fault
    BY DEF Init
  <1>2. EvInv /\ StatWatched /\ ~ fault /\ [Next]_vars => StatWatched' /\ ~ fault'
    BY AssertionsStep
  <1> QED
    BY <1>1, <1>2, EvInit, EvStep, PTL DEF Spec, AssertionsHold
-----------------------------------------------------------------------------
\* With one user for each path, who waits for a path stays the owner of its item.
LEMMA StatOwnedStep ==
    ASSUME StatUsersAlone, EvInv, StatOwned, [Next]_vars
    PROVE  StatOwned'
  <1>1. TypeOK /\ RunnerAwake /\ Known /\ BackReference /\ IoOwned
    BY DEF EvInv
  <1> SUFFICES ASSUME NEW t \in Thr, wait'[t] \in Stat
               PROVE  data'[wait'[t]] = t /\ pdata'[t] = wait'[t]
    BY DEF StatOwned
  <1>2. ASSUME wait'[t] = wait[t], data'[wait[t]] = data[wait[t]], pdata'[t] = pdata[t]
        PROVE  data'[wait'[t]] = t /\ pdata'[t] = wait'[t]
    BY <1>2 DEF StatOwned
  <1>3. ASSUME NEW u \in Thr, NEW p \in {NoEv, pdata[u]}, Continue(u, p)
        PROVE  data'[wait'[t]] = t /\ pdata'[t] = wait'[t]
    <2>1. /\ wait' = [wait EXCEPT ![u] = NoEv]
          /\ t # u => pdata'[t] = pdata[t]
          /\ \/ data' = data
             \/ wait[u] \in Items /\ data' = [data EXCEPT ![wait[u]] = NoThread]
      BY <1>1, <1>3, Types DEF Continue
    <2>2. t # u /\ wait'[t] = wait[t] /\ wait[t] \in Stat
      BY <1>1, <2>1, Types
    <2>3. wait[u] # wait[t]
      BY <1>1, <2>2, Types DEF StatOwned
    <2> QED
      BY <1>1, <1>2, <2>1, <2>2, <2>3, Types
  <1>4. ASSUME NEW e \in Items, ev_cb(e)
        PROVE  data'[wait'[t]] = t /\ pdata'[t] = wait'[t]
    <2>1. data[e] \in Thr \cup {NoThread}
      BY <1>1, Types
    <2>2. CASE data[e] # NoThread /\ pdata[data[e]] = e /\ data[e] \in live
      BY <1>3, <1>4, <2>1, <2>2 DEF ev_cb
    <2>3. CASE data[e] = NoThread \/ pdata[data[e]] # e
      BY <1>2, <1>4, <2>3 DEF ev_cb
    <2>4. CASE data[e] # NoThread /\ pdata[data[e]] = e /\ data[e] \notin live
      <3>1. /\ data' = data /\ wait' = wait /\ pdata' = [pdata EXCEPT ![data[e]] = NoEv]
        BY <1>4, <2>4 DEF ev_cb
      <3>2. t # data[e]
        BY <1>1, <2>4, <3>1, Types DEF RunnerAwake
      <3> QED
        BY <1>1, <1>2, <3>1, <3>2, Types
    <2> QED
      BY <2>2, <2>3, <2>4
  <1>5. ASSUME NEW u \in Thr, sift(u)
        PROVE  data'[wait'[t]] = t /\ pdata'[t] = wait'[t]
    BY <1>3, <1>5 DEF sift
  <1>6. ASSUME NEW u \in Thr, NEW e \in Io \cup made, begin_wait(u, e)
        PROVE  data'[wait'[t]] = t /\ pdata'[t] = wait'[t]
    <2>1. e \in Items /\ me = u /\ wait[u] = NoEv /\ u \in Users[e]
      BY <1>1, <1>6, Types DEF begin_wait, RunnerAwake
    <2>2. CASE data[e] \in {NoThread, u}
      <3>1. /\ data' = [data EXCEPT ![e] = u] /\ wait' = [wait EXCEPT ![u] = e]
            /\ pdata' = [pdata EXCEPT ![u] = e]
        BY <1>6, <2>2 DEF begin_wait
      <3>2. CASE u = t
        BY <1>1, <2>1, <3>1, <3>2, Types
      <3>3. CASE u # t
        <4>1. wait'[t] = wait[t] /\ data[wait[t]] = t /\ wait[t] \in Stat
          BY <1>1, <3>1, <3>3, Types DEF StatOwned
        <4>2. wait[t] # e
          BY <1>1, <2>2, <3>3, <4>1, Types
        <4> QED
          BY <1>1, <1>2, <3>1, <3>3, <4>1, <4>2, Types
      <3> QED
        BY <3>2, <3>3
    <2>3. CASE data[e] \notin {NoThread, u}
      <3>1. data' = data /\ wait' = wait /\ pdata' = [pdata EXCEPT ![u] = e]
        BY <1>6, <2>3 DEF begin_wait
      <3>2. t # u
        BY <1>1, <2>1, <3>1, Types
      <3> QED
        BY <1>1, <1>2, <3>1, <3>2, Types
    <2> QED
      BY <2>2, <2>3
  \* Only the user of a path destroys its item, and it runs.
  <1>7. ASSUME NEW u \in Thr, NEW e \in Stat, mnthr_stat_destroy(u, e)
        PROVE  data'[wait'[t]] = t /\ pdata'[t] = wait'[t]
    <2>1. /\ me = u /\ u \in Users[e] /\ wait' = wait
          /\ data' = [data EXCEPT ![e] = NoThread]
          /\ pdata' = [v \in Thr |-> IF pdata[v] = e THEN Freed ELSE pdata[v]]
      BY <1>7 DEF mnthr_stat_destroy
    <2>2. t # u /\ t \in Users[wait[t]] /\ pdata[t] = wait[t]
      BY <1>1, <2>1, Types DEF RunnerAwake, Known, StatOwned
    <2>3. wait[t] # e
      BY <2>1, <2>2 DEF StatUsersAlone
    <2> QED
      BY <1>1, <1>2, <2>1, <2>2, <2>3, Types
  <1>8. ASSUME NEW u \in Thr, NEW v \in Thr,
               \/ mnthr_sleep(u) \/ mnthr_set_retval(u) \/ Exit(u)
               \/ mnthr_set_interrupt(v, u) \/ set_resume(v, u) \/ mnthr_spawn(v, u)
        PROVE  data'[wait'[t]] = t /\ pdata'[t] = wait'[t]
    <2>1. data' = data /\ wait' = wait
      BY <1>8 DEF mnthr_sleep, mnthr_set_retval, Exit, mnthr_set_interrupt, set_resume, mnthr_spawn
    <2>2. pdata' = pdata \/ (me = u /\ pdata' = [pdata EXCEPT ![u] = NoEv])
      BY <1>8 DEF mnthr_sleep, mnthr_set_retval, Exit, mnthr_set_interrupt, set_resume, mnthr_spawn
    <2>3. t # me
      BY <1>1, <2>1, Types DEF RunnerAwake
    <2> QED
      BY <1>1, <1>2, <2>1, <2>2, <2>3, Types
  <1>9. CASE UNCHANGED vars
    BY <1>2, <1>9 DEF vars
  <1>10. ASSUME NEW u \in Thr, NEW e \in Stat, mnthr_stat_new(u, e)
         PROVE  data'[wait'[t]] = t /\ pdata'[t] = wait'[t]
    BY <1>2, <1>10 DEF mnthr_stat_new
  <1> QED
    BY <1>4, <1>5, <1>6, <1>7, <1>8, <1>9, <1>10, Actions

\* A thread in a wait that nobody else's interrupt can touch is scheduled or its
\* watcher is started.
LEMMA ReachableStep ==
    ASSUME StatUsersAlone, EvInv, EvInv', StatOwned, StatOwned', WaiterReachable, [Next]_vars
    PROVE  WaiterReachable'
  <1>1. TypeOK /\ RunnerAwake /\ Known /\ BackReference /\ IoOwned
    BY DEF EvInv
  <1>2. TypeOK' /\ RunnerAwake' /\ BackReference' /\ IoOwned'
    BY DEF EvInv
  <1> SUFFICES ASSUME NEW t \in Thr, wait'[t] # NoEv, Undisturbed(t)'
               PROVE  \/ t \in due'
                      \/ /\ data'[wait'[t]] = t /\ pdata'[t] = wait'[t]
                         /\ wait'[t] \in active'
    BY DEF WaiterReachable
  \* The item stays the thread's in any case.
  <1>3. data'[wait'[t]] = t /\ pdata'[t] = wait'[t]
    <2>1. wait'[t] \in Io \cup Stat
      BY <1>1, <1>2, Types DEF TypeOK
    <2>2. CASE wait'[t] \in Stat
      BY <2>2 DEF StatOwned
    <2>3. CASE wait'[t] \in Io
      BY <1>1, <1>2, <2>3, Types DEF IoOwned, BackReference
    <2> QED
      BY <2>1, <2>2, <2>3
  <1>4. SUFFICES t \in due' \/ wait'[t] \in active'
    BY <1>3
  <1>5. CASE wait'[t] # wait[t]
    <2>1. Next /\ wait[t] = NoEv
      <3>1. Next
        BY <1>5 DEF vars
      <3>2. ASSUME wait[t] # NoEv PROVE FALSE
        <4>1. \E e \in {NoEv, pdata[t]} : Continue(t, e)
          <5>1. CASE sift(t)
            BY <5>1 DEF sift
          <5>2. CASE ev_cb(wait[t]) /\ data[wait[t]] = t /\ wait[t] \in active /\ wait[t] \notin active'
            <6>1. t # NoThread /\ t \in live
              BY <1>1, <3>2, Types DEF RunnerAwake
            <6> QED
              BY <1>5, <5>2, <6>1 DEF ev_cb
          <5> QED
            BY <1>5, <3>1, <3>2, <5>1, <5>2, WaitEndsBy
        <4> QED
          BY <1>1, <4>1, Types DEF Continue
      <3> QED
        BY <3>1, <3>2
    <2>2. ASSUME NEW u \in Thr, NEW p, Continue(u, p) PROVE FALSE
      BY <1>1, <1>5, <2>1, <2>2, Types DEF Continue
    <2>3. \E u \in Thr : \E e \in Io \cup made : begin_wait(u, e)
      <3>1. ASSUME wait' = wait PROVE FALSE
        BY <1>5, <3>1
      <3>2. ASSUME NEW e \in Items, ev_cb(e) PROVE FALSE
        <4>1. data[e] \in Thr \cup {NoThread}
          BY <1>1, Types
        <4> QED
          BY <2>2, <3>1, <3>2, <4>1 DEF ev_cb
      <3>3. ASSUME NEW u \in Thr, sift(u) PROVE FALSE
        BY <2>2, <3>3 DEF sift
      <3> QED
        BY <2>1, <3>1, <3>2, <3>3, Actions
           DEF mnthr_stat_new, mnthr_stat_destroy, mnthr_sleep, mnthr_set_retval, Exit,
               mnthr_set_interrupt, set_resume, mnthr_spawn
    <2>4. PICK u \in Thr, e \in Io \cup made : begin_wait(u, e)
      BY <2>3
    <2> QED
      BY <1>1, <1>5, <2>4, Types DEF begin_wait
  <1>6. CASE wait'[t] = wait[t]
    <2>1. /\ wait[t] # NoEv /\ Undisturbed(t)
          /\ t # me /\ t \in live /\ wait[t] \in Items
      BY <1>1, <1>6, Types DEF Undisturbed, RunnerAwake
    <2>2. t \in due \/ (data[wait[t]] = t /\ pdata[t] = wait[t] /\ wait[t] \in active)
      BY <2>1 DEF WaiterReachable
    <2>3. ASSUME due \subseteq due', active \subseteq active'
          PROVE  t \in due' \/ wait'[t] \in active'
      BY <1>6, <2>2, <2>3
    \* The watcher's own event would have ended the wait.
    <2>4. ASSUME NEW e \in Items, ev_cb(e) PROVE t \in due' \/ wait'[t] \in active'
      <3>1. due' = due
        BY <2>4 DEF ev_cb
      <3>2. CASE e # wait[t]
        <4>1. active \ {e} \subseteq active'
          BY <2>4 DEF ev_cb
        <4> QED
          BY <1>6, <2>2, <3>1, <3>2, <4>1
      <3>3. CASE e = wait[t] /\ t \notin due
        <4>1. data[e] = t /\ pdata[t] = e
          BY <2>2, <3>3
        <4>2. Continue(t, NoEv)
          BY <1>1, <2>1, <2>4, <4>1, Types DEF ev_cb
        <4> QED
          BY <1>1, <1>6, <2>1, <4>2, Types DEF Continue
      <3> QED
        BY <3>1, <3>2, <3>3
    <2>5. ASSUME NEW u \in Thr, sift(u) PROVE t \in due' \/ wait'[t] \in active'
      <3>1. u # t
        BY <1>1, <1>6, <2>1, <2>5, Types DEF sift, Continue
      <3> QED
        BY <1>6, <2>2, <2>5, <3>1 DEF sift
    <2>6. ASSUME NEW u \in Thr, NEW e \in Stat, mnthr_stat_destroy(u, e)
          PROVE  t \in due' \/ wait'[t] \in active'
      <3>1. me = u /\ u \in Users[e] /\ due' = due /\ active' = active \ {e}
        BY <2>6 DEF mnthr_stat_destroy
      <3>2. wait[t] # e
        BY <1>1, <2>1, <3>1, Types DEF Known, StatUsersAlone
      <3> QED
        BY <1>6, <2>2, <3>1, <3>2
    \* An interrupt stops the watcher of its own target only.
    <2>7. ASSUME NEW u \in Thr, NEW v \in Thr, mnthr_set_interrupt(u, v)
          PROVE  t \in due' \/ wait'[t] \in active'
      <3>1. v \in Interruptible /\ due' = due \cup {v} /\ active' = active \ {pdata[v]}
        BY <2>7 DEF mnthr_set_interrupt, poller_clear_event
      <3>2. CASE v = t
        BY <3>1, <3>2
      <3>3. CASE v # t
        <4>1. pdata[v] # wait[t]
          BY <1>1, <2>1, <3>1, <3>3 DEF Known, Undisturbed
        <4> QED
          BY <1>6, <2>2, <3>1, <4>1
      <3> QED
        BY <3>2, <3>3
    <2>8. ASSUME NEW u \in Thr, Exit(u) PROVE t \in due' \/ wait'[t] \in active'
      BY <1>6, <2>1, <2>2, <2>8 DEF Exit
    <2>9. ASSUME NEW u \in Thr, NEW e \in Io \cup made, begin_wait(u, e)
          PROVE  t \in due' \/ wait'[t] \in active'
      BY <2>3, <2>9 DEF begin_wait
    <2>10. ASSUME NEW u \in Thr, NEW v \in Thr,
                  \/ mnthr_sleep(u) \/ mnthr_set_retval(u) \/ set_resume(v, u) \/ mnthr_spawn(v, u)
           PROVE  t \in due' \/ wait'[t] \in active'
      BY <2>3, <2>10 DEF mnthr_sleep, mnthr_set_retval, set_resume, mnthr_spawn
    <2>11. ASSUME NEW u \in Thr, NEW e \in Stat, mnthr_stat_new(u, e)
           PROVE  t \in due' \/ wait'[t] \in active'
      BY <2>3, <2>11 DEF mnthr_stat_new
    <2>12. CASE UNCHANGED vars
      BY <2>3, <2>12 DEF vars
    <2> QED
      BY <2>4, <2>5, <2>6, <2>7, <2>8, <2>9, <2>10, <2>11, <2>12, Actions
  <1> QED
    BY <1>5, <1>6

\* A thread that has switched away in a wait can be reached, for any threads and
\* items, interrupts, exits and contexts that are used again: it is scheduled, or
\* its item is its own and the watcher is started; with a path it has for itself,
\* and unless an interrupt of another user of the item stops its watcher.
THEOREM EvPollerWaiterReachable ==
    ASSUME StatUsersAlone
    PROVE  Spec => []WaiterReachable
  <1>1. Init => WaiterReachable
    BY DEF Init, WaiterReachable
  <1>2. EvInv /\ StatOwned /\ [Next]_vars => StatOwned'
    BY StatOwnedStep
  <1>3. EvInv /\ EvInv' /\ StatOwned /\ StatOwned' /\ WaiterReachable /\ [Next]_vars
          => WaiterReachable'
    BY ReachableStep
  <1> QED
    BY <1>1, <1>2, <1>3, EvInit, EvStep, PTL DEF Spec
=============================================================================
