------------------------------ MODULE EvPoller ------------------------------
(***************************************************************************)
(* Waiting for descriptors and for paths in the libev poller: the items of *)
(* the hash "events", each a libev watcher that carries the one thread     *)
(* that waits for it, and the back reference pdata.ev of a thread, which   *)
(* mnthr_set_interrupt uses to stop the watcher of the thread it wakes.    *)
(*                                                                         *)
(* The items of descriptors that differ in the descriptor or in the events *)
(* are independent, so an item is just a member of Io, and of Stat for a   *)
(* path.  Readiness is up to the environment: the callback of a started    *)
(* watcher may come at any time no thread runs.  libev calls it from its   *)
(* pending list, and ev_io_stop takes a watcher off that list, so a        *)
(* stopped watcher is not called.                                          *)
(*                                                                         *)
(* The scheduler is reduced to the set of the threads in the_sleepq.       *)
(***************************************************************************)
EXTENDS Integers

CONSTANTS
    Thr,            \* the contexts
    Io,             \* items of type EV_TYPE_IO
    Stat,           \* items of type EV_TYPE_STAT
    Users,          \* Users[e]: the threads that ever wait for item e
    NoThread,       \* NULL, for a thread
    NoEv,           \* NULL, for an item
    Freed,          \* a pointer to an item that was freed
    Interruptible,  \* the threads others call mnthr_set_interrupt on
    Resumable       \* the threads others call set_resume on while they wait
                    \* here: they still stand in the wait queue of an earlier
                    \* wait

ASSUME EvPollerAssumption ==
    /\ Io \cap Stat = {}
    /\ Users \in [Io \cup Stat -> SUBSET Thr]
    /\ NoThread \notin Thr
    /\ {NoEv, Freed} \cap (Io \cup Stat) = {} /\ NoEv # Freed
    /\ Interruptible \subseteq Thr
    /\ Resumable \subseteq Thr

Items == Io \cup Stat

INTERRUPTED == 2    \* MNTHR_CO_RC_USER_INTERRUPTED
SIMULTANEOUS == 4   \* MNTHR_CO_RC_SIMULTANEOUS
Codes == {0, INTERRUPTED, SIMULTANEOUS}

VARIABLES
    made,       \* the paths whose item is in the hash
    data,       \* data[e]: ev->ev.io.data, the thread that waits for e
    active,     \* the started watchers
    pdata,      \* pdata[t]: t->pdata.ev
    wait,       \* wait[t]: the item for which t has switched away, or NoEv
    rc,         \* rc[t]: co.rc
    live,       \* the threads with co.f # NULL
    due,        \* the threads in the_sleepq
    me,         \* the thread that runs
    fault       \* an assertion has failed

vars == <<made, data, active, pdata, wait, rc, live, due, me, fault>>

TypeOK ==
    /\ data \in [Items -> Thr \cup {NoThread}]
    /\ active \in SUBSET Items
    /\ made \in SUBSET Stat
    /\ pdata \in [Thr -> Items \cup {NoEv, Freed}]
    /\ wait \in [Thr -> Items \cup {NoEv}]
    /\ rc \in [Thr -> Codes]
    /\ live \in SUBSET Thr
    /\ due \in SUBSET live
    /\ me \in live \cup {NoThread}
    /\ fault \in BOOLEAN

Init ==
    /\ made = {}
    /\ data = [e \in Items |-> NoThread]
    /\ active = {}
    /\ pdata = [t \in Thr |-> NoEv]
    /\ wait = [t \in Thr |-> NoEv]
    /\ rc = [t \in Thr |-> 0]
    /\ live = Thr
    /\ due = Thr
    /\ me = NoThread
    /\ fault = FALSE
-----------------------------------------------------------------------------
\* Wrong: whoever waits already is forgotten.
begin_wait_Overwrites(t, e) ==
    /\ me = t
    /\ t \in Users[e]
    /\ pdata' = [pdata EXCEPT ![t] = e]
    /\ data' = [data EXCEPT ![e] = t]
    /\ active' = active \cup {e}
    /\ wait' = [wait EXCEPT ![t] = e]
    /\ me' = NoThread
    /\ UNCHANGED <<made, rc, live, due, fault>>

\* The running thread t waits for item e, up to the switch.  It is turned away
\* when another thread waits for the item; pdata.ev names the item even so.
begin_wait(t, e) ==
    /\ me = t
    /\ t \in Users[e]
    /\ pdata' = [pdata EXCEPT ![t] = e]
    /\ IF data[e] \in {NoThread, t}
       THEN /\ data' = [data EXCEPT ![e] = t]
            /\ active' = active \cup {e}
            /\ wait' = [wait EXCEPT ![t] = e]
            /\ me' = NoThread
            /\ UNCHANGED rc
       ELSE /\ rc' = [rc EXCEPT ![t] = SIMULTANEOUS]
            /\ UNCHANGED <<data, active, wait, me>>
    /\ UNCHANGED <<made, live, due, fault>>

\* mnthr_get_rbuflen, mnthr_get_wbuflen and the three mnthr_wait_for_*
mnthr_wait_for_io(t) == \E e \in Io : begin_wait(t, e)

mnthr_stat_wait(t) == \E e \in made : begin_wait(t, e)

\* The running thread makes the item of a path (ev_stat_item_get finds it when
\* there is one already).
mnthr_stat_new(t, e) ==
    /\ me = t /\ t \in Users[e]
    /\ e \in Stat \ made
    /\ made' = made \cup {e}
    /\ UNCHANGED <<data, active, pdata, wait, rc, live, due, me, fault>>

\* The running thread destroys the item of a path: ev_item_fini stops the watcher
\* and frees the item.  The threads whose pdata.ev names it are not looked for.
mnthr_stat_destroy(t, e) ==
    /\ me = t /\ t \in Users[e]
    /\ e \in made
    /\ made' = made \ {e}
    /\ active' = active \ {e}
    /\ data' = [data EXCEPT ![e] = NoThread]
    /\ pdata' = [u \in Thr |-> IF pdata[u] = e THEN Freed ELSE pdata[u]]
    /\ UNCHANGED <<wait, rc, live, due, me, fault>>

\* Wrong: an error is returned before the item is given up.
GivesUp_NotOnError(e, r) == e \in Items /\ r = 0

\* A thread that goes on gives up the item, but mnthr_stat_wait looks at its
\* error first.
GivesUp(e, r) == e \in Stat => r = 0

\* poller_resume of thread t, whose back reference is then p, and the rest of
\* the call in which t had switched away, with its assertion that the item is t's.
Continue(t, p) ==
    LET e == wait[t] IN
    /\ me' = t
    /\ wait' = [wait EXCEPT ![t] = NoEv]
    /\ IF e = NoEv \/ ~ GivesUp(e, rc[t])
       THEN pdata' = [pdata EXCEPT ![t] = p] /\ UNCHANGED <<data, fault>>
       ELSE /\ fault' = (data[e] # t)
            /\ data' = [data EXCEPT ![e] = NoThread]
            /\ pdata' = [pdata EXCEPT ![t] = NoEv]
    /\ UNCHANGED <<made, rc, live>>

\* ev_io_cb and ev_stat_cb for item e: the watcher is stopped, and the thread
\* that waits for it goes on if it is still alive.
ev_cb(e) ==
    LET t == data[e] IN
    /\ me = NoThread
    /\ e \in active
    /\ CASE t = NoThread ->
              active' = active \ {e} /\ UNCHANGED <<made, data, pdata, wait, rc, live, me, fault>>
         [] t # NoThread /\ pdata[t] # e ->
              fault' = TRUE /\ UNCHANGED <<made, data, active, pdata, wait, rc, live, me>>
         [] t # NoThread /\ pdata[t] = e /\ t \notin live ->
              /\ active' = active \ {e}
              /\ pdata' = [pdata EXCEPT ![t] = NoEv]
              /\ UNCHANGED <<made, data, wait, rc, live, me, fault>>
         [] t # NoThread /\ pdata[t] = e /\ t \in live ->
              active' = active \ {e} /\ Continue(t, NoEv)
    /\ UNCHANGED due

\* poller_sift_sleepq takes thread t off the_sleepq and resumes it.
sift(t) ==
    /\ me = NoThread
    /\ t \in due
    /\ due' = due \ {t}
    /\ Continue(t, pdata[t])
    /\ UNCHANGED active
-----------------------------------------------------------------------------
\* The running thread t waits for something else, which ends by itself.
mnthr_sleep(t) ==
    /\ me = t
    /\ me' = NoThread
    /\ due' = due \cup {t}
    /\ UNCHANGED <<made, data, active, pdata, wait, rc, live, fault>>

\* mnthr_set_retval(0) by thread t: co.rc stays set until the thread clears it.
mnthr_set_retval(t) ==
    /\ me = t
    /\ rc[t] # 0
    /\ rc' = [rc EXCEPT ![t] = 0]
    /\ UNCHANGED <<made, data, active, pdata, wait, live, due, me, fault>>

\* poller_clear_event stops the watcher pdata.ev names, no matter who waits for
\* it, and whether it is still there.
poller_clear_event(t) ==
    /\ active' = active \ {pdata[t]}
    /\ fault' = (pdata[t] = Freed)

\* Wrong: the interrupted thread is not told so.
mnthr_set_interrupt_NoCode(u, t) ==
    /\ me = u /\ u # t
    /\ t \in Interruptible \cap live
    /\ poller_clear_event(t)
    /\ due' = due \cup {t}
    /\ UNCHANGED <<made, rc, data, pdata, wait, live, me>>

\* Wrong: the watcher is stopped and the thread is not scheduled.
mnthr_set_interrupt_NotEnqueued(u, t) ==
    /\ me = u /\ u # t
    /\ t \in Interruptible \cap live
    /\ poller_clear_event(t)
    /\ rc' = [rc EXCEPT ![t] = INTERRUPTED]
    /\ UNCHANGED <<made, data, pdata, wait, live, due, me>>

\* mnthr_set_interrupt of thread t by the running thread u.
mnthr_set_interrupt(u, t) ==
    /\ me = u /\ u # t
    /\ t \in Interruptible \cap live
    /\ poller_clear_event(t)
    /\ rc' = [rc EXCEPT ![t] = INTERRUPTED]
    /\ due' = due \cup {t}
    /\ UNCHANGED <<made, data, pdata, wait, live, me>>

\* set_resume of thread t by the running thread u.  It leaves watchers alone.
set_resume(u, t) ==
    /\ me = u /\ u # t
    /\ t \in Resumable \cap live
    /\ due' = due \cup {t}
    /\ UNCHANGED <<made, data, active, pdata, wait, rc, live, me, fault>>

\* The function of thread t returns: poller_resume takes it out of the_sleepq,
\* push_free_ctx finalizes it.  No item is looked at.
Exit(t) ==
    /\ me = t
    /\ me' = NoThread
    /\ live' = live \ {t}
    /\ due' = due \ {t}
    /\ pdata' = [pdata EXCEPT ![t] = NoEv]
    /\ UNCHANGED <<made, data, active, wait, rc, fault>>

\* The running thread u reuses the context t of a thread that has exited.
mnthr_spawn(u, t) ==
    /\ me = u
    /\ t \notin live
    /\ live' = live \cup {t}
    /\ due' = due \cup {t}
    /\ rc' = [rc EXCEPT ![t] = 0]
    /\ UNCHANGED <<made, data, active, pdata, wait, me, fault>>
-----------------------------------------------------------------------------
\* The running thread gives the processor up.
EndSlice(t) ==
    \/ mnthr_wait_for_io(t)
    \/ mnthr_stat_wait(t)
    \/ mnthr_sleep(t)
    \/ Exit(t)

Next ==
    /\ ~ fault
    /\ \/ \E e \in Items : ev_cb(e)
       \/ \E t \in Thr : sift(t) \/ EndSlice(t) \/ mnthr_set_retval(t)
       \/ \E t \in Thr, e \in Stat : mnthr_stat_new(t, e) \/ mnthr_stat_destroy(t, e)
       \/ \E t, u \in Thr :
            mnthr_set_interrupt(u, t) \/ set_resume(u, t) \/ mnthr_spawn(u, t)

Spec == Init /\ [][Next]_vars

\* Descriptors become ready again and again, a round of the loop serves every
\* ready watcher and every scheduled thread, and a running thread yields at last.
FairSpec ==
    /\ Spec
    /\ \A e \in Items : SF_vars(ev_cb(e))
    /\ \A t \in Thr : /\ SF_vars(sift(t))
                      /\ WF_vars(~ fault /\ EndSlice(t) /\ me' = NoThread)
-----------------------------------------------------------------------------
\* The waits of thread t that nobody else's interrupt can touch.  (A thread that
\* was turned away from an item keeps naming it, and an interrupt of that thread
\* stops the watcher of the thread that waits.)
Undisturbed(t) == (Users[wait[t]] \ {t}) \cap Interruptible = {}

\* A thread that has switched away in a wait can be reached: it is scheduled,
\* or its item is its own, its back reference names the item and the watcher is
\* started.  Nobody else's wait, refusal or exit takes that away, nor does an
\* interrupt of the thread itself.
WaiterReachable ==
    \A t \in Thr : wait[t] # NoEv /\ Undisturbed(t) =>
        \/ t \in due
        \/ data[wait[t]] = t /\ pdata[t] = wait[t] /\ wait[t] \in active

\* The assertions of ev_io_cb and ev_stat_cb (a watcher's thread names that
\* watcher) and the one behind each switch (the item is still the thread's) hold,
\* and no interrupt follows pdata.ev to an item that was freed.
AssertionsHold == ~ fault

\* A wait that ends with code 0 was ended by its own watcher, unless the thread
\* was resumed out of a wait queue in which an earlier wait had left it.
SuccessIsAnEvent ==
    [][\A t \in Thr \ Resumable :
           wait[t] # NoEv /\ wait'[t] = NoEv /\ rc[t] = 0 => wait[t] \in active \ active']_vars

\* Every wait ends once its descriptor becomes ready.
WaitEnds == \A t \in Thr : wait[t] # NoEv /\ Undisturbed(t) ~> wait[t] = NoEv
=============================================================================
