---------------------------- MODULE KeventPoller ----------------------------
(***************************************************************************)
(* Waiting for descriptors in the kqueue poller: the change list kevents0, *)
(* the results kevents1, the counters event_count and event_max, and the   *)
(* loop that hands the results to the threads.                             *)
(*                                                                         *)
(* A change or a result carries the thread it was made for (udata) and     *)
(* nothing ties it to the wait it was made for: between the call in which  *)
(* a thread asks for an event and the moment its result is looked at, the  *)
(* thread may have been interrupted, have exited or be in another call,    *)
(* and the descriptor may be closed.                                       *)
(*                                                                         *)
(* A round of the loop is: the walk over the_sleepq (runq), one kevent()   *)
(* call, in which the kernel takes the changes one by one, the results in  *)
(* turn.  The scheduler is reduced to the set of the threads in            *)
(* the_sleepq; a thread that is staged on runq is not interrupted (module  *)
(* Scheduler has those races).                                             *)
(***************************************************************************)
EXTENDS Integers, FiniteSets, DTQueue

CONSTANTS
    Thr,            \* the contexts
    Fd,             \* the descriptors
    Users,          \* Users[f]: the threads that wait for descriptor f
    Selectors,      \* the threads that call mnthr_wait_for_events
    Interruptible,  \* the threads others call mnthr_set_interrupt on
    Closed,         \* the descriptors that are closed and opened again
    NoThread,       \* NULL, for a thread
    MaxCount        \* bound on event_count, in both directions

ASSUME KeventPollerAssumption ==
    /\ Users \in [Fd -> SUBSET Thr]
    /\ Selectors \subseteq Thr /\ Interruptible \subseteq Thr
    /\ Closed \subseteq Fd
    /\ NoThread \notin Thr
    /\ IsFiniteSet(Thr) /\ IsFiniteSet(Fd)
    /\ MaxCount \in Nat

Filter == {"READ", "WRITE"}
Event == Fd \X Filter           \* ident and filter: what identifies a knote

\* The events of a wait: one, or both of a descriptor.
Both(f) == <<<<f, "READ">>, <<f, "WRITE">>>>
Watched == {<<>>} \cup {<<e>> : e \in Event} \cup {Both(f) : f \in Fd}

INTERRUPTED == 2    \* MNTHR_CO_RC_USER_INTERRUPTED
POLLER == 5         \* MNTHR_CO_RC_POLLER

VARIABLES
    kevents0,       \* the changes for the next kevent()
    knote,          \* the kernel: knote[e] is the udata of a registered event
    open,           \* the kernel: the open descriptors
    event_count, event_max,
    kevents1,       \* the results of the last kevent() ...
    iter,           \* ... and the next one to look at
    pdata,          \* pdata[t]: the events named by pdata.kev.ident and filter
    mask,           \* mask[t]: pdata.kev.filter of mnthr_wait_for_events
    idx,            \* idx[t]: pdata.kev.idx, 0 for -1
    state,          \* state[t]: co.state
    call,           \* call[t]: the call t has switched away in
    rc,             \* rc[t]: co.rc
    due,            \* the threads in the_sleepq
    runq,           \* the threads the walk still has to resume
    phase,          \* the part of the loop
    me,
    failed,         \* the threads that were given no result: FAIL()
    clean,          \* history: no deletion has failed, every failed change found
                    \* room in kevents1, and nobody was interrupted while a result
                    \* for it stood there
    clash           \* history: the events asked for by two threads at once

kernel == <<knote, open>>
counts == <<event_count, event_max>>
round  == <<kevents1, iter, runq, phase>>
pvars  == <<pdata, mask, idx>>
cvars  == <<state, call, rc>>
hist   == <<clean, clash>>
vars == <<kevents0, kernel, counts, round, pvars, cvars, due, me, failed, hist>>

Change == [op : {"ADD", "DELETE"}, ev : Event, thr : Thr]
Result == [ev : Event, thr : Thr, error : BOOLEAN]

TypeOK ==
    /\ kevents0 \in Seq(Change)
    /\ knote \in [Event -> Thr \cup {NoThread}]
    /\ open \in SUBSET Fd
    /\ event_count \in Int /\ event_max \in Nat
    /\ kevents1 \in Seq(Result) /\ Len(kevents1) <= event_max
    /\ iter \in 1..(Len(kevents1) + 1)
    /\ pdata \in [Thr -> Watched]
    /\ mask \in [Thr -> SUBSET Filter]
    /\ idx \in [Thr -> 0..event_max]
    /\ state \in [Thr -> {"DORMANT", "RESUMED", "SLEEP", "SET", "RW", "OTHER"}]
    /\ call \in [Thr -> {"none", "sleep", "wait", "wait_for_events"}]
    /\ rc \in [Thr -> {0, INTERRUPTED, POLLER}]
    /\ due \in SUBSET Thr /\ runq \in SUBSET Thr
    /\ phase \in {"sift", "kevent", "results", "over"}
    /\ me \in Thr \cup {NoThread}
    /\ failed \in SUBSET Thr
    /\ clean \in BOOLEAN /\ clash \in SUBSET Event

Init ==
    /\ kevents0 = <<>>
    /\ knote = [e \in Event |-> NoThread]
    /\ open = Fd
    /\ event_count = 0 /\ event_max = 0
    /\ kevents1 = <<>> /\ iter = 1
    /\ pdata = [t \in Thr |-> <<>>]
    /\ mask = [t \in Thr |-> {}]
    /\ idx = [t \in Thr |-> 0]
    /\ state = [t \in Thr |-> "SET"]
    /\ call = [t \in Thr |-> "none"]
    /\ rc = [t \in Thr |-> 0]
    /\ due = Thr /\ runq = {}
    /\ phase = "results"
    /\ me = NoThread
    /\ failed = {} /\ clean = TRUE /\ clash = {}
-----------------------------------------------------------------------------
(***************************************************************************)
(* The calls of the running thread.                                        *)
(***************************************************************************)

\* The changes that add or delete the events es for thread t.
Changes(op, es, t) == [i \in 1..Len(es) |-> [op |-> op, ev |-> es[i], thr |-> t]]

\* Thread t is in a wait for event e.
Awaits(t, e) == state[t] \in {"RW", "OTHER"} /\ e \in Elems(pdata[t])

\* A result for event e of thread t stands in kevents1 and was not looked at yet.
Reported(t, e) == \E i \in iter..Len(kevents1) : kevents1[i].thr = t /\ kevents1[i].ev = e

\* Wrong: a new change goes in front of the earlier ones.
new_event_InFront(changes) == changes \o kevents0

\* new_event: one change after the other at the end of kevents0.
new_event(changes) == kevents0 \o changes

\* The running thread t asks for the events es, and switches away.
begin_wait(t, es, st, name) ==
    /\ me = t
    /\ event_count + Len(es) <= MaxCount
    /\ kevents0' = new_event(Changes("ADD", es, t))
    /\ event_count' = event_count + Len(es)
    /\ pdata' = [pdata EXCEPT ![t] = es]
    /\ mask' = [mask EXCEPT ![t] = {}]
    /\ state' = [state EXCEPT ![t] = st]
    /\ call' = [call EXCEPT ![t] = name]
    /\ me' = NoThread
    /\ clash' = clash \cup {e \in Elems(es) : \E u \in Thr \ {t} : Awaits(u, e) \/ Reported(u, e)}
    /\ UNCHANGED <<kernel, event_max, round, idx, rc, due, failed, clean>>

\* mnthr_stat_wait, mnthr_get_rbuflen, mnthr_get_wbuflen, mnthr_wait_for_read
\* and mnthr_wait_for_write, which differ in the filter and in what they return.
mnthr_wait_for_rw(t, f) ==
    /\ t \in Users[f]
    /\ \E x \in Filter : begin_wait(t, <<<<f, x>>>>, "RW", "wait")

mnthr_wait_for_events(t, f) ==
    /\ t \in Users[f] \cap Selectors
    /\ begin_wait(t, Both(f), "OTHER", "wait_for_events")

mnthr_sleep(t) ==
    /\ me = t
    /\ state' = [state EXCEPT ![t] = "SLEEP"]
    /\ call' = [call EXCEPT ![t] = "sleep"]
    /\ due' = due \cup {t}
    /\ me' = NoThread
    /\ UNCHANGED <<kevents0, kernel, counts, round, pvars, rc, failed, hist>>

\* Wrong: poller_clear_event is not called.
poller_clear_event_None(t) == <<>>

\* What poller_clear_event discards.
poller_clear_event(t) == IF state[t] \in {"RW", "OTHER"} THEN pdata[t] ELSE <<>>

\* A result for thread t stands in kevents1.
Pending(t) == \E i \in iter..Len(kevents1) : kevents1[i].thr = t

\* Wrong: the state is left as it was.
mnthr_set_interrupt_KeepsState(u, t) ==
    /\ me = u /\ u # t
    /\ t \in Interruptible \ runq
    /\ state[t] # "DORMANT"
    /\ event_count - Len(poller_clear_event(t)) >= -MaxCount
    /\ kevents0' = new_event(Changes("DELETE", poller_clear_event(t), t))
    /\ event_count' = event_count - Len(poller_clear_event(t))
    /\ rc' = [rc EXCEPT ![t] = INTERRUPTED]
    /\ due' = due \cup {t}
    /\ clean' = (clean /\ ~ Pending(t))
    /\ UNCHANGED <<kernel, event_max, round, pvars, state, call, me, failed, clash>>

\* Wrong: the code is not set.
mnthr_set_interrupt_NoCode(u, t) ==
    /\ me = u /\ u # t
    /\ t \in Interruptible \ runq
    /\ state[t] # "DORMANT"
    /\ event_count - Len(poller_clear_event(t)) >= -MaxCount
    /\ kevents0' = new_event(Changes("DELETE", poller_clear_event(t), t))
    /\ event_count' = event_count - Len(poller_clear_event(t))
    /\ state' = [state EXCEPT ![t] = "SET"]
    /\ due' = due \cup {t}
    /\ clean' = (clean /\ ~ Pending(t))
    /\ UNCHANGED <<kernel, event_max, round, pvars, call, rc, me, failed, clash>>

\* mnthr_set_interrupt of thread t by the running thread u.
mnthr_set_interrupt(u, t) ==
    /\ me = u /\ u # t
    /\ t \in Interruptible \ runq
    /\ state[t] # "DORMANT"
    /\ event_count - Len(poller_clear_event(t)) >= -MaxCount
    /\ kevents0' = new_event(Changes("DELETE", poller_clear_event(t), t))
    /\ event_count' = event_count - Len(poller_clear_event(t))
    /\ rc' = [rc EXCEPT ![t] = INTERRUPTED]
    /\ state' = [state EXCEPT ![t] = "SET"]
    /\ due' = due \cup {t}
    /\ clean' = (clean /\ ~ Pending(t))
    /\ UNCHANGED <<kernel, event_max, round, pvars, call, me, failed, clash>>

\* mnthr_set_retval(0)
mnthr_set_retval(t) ==
    /\ me = t
    /\ rc[t] # 0
    /\ rc' = [rc EXCEPT ![t] = 0]
    /\ UNCHANGED <<kevents0, kernel, counts, round, pvars, state, call, due, me, failed, hist>>

\* The function of thread t returns.
Exit(t) ==
    /\ me = t
    /\ state' = [state EXCEPT ![t] = "DORMANT"]
    /\ pdata' = [pdata EXCEPT ![t] = <<>>]
    /\ mask' = [mask EXCEPT ![t] = {}]
    /\ idx' = [idx EXCEPT ![t] = 0]
    /\ due' = due \ {t}
    /\ me' = NoThread
    /\ UNCHANGED <<kevents0, kernel, counts, round, call, rc, failed, hist>>

\* The running thread u reuses the context t.
mnthr_spawn(u, t) ==
    /\ me = u
    /\ state[t] = "DORMANT"
    /\ state' = [state EXCEPT ![t] = "SET"]
    /\ rc' = [rc EXCEPT ![t] = 0]
    /\ due' = due \cup {t}
    /\ UNCHANGED <<kevents0, kernel, counts, round, pvars, call, me, failed, hist>>

\* The running thread closes descriptor f, for which nobody waits, or opens it
\* again.  The kernel forgets the knotes of a closed descriptor.
close(t, f) ==
    /\ me = t /\ t \in Users[f]
    /\ f \in open \cap Closed
    /\ \A u \in Thr : state[u] \in {"RW", "OTHER"} => Elems(pdata[u]) \cap ({f} \X Filter) = {}
    /\ open' = open \ {f}
    /\ knote' = [e \in Event |-> IF e[1] = f THEN NoThread ELSE knote[e]]
    /\ UNCHANGED <<kevents0, counts, round, pvars, cvars, due, me, failed, hist>>

reopen(t, f) ==
    /\ me = t /\ t \in Users[f]
    /\ f \notin open
    /\ open' = open \cup {f}
    /\ UNCHANGED <<kevents0, knote, counts, round, pvars, cvars, due, me, failed, hist>>
-----------------------------------------------------------------------------
(***************************************************************************)
(* The loop.                                                               *)
(***************************************************************************)

\* poller_resume of thread t with code r, the position i in kevents1 in its
\* pdata (0 for -1), and the rest of the call in which it had switched away: on
\* an error pdata is left as it is, a success takes the result and resets pdata.
Continue(t, i, r) ==
    /\ me' = t
    /\ state' = [state EXCEPT ![t] = "RESUMED"]
    /\ call' = [call EXCEPT ![t] = "none"]
    /\ rc' = [rc EXCEPT ![t] = r]
    /\ IF call[t] \in {"none", "sleep"} \/ r # 0
       THEN idx' = [idx EXCEPT ![t] = i] /\ UNCHANGED <<pdata, mask, failed>>
       ELSE /\ failed' = IF call[t] = "wait" /\ i = 0 THEN failed \cup {t} ELSE failed
            /\ pdata' = [pdata EXCEPT ![t] = <<>>]
            /\ mask' = [mask EXCEPT ![t] = {}]
            /\ idx' = [idx EXCEPT ![t] = 0]

\* poller_sift_sleepq resumes thread t.
sift(t) ==
    /\ phase = "sift" /\ me = NoThread
    /\ t \in runq
    /\ runq' = runq \ {t}
    /\ Continue(t, idx[t], rc[t])
    /\ UNCHANGED <<kevents0, kernel, counts, kevents1, iter, phase, due, hist>>

Max2(a, b) == IF a > b THEN a ELSE b

\* Wrong: the loop takes one event for none.
loop_idle_OffByOne ==
    /\ phase = "sift" /\ me = NoThread /\ runq = {}
    /\ kevents0 = <<>> /\ event_count <= 1
    /\ phase' = IF due = {} THEN "over" ELSE "results"
    /\ kevents1' = <<>> /\ iter' = 1
    /\ UNCHANGED <<kevents0, kernel, counts, runq, pvars, cvars, due, me, failed, hist>>

\* Nothing to pass to kevent(): nanosleep, or leave the loop.
loop_idle ==
    /\ phase = "sift" /\ me = NoThread /\ runq = {}
    /\ kevents0 = <<>> /\ event_count = 0
    /\ phase' = IF due = {} THEN "over" ELSE "results"
    /\ kevents1' = <<>> /\ iter' = 1
    /\ UNCHANGED <<kevents0, kernel, counts, runq, pvars, cvars, due, me, failed, hist>>

\* kevent() is called, with room for event_max results.
loop_kevent ==
    /\ phase = "sift" /\ me = NoThread /\ runq = {}
    /\ kevents0 # <<>> \/ event_count # 0
    /\ event_max' = Max2(event_max, event_count)
    /\ phase' = "kevent"
    /\ UNCHANGED <<kevents0, kernel, event_count, kevents1, iter, runq, pvars, cvars, due, me,
                   failed, hist>>

\* The kernel cannot take change c.
Rejected(c) == c.ev[1] \notin open \/ (c.op = "DELETE" /\ knote[c.ev] = NoThread)

\* The kernel takes the next change.  One that fails is reported if there is room.
kevent_change ==
    LET c == Head(kevents0)
    IN  /\ phase = "kevent" /\ kevents0 # <<>>
        /\ kevents0' = Tail(kevents0)
        /\ \/ /\ ~ Rejected(c)
              /\ knote' = [knote EXCEPT ![c.ev] = IF c.op = "ADD" THEN c.thr ELSE NoThread]
              /\ UNCHANGED <<kevents1, clean>>
           \/ /\ Rejected(c) /\ Len(kevents1) < event_max
              /\ kevents1' = Append(kevents1, [ev |-> c.ev, thr |-> c.thr, error |-> TRUE])
              /\ clean' = (clean /\ c.op = "ADD")
              /\ UNCHANGED knote
        /\ UNCHANGED <<open, counts, iter, runq, phase, pvars, cvars, due, me, failed, clash>>

\* A change fails for which there is no room: kevent() returns -1 without looking at
\* the changes behind it, and mnthr_loop goes on only if it counts no events.
kevent_fails ==
    /\ phase = "kevent" /\ kevents0 # <<>>
    /\ Rejected(Head(kevents0)) /\ Len(kevents1) = event_max
    /\ kevents0' = <<>> /\ kevents1' = <<>>
    /\ phase' = IF event_count = 0 THEN "results" ELSE "over"
    /\ clean' = FALSE
    /\ UNCHANGED <<kernel, counts, iter, runq, pvars, cvars, due, me, failed, clash>>

\* kevent() returns what has failed, or else events that have happened, or is
\* interrupted.  A call with nothing to wait for and no timeout does not return; one
\* without room does.  The loop ends when there is nothing to come.
kevent_returns ==
    /\ phase = "kevent" /\ kevents0 = <<>>
    /\ \/ /\ kevents1 # <<>>
          /\ phase' = "results"
          /\ UNCHANGED kevents1
       \/ /\ kevents1 = <<>>
          /\ \E n \in 0..event_max : \E es \in [1..n -> {e \in Event : knote[e] # NoThread}] :
                /\ Distinct(es)
                /\ n = 0 => due # {} \/ event_max = 0
                /\ kevents1' = [i \in 1..n |-> [ev |-> es[i], thr |-> knote[es[i]], error |-> FALSE]]
                /\ phase' = IF n = 0 /\ event_count = 0 /\ due = {} THEN "over" ELSE "results"
       \/ /\ kevents1 = <<>> /\ event_max > 0             \* EINTR
          /\ phase' = "results"
          /\ UNCHANGED kevents1
    /\ UNCHANGED <<kevents0, kernel, counts, iter, runq, pvars, cvars, due, me, failed, hist>>

\* The next result: the event is discarded unless it is an error, and the thread
\* is resumed, or scheduled when it is in mnthr_wait_for_events.  A result there is a
\* read or a write: an earlier EVFILT_VNODE one, FAIL("mnthr_loop"), is left out.
loop_result ==
    LET r == kevents1[iter]
        t == r.thr
    IN  /\ phase = "results" /\ me = NoThread
        /\ iter <= Len(kevents1)
        /\ iter' = iter + 1
        /\ IF r.error THEN UNCHANGED <<kevents0, event_count>>
           ELSE /\ kevents0' = new_event(Changes("DELETE", <<r.ev>>, t))
                /\ event_count' = event_count - 1
        /\ CASE state[t] = "OTHER" ->               \* set_resume_fast
                  /\ mask' = [mask EXCEPT ![t] = @ \cup {r.ev[2]}]
                  /\ idx' = [idx EXCEPT ![t] = 0]
                  /\ state' = [state EXCEPT ![t] = "SET"]
                  /\ due' = due \cup {t}
                  /\ UNCHANGED <<pdata, call, rc, me, failed>>
             [] state[t] = "DORMANT" ->
                  /\ idx' = [idx EXCEPT ![t] = iter]
                  /\ UNCHANGED <<pdata, mask, cvars, due, me, failed>>
             [] state[t] \notin {"OTHER", "DORMANT"} ->
                  /\ Continue(t, iter, IF r.error THEN POLLER ELSE 0)
                  /\ UNCHANGED due
        /\ UNCHANGED <<kernel, event_max, kevents1, runq, phase, hist>>

\* The next round: the walk takes all threads off the_sleepq but those that
\* sleep on.  There always is one: nobody calls mnthr_shutdown here.
loop_round ==
    /\ phase = "results" /\ me = NoThread
    /\ iter > Len(kevents1)
    /\ phase' = "sift"
    /\ \E s \in SUBSET {t \in due : state[t] = "SLEEP"} : due' = s /\ runq' = due \ s
    /\ kevents1' = <<>> /\ iter' = 1
    /\ UNCHANGED <<kevents0, kernel, counts, pvars, cvars, me, failed, hist>>
-----------------------------------------------------------------------------
Calls(t) ==
    \/ \E f \in Fd : mnthr_wait_for_rw(t, f) \/ mnthr_wait_for_events(t, f)
    \/ mnthr_sleep(t)
    \/ Exit(t)
    \/ mnthr_set_retval(t)
    \/ \E u \in Thr : mnthr_set_interrupt(t, u) \/ mnthr_spawn(t, u)
    \/ \E f \in Fd : close(t, f) \/ reopen(t, f)

Loop == \/ loop_idle \/ loop_kevent \/ kevent_change \/ kevent_fails \/ kevent_returns
        \/ loop_result \/ loop_round

Next == clean /\ failed = {} /\ (Loop \/ \E t \in Thr : sift(t) \/ Calls(t))

Spec == Init /\ [][Next]_vars
-----------------------------------------------------------------------------
\* As long as no deletion has failed (clean), a thread that has switched away to
\* wait for an event can be reached: the event is in the change list, registered
\* for the thread or among the results.  In particular the deletion that goes
\* with a result never takes away what the resumed thread asks for next (the
\* comment "we first clear the event, and then the handlers/co's might re-add").
\* The threads that call mnthr_wait_for_events are left out: it leaves the event
\* that did not happen registered, and a later result for it resumes them.
WaiterReachable ==
    clean => \A t \in Thr \ Selectors, e \in Event \ clash : Awaits(t, e) =>
        \/ [op |-> "ADD", ev |-> e, thr |-> t] \in Elems(kevents0)
        \/ knote[e] = t
        \/ Reported(t, e)

\* poller_sift_sleepq never finds a thread that waits for an event ("This should
\* never occur").  A thread in mnthr_wait_for_events whose two events come at
\* once is scheduled for the first and resumed for the second: it is left out.
SiftFindsNoWaiter ==
    clean => \A t \in (due \cup runq) \ Selectors : state[t] \notin {"RW", "OTHER"}

\* A result finds the thread it was asked for by still in the wait it belongs to,
\* although a result only names the thread: what is registered for an earlier
\* wait is gone from the kernel before it can answer a later one.
ResultIsAwaited ==
    clean /\ phase = "results" => \A i \in iter..Len(kevents1) :
        LET t == kevents1[i].thr IN
        t \notin Selectors => Awaits(t, kevents1[i].ev)

\* Without a mnthr_shutdown, which ends mnthr_loop whoever waits, the loop ends only
\* when no thread waits for an event: event_count is not below the number of events
\* that can still happen.
LoopServesWaiters == clean /\ phase = "over" => \A t \in Thr : state[t] \notin {"RW", "OTHER"}

\* No wait returns without a result to look at: FAIL("result_event") of the waits
\* for one event is not reached.
NoFail == clean => failed \subseteq Selectors
=============================================================================
