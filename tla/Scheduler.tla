------------------------------ MODULE Scheduler ------------------------------
(***************************************************************************)
(* Threads of mnthr and the loop that runs them: contexts and their reuse, *)
(* sleeping, joining, interrupting, timed waits, the event (signal) and    *)
(* the condition primitives, over the sleep queue of module SleepQueue.    *)
(*                                                                         *)
(* One context runs at a time.  A step is what the main context does       *)
(* between two switches, or one library call of the running thread up to   *)
(* its switch; a call that goes on after the switch has a second action    *)
(* that is forced when the thread is resumed.  Three more things are split *)
(* into forced steps: the loop of resume_waitq_all (drain), the timed      *)
(* waits, which schedule their target and then themselves, and mnthr_gc,   *)
(* which frees one context after the other (doomed).                       *)
(***************************************************************************)
EXTENDS SleepQueue

CONSTANTS
    Cond,           \* the wait queue of the application's mnthr_cond_t
    Calls,          \* the library calls the application makes
    Delays,         \* the sleeping times and timeouts it asks for
    Retvals,        \* the codes it passes to mnthr_set_retval, _signal_error
    MaxId,          \* bound: number of threads ever created
    StagedRace,     \* FALSE cuts the behaviours in which a thread that waits
                    \* on runq or sleepq_bucket_tmp is scheduled once more
    MayEINTR        \* a thread may leave errno at EINTR when it switches

CallNames ==
    {"new", "new_sig", "run", "spawn", "gc", "shutdown", "sleep", "yield",
     "giveup", "exit", "set_retval",
     "set_prio", "abac", "join", "set_interrupt", "set_interrupt_and_join",
     "set_interrupt_and_join_with_timeout", "wait_for", "peek", "subscribe",
     "subscribe_with_timeout", "signal_send", "signal_error",
     "signal_error_and_join", "cond_wait", "cond_signal_one", "cond_signal_all"}

INTERRUPTED == -1   \* MNTHR_CO_RC_USER_INTERRUPTED
TIMEDOUT    == -2   \* MNTHR_CO_RC_TIMEDOUT
TIMEOUT     == -3   \* MNTHR_WAIT_TIMEOUT
NoRc        == -9   \* no return code yet
NoId        == -1   \* co.id of a context that is no thread; co.f is NULL then

ASSUME SchedulerAssumption ==
    /\ Cond \notin Ctx \cup {NULL}
    /\ Calls \subseteq CallNames
    /\ Delays \subseteq 1..MaxNow
    /\ Retvals \subseteq Nat
    /\ MaxId \in Nat
    /\ StagedRace \in BOOLEAN /\ MayEINTR \in BOOLEAN

VARIABLES
    me,         \* the running thread
    ctl,        \* the context that has the processor, "main" or "thread"
    state,      \* co.state
    id,         \* co.id
    rc,         \* co.rc
    prio,       \* sleepq_enqueue = sleepq_insert
    abac,       \* co.abac
    waitq,      \* the wait queues: one per context and that of Cond
    hosting,    \* hosting_waitq
    owner,      \* owner of the application's mnthr_signal_t
    ctxes,      \* the array of the contexts
    freelist,   \* free_list
    left,       \* the chains of contexts mnthr_gc has left behind
    doomed,     \* the contexts mnthr_gc is about to free
    shutdown,   \* CO_FLAG_SHUTDOWN: "no" or "asked"; "done": mnthr_loop is over
    co_id,      \* the next thread id
    last,       \* history: the id of the last thread a context was given to
    call,       \* the library call a thread is in
    drain,      \* the wait queue resume_waitq_all is emptying
    dying,      \* the context mnthr_ctx_finalize is working on
    slice,      \* history: the threads this walk has resumed
    fault       \* the process is gone: an assertion failed ("assert"), a list
                \* was modified through a link that is in use ("list"), or a
                \* context was freed that a wait or the sleep queue still
                \* refers to ("freed")

covars  == <<state, id, rc, prio, abac>>
wqvars  == <<waitq, hosting, drain>>
ctxvars == <<ctxes, freelist, left, doomed, shutdown, co_id, last, dying>>
vars    == <<sqvars, me, ctl, covars, wqvars, owner, ctxvars, call, slice, fault>>

WaitQ == Ctx \cup {Cond}

RESUMABLE == {"SLEEP", "SET_RESUME", "SET_INTERRUPT", "SIGNAL_SUBSCRIBE",
              "JOIN", "JOIN_INTERRUPTED", "CONDWAIT", "WAITFOR", "PEEK"}

Rc == Retvals \cup {0, INTERRUPTED, TIMEDOUT}

\* The call a thread is in.  "enter": it will switch next; "wait": it has.
Call == [op    : {"none", "sleep"} \cup CallNames,
         ph    : {"enter", "wait"},
         tgt   : Ctx \cup {NULL},       \* the thread it waits for
         gid   : -1..MaxId,             \* that thread's id when it started
         until : 0..FOREVER,            \* when it should time out
         exitrc : Rc \cup {NoRc}]     \* history: co.rc of tgt when it was finalized

\* A call that has just started.
CallOf(op, ph, t, i, k) == [op |-> op, ph |-> ph, tgt |-> t, gid |-> i, until |-> k,
                            exitrc |-> NoRc]

NoCall == CallOf("none", "wait", NULL, NoId, 0)

TypeOK ==
    /\ SQTypeOK
    /\ me \in Ctx \cup {NULL}
    /\ ctl \in {"main", "thread"}
    /\ state \in [Ctx -> RESUMABLE \cup {"DORMANT", "RESUMED"}]
    /\ id \in [Ctx -> -1..MaxId]
    /\ rc \in [Ctx -> Rc]
    /\ prio \in [Ctx -> BOOLEAN]
    /\ abac \in [Ctx -> Nat]
    /\ waitq \in [WaitQ -> Seq(Ctx)]
    /\ hosting \in [Ctx -> WaitQ \cup {NULL}]
    /\ owner \in Ctx \cup {NULL}
    /\ ctxes \in Seq(Ctx) /\ freelist \in Seq(Ctx)
    /\ left \in SUBSET (SUBSET Ctx)
    /\ doomed \in SUBSET Ctx
    /\ shutdown \in {"no", "asked", "done"}
    /\ co_id \in 0..MaxId
    /\ last \in [Ctx -> -1..MaxId]
    /\ call \in [Ctx -> Call]
    /\ drain \in WaitQ \cup {NULL}
    /\ dying \in Ctx \cup {NULL}
    /\ slice \in SUBSET Ctx
    /\ fault \in {"none", "assert", "list", "freed"}

Init ==
    /\ SQInit
    /\ me = NULL
    /\ ctl = "main"
    /\ state = [c \in Ctx |-> "DORMANT"]
    /\ id = [c \in Ctx |-> NoId]
    /\ rc = [c \in Ctx |-> 0]
    /\ prio = [c \in Ctx |-> FALSE]
    /\ abac = [c \in Ctx |-> 0]
    /\ waitq = [w \in WaitQ |-> <<>>]
    /\ hosting = [c \in Ctx |-> NULL]
    /\ owner = NULL
    /\ ctxes = <<>> /\ freelist = <<>> /\ left = {} /\ doomed = {}
    /\ shutdown = "no"
    /\ co_id = 0
    /\ last = [c \in Ctx |-> NoId]
    /\ call = [c \in Ctx |-> NoCall]
    /\ drain = NULL
    /\ dying = NULL
    /\ slice = {}
    /\ fault = "none"
-----------------------------------------------------------------------------
(***************************************************************************)
(* Scheduling one thread.                                                  *)
(***************************************************************************)

\* c is linked, through sleepq_link, in a list that is not the bucket of the
\* host of its expire_ticks; sleepq_remove does not take it off that list.
Stray(c) ==
    LET k == sq.expire[c] IN
    /\ c \in Elems(tmp) \/ \E h \in Ctx : c \in Elems(sq.bucket[h])
    /\ k = UNDEFINED \/ sq.trie[k] = NULL \/ c \notin Elems(sq.bucket[sq.trie[k]])

\* reschedule(c, k) would unlink c from, or link it into, a second list.
ListMisuse(c, k) ==
    /\ Stray(c)
    /\ \/ sq.trie[k] # NULL
       \/ /\ sq.expire[c] # UNDEFINED
          /\ sq.trie[sq.expire[c]] # NULL
          /\ sq.bucket[sq.trie[sq.expire[c]]] # <<>>

\* Drop the old reference to c, set its expire_ticks to k and enqueue it.
Enqueue(c, k) ==
    /\ StagedRace \/ c \notin Staged
    /\ sq' = reschedule(sq, c, k, prio[c])
    /\ fault' = IF ListMisuse(c, k) THEN "list" ELSE fault
    /\ UNCHANGED <<runq, tmp, now, phase>>

\* set_resume of a context that is a thread (co.f is not NULL).
set_resume(c) ==
    /\ Enqueue(c, RESUME_NOW)
    /\ state' = [state EXCEPT ![c] = "SET_RESUME"]

\* MNTHR_SET_EXPIRE_TICKS, for a time that is neither zero (RESUME_NOW) nor
\* MNTHR_SLEEP_FOREVER: a sleep for one of these is mnthr_yield or mnthr_giveup, and a
\* timed wait for one of these is left out.
Deadline(d) == now + d

\* The clock of the model stops at MaxNow: only ask for what can expire.
InHorizon(d) == Deadline(d) < MaxNow
-----------------------------------------------------------------------------
(***************************************************************************)
(* Who runs.                                                               *)
(***************************************************************************)

\* The main context is in the poller, or in main() before mnthr_loop.
MainRuns == ctl = "main" /\ drain = NULL /\ dying = NULL /\ doomed = {}

\* The running thread makes a library call.
Calling(name) == /\ name \in Calls
                 /\ ctl = "thread" /\ drain = NULL /\ doomed = {}
                 /\ call[me].op = "none"

\* main() may create threads too.
CallingOrMain(name) == \/ Calling(name)
                       \/ name \in Calls /\ MainRuns /\ phase = "main"

\* yield: back to poller_resume, which clears me unless errno is EINTR.
SwitchToMain == /\ ctl' = "main"
                /\ me' \in IF MayEINTR THEN {NULL, me} ELSE {NULL}

\* The thread has switched from the call it is in.
Block(op, t, k) ==
    /\ call' = [call EXCEPT ![me] =
                    CallOf(op, "wait", t, IF t = NULL THEN NoId ELSE id[t], k)]
    /\ SwitchToMain
-----------------------------------------------------------------------------
(***************************************************************************)
(* Contexts: creation, exit and reuse.                                     *)
(***************************************************************************)

mnthr_ctx_new(c) ==
    /\ c \notin Elems(ctxes)
    /\ ctxes' = Append(ctxes, c)
    /\ UNCHANGED freelist

\* c is the first element of q that is in S.
First(q, S, c) == \E i \in 1..Len(q) : /\ q[i] = c /\ c \in S
                                       /\ \A j \in 1..(i - 1) : q[j] \notin S

\* The contexts nobody holds.
Unheld == {c \in Ctx : abac[c] = 0}

\* Wrong: the context stays on free_list.
mnthr_ctx_pop_free_StaysFree(c) ==
    \/ Elems(freelist) \cap Unheld = {} /\ mnthr_ctx_new(c)
    \/ First(freelist, Unheld, c) /\ UNCHANGED <<ctxes, freelist>>

\* mnthr_ctx_pop_free: the first free context nobody holds, or a new one.
mnthr_ctx_pop_free(c) ==
    \/ /\ Elems(freelist) \cap Unheld = {}
       /\ mnthr_ctx_new(c)
    \/ /\ First(freelist, Unheld, c)
       /\ freelist' = DTQUEUE_REMOVE(freelist, c)
       /\ UNCHANGED ctxes

\* VNEW_BODY, once get_ctx_fn has found context c.
vnew_body(c) ==
    /\ co_id < MaxId
    /\ id' = [id EXCEPT ![c] = co_id]
    /\ rc' = [rc EXCEPT ![c] = 0]
    /\ co_id' = co_id + 1
    /\ last' = [last EXCEPT ![c] = co_id]
    /\ UNCHANGED <<left, doomed, dying>>

mnthr_new(c) ==
    /\ \/ CallingOrMain("new") /\ mnthr_ctx_pop_free(c) /\ vnew_body(c)
       \/ CallingOrMain("new_sig") /\ mnthr_ctx_new(c) /\ vnew_body(c)
    /\ UNCHANGED <<shutdown, sqvars, me, ctl, state, prio, abac, wqvars, owner, call, slice, fault>>

mnthr_run(c) ==
    /\ CallingOrMain("run")
    /\ id[c] # NoId
    /\ state[c] = "DORMANT"
    /\ set_resume(c)
    /\ UNCHANGED <<me, ctl, id, rc, prio, abac, wqvars, owner, ctxvars, call, slice>>

mnthr_spawn(c) ==
    /\ CallingOrMain("spawn")
    /\ mnthr_ctx_pop_free(c) /\ vnew_body(c)
    /\ set_resume(c)
    /\ UNCHANGED <<shutdown, me, ctl, prio, abac, wqvars, owner, call, slice>>

\* mnthr_ctx_finalize up to and including the start of resume_waitq_all.  The waits
\* for the thread note, in their history, the code it has now.
mnthr_ctx_finalize(c) ==
    /\ prio' = [prio EXCEPT ![c] = FALSE]
    /\ id' = [id EXCEPT ![c] = NoId]
    /\ state' = [state EXCEPT ![c] = "DORMANT"]
    /\ drain' = IF waitq[c] = <<>> THEN NULL ELSE c
    /\ dying' = c
    /\ call' = [d \in Ctx |-> IF call[d].tgt = c /\ call[d].gid = id[c]
                              THEN [call[d] EXCEPT !.exitrc = rc[c]] ELSE call[d]]

\* One context makes up the whole chain.
Alone(q) == \A c, d \in q : c = d

\* The contexts that are linked through free_list_link (DTQUEUE_ORPHAN says no): those
\* of free_list, and those of a chain mnthr_gc has left behind, unless it is alone there.
Linked == Elems(freelist) \cup UNION {q \in left : ~ Alone(q)}

\* The rest of mnthr_ctx_finalize, and push_free_ctx.
push_free_ctx ==
    /\ dying # NULL
    /\ drain = NULL
    /\ IF hosting[dying] = NULL THEN UNCHANGED <<waitq, hosting>>
       ELSE /\ waitq' = [waitq EXCEPT ![hosting[dying]] = DTQUEUE_REMOVE(@, dying)]
            /\ hosting' = [hosting EXCEPT ![dying] = NULL]
    /\ freelist' = DTQUEUE_ENQUEUE(freelist, dying)
    /\ fault' = IF dying \in Linked THEN "list" ELSE fault
    /\ dying' = NULL
    /\ UNCHANGED <<sqvars, me, ctl, covars, drain, owner, ctxes, left, doomed, shutdown, co_id,
                   last, call, slice>>

\* Wrong: co.abac is not looked at.
Garbage_Held == Linked

\* The contexts mnthr_gc frees.
Garbage == Linked \cap Unheld

\* mnthr_gc.  The held contexts are moved to tmp_list; of these only the first
\* gets back to free_list, as the loop then follows the link it has just reset.
mnthr_gc ==
    LET held == Linked \ Garbage
        alone == {q \in left : Alone(q)}
    IN  /\ CallingOrMain("gc")
        /\ doomed' = Garbage
        /\ \/ /\ held = {}
              /\ freelist' = <<>>
              /\ left' = alone
           \/ \E c \in Ctx : /\ First(ctxes, held, c)
                             /\ freelist' = <<c>>
                             /\ left' = alone \cup ({held \ {c}} \ {{}})
        /\ UNCHANGED <<sqvars, me, ctl, covars, wqvars, owner, ctxes, shutdown, co_id, last, dying,
                       call, slice, fault>>

\* A link of the sleep queue, or of a walk over it, leads to c.
Referred(c) == \/ c \in Elems(tmp) \cup Elems(runq)
               \/ \E k \in Key : sq.trie[k] = c
               \/ \E h \in Ctx : c \in Elems(sq.bucket[h])

\* mnthr_ctx_fini of a context that mnthr_gc frees: mnthr_ctx_finalize resumes who
\* waits for it (a peek at a thread that is gone), then it leaves the array.
mnthr_ctx_fini(c) ==
    /\ drain = NULL
    /\ First(ctxes, doomed, c)
    /\ \/ /\ waitq[c] # <<>>
          /\ drain' = c
          /\ UNCHANGED <<rc, ctxes, doomed, fault>>
       \/ /\ waitq[c] = <<>>
          /\ rc' = [rc EXCEPT ![c] = 0]
          /\ ctxes' = DTQUEUE_REMOVE(ctxes, c)
          /\ doomed' = doomed \ {c}
          /\ fault' = IF Referred(c) \/ \E t \in Ctx : call[t].tgt = c THEN "freed" ELSE fault
          /\ UNCHANGED drain
    /\ UNCHANGED <<sqvars, me, ctl, state, id, prio, abac, waitq, hosting, owner, freelist,
                   left, shutdown, co_id, last, dying, call, slice>>

\* mnthr_shutdown, with the thread it starts so that the loop turns once more.
mnthr_shutdown(c) ==
    /\ CallingOrMain("shutdown")
    /\ shutdown = "no"
    /\ shutdown' = "asked"
    /\ mnthr_ctx_pop_free(c) /\ vnew_body(c)
    /\ set_resume(c)
    /\ UNCHANGED <<me, ctl, prio, abac, wqvars, owner, call, slice>>

\* The worker function returns: poller_resume finds the thread RESUMED.
Exit ==
    /\ Calling("exit")
    /\ me' = NULL
    /\ ctl' = "main"
    /\ sq' = [sleepq_remove(sq, me) EXCEPT !.expire[me] = UNDEFINED]
    /\ mnthr_ctx_finalize(me)
    /\ UNCHANGED <<runq, tmp, now, phase, rc, abac, waitq, hosting, owner,
                   ctxes, freelist, left, doomed, shutdown, co_id, last, slice, fault>>

\* The same with errno left at EINTR: poller_resume returns at once.
ExitEINTR ==
    /\ MayEINTR
    /\ Calling("exit")
    /\ ctl' = "main"
    /\ UNCHANGED <<sqvars, me, covars, wqvars, owner, ctxvars, call, slice, fault>>

mnthr_set_retval(v) ==
    /\ Calling("set_retval")
    /\ rc' = [rc EXCEPT ![me] = v]
    /\ UNCHANGED <<sqvars, me, ctl, state, id, prio, abac, wqvars, owner, ctxvars,
                   call, slice, fault>>

\* Wrong: the new priority is applied at once to a thread that is scheduled.
mnthr_set_prio_AtOnce(c, flag) ==
    /\ Calling("set_prio")
    /\ id[c] # NoId
    /\ prio' = [prio EXCEPT ![c] = flag]
    /\ sq' = IF sq.expire[c] = UNDEFINED THEN sq
             ELSE reschedule(sq, c, sq.expire[c], flag)
    /\ UNCHANGED <<runq, tmp, now, phase, me, ctl, state, id, rc, abac, wqvars, owner,
                   ctxvars, call, slice, fault>>

mnthr_set_prio(c, flag) ==
    /\ Calling("set_prio")
    /\ id[c] # NoId
    /\ prio' = [prio EXCEPT ![c] = flag]
    /\ UNCHANGED <<sqvars, me, ctl, state, id, rc, abac, wqvars, owner, ctxvars,
                   call, slice, fault>>

\* The application holds a context at most once.
mnthr_incabac(c) ==
    /\ Calling("abac")
    /\ id[c] # NoId
    /\ abac[c] = 0
    /\ abac' = [abac EXCEPT ![c] = @ + 1]
    /\ UNCHANGED <<sqvars, me, ctl, state, id, rc, prio, wqvars, owner, ctxvars,
                   call, slice, fault>>

mnthr_decabac(c) ==
    /\ Calling("abac")
    /\ abac[c] > 0
    /\ abac' = [abac EXCEPT ![c] = @ - 1]
    /\ UNCHANGED <<sqvars, me, ctl, state, id, rc, prio, wqvars, owner, ctxvars,
                   call, slice, fault>>
-----------------------------------------------------------------------------
(***************************************************************************)
(* Sleeping.                                                               *)
(***************************************************************************)

\* Wrong: co.state is not set.
SleepUntil_NoState(k) ==
    /\ Enqueue(me, k)
    /\ Block("sleep", NULL, k)
    /\ UNCHANGED <<covars, wqvars, owner, ctxvars, slice>>

\* sleepmsec, sleepusec, sleepticks and sleepticks_absolute.
SleepUntil(k) ==
    /\ Enqueue(me, k)
    /\ state' = [state EXCEPT ![me] = "SLEEP"]
    /\ Block("sleep", NULL, k)
    /\ UNCHANGED <<id, rc, prio, abac, wqvars, owner, ctxvars, slice>>

mnthr_sleep(d) == Calling("sleep") /\ InHorizon(d) /\ SleepUntil(Deadline(d))

mnthr_yield == Calling("yield") /\ SleepUntil(RESUME_NOW)

mnthr_giveup == Calling("giveup") /\ SleepUntil(FOREVER)
-----------------------------------------------------------------------------
(***************************************************************************)
(* Wait queues.                                                            *)
(***************************************************************************)

append_me_to_waitq(w) ==
    /\ waitq' = [v \in WaitQ |->
                    LET q == IF v = hosting[me] THEN DTQUEUE_REMOVE(waitq[v], me)
                                                ELSE waitq[v]
                    IN  IF v = w THEN DTQUEUE_ENQUEUE(q, me) ELSE q]
    /\ hosting' = [hosting EXCEPT ![me] = w]
    /\ UNCHANGED drain

remove_me_from_waitq(w) ==
    /\ waitq' = [waitq EXCEPT ![w] = DTQUEUE_REMOVE(@, me)]
    /\ hosting' = [hosting EXCEPT ![me] = NULL]
    /\ UNCHANGED drain

\* Wrong: hosting_waitq is not reset.
resume_waitq_head_KeepsHosting(w) ==
    LET t == Head(waitq[w]) IN
    /\ waitq' = [waitq EXCEPT ![w] = Tail(@)]
    /\ CASE t = me ->
              /\ fault' = "assert"
              /\ UNCHANGED <<sqvars, state>>
         [] t # me /\ id[t] = NoId -> UNCHANGED <<sqvars, state, fault>>
         [] t # me /\ id[t] # NoId -> set_resume(t)
    /\ UNCHANGED <<hosting, me, ctl, id, rc, prio, abac, owner, ctxvars, call, slice>>

\* One turn of resume_waitq_all, all of resume_waitq_one.
resume_waitq_head(w) ==
    LET t == Head(waitq[w]) IN
    /\ waitq' = [waitq EXCEPT ![w] = Tail(@)]
    /\ hosting' = [hosting EXCEPT ![t] = NULL]
    /\ CASE t = me ->
              /\ fault' = "assert"
              /\ UNCHANGED <<sqvars, state>>
         [] t # me /\ id[t] = NoId -> UNCHANGED <<sqvars, state, fault>>
         [] t # me /\ id[t] # NoId -> set_resume(t)
    /\ UNCHANGED <<me, ctl, id, rc, prio, abac, owner, ctxvars, call, slice>>

\* Wrong: the loop ends after one turn.
resume_waitq_all_Once ==
    /\ drain # NULL
    /\ drain' = NULL
    /\ resume_waitq_head(drain)

resume_waitq_all ==
    /\ drain # NULL
    /\ drain' = IF Len(waitq[drain]) = 1 THEN NULL ELSE drain
    /\ resume_waitq_head(drain)

mnthr_join(t) ==
    /\ Calling("join")
    /\ state[t] \in RESUMABLE
    /\ state' = [state EXCEPT ![me] = "JOIN"]
    /\ append_me_to_waitq(t)
    /\ SwitchToMain
    /\ UNCHANGED <<sqvars, id, rc, prio, abac, owner, ctxvars, call, slice, fault>>

mnthr_cond_wait ==
    /\ Calling("cond_wait")
    /\ state' = [state EXCEPT ![me] = "CONDWAIT"]
    /\ append_me_to_waitq(Cond)
    /\ SwitchToMain
    /\ UNCHANGED <<sqvars, id, rc, prio, abac, owner, ctxvars, call, slice, fault>>

mnthr_cond_signal_one ==
    /\ Calling("cond_signal_one")
    /\ waitq[Cond] # <<>>
    /\ resume_waitq_head(Cond)
    /\ UNCHANGED drain

mnthr_cond_signal_all ==
    /\ Calling("cond_signal_all")
    /\ waitq[Cond] # <<>>
    /\ drain' = Cond
    /\ UNCHANGED <<sqvars, me, ctl, covars, waitq, hosting, owner, ctxvars, call,
                   slice, fault>>
-----------------------------------------------------------------------------
(***************************************************************************)
(* Interrupts and timed waits.                                             *)
(***************************************************************************)

\* Wrong: the thread is taken off the sleep queue and not put back.
SetInterrupt_NotEnqueued(t, code) ==
    /\ StagedRace \/ t \notin Staged
    /\ sq' = [sleepq_remove(sq, t) EXCEPT !.expire[t] = RESUME_NOW]
    /\ rc' = [rc EXCEPT ![t] = code]
    /\ UNCHANGED <<runq, tmp, now, phase, fault>>

\* mnthr_set_interrupt of a thread other than me; code is the co.rc it gets.
SetInterrupt(t, code) ==
    /\ Enqueue(t, RESUME_NOW)
    /\ rc' = [rc EXCEPT ![t] = code]

mnthr_set_interrupt(t) ==
    /\ Calling("set_interrupt")
    /\ t # me
    /\ id[t] # NoId
    /\ SetInterrupt(t, INTERRUPTED)
    /\ state' = [state EXCEPT ![t] = "SET_INTERRUPT"]
    /\ UNCHANGED <<me, ctl, id, prio, abac, wqvars, owner, ctxvars, call, slice>>

mnthr_set_interrupt_and_join(t) ==
    /\ Calling("set_interrupt_and_join")
    /\ state[t] \in RESUMABLE
    /\ SetInterrupt(t, INTERRUPTED)
    /\ state' = [state EXCEPT ![t] = "SET_INTERRUPT", ![me] = "JOIN_INTERRUPTED"]
    /\ append_me_to_waitq(t)
    /\ SwitchToMain
    /\ UNCHANGED <<id, prio, abac, owner, ctxvars, call, slice>>

\* A timed wait for thread t (id i) is set up; TimedSleep comes next.
Enter(op, t, i, k) ==
    /\ append_me_to_waitq(t)
    /\ call' = [call EXCEPT ![me] = CallOf(op, "enter", t, i, k)]

mnthr_set_interrupt_and_join_with_timeout(t, d) ==
    /\ Calling("set_interrupt_and_join_with_timeout")
    /\ InHorizon(d)
    /\ state[t] \in RESUMABLE
    /\ SetInterrupt(t, INTERRUPTED)
    /\ state' = [state EXCEPT ![t] = "SET_INTERRUPT", ![me] = "JOIN_INTERRUPTED"]
    /\ Enter("set_interrupt_and_join_with_timeout", t, id[t], Deadline(d))
    /\ UNCHANGED <<me, ctl, id, prio, abac, owner, ctxvars, slice>>

mnthr_wait_for(c, d) ==
    /\ Calling("wait_for")
    /\ InHorizon(d)
    /\ mnthr_ctx_pop_free(c) /\ vnew_body(c)
    /\ Enqueue(c, RESUME_NOW)
    /\ state' = [state EXCEPT ![me] = "WAITFOR", ![c] = "SET_RESUME"]
    /\ Enter("wait_for", c, co_id, Deadline(d))
    /\ UNCHANGED <<shutdown, me, ctl, prio, abac, owner, slice>>

mnthr_peek(t, d) ==
    /\ Calling("peek")
    /\ InHorizon(d)
    /\ t # me
    /\ t \in Elems(ctxes)
    /\ state' = [state EXCEPT ![me] = "PEEK"]
    /\ Enter("peek", t, id[t], Deadline(d))
    /\ UNCHANGED <<sqvars, me, ctl, id, rc, prio, abac, owner, ctxvars, slice, fault>>

\* sleepmsec at the end of the three: the thread is on two queues now.  Before
\* it, set_interrupt_and_join_with_timeout has set expire_ticks already.
TimedSleep ==
    /\ ctl = "thread"
    /\ call[me].ph = "enter"
    /\ LET k == call[me].until
           q == IF call[me].op = "set_interrupt_and_join_with_timeout"
                THEN [sq EXCEPT !.expire[me] = k] ELSE sq
       IN  /\ sq' = reschedule(q, me, k, prio[me])
           /\ call' = [call EXCEPT ![me].ph = "wait"]
    /\ SwitchToMain
    /\ UNCHANGED <<runq, tmp, now, phase, covars, wqvars, owner, ctxvars, slice, fault>>

\* The running thread is back in the call op it had switched from.
Returning(op) == /\ ctl = "thread" /\ drain = NULL
                 /\ call[me].op = op /\ call[me].ph = "wait"

Returned == call' = [call EXCEPT ![me] = NoCall]

\* Wrong: the number of the thread is not compared.
Gone_StateOnly == state[call[me].tgt] = "DORMANT"

\* The waiter's test for "by their exit I was resumed".
Gone == id[call[me].tgt] # call[me].gid \/ state[call[me].tgt] = "DORMANT"

\* Wrong: the code of the waiter is returned.
TimedResult_MyCode == IF Gone THEN rc[me] ELSE TIMEOUT

\* What mnthr_wait_for, mnthr_peek and mnthr_set_interrupt_and_join_with_timeout
\* return: me->co.rc is what sleepmsec returned.
TimedResult ==
    LET t == call[me].tgt IN
    CASE ~ Gone -> TIMEOUT
      [] Gone /\ call[me].op = "set_interrupt_and_join_with_timeout"
              /\ rc[t] = INTERRUPTED -> rc[me]
      [] OTHER -> rc[t]

TimedOps == {"wait_for", "peek", "set_interrupt_and_join_with_timeout"}

\* The target is gone.
TimedReturnGone ==
    /\ \E op \in TimedOps : Returning(op)
    /\ Gone
    /\ sq' = sleepq_remove(sq, me)
    /\ Returned
    /\ UNCHANGED <<runq, tmp, now, phase, me, ctl, covars, wqvars, owner, ctxvars,
                   slice, fault>>

\* assert(ctx->co.state & CO_STATE_RESUMABLE) fails.
AssertFails ==
    /\ fault' = "assert"
    /\ UNCHANGED <<sqvars, me, ctl, covars, wqvars, owner, ctxvars, call, slice>>

\* The target is still there: "it's timeout".
wait_for_timeout ==
    LET t == call[me].tgt IN
    /\ Returning("wait_for")
    /\ ~ Gone
    /\ IF state[t] \notin RESUMABLE THEN AssertFails
       ELSE /\ remove_me_from_waitq(t)
            /\ SetInterrupt(t, TIMEDOUT)
            /\ state' = [state EXCEPT ![t] = "SET_INTERRUPT"]
            /\ Returned
            /\ UNCHANGED <<me, ctl, id, prio, abac, owner, ctxvars, slice>>

peek_timeout ==
    /\ Returning("peek")
    /\ ~ Gone
    /\ IF state[call[me].tgt] \notin RESUMABLE THEN AssertFails
       ELSE /\ remove_me_from_waitq(call[me].tgt)
            /\ Returned
            /\ UNCHANGED <<sqvars, me, ctl, covars, owner, ctxvars, slice, fault>>

interrupt_and_join_timeout ==
    LET t == call[me].tgt IN
    /\ Returning("set_interrupt_and_join_with_timeout")
    /\ ~ Gone
    /\ IF state[t] \notin RESUMABLE THEN AssertFails
       ELSE /\ remove_me_from_waitq(t)
            /\ rc' = [rc EXCEPT ![t] = TIMEDOUT]
            /\ Returned
            /\ UNCHANGED <<sqvars, me, ctl, state, id, prio, abac, owner, ctxvars, slice, fault>>
-----------------------------------------------------------------------------
(***************************************************************************)
(* The event primitive.  It has room for one subscriber: the application   *)
(* subscribes when mnthr_signal_has_owner says no.                         *)
(***************************************************************************)

mnthr_signal_subscribe ==
    /\ Calling("subscribe")
    /\ owner = NULL
    /\ owner' = me
    /\ state' = [state EXCEPT ![me] = "SIGNAL_SUBSCRIBE"]
    /\ Block("subscribe", NULL, 0)
    /\ UNCHANGED <<sqvars, id, rc, prio, abac, wqvars, ctxvars, slice, fault>>

mnthr_signal_subscribe_with_timeout(d) ==
    /\ Calling("subscribe_with_timeout")
    /\ InHorizon(d)
    /\ owner = NULL
    /\ owner' = me
    /\ Enqueue(me, Deadline(d))
    /\ state' = [state EXCEPT ![me] = "SIGNAL_SUBSCRIBE"]
    /\ Block("subscribe_with_timeout", NULL, Deadline(d))
    /\ UNCHANGED <<id, rc, prio, abac, wqvars, ctxvars, slice>>

\* Both return co.rc, after a timeout too: the walk has set expire_ticks to
\* MNTHR_SLEEP_UNDEFINED for whomever it resumes, so the test for a timeout
\* always finds that there was none.
subscribe_return ==
    /\ Returning("subscribe") \/ Returning("subscribe_with_timeout")
    /\ owner' = NULL
    /\ Returned
    /\ UNCHANGED <<sqvars, me, ctl, covars, wqvars, ctxvars, slice, fault>>

\* The owner is waiting for the event.
Subscribed == owner # NULL /\ state[owner] = "SIGNAL_SUBSCRIBE"

mnthr_signal_send ==
    /\ Calling("signal_send")
    /\ Subscribed
    /\ set_resume(owner)
    /\ UNCHANGED <<me, ctl, id, rc, prio, abac, wqvars, owner, ctxvars, call, slice>>

mnthr_signal_error(v) ==
    /\ Calling("signal_error")
    /\ Subscribed
    /\ rc' = [rc EXCEPT ![owner] = v]
    /\ set_resume(owner)
    /\ UNCHANGED <<me, ctl, id, prio, abac, wqvars, owner, ctxvars, call, slice>>

mnthr_signal_error_and_join(v) ==
    /\ Calling("signal_error_and_join")
    /\ Subscribed
    /\ rc' = [rc EXCEPT ![owner] = v]
    /\ Enqueue(owner, RESUME_NOW)
    /\ state' = [state EXCEPT ![owner] = "SET_RESUME", ![me] = "JOIN_INTERRUPTED"]
    /\ append_me_to_waitq(owner)
    /\ SwitchToMain
    /\ UNCHANGED <<id, prio, abac, owner, ctxvars, call, slice>>
-----------------------------------------------------------------------------
(***************************************************************************)
(* The poller.                                                             *)
(***************************************************************************)

threadvars == <<covars, wqvars, owner, ctxvars, call>>

\* poller_resume
poller_resume(c) ==
    \/ /\ state[c] \in RESUMABLE
       /\ state' = [state EXCEPT ![c] = "RESUMED"]
       /\ me' = c
       /\ ctl' = "thread"
       /\ slice' = slice \cup {c}
       /\ call' = IF call[c].op \in {"none", "sleep"} THEN [call EXCEPT ![c] = NoCall] ELSE call
       /\ UNCHANGED <<id, rc, prio, abac, wqvars, owner, ctxvars, fault>>
    \/ /\ state[c] \notin RESUMABLE     \* "This is an error"
       /\ mnthr_ctx_finalize(c)
       /\ UNCHANGED <<me, ctl, rc, abac, waitq, hosting, owner, ctxes, freelist,
                      left, doomed, shutdown, co_id, last, slice, fault>>

\* Wrong: the flag is looked at when the loop starts, not in every round.
loop_prepare_Once(t) ==
    /\ MainRuns
    /\ phase = "loop" \/ shutdown = "no"
    /\ Prepare(t)
    /\ slice' = {}
    /\ UNCHANGED <<me, ctl, threadvars, fault>>

loop_prepare(t) ==
    /\ MainRuns
    /\ shutdown = "no"
    /\ Prepare(t)
    /\ slice' = {}
    /\ UNCHANGED <<me, ctl, threadvars, fault>>

\* ev_break, or the end of the kqueue loop: mnthr_loop returns.
loop_break ==
    /\ MainRuns
    /\ phase \in {"main", "loop"}
    /\ shutdown = "asked"
    /\ shutdown' = "done"
    /\ UNCHANGED <<sqvars, me, ctl, covars, wqvars, owner, ctxes, freelist, left, doomed,
                   co_id, last, dying, call, slice, fault>>

sift_collect(k) ==
    /\ MainRuns
    /\ Collect(k)
    /\ fault' = IF sq.trie[k] \in Elems(runq) THEN "list" ELSE fault
    /\ UNCHANGED <<me, ctl, threadvars, slice>>

sift_collected ==
    /\ MainRuns
    /\ CollectDone
    /\ UNCHANGED <<me, ctl, threadvars, slice, fault>>

sift_host ==
    /\ MainRuns
    /\ PopHost
    /\ poller_resume(Head(runq))

sift_bucket ==
    /\ MainRuns
    /\ PopBucket
    /\ poller_resume(Head(tmp))

sift_done ==
    /\ MainRuns
    /\ SiftDone
    /\ UNCHANGED <<me, ctl, threadvars, slice, fault>>
-----------------------------------------------------------------------------
\* Library calls after which the thread has switched, or will without a choice.
Switching ==
    \/ \E d \in Delays : mnthr_sleep(d)
    \/ mnthr_yield
    \/ mnthr_giveup
    \/ Exit
    \/ ExitEINTR
    \/ \E t \in Ctx : mnthr_join(t)
    \/ \E t \in Ctx : mnthr_set_interrupt_and_join(t)
    \/ \E t \in Ctx, d \in Delays : mnthr_set_interrupt_and_join_with_timeout(t, d)
    \/ \E c \in Ctx, d \in Delays : mnthr_wait_for(c, d)
    \/ \E t \in Ctx, d \in Delays : mnthr_peek(t, d)
    \/ mnthr_cond_wait
    \/ mnthr_signal_subscribe
    \/ \E d \in Delays : mnthr_signal_subscribe_with_timeout(d)
    \/ \E v \in Retvals : mnthr_signal_error_and_join(v)

\* Library calls the thread goes on after.
Continuing ==
    \/ \E c \in Ctx : mnthr_new(c) \/ mnthr_run(c) \/ mnthr_spawn(c)
    \/ mnthr_gc
    \/ \E c \in Ctx : mnthr_shutdown(c)
    \/ \E v \in Retvals : mnthr_set_retval(v)
    \/ \E c \in Ctx, flag \in BOOLEAN : mnthr_set_prio(c, flag)
    \/ \E c \in Ctx : mnthr_incabac(c) \/ mnthr_decabac(c)
    \/ mnthr_cond_signal_one
    \/ mnthr_cond_signal_all
    \/ \E t \in Ctx : mnthr_set_interrupt(t)
    \/ mnthr_signal_send
    \/ \E v \in Retvals : mnthr_signal_error(v)

\* The rest of a call that is under way.
Forced ==
    \/ resume_waitq_all
    \/ push_free_ctx
    \/ \E c \in Ctx : mnthr_ctx_fini(c)
    \/ TimedSleep
    \/ TimedReturnGone
    \/ wait_for_timeout
    \/ peek_timeout
    \/ interrupt_and_join_timeout
    \/ subscribe_return

Poller ==
    \/ \E t \in now..MaxNow : loop_prepare(t)
    \/ loop_break
    \/ \E k \in Key : sift_collect(k)
    \/ sift_collected
    \/ sift_host
    \/ sift_bucket
    \/ sift_done

Next == fault = "none" /\ (Switching \/ Continuing \/ Forced \/ Poller)

Spec == Init /\ [][Next]_vars
-----------------------------------------------------------------------------
(***************************************************************************)
(* Correctness.                                                            *)
(***************************************************************************)

\* A context is referenced by the sleep queue or by a walk over it.
InSleepq(c) == c \in Staged \/ \E k \in Key : c \in Elems(Line(k))

\* The wait queues and hosting_waitq say the same: a context is in a queue
\* exactly when hosting_waitq names it, and once.  append_me_to_waitq,
\* mnthr_ctx_finalize and the timed waits unlink through hosting_waitq or
\* through the queue, each trusting the other.
WaitqConsistent ==
    \A w \in WaitQ : /\ Distinct(waitq[w])
                     /\ \A c \in Ctx : c \in Elems(waitq[w]) <=> hosting[c] = w

\* No thread is forgotten.  Every thread that has switched away is scheduled, or
\* is the subscriber of the event, or stands in a wait queue that somebody will
\* still empty: that of the condition, of a live thread, or the one being drained.
NoLostThread ==
    \A c \in Ctx : state[c] \in RESUMABLE /\ ~ (c = me /\ ctl = "thread") =>
        \/ InSleepq(c)
        \/ owner = c
        \/ hosting[c] = Cond
        \/ hosting[c] \in Ctx /\ (id[hosting[c]] # NoId \/ drain = hosting[c])

\* The contexts of the chains mnthr_gc has left behind.
LeftBehind == UNION left

\* free_list holds exactly the allocated contexts that are no thread, each once (but
\* for those mnthr_gc has left behind or is freeing), and nothing refers to them:
\* not the sleep queue, not a walk, not a wait queue, not the event.  "The new
\* instance doesn't have to be freed ... It's internally reclaimed as soon as the
\* worker function returns."
FreeListExact ==
    /\ Distinct(freelist)
    /\ Elems(freelist) \cap LeftBehind = {}
    /\ Elems(freelist) \cup LeftBehind = {c \in Elems(ctxes) : id[c] = NoId} \ ({dying} \cup doomed)
    /\ \A c \in Elems(freelist) \cup LeftBehind :
          state[c] = "DORMANT" /\ ~ InSleepq(c) /\ hosting[c] = NULL /\ owner # c

\* The context poller_resume is about to be handed.
Handed(c) == /\ MainRuns /\ phase = "run"
             /\ \/ tmp # <<>> /\ c = Head(tmp)
                \/ tmp = <<>> /\ runq # <<>> /\ c = Head(runq)

\* poller_resume is handed resumable contexts only: "Can only be the result of
\* yield or start, ie, the state cannot be dormant or resumed."
ResumesResumable == \A c \in Ctx : Handed(c) => state[c] \in RESUMABLE

\* "Give a single slice to those threads that have their sleep time expired": no
\* walk resumes a thread twice, whatever the threads it runs schedule.
SingleSlice == \A c \in Ctx : Handed(c) => c \notin slice

\* A context that somebody holds (mnthr_incabac) is neither reused nor freed by
\* mnthr_gc after its thread has exited: its return code can be read until the
\* holder lets go.
HeldKeepsCode ==
    [][\A c \in Elems(ctxes) : id[c] = NoId /\ abac[c] > 0 =>
            c \in Elems(ctxes') /\ id'[c] = NoId /\ rc'[c] = rc[c]]_vars

\* The step resumes c.
Resumes(c) == ctl = "main" /\ ctl' = "thread" /\ me' = c

\* A sleeping thread is resumed after its time has passed, never before, unless
\* it was interrupted.
NoEarlyWake ==
    [][\A c \in Ctx : Resumes(c) /\ call[c].op = "sleep" =>
            call[c].until < now \/ state[c] = "SET_INTERRUPT"]_vars

\* What the library does with the sleep queue is what SleepQueue allows: above
\* all, nobody schedules a thread that is staged.
UsesSleepQueue == SQSpec

\* A timed wait for a thread reports MNTHR_WAIT_TIMEOUT exactly if that thread has not
\* been finalized, whoever has resumed the waiter and whatever has become of the context
\* since: freed, given to another thread, or scheduled twice because the thread exited
\* while the walk held the waiter already.  The code compares id and state only.
TimedWaitTellsTrue ==
    \A op \in TimedOps : Returning(op) /\ call[me].gid # NoId =>
        (TimedResult = TIMEOUT <=> call[me].exitrc = NoRc)

\* mnthr_wait_for and mnthr_peek "return either thread's return code (typically
\* >= 0), or MNTHR_WAIT_TIMEOUT": the code the target exited with, as long as its
\* context has not been given to another thread.
WaitReturnsCode ==
    /\ Returning("wait_for") \/ Returning("peek")
    /\ call[me].gid # NoId /\ last[call[me].tgt] = call[me].gid
    =>
        TimedResult \in {TIMEOUT, call[me].exitrc}
-----------------------------------------------------------------------------
(***************************************************************************)
(* Progress.  The poller and the calls under way go on; a thread makes a   *)
(* switching call eventually, which is what cooperative scheduling asks of *)
(* it; and the clock advances while the loop turns.                        *)
(***************************************************************************)
Fairness ==
    /\ WF_vars(fault = "none" /\ (Poller \/ Forced \/ Switching))
    /\ SF_vars(fault = "none" /\ \E t \in (now + 1)..MaxNow : loop_prepare(t))

FairSpec == Spec /\ Fairness

\* Every thread in the sleep queue with a time that comes is resumed, in
\* whatever bucket it stands and whoever leaves or enters that bucket with or
\* without priority in the meantime, unless the process is shut down.
ScheduledRuns ==
    \A c \in Ctx :
        (InSleepq(c) /\ sq.expire[c] # FOREVER) ~> state[c] = "RESUMED" \/ shutdown # "no"

\* Whoever joins a thread is resumed after that thread's exit.
ExitResumesJoiners ==
    \A c \in Ctx :
        (dying # NULL /\ hosting[c] = dying /\ c # dying)
            ~> state[c] = "RESUMED" \/ shutdown # "no"

\* mnthr_shutdown ends the loop: the walk that goes on comes to an end although
\* the threads it resumes schedule themselves and others, and no other follows.
ShutdownEnds == shutdown = "asked" ~> shutdown = "done"
=============================================================================
