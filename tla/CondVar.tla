------------------------------- MODULE CondVar -------------------------------
(***************************************************************************)
(* The condition variable of mnthr as the semaphores and the lock see it.  *)
(* A thread runs until it waits, so a library call is one step up to the   *)
(* switch in mnthr_cond_wait and one step after it.  Which scheduled       *)
(* thread goes on first is the scheduler's business (module Scheduler):    *)
(* here any may.                                                           *)
(*                                                                         *)
(* A wait ends when somebody signals, or when the thread is interrupted.   *)
(* An interrupted thread goes on while it still stands in the wait queue,  *)
(* and a signal may then be spent on it.                                   *)
(***************************************************************************)
EXTENDS DTQueue, Integers

CONSTANTS
    Thr,            \* the threads
    MayInterrupt,   \* waiting threads may be interrupted
    MayFini         \* the primitive may be destroyed while threads wait

ASSUME CondVarAssumption == MayInterrupt \in BOOLEAN /\ MayFini \in BOOLEAN

INTERRUPTED == -1   \* MNTHR_CO_RC_USER_INTERRUPTED

VARIABLES
    waitq,      \* cond->waitq
    pc,         \* a thread is outside of the primitive ("out"), has switched
                \* away in mnthr_cond_wait ("wait"), or is scheduled to go on
                \* from there ("ready")
    rc,         \* co.rc, what mnthr_cond_wait returns
    fault,      \* an assertion has failed
    intr        \* history: somebody was interrupted

cvvars == <<waitq, pc, rc, fault, intr>>

CVTypeOK ==
    /\ waitq \in Seq(Thr)
    /\ pc \in [Thr -> {"out", "wait", "ready"}]
    /\ rc \in [Thr -> {0, INTERRUPTED}]
    /\ fault \in BOOLEAN
    /\ intr \in BOOLEAN

CVInit ==
    /\ waitq = <<>>
    /\ pc = [t \in Thr |-> "out"]
    /\ rc = [t \in Thr |-> 0]
    /\ fault = FALSE
    /\ intr = FALSE

\* Wrong: a thread that is still linked is linked again.
mnthr_cond_wait_NoUnlink(t) ==
    /\ waitq' = DTQUEUE_ENQUEUE(waitq, t)
    /\ pc' = [pc EXCEPT ![t] = "wait"]
    /\ UNCHANGED <<rc, fault, intr>>

\* Wrong: last come, first woken.
mnthr_cond_wait_AtHead(t) ==
    /\ waitq' = DTQUEUE_INSERT_BEFORE_HEAD(DTQUEUE_REMOVE(waitq, t), t)
    /\ pc' = [pc EXCEPT ![t] = "wait"]
    /\ UNCHANGED <<rc, fault, intr>>

\* mnthr_cond_wait by thread t, up to the switch; append_me_to_waitq takes a
\* thread that is still linked off the queue first.
mnthr_cond_wait(t) ==
    /\ waitq' = DTQUEUE_ENQUEUE(DTQUEUE_REMOVE(waitq, t), t)
    /\ pc' = [pc EXCEPT ![t] = "wait"]
    /\ UNCHANGED <<rc, fault, intr>>

\* set_resume of the threads in S by thread t, who is in its slice: a thread
\* that is not waiting here is not affected, t itself fails an assertion.
set_resume(S, t) ==
    /\ pc' = [u \in Thr |-> IF u \in S /\ pc[u] = "wait" THEN "ready" ELSE pc[u]]
    /\ fault' = (fault \/ t \in S)
    /\ UNCHANGED <<rc, intr>>

mnthr_cond_signal_one(t) ==
    IF waitq = <<>> THEN UNCHANGED cvvars
    ELSE waitq' = Tail(waitq) /\ set_resume({Head(waitq)}, t)

mnthr_cond_signal_all(t) ==
    waitq' = <<>> /\ set_resume(Elems(waitq), t)

\* mnthr_set_interrupt of a thread, in the primitive or elsewhere.  It leaves
\* the wait queue alone.
mnthr_set_interrupt(t) ==
    /\ MayInterrupt
    /\ pc' = [pc EXCEPT ![t] = IF @ = "wait" THEN "ready" ELSE @]
    /\ rc' = [rc EXCEPT ![t] = INTERRUPTED]
    /\ intr' = TRUE
    /\ UNCHANGED <<waitq, fault>>

\* mnthr_set_retval(0): co.rc stays set until the thread clears it.
mnthr_set_retval(t) ==
    /\ pc[t] = "out"
    /\ rc[t] # 0
    /\ rc' = [rc EXCEPT ![t] = 0]
    /\ UNCHANGED <<waitq, pc, fault, intr>>

\* Thread t returns from mnthr_cond_wait with an error and hands it on.
WaitFailed(t) ==
    /\ pc[t] = "ready"
    /\ rc[t] # 0
    /\ pc' = [pc EXCEPT ![t] = "out"]
    /\ UNCHANGED <<waitq, rc, fault, intr>>

\* Thread t returns from mnthr_cond_wait and looks at its condition again.
WaitOver(t) == pc[t] = "ready" /\ rc[t] = 0

\* Thread t leaves the primitive.
Leave(t) == pc' = [pc EXCEPT ![t] = "out"] /\ UNCHANGED <<waitq, rc, fault, intr>>

\* An assertion of the call thread t makes fails.
Fail == fault' = TRUE /\ UNCHANGED <<waitq, pc, rc, intr>>
-----------------------------------------------------------------------------
\* A waiting thread can be found: it is in the wait queue, once, whatever
\* interrupts and signals came before.
WaitersQueued ==
    /\ Distinct(waitq)
    /\ \A t \in Thr : pc[t] = "wait" => t \in Elems(waitq)
=============================================================================
