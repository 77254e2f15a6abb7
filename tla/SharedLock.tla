----------------------------- MODULE SharedLock ------------------------------
(***************************************************************************)
(* What the semaphore and the reader-writer lock promise, without counts,  *)
(* queues, wakeups or interrupts: up to Limit threads share, or one thread *)
(* has all to itself.  A semaphore is only ever shared.                    *)
(***************************************************************************)
EXTENDS Integers, FiniteSets

CONSTANTS Thr, Limit

VARIABLES
    shared,     \* the threads that share
    exclusive   \* the threads that have all to themselves

slvars == <<shared, exclusive>>

SLInit == shared = {} /\ exclusive = {}

Share(t) ==
    /\ exclusive = {}
    /\ t \notin shared /\ Cardinality(shared) < Limit
    /\ shared' = shared \cup {t}
    /\ UNCHANGED exclusive

Unshare(t) ==
    /\ t \in shared
    /\ shared' = shared \ {t}
    /\ UNCHANGED exclusive

Exclude(t) ==
    /\ shared = {} /\ exclusive = {}
    /\ exclusive' = {t}
    /\ UNCHANGED shared

Admit(t) ==
    /\ t \in exclusive
    /\ exclusive' = exclusive \ {t}
    /\ UNCHANGED shared

SLNext == \E t \in Thr : Share(t) \/ Unshare(t) \/ Exclude(t) \/ Admit(t)

SLSpec == SLInit /\ [][SLNext]_slvars
=============================================================================
