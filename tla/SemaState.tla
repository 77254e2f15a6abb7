------------------------------ MODULE SemaState ------------------------------
(***************************************************************************)
(* The fields that mnthr_sema_t and mnthr_inverted_sema_t have in common.  *)
(***************************************************************************)
EXTENDS CondVar, FiniteSets

CONSTANT N      \* the n of mnthr_sema_init and mnthr_inverted_sema_init

ASSUME SemaAssumption == N \in Nat \ {0} /\ IsFiniteSet(Thr)

VARIABLES
    i,          \* sema->i
    n           \* sema->n

\* An application thread outside of the primitive calls it.  Nobody does after
\* the semaphore is destroyed.
Calls(t) == pc[t] = "out" /\ n # -1
=============================================================================
