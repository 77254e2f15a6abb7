---- MODULE MCSleepQueue ----
(* Four contexts: three share a line while the fourth enters or leaves it, and a
   walk can take two lines at once. *)
EXTENDS SleepQueue, TLC

Symmetry == Permutations(Ctx)
====
