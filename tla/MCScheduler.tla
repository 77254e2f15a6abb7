---- MODULE MCScheduler ----
EXTENDS Scheduler, TLC

Symmetry == Permutations(Ctx)
====
