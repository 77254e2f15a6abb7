----------------------------- MODULE MCEvPoller -----------------------------
EXTENDS EvPoller, TLC

CONSTANTS t1, t2, t3, e1, e2, s1    \* threads and items, to give each its users

\* Two threads for each descriptor, one for the path.
UsersOf == (e1 :> {t1, t2}) @@ (e2 :> {t2, t3}) @@ (s1 :> {t1})
=============================================================================
