--------------------------- MODULE MCKeventPoller ---------------------------
EXTENDS KeventPoller, TLC

CONSTANTS t1, t2, t3, f1, f2    \* threads and descriptors, to give each its users

UsersOf == (f1 :> {t1, t2}) @@ (f2 :> {t3})
=============================================================================
