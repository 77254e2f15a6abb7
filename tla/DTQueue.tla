------------------------------- MODULE DTQueue -------------------------------
(***************************************************************************)
(* The doubly-linked tail queue of mncommon (the DTQUEUE macros), an       *)
(* external library, as the code of this repository uses it: a queue of    *)
(* contexts is a sequence without repetitions.                             *)
(* An element may be on one queue per link field only; the modules that    *)
(* use a queue say what happens when the program breaks that rule.         *)
(***************************************************************************)
EXTENDS Naturals, Sequences

\* The elements linked in queue q.
Elems(q) == {q[i] : i \in 1..Len(q)}

\* No element is linked twice.
Distinct(q) == \A i, j \in 1..Len(q) : q[i] = q[j] => i = j

\* DTQUEUE_ENQUEUE: link e at the tail.
DTQUEUE_ENQUEUE(q, e) == Append(q, e)

\* DTQUEUE_INSERT_BEFORE with the head as the anchor: link e at the head.
DTQUEUE_INSERT_BEFORE_HEAD(q, e) == <<e>> \o q

\* DTQUEUE_REMOVE guarded by DTQUEUE_ORPHAN: unlink e, wherever it stands; an
\* element that is not linked is left alone.
DTQUEUE_REMOVE(q, e) ==
    IF e \notin Elems(q) THEN q
    ELSE LET i == CHOOSE j \in 1..Len(q) : q[j] = e
         IN  [j \in 1..(Len(q) - 1) |-> IF j < i THEN q[j] ELSE q[j + 1]]
=============================================================================
