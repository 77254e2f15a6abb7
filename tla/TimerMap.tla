------------------------------ MODULE TimerMap -------------------------------
(***************************************************************************)
(* What the_sleepq promises, without hosts, buckets or expire_ticks: a     *)
(* multimap from expiration time to a first-come line of threads.  A       *)
(* thread stands in at most one line.  A walk takes whole lines, earliest  *)
(* key first, only those whose time has passed, and serves every thread    *)
(* of the lines it took exactly once, line by line and in line order.      *)
(* A thread with priority enters its line second.                          *)
(***************************************************************************)
EXTENDS DTQueue, Integers

CONSTANTS Ctx, StartNow, MaxNow, FOREVER

Key == 1..FOREVER

VARIABLES
    line,       \* line[k]: the threads that expire at k, in order
    batches,    \* lines taken by the walk and not yet started
    current,    \* what is left of the line being served
    now,
    phase

tmvars == <<line, batches, current, now, phase>>

\* Threads taken by the walk and still to be served.
Due == Elems(current) \cup UNION {Elems(batches[i]) : i \in 1..Len(batches)}

\* Leave whatever line c stands in.
Left(c) == [k \in Key |-> DTQUEUE_REMOVE(line[k], c)]

\* Enter line s last, or second when c has priority.
Entered(s, c, prio) ==
    IF prio /\ s # <<>> THEN <<Head(s)>> \o (<<c>> \o Tail(s)) ELSE Append(s, c)

TMInit ==
    /\ line = [k \in Key |-> <<>>]
    /\ batches = <<>>
    /\ current = <<>>
    /\ now = StartNow
    /\ phase = "main"

Put(c, k, prio) ==
    /\ phase # "collect"
    /\ c \notin Due
    /\ line' = [Left(c) EXCEPT ![k] = Entered(@, c, prio)]
    /\ UNCHANGED <<batches, current, now, phase>>

Cancel(c) ==
    /\ phase # "collect"
    /\ c \notin Due
    /\ line' = Left(c)
    /\ UNCHANGED <<batches, current, now, phase>>

Start(t) ==
    /\ phase \in {"main", "loop"}
    /\ now' = t
    /\ phase' = "collect"
    /\ UNCHANGED <<line, batches, current>>

\* The earliest line, when its time has passed.
First(k) == /\ line[k] # <<>>
            /\ k < now
            /\ \A j \in Key : line[j] # <<>> => k <= j

Take(k) ==
    /\ phase = "collect"
    /\ First(k)
    /\ batches' = Append(batches, line[k])
    /\ line' = [line EXCEPT ![k] = <<>>]
    /\ UNCHANGED <<current, now, phase>>

\* The walk does not start serving before it took every line that is due.
Taken ==
    /\ phase = "collect"
    /\ \A k \in Key : ~ First(k)
    /\ phase' = "run"
    /\ UNCHANGED <<line, batches, current, now>>

ServeFirst ==
    /\ phase = "run"
    /\ current = <<>>
    /\ batches # <<>>
    /\ current' = Tail(Head(batches))
    /\ batches' = Tail(batches)
    /\ UNCHANGED <<line, now, phase>>

ServeNext ==
    /\ phase = "run"
    /\ current # <<>>
    /\ current' = Tail(current)
    /\ UNCHANGED <<line, batches, now, phase>>

Finish ==
    /\ phase = "run"
    /\ batches = <<>>
    /\ current = <<>>
    /\ phase' = "loop"
    /\ UNCHANGED <<line, batches, current, now>>

TMNext ==
    \/ \E c \in Ctx, k \in Key, prio \in BOOLEAN : Put(c, k, prio)
    \/ \E c \in Ctx : Cancel(c)
    \/ \E t \in now..MaxNow : Start(t)
    \/ \E k \in Key : Take(k)
    \/ Taken
    \/ ServeFirst
    \/ ServeNext
    \/ Finish

TMSpec == TMInit /\ [][TMNext]_tmvars
=============================================================================
