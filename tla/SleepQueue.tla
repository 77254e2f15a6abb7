----------------------------- MODULE SleepQueue ------------------------------
(***************************************************************************)
(* the_sleepq: the ordered multimap from expiration time to threads that   *)
(* is the only run queue of the library, and the two-stage walk over it in *)
(* poller_sift_sleepq.                                                     *)
(*                                                                         *)
(* A trie node holds one context, the bucket host of its key; the other    *)
(* contexts of the key are linked in the host's own sleepq_bucket.  The    *)
(* walk first moves the expired hosts, buckets attached, to a local runq,  *)
(* then takes the hosts one by one: the bucket of the host in hand is      *)
(* moved to a local sleepq_bucket_tmp and its members follow the host.     *)
(* While the walk is on, threads run and schedule other threads.           *)
(***************************************************************************)
EXTENDS DTQueue, Integers

CONSTANTS
    Ctx,        \* the contexts (mnthr_ctx_t instances)
    NULL,       \* the null pointer
    StartNow,   \* timecounter_now when the program starts
    MaxNow,     \* bound: the clock stops here
    FOREVER     \* MNTHR_SLEEP_FOREVER, UINTMAX_MAX in the code

RESUME_NOW == 1     \* MNTHR_SLEEP_RESUME_NOW
UNDEFINED  == 0     \* MNTHR_SLEEP_UNDEFINED

ASSUME NullAssumption == NULL \notin Ctx
ASSUME TimeAssumption ==
    /\ StartNow \in Nat /\ MaxNow \in Nat /\ FOREVER \in Nat
    /\ RESUME_NOW < StartNow /\ StartNow <= MaxNow /\ MaxNow < FOREVER

Key == 1..FOREVER

VARIABLES
    sq,         \* the_sleepq with the fields of every ctx it uses
    runq,       \* poller_sift_sleepq: hosts taken off the trie
    tmp,        \* poller_sift_sleepq: sleepq_bucket_tmp
    now,        \* timecounter_now
    phase       \* where the main context is: before mnthr_loop, between two
                \* walks, in the first or in the second loop of a walk

sqvars == <<sq, runq, tmp, now, phase>>

SQ == [trie   : [Key -> Ctx \cup {NULL}],    \* trn->value by key
       bucket : [Ctx -> Seq(Ctx)],           \* ctx->sleepq_bucket
       expire : [Ctx -> 0..FOREVER]]         \* ctx->expire_ticks

SQTypeOK ==
    /\ sq \in SQ
    /\ runq \in Seq(Ctx)
    /\ tmp \in Seq(Ctx)
    /\ now \in Nat
    /\ phase \in {"main", "loop", "collect", "run"}
-----------------------------------------------------------------------------
(***************************************************************************)
(* The operations on the_sleepq.                                           *)
(***************************************************************************)

\* Three ways to get sleepq_remove wrong, for the runs that show the properties
\* can fail.  The new host stays linked in its bucket:
sleepq_remove_HostInBucket(q, c) ==
    LET k   == q.expire[c]
        sle == q.trie[k]
        bkt == q.bucket[sle]
    IN  IF k = UNDEFINED \/ sle = NULL THEN q
        ELSE IF sle # c THEN [q EXCEPT !.bucket[sle] = DTQUEUE_REMOVE(@, c)]
        ELSE IF bkt = <<>> THEN [q EXCEPT !.trie[k] = NULL]
        ELSE [q EXCEPT !.trie[k] = Head(bkt),
                       !.bucket = [@ EXCEPT ![Head(bkt)] = bkt, ![c] = <<>>]]

\* The bucket of a host that leaves is emptied:
sleepq_remove_BucketLost(q, c) ==
    LET k   == q.expire[c]
        sle == q.trie[k]
    IN  IF k = UNDEFINED \/ sle = NULL THEN q
        ELSE IF sle # c THEN [q EXCEPT !.bucket[sle] = DTQUEUE_REMOVE(@, c)]
        ELSE [q EXCEPT !.trie[k] = NULL, !.bucket[c] = <<>>]

sleepq_remove(q, c) ==
    LET k   == q.expire[c]
        sle == q.trie[k]
        bkt == q.bucket[sle]
    IN  IF k = UNDEFINED \/ sle = NULL THEN q
        ELSE IF sle # c THEN [q EXCEPT !.bucket[sle] = DTQUEUE_REMOVE(@, c)]
        ELSE IF bkt = <<>> THEN [q EXCEPT !.trie[k] = NULL]
        ELSE [q EXCEPT !.trie[k] = Head(bkt),
                       !.bucket = [@ EXCEPT ![Head(bkt)] = Tail(bkt),
                                            ![c] = <<>>]]

\* Wrong: a thread with priority takes the place of the host.
sleepq_insert_BecomesHost(q, c) ==
    LET k    == q.expire[c]
        host == q.trie[k]
    IN  IF host = NULL
        THEN [q EXCEPT !.trie[k] = c]
        ELSE [q EXCEPT !.trie[k] = c,
                       !.bucket = [@ EXCEPT ![c] = <<host>> \o q.bucket[host],
                                            ![host] = <<>>]]

sleepq_insert(q, c) ==
    LET k    == q.expire[c]
        host == q.trie[k]
    IN  IF host = NULL
        THEN [q EXCEPT !.trie[k] = c]
        ELSE [q EXCEPT !.bucket[host] = DTQUEUE_INSERT_BEFORE_HEAD(@, c)]

sleepq_append(q, c) ==
    LET k    == q.expire[c]
        host == q.trie[k]
    IN  IF host = NULL
        THEN [q EXCEPT !.trie[k] = c]
        ELSE [q EXCEPT !.bucket[host] = DTQUEUE_ENQUEUE(@, c)]

\* ctx->sleepq_enqueue: the operation mnthr_set_prio chose.
sleepq_enqueue(q, c, prio) ==
    IF prio THEN sleepq_insert(q, c) ELSE sleepq_append(q, c)

\* Wrong: expire_ticks is set before the old reference is dropped.
reschedule_SetFirst(q, c, k, prio) ==
    sleepq_enqueue(sleepq_remove([q EXCEPT !.expire[c] = k], c), c, prio)

\* What every caller does: drop the old reference, set expire_ticks, enqueue.
reschedule(q, c, k, prio) ==
    sleepq_enqueue([sleepq_remove(q, c) EXCEPT !.expire[c] = k], c, prio)
-----------------------------------------------------------------------------
(***************************************************************************)
(* The walk.                                                               *)
(***************************************************************************)

\* Contexts that left the trie and still wait for their slice.
Staged == Elems(tmp) \cup Elems(runq) \cup
          UNION {Elems(sq.bucket[runq[i]]) : i \in 1..Len(runq)}

\* BTRIE_MIN: the first used key of the trie.
IsMin(k) == /\ k \in Key
            /\ sq.trie[k] # NULL
            /\ \A j \in Key : sq.trie[j] # NULL => k <= j

\* Wrong: a thread is due at its time, not after it.
MinExpired_TooEarly(k) == IsMin(k) /\ sq.expire[sq.trie[k]] <= now

\* The first node of the trie is due.
MinExpired(k) == IsMin(k) /\ sq.expire[sq.trie[k]] < now

SQInit ==
    /\ sq = [trie   |-> [k \in Key |-> NULL],
             bucket |-> [c \in Ctx |-> <<>>],
             expire |-> [c \in Ctx |-> UNDEFINED]]
    /\ runq = <<>>
    /\ tmp = <<>>
    /\ now = StartNow
    /\ phase = "main"

\* sleepq_remove(c); c->expire_ticks = k; c->sleepq_enqueue(c)
Schedule(c, k, prio) ==
    /\ phase # "collect"
    /\ c \notin Staged
    /\ sq' = reschedule(sq, c, k, prio)
    /\ UNCHANGED <<runq, tmp, now, phase>>

\* sleepq_remove(c); c->expire_ticks = MNTHR_SLEEP_UNDEFINED
Unschedule(c) ==
    /\ phase # "collect"
    /\ c \notin Staged
    /\ sq' = [sleepq_remove(sq, c) EXCEPT !.expire[c] = UNDEFINED]
    /\ UNCHANGED <<runq, tmp, now, phase>>

\* The poller reads the clock and starts a walk.
Prepare(t) ==
    /\ phase \in {"main", "loop"}
    /\ now' = t
    /\ phase' = "collect"
    /\ UNCHANGED <<sq, runq, tmp>>

\* First loop of the walk: one due node, its bucket attached, goes to runq.
Collect(k) ==
    /\ phase = "collect"
    /\ MinExpired(k)
    /\ runq' = Append(runq, sq.trie[k])
    /\ sq' = [sq EXCEPT !.trie[k] = NULL]
    /\ UNCHANGED <<tmp, now, phase>>

CollectDone ==
    /\ phase = "collect"
    /\ ~ \E k \in Key : MinExpired(k)
    /\ phase' = "run"
    /\ UNCHANGED <<sq, runq, tmp, now>>

\* Wrong: the bucket is not carried over to sleepq_bucket_tmp.
PopHost_BucketDropped ==
    /\ phase = "run"
    /\ tmp = <<>>
    /\ runq # <<>>
    /\ runq' = Tail(runq)
    /\ sq' = [sq EXCEPT !.expire[Head(runq)] = UNDEFINED,
                        !.bucket[Head(runq)] = <<>>]
    /\ UNCHANGED <<tmp, now, phase>>

\* Second loop: the next host is handed to poller_resume.
PopHost ==
    /\ phase = "run"
    /\ tmp = <<>>
    /\ runq # <<>>
    /\ runq' = Tail(runq)
    /\ tmp' = sq.bucket[Head(runq)]
    /\ sq' = [sq EXCEPT !.expire[Head(runq)] = UNDEFINED,
                        !.bucket[Head(runq)] = <<>>]
    /\ UNCHANGED <<now, phase>>

\* Inner loop: the next member of the host's bucket is handed to poller_resume.
PopBucket ==
    /\ phase = "run"
    /\ tmp # <<>>
    /\ tmp' = Tail(tmp)
    /\ sq' = [sq EXCEPT !.expire[Head(tmp)] = UNDEFINED]
    /\ UNCHANGED <<runq, now, phase>>

\* Wrong: the walk starts over until nothing is due.
SiftDone_StartsOver ==
    /\ phase = "run"
    /\ runq = <<>>
    /\ tmp = <<>>
    /\ phase' = "collect"
    /\ UNCHANGED <<sq, runq, tmp, now>>

SiftDone ==
    /\ phase = "run"
    /\ runq = <<>>
    /\ tmp = <<>>
    /\ phase' = "loop"
    /\ UNCHANGED <<sq, runq, tmp, now>>

SQNext ==
    \/ \E c \in Ctx, k \in Key, prio \in BOOLEAN : Schedule(c, k, prio)
    \/ \E c \in Ctx : Unschedule(c)
    \/ \E t \in now..MaxNow : Prepare(t)
    \/ \E k \in Key : Collect(k)
    \/ CollectDone
    \/ PopHost
    \/ PopBucket
    \/ SiftDone

SQSpec == SQInit /\ [][SQNext]_sqvars
-----------------------------------------------------------------------------
(***************************************************************************)
(* What makes it correct.                                                  *)
(***************************************************************************)

\* The contexts of key k in the order the walk will serve them.
Line(k) == IF sq.trie[k] = NULL THEN <<>>
           ELSE <<sq.trie[k]>> \o sq.bucket[sq.trie[k]]

\* A context is a bucket host: in the trie or on runq.
Host(c) == c \in Elems(runq) \/ \E k \in Key : sq.trie[k] = c

\* Every reference agrees with expire_ticks: a context in the trie or in the
\* bucket of a trie host is found under its own expire_ticks (sleepq_remove and
\* the comment "ctx is either the sle itself, or it is in the
\* sle.sleepq_bucket" depend on it).
KeyIsExpire ==
    \A k \in Key : sq.trie[k] # NULL =>
        \A c \in Elems(Line(k)) : sq.expire[c] = k

\* A context stands in one place only: as a host, in one bucket, or in
\* sleepq_bucket_tmp, and never twice.  The DTQUEUE link of a context is single,
\* so any other state corrupts a list.
PlacedOnce ==
    /\ \A c \in Ctx : Distinct(sq.bucket[c])
    /\ \A c, d \in Ctx : \A x \in Elems(sq.bucket[c]) : x \in Elems(sq.bucket[d]) => c = d
    /\ \A c \in Ctx : Host(c) => /\ c \notin Elems(tmp)
                                 /\ \A d \in Ctx : c \notin Elems(sq.bucket[d])
    /\ \A c \in Elems(tmp) : \A d \in Ctx : c \notin Elems(sq.bucket[d])
    /\ \A c \in Elems(runq) : \A k \in Key : sq.trie[k] # c
    /\ Distinct(runq) /\ Distinct(tmp)

\* Only a host has a bucket: a context that becomes a host again starts with an
\* empty bucket, and no thread waits in the bucket of one that is not a host.
OnlyHostsHaveBuckets == \A c \in Ctx : sq.bucket[c] # <<>> => Host(c)

\* No scheduled context is lost: one with an expire_ticks is in its line or is
\* staged.
ExpireIsPlaced ==
    \A c \in Ctx : sq.expire[c] # UNDEFINED =>
        c \in Staged \/ c \in Elems(Line(sq.expire[c]))

\* The four parts together are inductive.
SQInv == /\ SQTypeOK
         /\ KeyIsExpire
         /\ PlacedOnce
         /\ OnlyHostsHaveBuckets
         /\ ExpireIsPlaced

\* The trie of bucket hosts is a multimap of first-come lines.
TM == INSTANCE TimerMap WITH
        line    <- [k \in Key |-> Line(k)],
        batches <- [i \in 1..Len(runq) |-> <<runq[i]>> \o sq.bucket[runq[i]]],
        current <- tmp

\* The sleep queue implements the multimap mnthr_private.h says it resembles.
IsTimerMap == TM!TMSpec
=============================================================================
