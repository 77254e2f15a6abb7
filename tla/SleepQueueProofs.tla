-------------------------- MODULE SleepQueueProofs ---------------------------
(***************************************************************************)
(* The sleep queue keeps its invariant and implements the multimap of      *)
(* module TimerMap, for every set of contexts and every range of keys.     *)
(*                                                                         *)
(* The operations are two steps at a time (drop the old reference, then    *)
(* enqueue), so the invariant is restated as a predicate Good of the trie, *)
(* the buckets, the expire_ticks and the two local queues of the walk,     *)
(* which can be asserted of the value between the two steps.               *)
(***************************************************************************)
EXTENDS SleepQueue, DTQueueProofs

\* x is staged, with buckets B, runq rq and sleepq_bucket_tmp tp.
Stg(x, B, rq, tp) ==
    \/ x \in Elems(tp)
    \/ x \in Elems(rq)
    \/ \E h \in Elems(rq) : x \in Elems(B[h])

\* The contexts of key k, hosts T and buckets B.
Ln(T, B, k) == IF T[k] = NULL THEN <<>> ELSE <<T[k]>> \o B[T[k]]

Keyed(T, B, E) ==
    \A k \in Key : T[k] # NULL => /\ E[T[k]] = k
                                  /\ \A x \in Elems(B[T[k]]) : E[x] = k

Once(T, B, rq, tp) ==
    /\ \A d \in Ctx : Distinct(B[d])
    /\ \A c, d \in Ctx : \A x \in Elems(B[c]) : x \in Elems(B[d]) => c = d
    /\ \A k \in Key : T[k] # NULL => /\ T[k] \notin Elems(tp)
                                     /\ T[k] \notin Elems(rq)
                                     /\ \A d \in Ctx : T[k] \notin Elems(B[d])
    /\ \A x \in Elems(rq) : x \notin Elems(tp) /\ \A d \in Ctx : x \notin Elems(B[d])
    /\ \A x \in Elems(tp) : \A d \in Ctx : x \notin Elems(B[d])
    /\ Distinct(rq) /\ Distinct(tp)

Hosts(T, B, rq) ==
    \A d \in Ctx : B[d] # <<>> => d \in Elems(rq) \/ \E k \in Key : T[k] = d

Placed(T, B, E, rq, tp) ==
    \A c \in Ctx : E[c] # UNDEFINED =>
        \/ Stg(c, B, rq, tp)
        \/ T[E[c]] # NULL /\ (c = T[E[c]] \/ c \in Elems(B[T[E[c]]]))

Good(T, B, E, rq, tp) == /\ Keyed(T, B, E)
                         /\ Once(T, B, rq, tp)
                         /\ Hosts(T, B, rq)
                         /\ Placed(T, B, E, rq, tp)

\* The parts of the invariant, Staged and Line in these terms.
Restated ==
    /\ KeyIsExpire /\ PlacedOnce /\ OnlyHostsHaveBuckets /\ ExpireIsPlaced
         <=> Good(sq.trie, sq.bucket, sq.expire, runq, tmp)
    /\ \A x : x \in Staged <=> Stg(x, sq.bucket, runq, tmp)
    /\ \A k \in Key : Line(k) = Ln(sq.trie, sq.bucket, k)

\* Good restates the invariant.
LEMMA GoodIsInv == SQTypeOK => Restated
  <1> SUFFICES ASSUME SQTypeOK PROVE Restated
    OBVIOUS
  <1> DEFINE T == sq.trie
             B == sq.bucket
             E == sq.expire
  <1>0. /\ T \in [Key -> Ctx \cup {NULL}] /\ B \in [Ctx -> Seq(Ctx)]
        /\ E \in [Ctx -> 0..FOREVER] /\ runq \in Seq(Ctx) /\ tmp \in Seq(Ctx)
    BY DEF SQTypeOK, SQ
  <1>1. \A x : x \in Staged <=> Stg(x, B, runq, tmp)
    BY SMTT(30) DEF Staged, Stg, Elems
  <1>2. \A k \in Key : Line(k) = Ln(T, B, k)
    BY DEF Line, Ln
  <1>3. \A k \in Key : T[k] # NULL => Elems(Line(k)) = Elems(B[T[k]]) \cup {T[k]}
    <2> SUFFICES ASSUME NEW k \in Key, T[k] # NULL
                 PROVE  Elems(<<T[k]>> \o B[T[k]]) = Elems(B[T[k]]) \cup {T[k]}
      BY DEF Line
    <2> QED
      BY <1>0, InsertElems
  <1>4. \A k \in Key : T[k] = NULL => Elems(Line(k)) = {}
    BY DEF Line, Elems
  <1>5. KeyIsExpire <=> Keyed(T, B, E)
    BY <1>0, <1>3 DEF KeyIsExpire, Keyed
  <1>6. PlacedOnce <=> Once(T, B, runq, tmp)
    <2>1. /\ \A x \in Elems(runq) : x \in Ctx
          /\ \A k \in Key : T[k] # NULL => T[k] \in Ctx
          /\ \A c \in Ctx : c # NULL
      BY <1>0, NullAssumption DEF Elems
    <2>2. PlacedOnce => Once(T, B, runq, tmp)
      BY <2>1, Zenon DEF PlacedOnce, Once, Host
    <2>3. Once(T, B, runq, tmp) => PlacedOnce
      BY <2>1, Zenon DEF PlacedOnce, Once, Host
    <2> QED
      BY <2>2, <2>3
  <1>7. OnlyHostsHaveBuckets <=> Hosts(T, B, runq)
    BY <1>0 DEF OnlyHostsHaveBuckets, Hosts, Host
  <1>8. ExpireIsPlaced <=> Placed(T, B, E, runq, tmp)
    <2>1. \A c \in Ctx : E[c] # UNDEFINED => E[c] \in Key
      BY <1>0 DEF Key, UNDEFINED
    <2>2. \A c \in Ctx : E[c] # UNDEFINED =>
             (c \in Elems(Line(E[c])) <=>
                T[E[c]] # NULL /\ (c = T[E[c]] \/ c \in Elems(B[T[E[c]]])))
      BY <1>3, <1>4, <2>1
    <2> QED
      BY <1>1, <2>2, Zenon DEF ExpireIsPlaced, Placed
  <1> QED
    BY <1>1, <1>2, <1>5, <1>6, <1>7, <1>8 DEF Good, Restated

\* The same of the next state.
LEMMA GoodIsInvNext == SQTypeOK' => Restated'
  BY GoodIsInv, PTL
-----------------------------------------------------------------------------
(***************************************************************************)
(* Dropping the old reference.                                             *)
(***************************************************************************)

Typed(T, B, E) == /\ T \in [Key -> Ctx \cup {NULL}]
                  /\ B \in [Ctx -> Seq(Ctx)]
                  /\ E \in [Ctx -> 0..FOREVER]

\* c is in no node and in no bucket.
Absent(c, T, B) == /\ \A k \in Key : T[k] # c
                   /\ \A d \in Ctx : c \notin Elems(B[d])

\* The staged hosts keep their buckets.
Kept(B, B2, rq) == \A h \in Elems(rq) : B2[h] = B[h]

\* What has become of trie T and buckets B once c is dropped from them.
Dropped(c, T, B, T2, B2, E2, rq, tp) ==
    /\ Typed(T2, B2, E2)
    /\ Good(T2, B2, E2, rq, tp)
    /\ Absent(c, T2, B2)
    /\ E2[c] = UNDEFINED
    /\ Kept(B, B2, rq)
    /\ \A k \in Key : Ln(T2, B2, k) = DTQUEUE_REMOVE(Ln(T, B, k), c)

\* sleepq_remove finds no node for c.
NoNode(c, T, E) == E[c] = UNDEFINED \/ T[E[c]] = NULL

\* sleepq_remove finds host h at key l.
NodeOf(c, T, E, l, h) == E[c] = l /\ T[l] = h

\* A context that stands in some line has that line's key as expire_ticks.
LEMMA NotInOtherLines ==
    ASSUME NEW T, NEW B, NEW E, Typed(T, B, E), Keyed(T, B, E),
           NEW c \in Ctx, NEW k \in Key, E[c] # k
    PROVE  /\ T[k] # c
           /\ T[k] # NULL => c \notin Elems(B[T[k]])
           /\ DTQUEUE_REMOVE(Ln(T, B, k), c) = Ln(T, B, k)
  <1> USE DEF Typed
  <1>1. T[k] # c /\ (T[k] # NULL => c \notin Elems(B[T[k]]))
    BY NullAssumption DEF Keyed
  <1>2. c \notin Elems(Ln(T, B, k))
    <2>1. CASE T[k] = NULL
      BY <2>1 DEF Ln, Elems
    <2>2. CASE T[k] # NULL
      <3>1. Elems(<<T[k]>> \o B[T[k]]) = Elems(B[T[k]]) \cup {T[k]}
        BY <2>2, InsertElems
      <3> QED
        BY <3>1, <2>2, <1>1 DEF Ln
    <2> QED
      BY <2>1, <2>2
  <1> QED
    BY <1>1, <1>2 DEF DTQUEUE_REMOVE

\* c is not in the trie: nothing to do.
LEMMA DropAbsent ==
    ASSUME NEW T \in [Key -> Ctx \cup {NULL}], NEW B \in [Ctx -> Seq(Ctx)],
           NEW E \in [Ctx -> 0..FOREVER], NEW rq \in Seq(Ctx), NEW tp \in Seq(Ctx),
           Good(T, B, E, rq, tp), NEW c \in Ctx, ~ Stg(c, B, rq, tp),
           NoNode(c, T, E)
    PROVE  Dropped(c, T, B, T, B, [E EXCEPT ![c] = UNDEFINED], rq, tp)
  <1> DEFINE E2 == [E EXCEPT ![c] = UNDEFINED]
  <1>1. E2 \in [Ctx -> 0..FOREVER] /\ E2[c] = UNDEFINED
        /\ \A d \in Ctx : d # c => E2[d] = E[d]
    BY TimeAssumption DEF UNDEFINED
  <1> HIDE DEF E2
  <1>2. \A k \in Key : E[c] = k => T[k] = NULL
    BY DEF Key, UNDEFINED, NoNode
  <1>2k. Typed(T, B, E) /\ Keyed(T, B, E)
    BY DEF Good, Typed
  <1>2o. \A k \in Key : E[c] # k =>
           /\ T[k] # c
           /\ T[k] # NULL => c \notin Elems(B[T[k]])
           /\ DTQUEUE_REMOVE(Ln(T, B, k), c) = Ln(T, B, k)
    BY <1>2k, NotInOtherLines
  <1>3. \A k \in Key : T[k] # c /\ (T[k] # NULL => c \notin Elems(B[T[k]]))
    <2> SUFFICES ASSUME NEW k \in Key
                 PROVE  T[k] # c /\ (T[k] # NULL => c \notin Elems(B[T[k]]))
      OBVIOUS
    <2>1. CASE E[c] = k
      BY <2>1, <1>2, NullAssumption
    <2>2. CASE E[c] # k
      BY <2>2, <1>2o
    <2> QED
      BY <2>1, <2>2
  <1>4. \A d \in Ctx : c \notin Elems(B[d])
    <2> SUFFICES ASSUME NEW d \in Ctx, c \in Elems(B[d]) PROVE FALSE
      OBVIOUS
    <2>1. B[d] # <<>>
      BY DEF Elems
    <2>2. d \notin Elems(rq)
      BY DEF Stg
    <2>3. PICK k \in Key : T[k] = d
      BY <2>1, <2>2 DEF Good, Hosts
    <2> QED
      BY <2>3, <1>3, NullAssumption
  <1>5. \A k \in Key : DTQUEUE_REMOVE(Ln(T, B, k), c) = Ln(T, B, k)
    <2> SUFFICES ASSUME NEW k \in Key
                 PROVE  DTQUEUE_REMOVE(Ln(T, B, k), c) = Ln(T, B, k)
      OBVIOUS
    <2>1. CASE E[c] = k
      BY <2>1, <1>2 DEF Ln, DTQUEUE_REMOVE, Elems
    <2>2. CASE E[c] # k
      BY <2>2, <1>2o
    <2> QED
      BY <2>1, <2>2
  <1>6. Keyed(T, B, E2)
    <2> SUFFICES ASSUME NEW k \in Key, T[k] # NULL
                 PROVE  E2[T[k]] = k /\ \A x \in Elems(B[T[k]]) : E2[x] = k
      BY DEF Keyed
    <2>1. T[k] \in Ctx /\ \A x \in Elems(B[T[k]]) : x \in Ctx
      BY DEF Elems
    <2> QED
      BY <2>1, <1>1, <1>3 DEF Good, Keyed
  <1>7. Placed(T, B, E2, rq, tp)
    BY <1>1, Zenon DEF Good, Placed
  <1> QED
    BY <1>1, <1>3, <1>4, <1>5, <1>6, <1>7 DEF Good, Dropped, Typed, Absent, Kept, E2

\* c is in the bucket of another host.
LEMMA DropMember ==
    ASSUME NEW T \in [Key -> Ctx \cup {NULL}], NEW B \in [Ctx -> Seq(Ctx)],
           NEW E \in [Ctx -> 0..FOREVER], NEW rq \in Seq(Ctx), NEW tp \in Seq(Ctx),
           Good(T, B, E, rq, tp), NEW c \in Ctx, ~ Stg(c, B, rq, tp),
           NEW l \in Key, NEW h \in Ctx, NodeOf(c, T, E, l, h), h # c
    PROVE  Dropped(c, T, B, T, [B EXCEPT ![h] = DTQUEUE_REMOVE(@, c)],
                   [E EXCEPT ![c] = UNDEFINED], rq, tp)
  <1> DEFINE E2 == [E EXCEPT ![c] = UNDEFINED]
             B2 == [B EXCEPT ![h] = DTQUEUE_REMOVE(@, c)]
  <1>1. E2 \in [Ctx -> 0..FOREVER] /\ E2[c] = UNDEFINED
        /\ \A d \in Ctx : d # c => E2[d] = E[d]
    BY TimeAssumption DEF UNDEFINED
  <1>2. /\ DTQUEUE_REMOVE(B[h], c) \in Seq(Ctx)
        /\ Elems(DTQUEUE_REMOVE(B[h], c)) = Elems(B[h]) \ {c}
        /\ Distinct(DTQUEUE_REMOVE(B[h], c))
    BY RemoveElems DEF Good, Once
  <1>3. /\ B2 \in [Ctx -> Seq(Ctx)] /\ B2[h] = DTQUEUE_REMOVE(B[h], c)
        /\ \A d \in Ctx : d # h => B2[d] = B[d]
    BY <1>2
  <1> HIDE DEF E2, B2
  <1>4. T[l] # NULL
    BY NullAssumption DEF NodeOf
  <1>5. c \in Elems(B[h])
    <2>1. E[c] # UNDEFINED
      BY DEF Key, UNDEFINED, NodeOf
    <2> QED
      BY <1>4, <2>1, Zenon DEF Good, Placed, NodeOf
  <1>6. \A d \in Ctx : /\ Elems(B2[d]) = Elems(B[d]) \ {c}
                       /\ Distinct(B2[d])
                       /\ B2[d] # <<>> => B[d] # <<>>
    <2> SUFFICES ASSUME NEW d \in Ctx
                 PROVE  /\ Elems(B2[d]) = Elems(B[d]) \ {c}
                        /\ Distinct(B2[d])
                        /\ B2[d] # <<>> => B[d] # <<>>
      OBVIOUS
    <2>0. B[h] # <<>>
      BY <1>5 DEF Elems
    <2>1. CASE d = h
      BY <2>0, <2>1, <1>2, <1>3
    <2>2. CASE d # h
      <3>1. c \notin Elems(B[d])
        BY <2>2, <1>5 DEF Good, Once
      <3> QED
        BY <2>2, <3>1, <1>3 DEF Good, Once
    <2> QED
      BY <2>1, <2>2
  <1>7. \A k \in Key : T[k] # c
    <2> SUFFICES ASSUME NEW k \in Key, T[k] = c PROVE FALSE
      OBVIOUS
    <2>1. T[k] # NULL
      BY NullAssumption
    <2> QED
      BY <2>1, <1>5 DEF Good, Once
  <1>8. \A x \in Elems(rq) : B2[x] = B[x]
    <2>1. \A x \in Elems(rq) : x \in Ctx
      BY DEF Elems
    <2> QED
      BY <2>1, <1>3, <1>4 DEF Good, Once, NodeOf
  <1>9. Keyed(T, B2, E2)
    <2> SUFFICES ASSUME NEW k \in Key, T[k] # NULL
                 PROVE  E2[T[k]] = k /\ \A x \in Elems(B2[T[k]]) : E2[x] = k
      BY DEF Keyed
    <2>0. T[k] \in Ctx /\ T[k] # c
      BY <1>7
    <2>1. T[k] \in Ctx /\ T[k] # c /\ \A x \in Elems(B2[T[k]]) : x \in Ctx
      BY <2>0, <1>3, ElemsType
    <2>2. \A x \in Elems(B2[T[k]]) : x \in Elems(B[T[k]]) /\ x # c
      BY <2>1, <1>6
    <2> QED
      BY <2>1, <2>2, <1>1 DEF Good, Keyed
  <1>10. Once(T, B2, rq, tp)
    <2>1. \A d \in Ctx : \A x : x \in Elems(B2[d]) => x \in Elems(B[d])
      BY <1>6
    <2> QED
      BY <1>6, <2>1, Zenon DEF Good, Once
  <1>11. Hosts(T, B2, rq)
    BY <1>6, Zenon DEF Good, Hosts
  <1>12. Placed(T, B2, E2, rq, tp)
    <2> SUFFICES ASSUME NEW d \in Ctx, d # c, E[d] # UNDEFINED
                 PROVE  \/ Stg(d, B2, rq, tp)
                        \/ T[E[d]] # NULL /\ (d = T[E[d]] \/ d \in Elems(B2[T[E[d]]]))
      BY <1>1, Zenon DEF Placed
    <2>1. E[d] \in Key
      BY DEF Key, UNDEFINED
    <2>2. T[E[d]] # NULL => T[E[d]] \in Ctx
      BY <2>1
    <2>3. Stg(d, B, rq, tp) => Stg(d, B2, rq, tp)
      BY <1>8 DEF Stg
    <2> QED
      BY <2>1, <2>2, <2>3, <1>6 DEF Good, Placed
  <1>13. \A k \in Key : Ln(T, B2, k) = DTQUEUE_REMOVE(Ln(T, B, k), c)
    <2> SUFFICES ASSUME NEW k \in Key
                 PROVE  Ln(T, B2, k) = DTQUEUE_REMOVE(Ln(T, B, k), c)
      OBVIOUS
    <2>1. CASE k = l
      <3>0. Distinct(B[h]) /\ B[h] \in Seq(Ctx)
        BY DEF Good, Once
      <3>1. DTQUEUE_REMOVE(<<h>> \o B[h], c) = <<h>> \o DTQUEUE_REMOVE(B[h], c)
        BY <3>0, RemoveBehindHead
      <3> QED
        BY <2>1, <3>1, <1>3, <1>4 DEF Ln, NodeOf
    <2>2. CASE k # l
      <3>1. T[k] # NULL => T[k] \in Ctx /\ T[k] # h
        BY <2>2, <1>4 DEF Good, Keyed, NodeOf
      <3>2. Ln(T, B2, k) = Ln(T, B, k)
        BY <3>1, <1>3 DEF Ln
      <3>3. Typed(T, B, E) /\ Keyed(T, B, E)
        BY DEF Good, Typed
      <3>4. E[c] # k
        BY <2>2 DEF NodeOf
      <3>5. DTQUEUE_REMOVE(Ln(T, B, k), c) = Ln(T, B, k)
        BY <3>3, <3>4, NotInOtherLines
      <3> QED
        BY <3>2, <3>5
    <2> QED
      BY <2>1, <2>2
  <1> QED
    BY <1>1, <1>3, <1>6, <1>7, <1>8, <1>9, <1>10, <1>11, <1>12, <1>13
       DEF Good, Dropped, Typed, Absent, Kept, E2, B2

\* c is a host without a bucket.
LEMMA DropHostAlone ==
    ASSUME NEW T \in [Key -> Ctx \cup {NULL}], NEW B \in [Ctx -> Seq(Ctx)],
           NEW E \in [Ctx -> 0..FOREVER], NEW rq \in Seq(Ctx), NEW tp \in Seq(Ctx),
           Good(T, B, E, rq, tp), NEW c \in Ctx,
           NEW l \in Key, NodeOf(c, T, E, l, c), B[c] = <<>>
    PROVE  Dropped(c, T, B, [T EXCEPT ![l] = NULL], B,
                   [E EXCEPT ![c] = UNDEFINED], rq, tp)
  <1> DEFINE E2 == [E EXCEPT ![c] = UNDEFINED]
             T2 == [T EXCEPT ![l] = NULL]
  <1>1. E2 \in [Ctx -> 0..FOREVER] /\ E2[c] = UNDEFINED
        /\ \A d \in Ctx : d # c => E2[d] = E[d]
    BY TimeAssumption DEF UNDEFINED
  <1>2. /\ T2 \in [Key -> Ctx \cup {NULL}] /\ T2[l] = NULL
        /\ \A k \in Key : k # l => T2[k] = T[k]
    OBVIOUS
  <1> HIDE DEF E2, T2
  <1>3. T[l] = c /\ E[c] = l /\ T[l] # NULL
    BY NullAssumption DEF NodeOf
  <1>4. \A k \in Key : k # l => T[k] # c
    <2> SUFFICES ASSUME NEW k \in Key, k # l, T[k] = c PROVE FALSE
      OBVIOUS
    <2>1. T[k] # NULL
      BY NullAssumption
    <2> QED
      BY <2>1, <1>3 DEF Good, Keyed
  <1>5. Absent(c, T2, B)
    <2>1. \A k \in Key : T2[k] # c
      BY <1>2, <1>4, NullAssumption
    <2>2. \A d \in Ctx : c \notin Elems(B[d])
      BY <1>3 DEF Good, Once
    <2> QED
      BY <2>1, <2>2 DEF Absent
  <1>6. Keyed(T2, B, E2)
    <2> SUFFICES ASSUME NEW k \in Key, T2[k] # NULL
                 PROVE  E2[T2[k]] = k /\ \A x \in Elems(B[T2[k]]) : E2[x] = k
      BY DEF Keyed
    <2>1. T2[k] = T[k] /\ T2[k] \in Ctx /\ T2[k] # c
      BY <1>2, <1>4
    <2>2. \A x \in Elems(B[T2[k]]) : x \in Ctx /\ x # c
      BY <2>1, <1>5, ElemsType DEF Absent
    <2> QED
      BY <2>1, <2>2, <1>1 DEF Good, Keyed
  <1>7. Once(T2, B, rq, tp)
    <2>1. \A k \in Key : T2[k] # NULL => T2[k] = T[k]
      BY <1>2
    <2> QED
      BY <2>1 DEF Good, Once
  <1>8. Hosts(T2, B, rq)
    <2> SUFFICES ASSUME NEW d \in Ctx, B[d] # <<>>, d \notin Elems(rq)
                 PROVE  \E k \in Key : T2[k] = d
      BY DEF Hosts
    <2>1. PICK k \in Key : T[k] = d
      BY DEF Good, Hosts
    <2>2. k # l
      BY <2>1, <1>3
    <2> QED
      BY <2>1, <2>2, <1>2
  <1>9. Placed(T2, B, E2, rq, tp)
    <2> SUFFICES ASSUME NEW d \in Ctx, d # c, E[d] # UNDEFINED, ~ Stg(d, B, rq, tp)
                 PROVE  T2[E[d]] # NULL /\ (d = T2[E[d]] \/ d \in Elems(B[T2[E[d]]]))
      BY <1>1, Zenon DEF Placed
    <2>1. E[d] \in Key
      BY DEF Key, UNDEFINED
    <2>2. T[E[d]] # NULL /\ (d = T[E[d]] \/ d \in Elems(B[T[E[d]]]))
      BY Zenon DEF Good, Placed
    <2>3. E[d] # l
      BY <2>2, <1>3 DEF Elems
    <2> QED
      BY <2>1, <2>2, <2>3, <1>2
  <1>10. \A k \in Key : Ln(T2, B, k) = DTQUEUE_REMOVE(Ln(T, B, k), c)
    <2> SUFFICES ASSUME NEW k \in Key
                 PROVE  Ln(T2, B, k) = DTQUEUE_REMOVE(Ln(T, B, k), c)
      OBVIOUS
    <2>1. CASE k = l
      <3>1. Ln(T, B, k) = <<c>> \o <<>> /\ Ln(T2, B, k) = <<>>
        BY <2>1, <1>2, <1>3 DEF Ln
      <3>2. DTQUEUE_REMOVE(<<c>> \o <<>>, c) = <<>>
        <4>1. <<>> \in Seq(Ctx) /\ c \notin Elems(<<>>)
          BY DEF Elems
        <4> QED
          BY <4>1, RemoveHead
      <3> QED
        BY <3>1, <3>2
    <2>2. CASE k # l
      <3>1. Ln(T2, B, k) = Ln(T, B, k)
        BY <2>2, <1>2 DEF Ln
      <3>2. Typed(T, B, E) /\ Keyed(T, B, E)
        BY DEF Typed, Good
      <3>3. E[c] # k
        BY <2>2, <1>3
      <3>4. DTQUEUE_REMOVE(Ln(T, B, k), c) = Ln(T, B, k)
        BY <3>2, <3>3, NotInOtherLines
      <3> QED
        BY <3>1, <3>4
    <2> QED
      BY <2>1, <2>2
  <1> QED
    BY <1>1, <1>2, <1>5, <1>6, <1>7, <1>8, <1>9, <1>10
       DEF Good, Dropped, Typed, Kept, E2, T2

\* n takes over bucket q, c keeps none.
HandOver(B, n, c, q) == [B EXCEPT ![n] = q, ![c] = <<>>]

HandedOver(B2, B, n, c, q) ==
    /\ B2 \in [Ctx -> Seq(Ctx)]
    /\ B2[n] = q
    /\ B2[c] = <<>>
    /\ \A d \in Ctx : d # n /\ d # c => B2[d] = B[d]

\* The buckets after a hand-over.
LEMMA HandOverBuckets ==
    ASSUME NEW B \in [Ctx -> Seq(Ctx)], NEW n \in Ctx, NEW c \in Ctx, n # c,
           NEW q \in Seq(Ctx)
    PROVE  HandedOver(HandOver(B, n, c, q), B, n, c, q)
  <1> DEFINE A == [B EXCEPT ![n] = q]
  <1>1. A \in [Ctx -> Seq(Ctx)] /\ A[n] = q /\ \A d \in Ctx : d # n => A[d] = B[d]
    OBVIOUS
  <1>2. <<>> \in Seq(Ctx)
    OBVIOUS
  <1>3. HandOver(B, n, c, q) = [A EXCEPT ![c] = <<>>]
    BY DEF HandOver
  <1> HIDE DEF A
  <1>4. /\ [A EXCEPT ![c] = <<>>] \in [Ctx -> Seq(Ctx)]
        /\ [A EXCEPT ![c] = <<>>][c] = <<>>
        /\ \A d \in Ctx : d # c => [A EXCEPT ![c] = <<>>][d] = A[d]
    BY <1>1, <1>2
  <1> QED
    BY <1>1, <1>3, <1>4 DEF HandedOver

\* c is a host: the head of its bucket n takes over, with the rest.
LEMMA DropHost ==
    ASSUME NEW T \in [Key -> Ctx \cup {NULL}], NEW B \in [Ctx -> Seq(Ctx)],
           NEW E \in [Ctx -> 0..FOREVER], NEW rq \in Seq(Ctx), NEW tp \in Seq(Ctx),
           Good(T, B, E, rq, tp), NEW c \in Ctx,
           NEW l \in Key, NodeOf(c, T, E, l, c), B[c] # <<>>
    PROVE  Dropped(c, T, B, [T EXCEPT ![l] = Head(B[c])],
                   HandOver(B, Head(B[c]), c, Tail(B[c])),
                   [E EXCEPT ![c] = UNDEFINED], rq, tp)
  <1> DEFINE n  == Head(B[c])
             E2 == [E EXCEPT ![c] = UNDEFINED]
             T2 == [T EXCEPT ![l] = n]
             B2 == HandOver(B, n, c, Tail(B[c]))
  <1>1. E2 \in [Ctx -> 0..FOREVER] /\ E2[c] = UNDEFINED
        /\ \A d \in Ctx : d # c => E2[d] = E[d]
    BY TimeAssumption DEF UNDEFINED
  <1>2. Distinct(B[c]) /\ B[c] \in Seq(Ctx)
    BY DEF Good, Once
  <1>3. /\ n \in Ctx /\ n \in Elems(B[c])
        /\ Tail(B[c]) \in Seq(Ctx) /\ Distinct(Tail(B[c]))
        /\ Elems(Tail(B[c])) = Elems(B[c]) \ {n}
        /\ <<n>> \o Tail(B[c]) = B[c]
    BY <1>2, TailElems
  <1>4. T[l] = c /\ E[c] = l /\ T[l] # NULL
    BY NullAssumption DEF NodeOf
  <1>5. /\ \A d \in Ctx : c \notin Elems(B[d])
        /\ n # c /\ c \notin Elems(rq)
    BY <1>3, <1>4 DEF Good, Once
  <1>6. /\ T2 \in [Key -> Ctx \cup {NULL}] /\ T2[l] = n
        /\ \A k \in Key : k # l => T2[k] = T[k]
    BY <1>3
  <1>7. /\ B2 \in [Ctx -> Seq(Ctx)] /\ B2[n] = Tail(B[c]) /\ B2[c] = <<>>
        /\ \A d \in Ctx : d # n /\ d # c => B2[d] = B[d]
    <2> HIDE DEF n
    <2> DEFINE q == Tail(B[c])
    <2>1. n \in Ctx /\ n # c /\ q \in Seq(Ctx)
      BY <1>3, <1>5
    <2> HIDE DEF q
    <2>2. HandedOver(HandOver(B, n, c, q), B, n, c, q)
      BY <2>1, HandOverBuckets
    <2> QED
      BY <2>2 DEF q, HandedOver
  <1> HIDE DEF E2, T2, B2, n
  <1>8. n \notin Elems(rq) /\ n \notin Elems(tp) /\ \A k \in Key : T[k] # n
    <2>1. n # NULL
      BY <1>3, NullAssumption
    <2>2. n \notin Elems(rq) /\ n \notin Elems(tp)
      BY <1>3 DEF Good, Once
    <2>3. ASSUME NEW k \in Key, T[k] = n PROVE FALSE
      <3>1. T[k] # NULL
        BY <2>1, <2>3
      <3> QED
        BY <3>1, <2>3, <1>3 DEF Good, Once
    <2> QED
      BY <2>2, <2>3
  <1>9. B[n] = <<>>
    BY <1>3, <1>8 DEF Good, Hosts
  <1>10. \A k \in Key : k # l => T[k] # c
    <2> SUFFICES ASSUME NEW k \in Key, k # l, T[k] = c PROVE FALSE
      OBVIOUS
    <2>1. T[k] # NULL
      BY NullAssumption
    <2> QED
      BY <2>1, <1>4 DEF Good, Keyed
  <1>11. /\ Elems(B2[n]) = Elems(B[c]) \ {n}
         /\ Elems(B2[c]) = {}
         /\ \A d \in Ctx : Distinct(B2[d])
    <2>1. Elems(B2[c]) = {} /\ Distinct(B2[c])
      BY <1>7 DEF Elems, Distinct
    <2>2. \A d \in Ctx : d # n /\ d # c => Distinct(B2[d])
      BY <1>7 DEF Good, Once
    <2> QED
      BY <2>1, <2>2, <1>3, <1>7
  \* Every member of a new bucket comes from one old bucket.
  <1>12. \A d \in Ctx : \A x \in Elems(B2[d]) :
            /\ x # c /\ x # n /\ x \in Ctx
            /\ \/ d = n /\ x \in Elems(B[c])
               \/ d # n /\ d # c /\ x \in Elems(B[d])
    <2> SUFFICES ASSUME NEW d \in Ctx, NEW x \in Elems(B2[d])
                 PROVE  /\ x # c /\ x # n /\ x \in Ctx
                        /\ \/ d = n /\ x \in Elems(B[c])
                           \/ d # n /\ d # c /\ x \in Elems(B[d])
      OBVIOUS
    <2>0. x \in Ctx
      <3>1. B2[d] \in Seq(Ctx)
        BY <1>7
      <3> QED
        BY <3>1, ElemsType, Zenon
    <2>1. CASE d = n
      BY <2>0, <2>1, <1>5, <1>11
    <2>2. CASE d = c
      BY <2>2, <1>11
    <2>3. CASE d # n /\ d # c
      <3>1. B2[d] = B[d]
        BY <2>3, <1>7
      <3>2. x # n
        BY <2>3, <3>1, <1>3 DEF Good, Once
      <3> QED
        BY <2>0, <2>3, <3>1, <3>2, <1>5
    <2> QED
      BY <2>1, <2>2, <2>3
  <1>13. Absent(c, T2, B2)
    <2>1. \A k \in Key : T2[k] # c
      BY <1>5, <1>6, <1>10
    <2> QED
      BY <2>1, <1>12 DEF Absent
  <1>14. Kept(B, B2, rq)
    <2>1. \A x \in Elems(rq) : x \in Ctx
      BY DEF Elems
    <2> QED
      BY <2>1, <1>5, <1>7, <1>8 DEF Kept
  <1>15. Keyed(T2, B2, E2)
    <2> SUFFICES ASSUME NEW k \in Key, T2[k] # NULL
                 PROVE  E2[T2[k]] = k /\ \A x \in Elems(B2[T2[k]]) : E2[x] = k
      BY DEF Keyed
    <2>1. CASE k = l
      <3>1. T2[k] = n /\ n # c /\ n \in Ctx
        BY <2>1, <1>3, <1>5, <1>6
      <3>2. \A x \in Elems(B[c]) : E[x] = l
        BY <1>4 DEF Good, Keyed
      <3> QED
        BY <2>1, <3>1, <3>2, <1>1, <1>3, <1>12
    <2>2. CASE k # l
      <3>1. T2[k] = T[k] /\ T[k] # c /\ T[k] # n /\ T[k] \in Ctx /\ T[k] # NULL
        BY <2>2, <1>6, <1>8, <1>10
      <3>2. \A x \in Elems(B2[T[k]]) : x \in Elems(B[T[k]]) /\ x # c /\ x \in Ctx
        BY <3>1, <1>12
      <3>3. E[T[k]] = k /\ \A x \in Elems(B[T[k]]) : E[x] = k
        BY <3>1 DEF Good, Keyed
      <3> QED
        BY <3>1, <3>2, <3>3, <1>1
    <2> QED
      BY <2>1, <2>2
  <1>16. Once(T2, B2, rq, tp)
    <2>1. \A d, e \in Ctx : \A x \in Elems(B2[d]) : x \in Elems(B2[e]) => d = e
      BY <1>12 DEF Good, Once
    <2>2. \A x : (\A d \in Ctx : x \notin Elems(B[d])) =>
                 \A d \in Ctx : x \notin Elems(B2[d])
      BY <1>12, Zenon
    <2>3. \A k \in Key : T2[k] # NULL =>
            /\ T2[k] \notin Elems(tp) /\ T2[k] \notin Elems(rq)
            /\ \A d \in Ctx : T2[k] \notin Elems(B2[d])
      <3> SUFFICES ASSUME NEW k \in Key, T2[k] # NULL
                   PROVE  /\ T2[k] \notin Elems(tp) /\ T2[k] \notin Elems(rq)
                          /\ \A d \in Ctx : T2[k] \notin Elems(B2[d])
        OBVIOUS
      <3>1. CASE k = l
        BY <3>1, <1>6, <1>8, <1>12
      <3>2. CASE k # l
        <4>1. T2[k] = T[k] /\ T[k] # NULL
          BY <3>2, <1>6
        <4>2. /\ T[k] \notin Elems(tp) /\ T[k] \notin Elems(rq)
              /\ \A d \in Ctx : T[k] \notin Elems(B[d])
          BY <4>1 DEF Good, Once
        <4> QED
          BY <4>1, <4>2, <2>2
      <3> QED
        BY <3>1, <3>2
    <2>4. /\ \A x \in Elems(rq) : x \notin Elems(tp) /\ \A d \in Ctx : x \notin Elems(B[d])
          /\ \A x \in Elems(tp) : \A d \in Ctx : x \notin Elems(B[d])
          /\ Distinct(rq) /\ Distinct(tp)
      BY DEF Good, Once
    <2> QED
      BY <1>11, <2>1, <2>2, <2>3, <2>4, Zenon DEF Once
  <1>17. Hosts(T2, B2, rq)
    <2> SUFFICES ASSUME NEW d \in Ctx, B2[d] # <<>>, d \notin Elems(rq)
                 PROVE  \E k \in Key : T2[k] = d
      BY DEF Hosts
    <2>1. CASE d = n
      BY <2>1, <1>6
    <2>2. CASE d # n
      <3>1. d # c /\ B[d] # <<>>
        BY <2>2, <1>7
      <3>2. PICK k \in Key : T[k] = d
        BY <3>1 DEF Good, Hosts
      <3> QED
        BY <3>1, <3>2, <1>4, <1>6
    <2> QED
      BY <2>1, <2>2
  <1>18. Placed(T2, B2, E2, rq, tp)
    <2> SUFFICES ASSUME NEW d \in Ctx, d # c, E[d] # UNDEFINED, ~ Stg(d, B2, rq, tp)
                 PROVE  T2[E[d]] # NULL /\ (d = T2[E[d]] \/ d \in Elems(B2[T2[E[d]]]))
      BY <1>1, Zenon DEF Placed
    <2>0. ~ Stg(d, B, rq, tp)
      BY <1>14 DEF Stg, Kept
    <2>1. E[d] \in Key
      BY DEF Key, UNDEFINED
    <2>2. T[E[d]] # NULL /\ (d = T[E[d]] \/ d \in Elems(B[T[E[d]]]))
      BY <2>0, Zenon DEF Good, Placed
    <2>3. CASE E[d] = l
      <3>1. d \in Elems(B[c])
        BY <2>2, <2>3, <1>4
      <3> QED
        BY <3>1, <2>3, <1>3, <1>6, <1>11, NullAssumption
    <2>4. CASE E[d] # l
      <3>1. T2[E[d]] = T[E[d]] /\ T[E[d]] # c /\ T[E[d]] # n /\ T[E[d]] \in Ctx
        BY <2>1, <2>2, <2>4, <1>6, <1>8, <1>10
      <3> QED
        BY <2>2, <3>1, <1>7
    <2> QED
      BY <2>3, <2>4
  <1>19. \A k \in Key : Ln(T2, B2, k) = DTQUEUE_REMOVE(Ln(T, B, k), c)
    <2> SUFFICES ASSUME NEW k \in Key
                 PROVE  Ln(T2, B2, k) = DTQUEUE_REMOVE(Ln(T, B, k), c)
      OBVIOUS
    <2>1. CASE k = l
      <3>1. Ln(T, B, k) = <<c>> \o B[c]
        BY <2>1, <1>4 DEF Ln
      <3>2. Ln(T2, B2, k) = B[c]
        <4>1. T2[k] = n /\ n # NULL /\ B2[n] = Tail(B[c])
          BY <2>1, <1>3, <1>6, <1>7, NullAssumption
        <4> QED
          BY <4>1, <1>3 DEF Ln
      <3>3. DTQUEUE_REMOVE(<<c>> \o B[c], c) = B[c]
        BY <1>2, <1>5, RemoveHead
      <3> QED
        BY <3>1, <3>2, <3>3
    <2>2. CASE k # l
      <3>1. Ln(T2, B2, k) = Ln(T, B, k)
        <4>1. T2[k] = T[k] /\ T[k] # c /\ T[k] # n
          BY <2>2, <1>6, <1>8, <1>10
        <4>2. T[k] # NULL => B2[T[k]] = B[T[k]]
          BY <4>1, <1>7
        <4> QED
          BY <4>1, <4>2 DEF Ln
      <3>2. Typed(T, B, E) /\ Keyed(T, B, E)
        BY DEF Typed, Good
      <3>3. E[c] # k
        BY <2>2, <1>4
      <3>4. DTQUEUE_REMOVE(Ln(T, B, k), c) = Ln(T, B, k)
        BY <3>2, <3>3, NotInOtherLines
      <3> QED
        BY <3>1, <3>4
    <2> QED
      BY <2>1, <2>2
  <1> QED
    BY <1>1, <1>6, <1>7, <1>13, <1>14, <1>15, <1>16, <1>17, <1>18, <1>19
       DEF Good, Dropped, Typed, E2, T2, B2, n
-----------------------------------------------------------------------------
(***************************************************************************)
(* Enqueueing a context that stands nowhere.                               *)
(***************************************************************************)

\* c can be enqueued: it is in no node, no bucket and no local queue.
Free(c, T, B, E, rq, tp) == /\ Absent(c, T, B)
                            /\ E[c] = UNDEFINED
                            /\ ~ Stg(c, B, rq, tp)

\* What has become of T and B once c has entered line k, which is now s.
Joined(c, k, s, T, B, T2, B2, E2, rq, tp) ==
    /\ Typed(T2, B2, E2)
    /\ Good(T2, B2, E2, rq, tp)
    /\ Kept(B, B2, rq)
    /\ Ln(T2, B2, k) = s
    /\ \A j \in Key : j # k => Ln(T2, B2, j) = Ln(T, B, j)

\* The key has no node: c becomes its host.
LEMMA JoinAsHost ==
    ASSUME NEW T \in [Key -> Ctx \cup {NULL}], NEW B \in [Ctx -> Seq(Ctx)],
           NEW E \in [Ctx -> 0..FOREVER], NEW rq \in Seq(Ctx), NEW tp \in Seq(Ctx),
           Good(T, B, E, rq, tp), NEW c \in Ctx, Free(c, T, B, E, rq, tp),
           NEW l \in Key, T[l] = NULL
    PROVE  Joined(c, l, <<c>>, T, B, [T EXCEPT ![l] = c], B,
                  [E EXCEPT ![c] = l], rq, tp)
  <1> DEFINE E2 == [E EXCEPT ![c] = l]
             T2 == [T EXCEPT ![l] = c]
  <1>1. E2 \in [Ctx -> 0..FOREVER] /\ E2[c] = l
        /\ \A d \in Ctx : d # c => E2[d] = E[d]
    BY DEF Key
  <1>2. /\ T2 \in [Key -> Ctx \cup {NULL}] /\ T2[l] = c
        /\ \A k \in Key : k # l => T2[k] = T[k]
    OBVIOUS
  <1> HIDE DEF E2, T2
  <1>3. /\ \A k \in Key : T[k] # c
        /\ \A d \in Ctx : c \notin Elems(B[d])
        /\ c \notin Elems(rq) /\ c \notin Elems(tp)
    BY DEF Free, Absent, Stg
  <1>4. B[c] = <<>>
    BY <1>3 DEF Good, Hosts
  <1>5. Keyed(T2, B, E2)
    <2> SUFFICES ASSUME NEW k \in Key, T2[k] # NULL
                 PROVE  E2[T2[k]] = k /\ \A x \in Elems(B[T2[k]]) : E2[x] = k
      BY DEF Keyed
    <2>1. CASE k = l
      <3>1. Elems(B[c]) = {}
        BY <1>4 DEF Elems
      <3> QED
        BY <2>1, <3>1, <1>1, <1>2
    <2>2. CASE k # l
      <3>1. T2[k] = T[k] /\ T[k] # NULL /\ T[k] \in Ctx /\ T[k] # c
        BY <2>2, <1>2, <1>3
      <3>2. \A x \in Elems(B[T[k]]) : x \in Ctx /\ x # c
        BY <3>1, <1>3 DEF Elems
      <3>3. E[T[k]] = k /\ \A x \in Elems(B[T[k]]) : E[x] = k
        BY <3>1 DEF Good, Keyed
      <3> QED
        BY <3>1, <3>2, <3>3, <1>1
    <2> QED
      BY <2>1, <2>2
  <1>6. Once(T2, B, rq, tp)
    <2>1. \A k \in Key : T2[k] = c \/ T2[k] = T[k]
      BY <1>2
    <2>2. \A k \in Key : T2[k] # NULL =>
            /\ T2[k] \notin Elems(tp) /\ T2[k] \notin Elems(rq)
            /\ \A d \in Ctx : T2[k] \notin Elems(B[d])
      BY <2>1, <1>3 DEF Good, Once
    <2> QED
      BY <2>2 DEF Good, Once
  <1>7. Hosts(T2, B, rq)
    <2> SUFFICES ASSUME NEW d \in Ctx, B[d] # <<>>, d \notin Elems(rq)
                 PROVE  \E k \in Key : T2[k] = d
      BY DEF Hosts
    <2>1. PICK k \in Key : T[k] = d
      BY DEF Good, Hosts
    <2>2. k # l
      BY <2>1, NullAssumption
    <2> QED
      BY <2>1, <2>2, <1>2
  <1>8. Placed(T2, B, E2, rq, tp)
    <2> SUFFICES ASSUME NEW d \in Ctx, E2[d] # UNDEFINED, ~ Stg(d, B, rq, tp)
                 PROVE  T2[E2[d]] # NULL /\ (d = T2[E2[d]] \/ d \in Elems(B[T2[E2[d]]]))
      BY Zenon DEF Placed
    <2>1. CASE d = c
      BY <2>1, <1>1, <1>2, NullAssumption
    <2>2. CASE d # c
      <3>1. E2[d] = E[d] /\ E[d] # UNDEFINED /\ E[d] \in Key
        BY <2>2, <1>1 DEF Key, UNDEFINED
      <3>2. T[E[d]] # NULL /\ (d = T[E[d]] \/ d \in Elems(B[T[E[d]]]))
        BY <3>1, Zenon DEF Good, Placed
      <3>3. T2[E[d]] = T[E[d]]
        BY <3>1, <3>2, <1>2
      <3> QED
        BY <3>1, <3>2, <3>3
    <2> QED
      BY <2>1, <2>2
  <1>9. Ln(T2, B, l) = <<c>>
    <2>1. c # NULL /\ <<c>> \o <<>> = <<c>>
      BY NullAssumption
    <2> QED
      BY <2>1, <1>2, <1>4 DEF Ln
  <1>10. \A j \in Key : j # l => Ln(T2, B, j) = Ln(T, B, j)
    BY <1>2 DEF Ln
  <1> QED
    BY <1>1, <1>2, <1>5, <1>6, <1>7, <1>8, <1>9, <1>10
       DEF Joined, Good, Typed, Kept, E2, T2

\* The key has host h: c enters its bucket, which becomes q.
LEMMA JoinBucket ==
    ASSUME NEW T \in [Key -> Ctx \cup {NULL}], NEW B \in [Ctx -> Seq(Ctx)],
           NEW E \in [Ctx -> 0..FOREVER], NEW rq \in Seq(Ctx), NEW tp \in Seq(Ctx),
           Good(T, B, E, rq, tp), NEW c \in Ctx, Free(c, T, B, E, rq, tp),
           NEW l \in Key, NEW h \in Ctx, T[l] = h,
           NEW q \in Seq(Ctx), Distinct(q), Elems(q) = Elems(B[h]) \cup {c}
    PROVE  Joined(c, l, <<h>> \o q, T, B, T, [B EXCEPT ![h] = q],
                  [E EXCEPT ![c] = l], rq, tp)
  <1> DEFINE E2 == [E EXCEPT ![c] = l]
             B2 == [B EXCEPT ![h] = q]
  <1>1. E2 \in [Ctx -> 0..FOREVER] /\ E2[c] = l
        /\ \A d \in Ctx : d # c => E2[d] = E[d]
    BY DEF Key
  <1>2. /\ B2 \in [Ctx -> Seq(Ctx)] /\ B2[h] = q
        /\ \A d \in Ctx : d # h => B2[d] = B[d]
    OBVIOUS
  <1> HIDE DEF E2, B2
  <1>3. /\ \A k \in Key : T[k] # c
        /\ \A d \in Ctx : c \notin Elems(B[d])
        /\ c \notin Elems(rq) /\ c \notin Elems(tp)
    BY DEF Free, Absent, Stg
  <1>4. T[l] # NULL /\ h \notin Elems(rq)
    BY NullAssumption DEF Good, Once
  <1>5. \A k \in Key : k # l => T[k] # h
    <2> SUFFICES ASSUME NEW k \in Key, k # l, T[k] = h PROVE FALSE
      OBVIOUS
    <2>1. E[T[l]] = l /\ E[T[k]] = k
      BY <1>4 DEF Good, Keyed
    <2> QED
      BY <2>1
  <1>6. \A d \in Ctx : \A x \in Elems(B2[d]) :
           \/ x = c /\ d = h
           \/ x # c /\ x \in Elems(B[d])
    <2> SUFFICES ASSUME NEW d \in Ctx, NEW x \in Elems(B2[d])
                 PROVE  \/ x = c /\ d = h
                        \/ x # c /\ x \in Elems(B[d])
      OBVIOUS
    <2>1. CASE d = h
      BY <2>1, <1>2, <1>3
    <2>2. CASE d # h
      BY <2>2, <1>2, <1>3
    <2> QED
      BY <2>1, <2>2
  <1>7. Kept(B, B2, rq)
    <2>1. \A x \in Elems(rq) : x \in Ctx /\ x # h
      BY <1>4 DEF Elems
    <2> QED
      BY <2>1, <1>2 DEF Kept
  <1>8. Keyed(T, B2, E2)
    <2> SUFFICES ASSUME NEW k \in Key, T[k] # NULL
                 PROVE  E2[T[k]] = k /\ \A x \in Elems(B2[T[k]]) : E2[x] = k
      BY DEF Keyed
    <2>1. T[k] \in Ctx /\ T[k] # c /\ B2[T[k]] \in Seq(Ctx)
      BY <1>2, <1>3
    <2>2. \A x \in Elems(B2[T[k]]) : x \in Ctx
      BY <2>1, ElemsType, Zenon
    <2>3. E[T[k]] = k /\ \A x \in Elems(B[T[k]]) : E[x] = k
      BY DEF Good, Keyed
    <2>4. T[k] = h => k = l
      BY <1>5
    <2> QED
      BY <2>1, <2>2, <2>3, <2>4, <1>1, <1>6
  <1>9. Once(T, B2, rq, tp)
    <2>1. \A d, e \in Ctx : \A x \in Elems(B2[d]) : x \in Elems(B2[e]) => d = e
      <3> SUFFICES ASSUME NEW d \in Ctx, NEW e \in Ctx,
                          NEW x \in Elems(B2[d]), x \in Elems(B2[e])
                   PROVE  d = e
        OBVIOUS
      <3>1. /\ (x = c /\ d = h) \/ (x # c /\ x \in Elems(B[d]))
            /\ (x = c /\ e = h) \/ (x # c /\ x \in Elems(B[e]))
        BY <1>6, Zenon
      <3> QED
        BY <3>1 DEF Good, Once
    <2>2. \A x : x # c /\ (\A d \in Ctx : x \notin Elems(B[d])) =>
                 \A d \in Ctx : x \notin Elems(B2[d])
      BY <1>6, Zenon
    <2>3. \A d \in Ctx : Distinct(B2[d])
      <3> TAKE d \in Ctx
      <3>1. CASE d = h
        BY <3>1, <1>2
      <3>2. CASE d # h
        BY <3>2, <1>2 DEF Good, Once
      <3> QED
        BY <3>1, <3>2
    <2>4. Once(T, B, rq, tp)
      BY DEF Good
    <2> QED
      BY <2>1, <2>2, <2>3, <2>4, <1>3, Zenon DEF Once
  <1>10. Hosts(T, B2, rq)
    <2>1. \A d \in Ctx : B2[d] # <<>> => B[d] # <<>> \/ d = h
      BY <1>2
    <2> QED
      BY <2>1 DEF Good, Hosts
  <1>11. Placed(T, B2, E2, rq, tp)
    <2> SUFFICES ASSUME NEW d \in Ctx, E2[d] # UNDEFINED, ~ Stg(d, B2, rq, tp)
                 PROVE  T[E2[d]] # NULL /\ (d = T[E2[d]] \/ d \in Elems(B2[T[E2[d]]]))
      BY Zenon DEF Placed
    <2>1. CASE d = c
      BY <2>1, <1>1, <1>2, <1>4
    <2>2. CASE d # c
      <3>0. ~ Stg(d, B, rq, tp)
        BY <1>7 DEF Stg, Kept
      <3>1. E2[d] = E[d] /\ E[d] # UNDEFINED /\ E[d] \in Key
        BY <2>2, <1>1 DEF Key, UNDEFINED
      <3>2. T[E[d]] # NULL /\ (d = T[E[d]] \/ d \in Elems(B[T[E[d]]]))
        BY <3>0, <3>1, Zenon DEF Good, Placed
      <3>3. \A e \in Ctx : d \in Elems(B[e]) => d \in Elems(B2[e])
        <4> TAKE e \in Ctx
        <4>1. CASE e = h
          BY <4>1, <1>2
        <4>2. CASE e # h
          BY <4>2, <1>2
        <4> QED
          BY <4>1, <4>2
      <3>4. T[E[d]] \in Ctx
        BY <3>1, <3>2
      <3> QED
        BY <3>1, <3>2, <3>3, <3>4
    <2> QED
      BY <2>1, <2>2
  <1>12. Ln(T, B2, l) = <<h>> \o q
    BY <1>2, <1>4 DEF Ln
  <1>13. \A j \in Key : j # l => Ln(T, B2, j) = Ln(T, B, j)
    <2> SUFFICES ASSUME NEW j \in Key, j # l PROVE Ln(T, B2, j) = Ln(T, B, j)
      OBVIOUS
    <2>1. T[j] # NULL => B2[T[j]] = B[T[j]]
      BY <1>2, <1>5
    <2> QED
      BY <2>1 DEF Ln
  <1> QED
    BY <1>1, <1>2, <1>7, <1>8, <1>9, <1>10, <1>11, <1>12, <1>13
       DEF Joined, Good, Typed, E2, B2
-----------------------------------------------------------------------------
(***************************************************************************)
(* The operations.                                                         *)
(***************************************************************************)

\* sleepq_remove(c); c->expire_ticks = MNTHR_SLEEP_UNDEFINED
Unlinked(q, c) == [sleepq_remove(q, c) EXCEPT !.expire[c] = UNDEFINED]

\* sleepq_remove leaves a good queue without c.
LEMMA RemoveGood ==
    ASSUME NEW q \in SQ, NEW rq \in Seq(Ctx), NEW tp \in Seq(Ctx),
           Good(q.trie, q.bucket, q.expire, rq, tp),
           NEW c \in Ctx, ~ Stg(c, q.bucket, rq, tp)
    PROVE  /\ Unlinked(q, c) \in SQ
           /\ Dropped(c, q.trie, q.bucket, Unlinked(q, c).trie,
                      Unlinked(q, c).bucket, Unlinked(q, c).expire, rq, tp)
  <1> DEFINE T == q.trie
             B == q.bucket
             E == q.expire
             E2 == [E EXCEPT ![c] = UNDEFINED]
             r == sleepq_remove(q, c)
  <1>0. /\ T \in [Key -> Ctx \cup {NULL}] /\ B \in [Ctx -> Seq(Ctx)]
        /\ E \in [Ctx -> 0..FOREVER]
        /\ q = [trie |-> T, bucket |-> B, expire |-> E]
    BY DEF SQ
  <1>1. ASSUME NEW T2, NEW B2, r = [trie |-> T2, bucket |-> B2, expire |-> E],
               Dropped(c, T, B, T2, B2, E2, rq, tp)
        PROVE  /\ Unlinked(q, c) \in SQ
               /\ Dropped(c, T, B, Unlinked(q, c).trie,
                          Unlinked(q, c).bucket, Unlinked(q, c).expire, rq, tp)
    <2>1. Unlinked(q, c) = [trie |-> T2, bucket |-> B2, expire |-> E2]
      BY <1>1, SMTT(30) DEF Unlinked
    <2>2. Typed(T2, B2, E2)
      BY <1>1 DEF Dropped
    <2>3. Unlinked(q, c) \in SQ
      BY <2>1, <2>2 DEF SQ, Typed
    <2>4. /\ Unlinked(q, c).trie = T2 /\ Unlinked(q, c).bucket = B2
          /\ Unlinked(q, c).expire = E2
      BY <2>1
    <2> QED
      BY <2>3, <2>4, <1>1
  <1>2. CASE NoNode(c, T, E)
    <2>1. r = q
      BY <1>2 DEF NoNode, sleepq_remove
    <2>2. Dropped(c, T, B, T, B, E2, rq, tp)
      BY <1>0, <1>2, DropAbsent, Zenon
    <2> QED
      BY <2>1, <2>2, <1>0, <1>1
  <1>3. CASE ~ NoNode(c, T, E)
    <2> DEFINE l == E[c]
               h == T[l]
    <2>1. l \in Key /\ h \in Ctx /\ NodeOf(c, T, E, l, h) /\ l # UNDEFINED /\ h # NULL
      <3>1. l # UNDEFINED /\ h # NULL
        BY <1>3 DEF NoNode
      <3>2. l \in Key
        BY <3>1, <1>0 DEF Key, UNDEFINED
      <3>3. h \in Ctx
        BY <3>1, <3>2, <1>0
      <3> QED
        BY <3>1, <3>2, <3>3 DEF NodeOf
    <2>2. CASE h # c
      <3>1. r = [trie |-> T, bucket |-> [B EXCEPT ![h] = DTQUEUE_REMOVE(@, c)], expire |-> E]
        BY <2>1, <2>2, <1>0 DEF sleepq_remove
      <3>2. Dropped(c, T, B, T, [B EXCEPT ![h] = DTQUEUE_REMOVE(@, c)], E2, rq, tp)
        BY <1>0, <2>1, <2>2, DropMember, Zenon
      <3> QED
        BY <3>1, <3>2, <1>1
    <2>3. CASE h = c /\ B[c] = <<>>
      <3>1. r = [trie |-> [T EXCEPT ![l] = NULL], bucket |-> B, expire |-> E]
        BY <2>1, <2>3, <1>0 DEF sleepq_remove
      <3>2. Dropped(c, T, B, [T EXCEPT ![l] = NULL], B, E2, rq, tp)
        BY <1>0, <2>1, <2>3, DropHostAlone, Zenon
      <3> QED
        BY <3>1, <3>2, <1>1
    <2>4. CASE h = c /\ B[c] # <<>>
      <3>1. r = [trie |-> [T EXCEPT ![l] = Head(B[c])],
                 bucket |-> HandOver(B, Head(B[c]), c, Tail(B[c])), expire |-> E]
        BY <2>1, <2>4, <1>0 DEF sleepq_remove, HandOver
      <3>2. Dropped(c, T, B, [T EXCEPT ![l] = Head(B[c])],
                    HandOver(B, Head(B[c]), c, Tail(B[c])), E2, rq, tp)
        BY <1>0, <2>1, <2>4, DropHost, Zenon
      <3> QED
        BY <3>1, <3>2, <1>1
    <2> QED
      BY <2>2, <2>3, <2>4
  <1> QED
    BY <1>2, <1>3

\* Any context may be enqueued once it is unlinked.
LEMMA UnlinkedIsFree ==
    ASSUME NEW q \in SQ, NEW rq \in Seq(Ctx), NEW tp \in Seq(Ctx),
           Good(q.trie, q.bucket, q.expire, rq, tp),
           NEW c \in Ctx, ~ Stg(c, q.bucket, rq, tp)
    PROVE  Free(c, Unlinked(q, c).trie, Unlinked(q, c).bucket,
                Unlinked(q, c).expire, rq, tp)
  <1> DEFINE u == Unlinked(q, c)
  <1>1. Dropped(c, q.trie, q.bucket, u.trie, u.bucket, u.expire, rq, tp)
    BY RemoveGood, Zenon
  <1> HIDE DEF u
  <1>2. Absent(c, u.trie, u.bucket) /\ u.expire[c] = UNDEFINED /\ Kept(q.bucket, u.bucket, rq)
    BY <1>1 DEF Dropped
  <1>3. ~ Stg(c, u.bucket, rq, tp)
    BY <1>2 DEF Stg, Kept
  <1> QED
    BY <1>2, <1>3 DEF Free, u

\* c->expire_ticks = k; c->sleepq_enqueue(c)
Enqueued(q, c, k, prio) == sleepq_enqueue([q EXCEPT !.expire[c] = k], c, prio)

\* The queue to which sleepq_enqueue adds a context.
Arrival(q, c, k, prio) ==
    LET s == Ln(q.trie, q.bucket, k)
    IN  IF prio /\ s # <<>> THEN <<Head(s)>> \o (<<c>> \o Tail(s)) ELSE Append(s, c)

\* q after c->expire_ticks = k.
WithExpire(q, c, k) == [q EXCEPT !.expire[c] = k]

\* Only expire_ticks changes.
LEMMA SetExpire ==
    ASSUME NEW T, NEW B, NEW E, NEW c, NEW k
    PROVE  WithExpire([trie |-> T, bucket |-> B, expire |-> E], c, k)
              = [trie |-> T, bucket |-> B, expire |-> [E EXCEPT ![c] = k]]
  BY DEF WithExpire

\* sleepq_enqueue adds a free context to the line of its key.
LEMMA EnqueueGood ==
    ASSUME NEW q \in SQ, NEW rq \in Seq(Ctx), NEW tp \in Seq(Ctx),
           Good(q.trie, q.bucket, q.expire, rq, tp),
           NEW c \in Ctx, Free(c, q.trie, q.bucket, q.expire, rq, tp),
           NEW k \in Key, NEW prio \in BOOLEAN
    PROVE  /\ Enqueued(q, c, k, prio) \in SQ
           /\ Joined(c, k, Arrival(q, c, k, prio), q.trie, q.bucket,
                     Enqueued(q, c, k, prio).trie, Enqueued(q, c, k, prio).bucket,
                     Enqueued(q, c, k, prio).expire, rq, tp)
  <1> DEFINE r == Enqueued(q, c, k, prio)
             T == q.trie
             B == q.bucket
             E == q.expire
             E2 == [E EXCEPT ![c] = k]
             h == T[k]
             p == [trie |-> T, bucket |-> B, expire |-> E2]
  <1>0. /\ T \in [Key -> Ctx \cup {NULL}] /\ B \in [Ctx -> Seq(Ctx)]
        /\ E \in [Ctx -> 0..FOREVER]
        /\ q = [trie |-> T, bucket |-> B, expire |-> E]
    BY DEF SQ
  <1>1. [q EXCEPT !.expire[c] = k] = p /\ p.expire[c] = k /\ p.trie[k] = h
    <2>1. [q EXCEPT !.expire[c] = k] = p
      <3>1. PICK X, Y, Z : q = [trie |-> X, bucket |-> Y, expire |-> Z]
        BY <1>0
      <3>2. WithExpire(q, c, k)
               = [trie |-> X, bucket |-> Y, expire |-> [Z EXCEPT ![c] = k]]
        BY <3>1, SetExpire
      <3>3. q.trie = X /\ q.bucket = Y /\ q.expire = Z
        BY <3>1
      <3> QED
        BY <3>2, <3>3 DEF WithExpire
    <2>2. E2[c] = k
      BY <1>0
    <2> QED
      BY <2>1, <2>2
  <1>2. r = sleepq_enqueue(p, c, prio)
    BY <1>1 DEF Enqueued
  <1>3. ASSUME NEW T2, NEW B2, r = [trie |-> T2, bucket |-> B2, expire |-> E2],
               Joined(c, k, Arrival(q, c, k, prio), T, B, T2, B2, E2, rq, tp)
        PROVE  /\ r \in SQ
               /\ Joined(c, k, Arrival(q, c, k, prio), T, B,
                         r.trie, r.bucket, r.expire, rq, tp)
    <2>1. Typed(T2, B2, E2)
      BY <1>3 DEF Joined
    <2>2. r \in SQ
      BY <2>1, <1>3 DEF SQ, Typed
    <2>3. r.trie = T2 /\ r.bucket = B2 /\ r.expire = E2
      BY <1>3
    <2> QED
      BY <2>2, <2>3, <1>3
  <1>4. CASE h = NULL
    <2>1. r = [trie |-> [T EXCEPT ![k] = c], bucket |-> B, expire |-> E2]
      <3>1. sleepq_insert(p, c) = [p EXCEPT !.trie[k] = c]
        BY <1>1, <1>4 DEF sleepq_insert
      <3>2. sleepq_append(p, c) = [p EXCEPT !.trie[k] = c]
        BY <1>1, <1>4 DEF sleepq_append
      <3> QED
        BY <3>1, <3>2, <1>2 DEF sleepq_enqueue
    <2>2. Joined(c, k, <<c>>, T, B, [T EXCEPT ![k] = c], B, E2, rq, tp)
      BY <1>0, <1>4, JoinAsHost, Zenon
    <2>3. Arrival(q, c, k, prio) = <<c>>
      <3>1. Ln(T, B, k) = <<>>
        BY <1>4 DEF Ln
      <3> QED
        BY <3>1 DEF Arrival
    <2> QED
      BY <2>1, <2>2, <2>3, <1>3
  <1>5. CASE h # NULL
    <2>0. h \in Ctx /\ B[h] \in Seq(Ctx)
      BY <1>0, <1>5
    <2>1. Distinct(B[h]) /\ c \notin Elems(B[h])
      BY <2>0 DEF Good, Once, Free, Absent
    <2>2. Ln(T, B, k) = <<h>> \o B[h]
      BY <1>5 DEF Ln
    <2>3. <<h>> \o B[h] # <<>> /\ Head(<<h>> \o B[h]) = h /\ Tail(<<h>> \o B[h]) = B[h]
      BY <2>0, InsertElems
    <2>4. CASE prio
      <3> DEFINE b == <<c>> \o B[h]
      <3>1. r = [trie |-> T, bucket |-> [B EXCEPT ![h] = b], expire |-> E2]
        <4>1. sleepq_insert(p, c) = [p EXCEPT !.bucket[h] = b]
          BY <1>1, <1>5 DEF sleepq_insert, DTQUEUE_INSERT_BEFORE_HEAD
        <4> QED
          BY <4>1, <1>2, <2>4 DEF sleepq_enqueue
      <3>2. b \in Seq(Ctx) /\ Distinct(b) /\ Elems(b) = Elems(B[h]) \cup {c}
        BY <2>0, <2>1, InsertElems
      <3>3. Joined(c, k, <<h>> \o b, T, B, T, [B EXCEPT ![h] = b], E2, rq, tp)
        BY <1>0, <2>0, <3>2, JoinBucket, Zenon
      <3>4. Arrival(q, c, k, prio) = <<h>> \o b
        BY <2>2, <2>3, <2>4 DEF Arrival
      <3> QED
        BY <3>1, <3>3, <3>4, <1>3
    <2>5. CASE ~ prio
      <3> DEFINE b == DTQUEUE_ENQUEUE(B[h], c)
      <3>1. r = [trie |-> T, bucket |-> [B EXCEPT ![h] = b], expire |-> E2]
        <4>1. sleepq_append(p, c) = [p EXCEPT !.bucket[h] = b]
          BY <1>1, <1>5 DEF sleepq_append
        <4> QED
          BY <4>1, <1>2, <2>5 DEF sleepq_enqueue
      <3>2. b \in Seq(Ctx) /\ Distinct(b) /\ Elems(b) = Elems(B[h]) \cup {c}
        BY <2>0, <2>1, EnqueueElems, ZenonT(30)
      <3>3. Joined(c, k, <<h>> \o b, T, B, T, [B EXCEPT ![h] = b], E2, rq, tp)
        BY <1>0, <2>0, <3>2, JoinBucket, Zenon
      <3>4. Arrival(q, c, k, prio) = <<h>> \o b
        <4>1. Append(<<h>> \o B[h], c) = <<h>> \o Append(B[h], c)
          BY <2>0, EnqueueBehindHead
        <4> QED
          BY <4>1, <2>2, <2>5 DEF Arrival, DTQUEUE_ENQUEUE
      <3> QED
        BY <3>1, <3>3, <3>4, <1>3
    <2> QED
      BY <2>4, <2>5
  <1> QED
    BY <1>4, <1>5
-----------------------------------------------------------------------------
(***************************************************************************)
(* The steps of the walk.                                                  *)
(***************************************************************************)

\* The host of key l moves to runq.
LEMMA CollectGood ==
    ASSUME NEW T \in [Key -> Ctx \cup {NULL}], NEW B \in [Ctx -> Seq(Ctx)],
           NEW E \in [Ctx -> 0..FOREVER], NEW rq \in Seq(Ctx), NEW tp \in Seq(Ctx),
           Good(T, B, E, rq, tp), NEW l \in Key, NEW h \in Ctx, T[l] = h
    PROVE  Good([T EXCEPT ![l] = NULL], B, E, Append(rq, h), tp)
  <1> DEFINE T2 == [T EXCEPT ![l] = NULL]
             rq2 == Append(rq, h)
  <1>1. /\ T2 \in [Key -> Ctx \cup {NULL}] /\ T2[l] = NULL
        /\ \A k \in Key : k # l => T2[k] = T[k]
    OBVIOUS
  <1>2. /\ rq2 \in Seq(Ctx) /\ Elems(rq2) = Elems(rq) \cup {h}
        /\ h \notin Elems(rq) /\ Distinct(rq) => Distinct(rq2)
    BY EnqueueElems DEF DTQUEUE_ENQUEUE
  <1> HIDE DEF T2, rq2
  <1>3. T[l] # NULL
    BY NullAssumption
  <1>4. /\ h \notin Elems(tp) /\ h \notin Elems(rq) /\ Distinct(rq2)
        /\ \A d \in Ctx : h \notin Elems(B[d])
    BY <1>2, <1>3 DEF Good, Once
  <1>5. \A k \in Key : T2[k] # NULL => T2[k] = T[k] /\ T2[k] # h
    <2> SUFFICES ASSUME NEW k \in Key, T2[k] # NULL
                 PROVE  T2[k] = T[k] /\ T2[k] # h
      OBVIOUS
    <2>1. k # l /\ T2[k] = T[k]
      BY <1>1
    <2>2. E[T[l]] = l /\ E[T[k]] = k
      BY <2>1, <1>3 DEF Good, Keyed
    <2> QED
      BY <2>1, <2>2
  <1>6. Keyed(T2, B, E)
    BY <1>5 DEF Good, Keyed
  <1>7. Once(T2, B, rq2, tp)
    <2>1. Once(T, B, rq, tp)
      BY DEF Good
    <2>2. \A k \in Key : T2[k] # NULL => /\ T2[k] \notin Elems(tp)
                                         /\ T2[k] \notin Elems(rq2)
                                         /\ \A d \in Ctx : T2[k] \notin Elems(B[d])
      BY <2>1, <1>2, <1>5 DEF Once
    <2>3. \A x \in Elems(rq2) : x \notin Elems(tp) /\ \A d \in Ctx : x \notin Elems(B[d])
      <3> TAKE x \in Elems(rq2)
      <3>1. CASE x = h
        BY <3>1, <1>4
      <3>2. CASE x # h
        <4>1. x \in Elems(rq)
          BY <3>2, <1>2
        <4> QED
          BY <4>1, <2>1 DEF Once
      <3> QED
        BY <3>1, <3>2
    <2> QED
      BY <2>1, <2>2, <2>3, <1>4 DEF Once
  <1>8. Hosts(T2, B, rq2)
    <2> SUFFICES ASSUME NEW d \in Ctx, B[d] # <<>>, d \notin Elems(rq2)
                 PROVE  \E k \in Key : T2[k] = d
      BY DEF Hosts
    <2>1. d \notin Elems(rq) /\ d # h
      BY <1>2
    <2>2. PICK k \in Key : T[k] = d
      BY <2>1 DEF Good, Hosts
    <2> QED
      BY <2>1, <2>2, <1>1
  <1>9. Placed(T2, B, E, rq2, tp)
    <2> SUFFICES ASSUME NEW d \in Ctx, E[d] # UNDEFINED, ~ Stg(d, B, rq2, tp)
                 PROVE  T2[E[d]] # NULL /\ (d = T2[E[d]] \/ d \in Elems(B[T2[E[d]]]))
      BY Zenon DEF Placed
    <2>1. ~ Stg(d, B, rq, tp) /\ d # h /\ d \notin Elems(B[h])
      BY <1>2 DEF Stg
    <2>2. T[E[d]] # NULL /\ (d = T[E[d]] \/ d \in Elems(B[T[E[d]]]))
      BY <2>1, Zenon DEF Good, Placed
    <2>3. E[d] \in Key /\ E[d] # l
      BY <2>1, <2>2 DEF Key, UNDEFINED
    <2> QED
      BY <2>2, <2>3, <1>1
  <1> QED
    BY <1>6, <1>7, <1>8, <1>9 DEF Good, T2, rq2

\* The first host of runq is handed over and its bucket becomes
\* sleepq_bucket_tmp.
LEMMA PopHostGood ==
    ASSUME NEW T \in [Key -> Ctx \cup {NULL}], NEW B \in [Ctx -> Seq(Ctx)],
           NEW E \in [Ctx -> 0..FOREVER], NEW rq \in Seq(Ctx),
           Good(T, B, E, rq, <<>>), rq # <<>>, NEW h \in Ctx, h = Head(rq)
    PROVE  Good(T, [B EXCEPT ![h] = <<>>], [E EXCEPT ![h] = UNDEFINED], Tail(rq), B[h])
  <1> DEFINE E2 == [E EXCEPT ![h] = UNDEFINED]
             B2 == [B EXCEPT ![h] = <<>>]
             rq2 == Tail(rq)
             tp2 == B[h]
  <1>1. E2[h] = UNDEFINED /\ \A d \in Ctx : d # h => E2[d] = E[d]
    OBVIOUS
  <1>2. B2[h] = <<>> /\ \A d \in Ctx : d # h => B2[d] = B[d]
    OBVIOUS
  <1>3. Once(T, B, rq, <<>>) /\ Distinct(rq)
    BY DEF Good, Once
  <1>4. /\ h \in Elems(rq) /\ rq2 \in Seq(Ctx) /\ Distinct(rq2)
        /\ Elems(rq2) = Elems(rq) \ {h}
    BY <1>3, TailElems
  <1>5. tp2 \in Seq(Ctx) /\ Distinct(tp2)
    BY <1>3 DEF Once
  <1> HIDE DEF E2, B2, rq2, tp2
  <1>6. /\ \A d \in Ctx : h \notin Elems(B[d])
        /\ \A k \in Key : T[k] # h
    <2>1. \A k \in Key : T[k] # NULL => T[k] # h
      BY <1>3, <1>4 DEF Once
    <2> QED
      BY <2>1, <1>3, <1>4, NullAssumption DEF Once
  <1>7. \A d \in Ctx : \A x \in Elems(B2[d]) : d # h /\ x \in Elems(B[d])
    <2>1. Elems(B2[h]) = {}
      BY <1>2 DEF Elems
    <2> QED
      BY <2>1, <1>2
  <1>8. Keyed(T, B2, E2)
    <2> SUFFICES ASSUME NEW k \in Key, T[k] # NULL
                 PROVE  E2[T[k]] = k /\ \A x \in Elems(B2[T[k]]) : E2[x] = k
      BY DEF Keyed
    <2>1. T[k] \in Ctx /\ T[k] # h /\ B2[T[k]] = B[T[k]]
      BY <1>2, <1>6
    <2>2. \A x \in Elems(B[T[k]]) : x \in Ctx /\ x # h
      BY <2>1, <1>6 DEF Elems
    <2>3. E[T[k]] = k /\ \A x \in Elems(B[T[k]]) : E[x] = k
      BY DEF Good, Keyed
    <2> QED
      BY <2>1, <2>2, <2>3, <1>1
  <1>9. Once(T, B2, rq2, tp2)
    <2>1. \A d \in Ctx : Distinct(B2[d])
      <3> TAKE d \in Ctx
      <3>1. CASE d = h
        BY <3>1, <1>2 DEF Distinct
      <3>2. CASE d # h
        BY <3>2, <1>2, <1>3 DEF Once
      <3> QED
        BY <3>1, <3>2
    <2>2. \A c, d \in Ctx : \A x \in Elems(B2[c]) : x \in Elems(B2[d]) => c = d
      BY <1>3, <1>7 DEF Once
    <2>3. \A k \in Key : T[k] # NULL => /\ T[k] \notin Elems(tp2)
                                        /\ T[k] \notin Elems(rq2)
                                        /\ \A d \in Ctx : T[k] \notin Elems(B2[d])
      BY <1>3, <1>4, <1>7 DEF Once, tp2
    <2>4. \A x \in Elems(rq2) : x \notin Elems(tp2) /\ \A d \in Ctx : x \notin Elems(B2[d])
      BY <1>3, <1>4, <1>7 DEF Once, tp2
    <2>5. \A x \in Elems(tp2) : \A d \in Ctx : x \notin Elems(B2[d])
      BY <1>3, <1>7 DEF Once, tp2
    <2> QED
      BY <2>1, <2>2, <2>3, <2>4, <2>5, <1>4, <1>5 DEF Once
  <1>10. Hosts(T, B2, rq2)
    <2> SUFFICES ASSUME NEW d \in Ctx, B2[d] # <<>>, d \notin Elems(rq2)
                 PROVE  \E k \in Key : T[k] = d
      BY DEF Hosts
    <2>1. d # h /\ B[d] # <<>>
      BY <1>2
    <2>2. d \notin Elems(rq)
      BY <2>1, <1>4
    <2> QED
      BY <2>1, <2>2 DEF Good, Hosts
  <1>11. Placed(T, B2, E2, rq2, tp2)
    <2> SUFFICES ASSUME NEW d \in Ctx, d # h, E[d] # UNDEFINED, ~ Stg(d, B2, rq2, tp2)
                 PROVE  T[E[d]] # NULL /\ (d = T[E[d]] \/ d \in Elems(B2[T[E[d]]]))
      BY <1>1, Zenon DEF Placed
    <2>1. ~ Stg(d, B, rq, <<>>)
      <3>1. Elems(<<>>) = {}
        BY DEF Elems
      <3>2. d \notin Elems(rq)
        BY <1>4 DEF Stg
      <3>3. ASSUME NEW g \in Elems(rq), d \in Elems(B[g]) PROVE FALSE
        <4>0. g \in Ctx
          BY DEF Elems
        <4>1. CASE g = h
          BY <3>3, <4>1 DEF Stg, tp2
        <4>2. CASE g # h
          BY <3>3, <4>0, <4>2, <1>2, <1>4 DEF Stg
        <4> QED
          BY <4>1, <4>2
      <3> QED
        BY <3>1, <3>2, <3>3 DEF Stg
    <2>2. T[E[d]] # NULL /\ (d = T[E[d]] \/ d \in Elems(B[T[E[d]]]))
      BY <2>1, Zenon DEF Good, Placed
    <2>3. E[d] \in Key /\ T[E[d]] \in Ctx
      BY <2>2 DEF Key, UNDEFINED
    <2>4. B2[T[E[d]]] = B[T[E[d]]]
      BY <2>3, <1>2, <1>6
    <2> QED
      BY <2>2, <2>4
  <1> QED
    BY <1>8, <1>9, <1>10, <1>11 DEF Good, E2, B2, rq2, tp2

\* The first member of sleepq_bucket_tmp is handed over.
LEMMA PopBucketGood ==
    ASSUME NEW T \in [Key -> Ctx \cup {NULL}], NEW B \in [Ctx -> Seq(Ctx)],
           NEW E \in [Ctx -> 0..FOREVER], NEW rq \in Seq(Ctx), NEW tp \in Seq(Ctx),
           Good(T, B, E, rq, tp), tp # <<>>, NEW h \in Ctx, h = Head(tp)
    PROVE  Good(T, B, [E EXCEPT ![h] = UNDEFINED], rq, Tail(tp))
  <1> DEFINE E2 == [E EXCEPT ![h] = UNDEFINED]
             tp2 == Tail(tp)
  <1>1. E2[h] = UNDEFINED /\ \A d \in Ctx : d # h => E2[d] = E[d]
    OBVIOUS
  <1>2. Once(T, B, rq, tp) /\ Distinct(tp)
    BY DEF Good, Once
  <1>3. /\ h \in Elems(tp) /\ tp2 \in Seq(Ctx) /\ Distinct(tp2)
        /\ Elems(tp2) = Elems(tp) \ {h}
    BY <1>2, TailElems
  <1> HIDE DEF E2, tp2
  <1>4. \A k \in Key : T[k] # NULL => T[k] # h /\ h \notin Elems(B[T[k]])
    BY <1>2, <1>3 DEF Once
  <1>5. Keyed(T, B, E2)
    <2> SUFFICES ASSUME NEW k \in Key, T[k] # NULL
                 PROVE  E2[T[k]] = k /\ \A x \in Elems(B[T[k]]) : E2[x] = k
      BY DEF Keyed
    <2>1. T[k] \in Ctx /\ T[k] # h
      BY <1>4
    <2>2. \A x \in Elems(B[T[k]]) : x \in Ctx /\ x # h
      BY <2>1, <1>4, ElemsType
    <2>3. E[T[k]] = k /\ \A x \in Elems(B[T[k]]) : E[x] = k
      BY DEF Good, Keyed
    <2> QED
      BY <2>1, <2>2, <2>3, <1>1
  <1>6. Once(T, B, rq, tp2)
    BY <1>2, <1>3 DEF Once
  <1>7. Hosts(T, B, rq)
    BY DEF Good
  <1>8. Placed(T, B, E2, rq, tp2)
    <2> SUFFICES ASSUME NEW d \in Ctx, d # h, E[d] # UNDEFINED, ~ Stg(d, B, rq, tp2)
                 PROVE  T[E[d]] # NULL /\ (d = T[E[d]] \/ d \in Elems(B[T[E[d]]]))
      BY <1>1, Zenon DEF Placed
    <2>1. ~ Stg(d, B, rq, tp)
      BY <1>3 DEF Stg
    <2> QED
      BY <2>1, Zenon DEF Good, Placed
  <1> QED
    BY <1>5, <1>6, <1>7, <1>8 DEF Good, E2, tp2
-----------------------------------------------------------------------------
(***************************************************************************)
(* The invariant.                                                          *)
(***************************************************************************)

\* The invariant without the parts about the clock and the phase.
GoodNow == /\ sq \in SQ /\ runq \in Seq(Ctx) /\ tmp \in Seq(Ctx)
           /\ Good(sq.trie, sq.bucket, sq.expire, runq, tmp)

\* sleepq_remove changes no expire_ticks.
LEMMA RemoveShape ==
    ASSUME NEW q \in SQ, NEW c \in Ctx
    PROVE  \E X, Y : sleepq_remove(q, c) = [trie |-> X, bucket |-> Y, expire |-> q.expire]
  BY DEF sleepq_remove, SQ

\* A call that reschedules a context is sleepq_remove followed by an enqueue.
LEMMA RescheduleSteps ==
    ASSUME NEW q \in SQ, NEW c \in Ctx, NEW k \in Key, NEW prio \in BOOLEAN
    PROVE  reschedule(q, c, k, prio) = Enqueued(Unlinked(q, c), c, k, prio)
  <1>1. PICK X, Y : sleepq_remove(q, c) = [trie |-> X, bucket |-> Y, expire |-> q.expire]
    BY RemoveShape
  <1>2. q.expire \in [Ctx -> 0..FOREVER]
    BY DEF SQ
  <1>3. [sleepq_remove(q, c) EXCEPT !.expire[c] = k]
           = [Unlinked(q, c) EXCEPT !.expire[c] = k]
    BY <1>1, <1>2 DEF Unlinked
  <1> QED
    BY <1>3 DEF reschedule, Enqueued

\* Scheduling and unscheduling keep the queue good.
LEMMA CallsKeepGood ==
    ASSUME SQInv, GoodNow, NEW c \in Ctx,
           \/ \E k \in Key, prio \in BOOLEAN : Schedule(c, k, prio)
           \/ Unschedule(c)
    PROVE  GoodNow'
  <1>0. ~ Stg(c, sq.bucket, runq, tmp) /\ runq' = runq /\ tmp' = tmp
    <2>1. c \notin Staged /\ runq' = runq /\ tmp' = tmp
      BY DEF Schedule, Unschedule
    <2> QED
      BY <2>1, GoodIsInv DEF Restated, SQInv
  <1>1. Unlinked(sq, c) \in SQ
        /\ Dropped(c, sq.trie, sq.bucket, Unlinked(sq, c).trie,
                   Unlinked(sq, c).bucket, Unlinked(sq, c).expire, runq, tmp)
    BY <1>0, RemoveGood, Zenon DEF GoodNow
  <1>2. Free(c, Unlinked(sq, c).trie, Unlinked(sq, c).bucket,
             Unlinked(sq, c).expire, runq, tmp)
    BY <1>0, UnlinkedIsFree, Zenon DEF GoodNow
  <1>3. CASE Unschedule(c)
    <2>1. sq' = Unlinked(sq, c)
      BY <1>3 DEF Unschedule, Unlinked
    <2> QED
      BY <2>1, <1>0, <1>1 DEF GoodNow, Dropped
  <1>4. CASE \E k \in Key, prio \in BOOLEAN : Schedule(c, k, prio)
    <2>1. PICK k \in Key, prio \in BOOLEAN : Schedule(c, k, prio)
      BY <1>4
    <2> DEFINE u == Unlinked(sq, c)
               r == Enqueued(u, c, k, prio)
    <2>2. sq' = r
      BY <2>1, RescheduleSteps DEF Schedule, GoodNow
    <2>3. Good(u.trie, u.bucket, u.expire, runq, tmp)
      BY <1>1 DEF Dropped
    <2>4. r \in SQ /\ Joined(c, k, Arrival(u, c, k, prio), u.trie, u.bucket,
                              r.trie, r.bucket, r.expire, runq, tmp)
      BY <2>3, <1>1, <1>2, EnqueueGood, Zenon DEF GoodNow
    <2>5. Good(r.trie, r.bucket, r.expire, runq, tmp)
      BY <2>4 DEF Joined
    <2> QED
      BY <2>2, <2>4, <2>5, <1>0 DEF GoodNow
  <1> QED
    BY <1>3, <1>4

\* The steps of the walk keep the queue good.
LEMMA WalkKeepsGood ==
    ASSUME GoodNow,
           (\E k \in Key : Collect(k)) \/ PopHost \/ PopBucket
    PROVE  GoodNow'
  <1> DEFINE T == sq.trie
             B == sq.bucket
             E == sq.expire
  <1>0. /\ T \in [Key -> Ctx \cup {NULL}] /\ B \in [Ctx -> Seq(Ctx)]
        /\ E \in [Ctx -> 0..FOREVER] /\ runq \in Seq(Ctx) /\ tmp \in Seq(Ctx)
        /\ sq = [trie |-> T, bucket |-> B, expire |-> E]
        /\ Good(T, B, E, runq, tmp)
    BY DEF GoodNow, SQ
  <1>1. PICK X, Y, Z : /\ sq = [trie |-> X, bucket |-> Y, expire |-> Z]
                       /\ X = T /\ Y = B /\ Z = E
    BY <1>0
  <1>2. ASSUME NEW X2, NEW Y2, NEW Z2, Typed(X2, Y2, Z2),
               sq' = [trie |-> X2, bucket |-> Y2, expire |-> Z2],
               runq' \in Seq(Ctx), tmp' \in Seq(Ctx), Good(X2, Y2, Z2, runq', tmp')
        PROVE  GoodNow'
    <2>1. sq' \in SQ
      BY <1>2 DEF SQ, Typed
    <2>2. sq'.trie = X2 /\ sq'.bucket = Y2 /\ sq'.expire = Z2
      BY <1>2
    <2> QED
      BY <2>1, <2>2, <1>2 DEF GoodNow
  <1>3. ASSUME NEW k \in Key, Collect(k) PROVE GoodNow'
    <2> DEFINE h == T[k]
               X2 == [T EXCEPT ![k] = NULL]
    <2>1. h \in Ctx /\ runq' = Append(runq, h) /\ tmp' = tmp
      BY <1>0, <1>3 DEF Collect, MinExpired, IsMin
    <2>2. sq' = [trie |-> X2, bucket |-> B, expire |-> E]
      BY <1>1, <1>3 DEF Collect
    <2>3. Good(X2, B, E, Append(runq, h), tmp)
      BY <2>1, <1>0, CollectGood, Zenon
    <2>4. Typed(X2, B, E) /\ Append(runq, h) \in Seq(Ctx)
      BY <2>1, <1>0 DEF Typed
    <2> QED
      BY <2>1, <2>2, <2>3, <2>4, <1>0, <1>2
  <1>4. CASE PopHost
    <2> DEFINE h == Head(runq)
               Y2 == [B EXCEPT ![h] = <<>>]
               Z2 == [E EXCEPT ![h] = UNDEFINED]
    <2>1. /\ runq # <<>> /\ h \in Ctx /\ runq' = Tail(runq) /\ tmp' = B[h]
          /\ Good(T, B, E, runq, <<>>)
      BY <1>0, <1>4 DEF PopHost
    <2>2. sq' = [trie |-> T, bucket |-> Y2, expire |-> Z2]
      BY <1>1, <1>4 DEF PopHost
    <2>3. Good(T, Y2, Z2, Tail(runq), B[h])
      BY <2>1, <1>0, PopHostGood, Zenon
    <2>4. Typed(T, Y2, Z2) /\ Tail(runq) \in Seq(Ctx) /\ B[h] \in Seq(Ctx)
      BY <2>1, <1>0, TimeAssumption DEF Typed, UNDEFINED
    <2> QED
      BY <2>1, <2>2, <2>3, <2>4, <1>2
  <1>5. CASE PopBucket
    <2> DEFINE h == Head(tmp)
               Z2 == [E EXCEPT ![h] = UNDEFINED]
    <2>1. tmp # <<>> /\ h \in Ctx /\ tmp' = Tail(tmp) /\ runq' = runq
      BY <1>0, <1>5 DEF PopBucket
    <2>2. sq' = [trie |-> T, bucket |-> B, expire |-> Z2]
      BY <1>1, <1>5 DEF PopBucket
    <2>3. Good(T, B, Z2, runq, Tail(tmp))
      BY <2>1, <1>0, PopBucketGood, Zenon
    <2>4. Typed(T, B, Z2) /\ Tail(tmp) \in Seq(Ctx)
      BY <2>1, <1>0, TimeAssumption DEF Typed, UNDEFINED
    <2> QED
      BY <2>1, <2>2, <2>3, <2>4, <1>0, <1>2
  <1> QED
    BY <1>3, <1>4, <1>5

\* The empty queue is good.
LEMMA InitGood == SQInit => SQInv
  <1> SUFFICES ASSUME SQInit PROVE SQInv
    OBVIOUS
  <1>1. SQTypeOK
    BY TimeAssumption DEF SQInit, SQTypeOK, SQ, Key, UNDEFINED
  <1>2. Elems(<<>>) = {} /\ Distinct(<<>>)
    BY DEF Elems, Distinct
  <1>3. Good(sq.trie, sq.bucket, sq.expire, runq, tmp)
    <2>1. /\ \A k \in Key : sq.trie[k] = NULL
          /\ \A d \in Ctx : sq.bucket[d] = <<>> /\ sq.expire[d] = UNDEFINED
          /\ runq = <<>> /\ tmp = <<>>
      BY DEF SQInit
    <2> QED
      BY <2>1, <1>2 DEF Good, Keyed, Once, Hosts, Placed
  <1> QED
    BY <1>1, <1>3, GoodIsInv DEF Restated, SQInv

\* Every step of the queue and of the walk keeps the invariant.
LEMMA StepKeepsInv == SQInv /\ [SQNext]_sqvars => SQInv'
  <1> SUFFICES ASSUME SQInv, [SQNext]_sqvars PROVE SQInv'
    OBVIOUS
  <1>1. GoodNow
    BY GoodIsInv DEF GoodNow, Restated, SQInv, SQTypeOK
  <1>2. ASSUME GoodNow', now' \in Nat, phase' \in {"main", "loop", "collect", "run"}
        PROVE  SQInv'
    <2>1. SQTypeOK'
      BY <1>2 DEF GoodNow, SQTypeOK
    <2> QED
      BY <2>1, <1>2, GoodIsInvNext DEF Restated, SQInv, GoodNow
  <1>3. now \in Nat /\ phase \in {"main", "loop", "collect", "run"}
    BY DEF SQInv, SQTypeOK
  <1>4. ASSUME NEW c \in Ctx, NEW k \in Key, NEW prio \in BOOLEAN, Schedule(c, k, prio)
        PROVE  SQInv'
    <2>1. GoodNow'
      BY <1>1, <1>4, CallsKeepGood
    <2> QED
      BY <2>1, <1>2, <1>3, <1>4 DEF Schedule
  <1>5. ASSUME NEW c \in Ctx, Unschedule(c) PROVE SQInv'
    <2>1. GoodNow'
      BY <1>1, <1>5, CallsKeepGood
    <2> QED
      BY <2>1, <1>2, <1>3, <1>5 DEF Unschedule
  <1>6. ASSUME NEW t \in now..MaxNow, Prepare(t) PROVE SQInv'
    <2>1. GoodNow' /\ now' \in Nat
      BY <1>1, <1>3, <1>6, TimeAssumption DEF Prepare, GoodNow
    <2> QED
      BY <2>1, <1>2, <1>6 DEF Prepare
  <1>7. ASSUME NEW k \in Key, Collect(k) PROVE SQInv'
    <2>1. GoodNow'
      BY <1>1, <1>7, WalkKeepsGood
    <2> QED
      BY <2>1, <1>2, <1>3, <1>7 DEF Collect
  <1>8. CASE CollectDone \/ SiftDone \/ UNCHANGED sqvars
    <2>1. GoodNow'
      BY <1>1, <1>8 DEF CollectDone, SiftDone, sqvars, GoodNow
    <2> QED
      BY <2>1, <1>2, <1>3, <1>8 DEF CollectDone, SiftDone, sqvars
  <1>9. CASE PopHost
    <2>1. GoodNow'
      BY <1>1, <1>9, WalkKeepsGood
    <2> QED
      BY <2>1, <1>2, <1>3, <1>9 DEF PopHost
  <1>10. CASE PopBucket
    <2>1. GoodNow'
      BY <1>1, <1>10, WalkKeepsGood
    <2> QED
      BY <2>1, <1>2, <1>3, <1>10 DEF PopBucket
  <1> QED
    BY <1>4, <1>5, <1>6, <1>7, <1>8, <1>9, <1>10 DEF SQNext

\* The sleep queue keeps its invariant, whatever is scheduled and however the
\* walk interleaves with the calls of the threads it resumes.
THEOREM SleepQueueInvariant == SQSpec => []SQInv
  BY InitGood, StepKeepsInv, PTL DEF SQSpec

\* Every field of the sleep queue keeps its type; above all, no NULL gets into
\* a bucket or onto the run queue of poller_sift_sleepq.
THEOREM SleepQueueTypes == SQSpec => []SQTypeOK
  <1>1. SQInv => SQTypeOK
    BY DEF SQInv
  <1> QED
    BY <1>1, SleepQueueInvariant, PTL

\* sleepq_remove finds every context it is asked to remove: the trie and
\* expire_ticks agree for as long as the program runs.
THEOREM KeysAgree == SQSpec => []KeyIsExpire
  <1>1. SQInv => KeyIsExpire
    BY DEF SQInv
  <1> QED
    BY <1>1, SleepQueueInvariant, PTL

\* sleepq_link and runq_link of a context are never in use twice, so no list is
\* ever corrupted by the promotion of a bucket member to bucket host or by the
\* walk.
THEOREM NoListIsCorrupted == SQSpec => [](PlacedOnce /\ OnlyHostsHaveBuckets)
  <1>1. SQInv => PlacedOnce /\ OnlyHostsHaveBuckets
    BY DEF SQInv
  <1> QED
    BY <1>1, SleepQueueInvariant, PTL

\* No scheduled thread falls out of the sleep queue.
THEOREM NothingIsForgotten == SQSpec => []ExpireIsPlaced
  <1>1. SQInv => ExpireIsPlaced
    BY DEF SQInv
  <1> QED
    BY <1>1, SleepQueueInvariant, PTL
-----------------------------------------------------------------------------
(***************************************************************************)
(* The trie of bucket hosts, the buckets and the two local queues of the   *)
(* walk implement the multimap of first-come lines of module TimerMap.     *)
(* The refinement mapping is the one of module SleepQueue: the line of a   *)
(* key is its host followed by the host's bucket.                          *)
(***************************************************************************)

\* The values of TimerMap's variables.
Lns == [k \in Key |-> Line(k)]
Bts == [i \in 1..Len(runq) |-> <<runq[i]>> \o sq.bucket[runq[i]]]

\* What a step needs to know of the state.
Known == /\ GoodNow
         /\ \A x : x \in Staged <=> Stg(x, sq.bucket, runq, tmp)
         /\ \A k \in Key : Line(k) = Ln(sq.trie, sq.bucket, k)

\* The invariant says it.
LEMMA InvKnown == SQInv => Known
  BY GoodIsInv DEF SQInv, Known, GoodNow, Restated, SQTypeOK

\* And of the next state.
LEMMA InvKnownNext == SQInv' => Known'
  BY InvKnown, PTL

\* The batches are lists of contexts, one for each staged host.
LEMMA BatchType ==
    ASSUME Known
    PROVE  /\ Bts \in Seq(Seq(Ctx))
           /\ Len(Bts) = Len(runq)
           /\ \A i \in 1..Len(runq) :
                 /\ runq[i] \in Ctx
                 /\ sq.bucket[runq[i]] \in Seq(Ctx)
                 /\ Bts[i] = <<runq[i]>> \o sq.bucket[runq[i]]
  <1>1. runq \in Seq(Ctx) /\ sq.bucket \in [Ctx -> Seq(Ctx)]
    BY DEF Known, GoodNow, SQ
  <1>2. \A i \in 1..Len(runq) : /\ runq[i] \in Ctx
                                /\ sq.bucket[runq[i]] \in Seq(Ctx)
                                /\ <<runq[i]>> \o sq.bucket[runq[i]] \in Seq(Ctx)
    BY <1>1
  <1>3. Len(runq) \in Nat
    BY <1>1
  <1> QED
    BY <1>2, <1>3 DEF Bts

\* Due is Staged.
LEMMA DueIsStaged ==
    ASSUME Known
    PROVE  \A x : x \in TM!Due <=> x \in Staged
  <1>1. \A i \in 1..Len(runq) : Elems(Bts[i]) = Elems(sq.bucket[runq[i]]) \cup {runq[i]}
    <2> SUFFICES ASSUME NEW i \in 1..Len(runq)
                 PROVE  Elems(Bts[i]) = Elems(sq.bucket[runq[i]]) \cup {runq[i]}
      OBVIOUS
    <2>1. runq[i] \in Ctx /\ sq.bucket[runq[i]] \in Seq(Ctx)
          /\ Bts[i] = <<runq[i]>> \o sq.bucket[runq[i]]
      BY BatchType
    <2> QED
      BY <2>1, InsertElems
  <1>2. TM!Due = Elems(tmp) \cup UNION {Elems(Bts[i]) : i \in 1..Len(Bts)}
    BY DEF TM!Due, Bts, TM!Elems, Elems
  <1>3. Len(Bts) = Len(runq)
    BY BatchType
  <1>4. \A x : x \in UNION {Elems(Bts[i]) : i \in 1..Len(runq)}
                 <=> \E i \in 1..Len(runq) : x = runq[i] \/ x \in Elems(sq.bucket[runq[i]])
    <2>1. \A x : x \in UNION {Elems(Bts[i]) : i \in 1..Len(runq)}
                  <=> \E i \in 1..Len(runq) : x \in Elems(Bts[i])
      OBVIOUS
    <2>2. \A i \in 1..Len(runq) : \A x :
             x \in Elems(Bts[i]) <=> x = runq[i] \/ x \in Elems(sq.bucket[runq[i]])
      BY <1>1, Zenon
    <2> QED
      BY <2>1, <2>2, Zenon
  <1>5. \A x : x \in Elems(runq) <=> \E i \in 1..Len(runq) : x = runq[i]
    BY DEF Elems
  <1> QED
    BY <1>2, <1>3, <1>4, <1>5 DEF Staged

\* Staged hosts that keep their buckets keep their batches.
LEMMA BatchesKept ==
    ASSUME Known, runq' = runq, Kept(sq.bucket, sq'.bucket, runq)
    PROVE  Bts' = Bts
  <1>1. \A i \in 1..Len(runq) : sq'.bucket[runq[i]] = sq.bucket[runq[i]]
    BY DEF Kept, Elems
  <1> QED
    BY <1>1 DEF Bts

\* A call of the scheduler puts a context in a line or takes it off its line.
LEMMA CallsRefine ==
    ASSUME Known, Known', NEW c \in Ctx
    PROVE  /\ Unschedule(c) => TM!Cancel(c)
           /\ \A k \in Key, prio \in BOOLEAN : Schedule(c, k, prio) => TM!Put(c, k, prio)
  <1> DEFINE u == Unlinked(sq, c)
  <1>0. sq \in SQ /\ runq \in Seq(Ctx) /\ tmp \in Seq(Ctx)
        /\ Good(sq.trie, sq.bucket, sq.expire, runq, tmp)
    BY DEF Known, GoodNow
  <1>1. ASSUME ~ Stg(c, sq.bucket, runq, tmp)
        PROVE  /\ u \in SQ
               /\ Free(c, u.trie, u.bucket, u.expire, runq, tmp)
               /\ Good(u.trie, u.bucket, u.expire, runq, tmp)
               /\ Kept(sq.bucket, u.bucket, runq)
               /\ \A j \in Key : Ln(u.trie, u.bucket, j) = DTQUEUE_REMOVE(Line(j), c)
    <2>1. u \in SQ /\ Dropped(c, sq.trie, sq.bucket, u.trie, u.bucket, u.expire, runq, tmp)
      BY <1>0, <1>1, RemoveGood, Zenon
    <2>2. Free(c, u.trie, u.bucket, u.expire, runq, tmp)
      BY <1>0, <1>1, UnlinkedIsFree, Zenon
    <2>3. \A j \in Key : Line(j) = Ln(sq.trie, sq.bucket, j)
      BY DEF Known
    <2> HIDE DEF u
    <2> QED
      BY <2>1, <2>2, <2>3 DEF Dropped
  <1>2. \A j \in Key : Line(j)' = Ln(sq'.trie, sq'.bucket, j)
    BY DEF Known
  <1>3. TM!Left(c) = [j \in Key |-> DTQUEUE_REMOVE(Line(j), c)]
    BY DEF TM!Left, TM!Key, Key, TM!DTQUEUE_REMOVE, DTQUEUE_REMOVE, TM!Elems, Elems
  <1>4. c \notin TM!Due <=> ~ Stg(c, sq.bucket, runq, tmp)
    BY DueIsStaged DEF Known
  <1>5. ASSUME Unschedule(c) PROVE TM!Cancel(c)
    <2>1. /\ phase # "collect" /\ ~ Stg(c, sq.bucket, runq, tmp) /\ sq' = u
          /\ runq' = runq /\ tmp' = tmp /\ now' = now /\ phase' = phase
      BY <1>5 DEF Unschedule, Known, Unlinked
    <2>2. Bts' = Bts
      BY <2>1, <1>1, BatchesKept
    <2>3. Lns' = TM!Left(c)
      BY <2>1, <1>1, <1>2, <1>3 DEF Lns
    <2> QED
      BY <2>1, <2>2, <2>3, <1>4 DEF TM!Cancel, Lns, Bts
  <1>6. ASSUME NEW k \in Key, NEW prio \in BOOLEAN, Schedule(c, k, prio)
        PROVE  TM!Put(c, k, prio)
    <2> DEFINE r == Enqueued(u, c, k, prio)
    <2>1. /\ phase # "collect" /\ ~ Stg(c, sq.bucket, runq, tmp)
          /\ runq' = runq /\ tmp' = tmp /\ now' = now /\ phase' = phase
          /\ sq' = reschedule(sq, c, k, prio)
      BY <1>6 DEF Schedule, Known
    <2>2. sq' = r
      BY <2>1, <1>0, RescheduleSteps
    <2>3. Joined(c, k, Arrival(u, c, k, prio), u.trie, u.bucket,
                 r.trie, r.bucket, r.expire, runq, tmp)
      BY <2>1, <1>0, <1>1, EnqueueGood, Zenon
    <2> HIDE DEF r
    <2>4. /\ Kept(u.bucket, r.bucket, runq)
          /\ Ln(r.trie, r.bucket, k) = Arrival(u, c, k, prio)
          /\ \A j \in Key : j # k => Ln(r.trie, r.bucket, j) = Ln(u.trie, u.bucket, j)
      BY <2>3 DEF Joined
    <2>5. Bts' = Bts
      <3>1. Kept(sq.bucket, sq'.bucket, runq)
        BY <2>1, <2>2, <2>4, <1>1 DEF Kept
      <3> QED
        BY <3>1, <2>1, BatchesKept
    <2>6. Arrival(u, c, k, prio) = TM!Entered(DTQUEUE_REMOVE(Line(k), c), c, prio)
      BY <2>1, <1>1 DEF Arrival, TM!Entered
    <2>7. \A j \in Key : Line(j)' =
             IF j = k THEN TM!Entered(DTQUEUE_REMOVE(Line(k), c), c, prio)
             ELSE DTQUEUE_REMOVE(Line(j), c)
      BY <2>1, <2>2, <2>4, <2>6, <1>1, <1>2
    <2>8. Lns' = [TM!Left(c) EXCEPT ![k] = TM!Entered(@, c, prio)]
      BY <2>7, <1>3 DEF Lns
    <2> QED
      BY <2>1, <2>5, <2>8, <1>4 DEF TM!Put, Lns, Bts
  <1> QED
    BY <1>5, <1>6

\* The earliest due node is the earliest due line.
LEMMA FirstIsMin ==
    ASSUME Known, now \in Nat, NEW k \in Key
    PROVE  TM!First(k) <=> MinExpired(k)
  <1>1. /\ sq.trie \in [Key -> Ctx \cup {NULL}] /\ sq.bucket \in [Ctx -> Seq(Ctx)]
        /\ Keyed(sq.trie, sq.bucket, sq.expire)
    BY DEF Known, GoodNow, SQ, Good
  <1>2. \A j \in Key : Line(j) # <<>> <=> sq.trie[j] # NULL
    <2> TAKE j \in Key
    <2>1. CASE sq.trie[j] = NULL
      BY <2>1 DEF Line
    <2>2. CASE sq.trie[j] # NULL
      <3>1. sq.trie[j] \in Ctx /\ sq.bucket[sq.trie[j]] \in Seq(Ctx)
        BY <2>2, <1>1
      <3>2. <<sq.trie[j]>> \o sq.bucket[sq.trie[j]] # <<>>
        BY <3>1, InsertElems
      <3> QED
        BY <2>2, <3>2 DEF Line
    <2> QED
      BY <2>1, <2>2
  <1>3. sq.trie[k] # NULL => sq.expire[sq.trie[k]] = k
    BY <1>1 DEF Keyed
  <1>4. TM!First(k) <=> /\ Line(k) # <<>> /\ k < now
                        /\ \A j \in Key : Line(j) # <<>> => k <= j
    BY DEF TM!First, TM!Key, Key
  <1> QED
    BY <1>2, <1>3, <1>4 DEF MinExpired, IsMin

\* The first loop of the walk takes lines.
LEMMA CollectRefines ==
    ASSUME Known, Known', now \in Nat
    PROVE  /\ \A k \in Key : Collect(k) => TM!Take(k)
           /\ CollectDone => TM!Taken
  <1>0. /\ sq.trie \in [Key -> Ctx \cup {NULL}] /\ sq.bucket \in [Ctx -> Seq(Ctx)]
        /\ runq \in Seq(Ctx) /\ sq \in SQ
    BY DEF Known, GoodNow, SQ
  <1>1. ASSUME NEW k \in Key, Collect(k) PROVE TM!Take(k)
    <2> DEFINE h == sq.trie[k]
    <2>1. /\ phase = "collect" /\ MinExpired(k) /\ runq' = Append(runq, h)
          /\ tmp' = tmp /\ now' = now /\ phase' = phase
          /\ sq' = [sq EXCEPT !.trie[k] = NULL]
      BY <1>1 DEF Collect
    <2>2. sq'.trie = [sq.trie EXCEPT ![k] = NULL] /\ sq'.bucket = sq.bucket
      BY <2>1, <1>0 DEF SQ
    <2>3. h \in Ctx /\ h # NULL /\ Line(k) = <<h>> \o sq.bucket[h]
      BY <2>1, <1>0 DEF MinExpired, IsMin, Line
    <2>4. \A j \in Key : Line(j)' = IF j = k THEN <<>> ELSE Line(j)
      BY <2>2, <1>0 DEF Line
    <2>5. Lns' = [Lns EXCEPT ![k] = <<>>]
      BY <2>4 DEF Lns
    <2>6. Bts' = Append(Bts, Line(k))
      <3>1. Bts \in Seq(Seq(Ctx)) /\ Len(Bts) = Len(runq)
            /\ \A i \in 1..Len(runq) : Bts[i] = <<runq[i]>> \o sq.bucket[runq[i]]
        BY BatchType
      <3>2. /\ Len(runq') = Len(runq) + 1 /\ runq'[Len(runq) + 1] = h
            /\ \A i \in 1..Len(runq) : runq'[i] = runq[i]
        BY <2>1, <2>3, <1>0
      <3>3. Bts' = [i \in 1..(Len(runq) + 1) |-> <<runq'[i]>> \o sq.bucket[runq'[i]]]
        BY <2>2, <3>2 DEF Bts
      <3>4. \A i \in 1..(Len(runq) + 1) :
              <<runq'[i]>> \o sq.bucket[runq'[i]] =
                 IF i = Len(runq) + 1 THEN Line(k) ELSE Bts[i]
        <4> TAKE i \in 1..(Len(runq) + 1)
        <4>1. CASE i = Len(runq) + 1
          BY <4>1, <2>3, <3>2
        <4>2. CASE i # Len(runq) + 1
          <5>1. i \in 1..Len(runq)
            BY <4>2, <1>0
          <5> QED
            BY <4>2, <5>1, <3>1, <3>2
        <4> QED
          BY <4>1, <4>2
      <3>5. Append(Bts, Line(k)) =
              [i \in 1..(Len(runq) + 1) |-> IF i = Len(runq) + 1 THEN Line(k) ELSE Bts[i]]
        <4>1. Append(Bts, Line(k)) = [i \in 1..(Len(Bts) + 1) |->
                 IF i = Len(Bts) + 1 THEN Line(k) ELSE Bts[i]]
          <5>1. Line(k) \in Seq(Ctx)
            BY <2>3, <1>0, InsertElems
          <5> QED
            BY <5>1, <3>1, AppendIs
        <4> QED
          BY <4>1, <3>1
      <3> QED
        BY <3>3, <3>4, <3>5
    <2>7. TM!First(k)
      BY <2>1, FirstIsMin
    <2> QED
      BY <2>1, <2>5, <2>6, <2>7 DEF TM!Take, Lns, Bts
  <1>2. ASSUME CollectDone PROVE TM!Taken
    <2>1. /\ phase = "collect" /\ phase' = "run" /\ sq' = sq /\ runq' = runq
          /\ tmp' = tmp /\ now' = now /\ \A k \in Key : ~ MinExpired(k)
      BY <1>2 DEF CollectDone
    <2>2. \A k \in Key : ~ TM!First(k)
      BY <2>1, FirstIsMin
    <2>3. Lns' = Lns /\ Bts' = Bts
      BY <2>1 DEF Lns, Bts, Line
    <2> QED
      BY <2>1, <2>2, <2>3 DEF TM!Taken, TM!Key, Key, Lns, Bts
  <1> QED
    BY <1>1, <1>2

\* The second loop of the walk serves them.
LEMMA RunRefines ==
    ASSUME Known, Known'
    PROVE  /\ PopHost => TM!ServeFirst
           /\ PopBucket => TM!ServeNext
           /\ SiftDone => TM!Finish
  <1>0. /\ sq.trie \in [Key -> Ctx \cup {NULL}] /\ sq.bucket \in [Ctx -> Seq(Ctx)]
        /\ runq \in Seq(Ctx) /\ sq \in SQ
        /\ Once(sq.trie, sq.bucket, runq, tmp)
    BY DEF Known, GoodNow, SQ, Good
  <1>1. ASSUME PopHost PROVE TM!ServeFirst
    <2> DEFINE h == Head(runq)
    <2>1. /\ phase = "run" /\ tmp = <<>> /\ runq # <<>> /\ runq' = Tail(runq)
          /\ tmp' = sq.bucket[h] /\ now' = now /\ phase' = phase
          /\ sq' = [sq EXCEPT !.expire[h] = UNDEFINED, !.bucket[h] = <<>>]
      BY <1>1 DEF PopHost
    <2>2. sq'.trie = sq.trie /\ sq'.bucket = [sq.bucket EXCEPT ![h] = <<>>]
      BY <2>1, <1>0 DEF SQ
    <2>3. /\ h \in Ctx /\ 1 \in 1..Len(runq) /\ h = runq[1]
          /\ sq.bucket[h] \in Seq(Ctx) /\ h \in Elems(runq)
      <3>1. h \in Ctx /\ 1 \in 1..Len(runq) /\ h = runq[1] /\ h \in Elems(runq)
        BY <2>1, <1>0, HeadIs, Zenon
      <3> HIDE DEF h
      <3> QED
        BY <3>1, <1>0
    <2>4. \A k \in Key : sq.trie[k] # NULL => sq.trie[k] # h
      BY <2>3, <1>0 DEF Once
    <2>5. \A k \in Key : Line(k)' = Line(k)
      BY <2>2, <2>4, <1>0 DEF Line
    <2>6. Lns' = Lns
      BY <2>5 DEF Lns
    <2>7. Bts \in Seq(Seq(Ctx)) /\ Len(Bts) = Len(runq) /\ Bts # <<>>
          /\ Head(Bts) = <<h>> \o sq.bucket[h]
          /\ \A i \in 1..Len(runq) : Bts[i] = <<runq[i]>> \o sq.bucket[runq[i]]
      <3>1. Bts \in Seq(Seq(Ctx)) /\ Len(Bts) = Len(runq)
            /\ \A i \in 1..Len(runq) : Bts[i] = <<runq[i]>> \o sq.bucket[runq[i]]
        BY BatchType
      <3> HIDE DEF h
      <3>2. Bts # <<>>
        BY <3>1, <2>3
      <3>3. Head(Bts) = Bts[1]
        BY <3>1, <3>2, HeadIs, Zenon
      <3>4. Bts[1] = <<h>> \o sq.bucket[h]
        BY <3>1, <2>3
      <3> QED
        BY <3>1, <3>2, <3>3, <3>4
    <2> HIDE DEF h
    <2>8. Tail(Head(Bts)) = sq.bucket[h]
      <3>1. Tail(<<h>> \o sq.bucket[h]) = sq.bucket[h]
        BY <2>3, InsertElems
      <3> QED
        BY <3>1, <2>7
    <2>9. Bts' = Tail(Bts)
      <3>1. /\ Len(runq') = Len(runq) - 1
            /\ \A i \in 1..Len(runq') : /\ i + 1 \in 1..Len(runq)
                                         /\ runq'[i] = runq[i + 1]
                                         /\ runq[i + 1] \in Ctx
        BY <2>1, <2>3, <1>0
      <3>2. \A i \in 1..Len(runq') : runq[i + 1] # h
        BY <3>1, <2>3, <1>0 DEF Once, Distinct
      <3>3. \A i \in 1..Len(runq') :
               <<runq'[i]>> \o sq'.bucket[runq'[i]] = Bts[i + 1]
        <4> TAKE i \in 1..Len(runq')
        <4>1. sq'.bucket[runq[i + 1]] = sq.bucket[runq[i + 1]]
          BY <3>1, <3>2, <2>2, <1>0
        <4>2. Bts[i + 1] = <<runq[i + 1]>> \o sq.bucket[runq[i + 1]]
          BY <3>1, <2>7
        <4> QED
          BY <4>1, <4>2, <3>1
      <3>4. Bts' = [i \in 1..(Len(runq) - 1) |-> Bts[i + 1]]
        BY <3>1, <3>3 DEF Bts
      <3>5. Tail(Bts) = [i \in 1..(Len(Bts) - 1) |-> Bts[i + 1]]
        BY <2>7, TailIs, Zenon
      <3> QED
        BY <3>4, <3>5, <2>7
    <2> QED
      BY <2>1, <2>6, <2>7, <2>8, <2>9 DEF TM!ServeFirst, Lns, Bts
  <1>2. ASSUME PopBucket PROVE TM!ServeNext
    <2>1. /\ phase = "run" /\ tmp # <<>> /\ tmp' = Tail(tmp) /\ runq' = runq
          /\ now' = now /\ phase' = phase
          /\ sq' = [sq EXCEPT !.expire[Head(tmp)] = UNDEFINED]
      BY <1>2 DEF PopBucket
    <2>2. sq'.trie = sq.trie /\ sq'.bucket = sq.bucket
      BY <2>1, <1>0 DEF SQ
    <2>3. Lns' = Lns /\ Bts' = Bts
      BY <2>1, <2>2 DEF Lns, Bts, Line
    <2> QED
      BY <2>1, <2>3 DEF TM!ServeNext, Lns, Bts
  <1>3. ASSUME SiftDone PROVE TM!Finish
    <2>1. /\ phase = "run" /\ runq = <<>> /\ tmp = <<>> /\ phase' = "loop"
          /\ sq' = sq /\ runq' = runq /\ tmp' = tmp /\ now' = now
      BY <1>3 DEF SiftDone
    <2>2. Lns' = Lns /\ Bts' = Bts /\ Bts = <<>>
      <3>1. Bts \in Seq(Seq(Ctx)) /\ Len(Bts) = 0
        BY <2>1, BatchType
      <3> QED
        BY <2>1, <3>1 DEF Lns, Bts, Line
    <2> QED
      BY <2>1, <2>2 DEF TM!Finish, Lns, Bts
  <1> QED
    BY <1>1, <1>2, <1>3

\* The queue starts as an empty multimap.
LEMMA InitRefines == SQInit => TM!TMInit
  BY DEF SQInit, TM!TMInit, TM!Key, Key, Line

\* Every step of the queue is a step of the multimap or leaves it alone.
LEMMA StepRefines ==
    SQInv /\ SQInv' /\ [SQNext]_sqvars => [TM!TMNext]_(TM!tmvars)
  <1> SUFFICES ASSUME SQInv, SQInv', [SQNext]_sqvars
               PROVE  [TM!TMNext]_(TM!tmvars)
    OBVIOUS
  <1>0. Known /\ Known' /\ now \in Nat
    BY InvKnown, InvKnownNext DEF SQInv, SQTypeOK
  <1>1. ASSUME NEW c \in Ctx, NEW k \in Key, NEW prio \in BOOLEAN, Schedule(c, k, prio)
        PROVE  TM!TMNext
    <2>1. TM!Put(c, k, prio)
      BY <1>0, <1>1, CallsRefine
    <2> QED
      BY <2>1 DEF TM!TMNext, TM!Key, Key
  <1>2. ASSUME NEW c \in Ctx, Unschedule(c) PROVE TM!TMNext
    <2>1. TM!Cancel(c)
      BY <1>0, <1>2, CallsRefine
    <2> QED
      BY <2>1 DEF TM!TMNext
  <1>3. ASSUME NEW t \in now..MaxNow, Prepare(t) PROVE TM!TMNext
    <2>1. TM!Start(t)
      BY <1>3 DEF Prepare, TM!Start, Line
    <2> QED
      BY <2>1 DEF TM!TMNext
  <1>4. ASSUME NEW k \in Key, Collect(k) PROVE TM!TMNext
    <2>1. TM!Take(k)
      BY <1>0, <1>4, CollectRefines
    <2> QED
      BY <2>1 DEF TM!TMNext, TM!Key, Key
  <1>5. CASE CollectDone
    BY <1>0, <1>5, CollectRefines DEF TM!TMNext
  <1>6. CASE PopHost \/ PopBucket \/ SiftDone
    BY <1>0, <1>6, RunRefines DEF TM!TMNext
  <1>7. CASE UNCHANGED sqvars
    BY <1>7 DEF sqvars, TM!tmvars, Line
  <1> QED
    BY <1>1, <1>2, <1>3, <1>4, <1>5, <1>6, <1>7 DEF SQNext

\* The sleep queue implements the multimap: no interleaving of calls with the
\* walk loses a thread, serves one twice in a walk, or serves one too early or
\* out of line.
THEOREM SleepQueueIsTimerMap == SQSpec => IsTimerMap
  BY SleepQueueInvariant, InitRefines, StepRefines, PTL
     DEF SQSpec, IsTimerMap, TM!TMSpec
=============================================================================
