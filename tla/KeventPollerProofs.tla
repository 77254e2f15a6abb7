------------------------- MODULE KeventPollerProofs --------------------------
(***************************************************************************)
(* What the kqueue poller promises to the threads that wait for one event  *)
(* at a time, and that mnthr_loop does not leave a waiting thread behind,  *)
(* for any number of threads and descriptors.                              *)
(***************************************************************************)
EXTENDS KeventPoller, DTQueueProofs, FiniteSetTheorems

\* The threads that do not call mnthr_wait_for_events.
Plain == Thr \ Selectors

-----------------------------------------------------------------------------
(***************************************************************************)
(* The change list.                                                        *)
(***************************************************************************)

Add(e, t) == [op |-> "ADD", ev |-> e, thr |-> t]

\* Behind position i the change list q deletes event e.
DeletedBehind(q, i, e) ==
    \E j \in 1..Len(q) : j > i /\ q[j].op = "DELETE" /\ q[j].ev = e

\* No change of q is about event e.
Untouched(q, e) == \A j \in 1..Len(q) : q[j].ev # e

\* The last change of q about event e adds it for thread t.
AddedLast(q, t, e) ==
    \E i \in 1..Len(q) : /\ q[i] = Add(e, t)
                         /\ \A j \in 1..Len(q) : j > i => q[j].ev # e

\* q2 is q with the changes behind it that new_event makes of es.
Extended(q, q2, op, es, t) ==
    /\ q2 \in Seq(Change)
    /\ Len(q2) = Len(q) + Len(es)
    /\ \A i \in 1..Len(q) : q2[i] = q[i]
    /\ \A i \in 1..Len(es) : q2[Len(q) + i] = [op |-> op, ev |-> es[i], thr |-> t]
    /\ \A i \in 1..Len(q2) : i > Len(q) =>
          \E e \in Elems(es) : q2[i] = [op |-> op, ev |-> e, thr |-> t]

\* The events of a wait are a short queue without repetitions.
LEMMA WatchedIs ==
    /\ <<>> \in Watched
    /\ \A e \in Event : <<e>> \in Watched
    /\ \A f \in Fd : Both(f) \in Watched /\ Both(f) # <<>>
    /\ \A es \in Watched : es \in Seq(Event) /\ Distinct(es) /\ Len(es) \in 0..2
  <1>1. \A e \in Event : <<e>> \in Seq(Event) /\ Distinct(<<e>>) /\ Len(<<e>>) = 1
    BY DEF Distinct
  <1>2. ASSUME NEW f \in Fd
        PROVE  Both(f) \in Seq(Event) /\ Distinct(Both(f)) /\ Len(Both(f)) = 2
    <2>1. <<f, "READ">> \in Event /\ <<f, "WRITE">> \in Event /\ <<f, "READ">> # <<f, "WRITE">>
      BY DEF Event, Filter
    <2> QED
      BY <2>1 DEF Both, Distinct
  <1>3. <<>> \in Seq(Event) /\ Distinct(<<>>) /\ Len(<<>>) = 0
    BY DEF Distinct
  <1>4. \A f \in Fd : Both(f) # <<>>
    BY DEF Both
  <1> HIDE DEF Both
  <1>5. <<>> \in Watched /\ (\A e \in Event : <<e>> \in Watched) /\ \A f \in Fd : Both(f) \in Watched
    BY DEF Watched
  <1>6. ASSUME NEW es \in Watched
        PROVE  es \in Seq(Event) /\ Distinct(es) /\ Len(es) \in 0..2
    <2>1. es = <<>> \/ (\E e \in Event : es = <<e>>) \/ \E f \in Fd : es = Both(f)
      BY DEF Watched
    <2>2. CASE es = <<>>
      BY <2>2, <1>3
    <2>3. CASE \E e \in Event : es = <<e>>
      BY <2>3, <1>1
    <2>4. CASE \E f \in Fd : es = Both(f)
      BY <2>4, <1>2
    <2> QED
      BY <2>1, <2>2, <2>3, <2>4
  <1> QED
    BY <1>4, <1>5, <1>6

\* new_event puts the changes it is given behind the earlier ones.
LEMMA NewEventExtends ==
    ASSUME NEW q \in Seq(Change), NEW op \in {"ADD", "DELETE"}, NEW es \in Watched,
           NEW t \in Thr
    PROVE  Extended(q, q \o Changes(op, es, t), op, es, t)
  <1> DEFINE c == Changes(op, es, t)
  <1>1. es \in Seq(Event)
    BY WatchedIs
  <1>2. c \in Seq(Change) /\ Len(c) = Len(es)
        /\ \A i \in 1..Len(es) : c[i] = [op |-> op, ev |-> es[i], thr |-> t]
    BY <1>1 DEF Changes, Change
  <1> HIDE DEF c
  <1>3. q \o c \in Seq(Change) /\ Len(q \o c) = Len(q) + Len(c)
        /\ (\A i \in 1..Len(q) : (q \o c)[i] = q[i])
        /\ (\A i \in 1..Len(c) : (q \o c)[Len(q) + i] = c[i])
    BY <1>2
  <1>4. ASSUME NEW i \in 1..Len(q \o c), i > Len(q)
        PROVE  \E e \in Elems(es) : (q \o c)[i] = [op |-> op, ev |-> e, thr |-> t]
    <2>1. i - Len(q) \in 1..Len(es) /\ Len(q) + (i - Len(q)) = i
      BY <1>1, <1>2, <1>3, <1>4
    <2>2. (q \o c)[i] = [op |-> op, ev |-> es[i - Len(q)], thr |-> t]
      BY <1>2, <1>3, <2>1
    <2> QED
      BY <2>1, <2>2 DEF Elems
  <1>5. Extended(q, q \o c, op, es, t)
    BY <1>2, <1>3, <1>4 DEF Extended
  <1> QED
    BY <1>5 DEF c

\* Every event of es has a change behind the earlier ones.
LEMMA ExtendedHas ==
    ASSUME NEW q \in Seq(Change), NEW q2, NEW op \in {"ADD", "DELETE"}, NEW es \in Watched,
           NEW t \in Thr, Extended(q, q2, op, es, t), NEW e \in Elems(es)
    PROVE  \E i \in 1..Len(q2) :
              /\ i > Len(q) /\ q2[i] = [op |-> op, ev |-> e, thr |-> t]
              /\ \A j \in 1..Len(q2) : j > i => q2[j].ev # e
  <1>1. es \in Seq(Event) /\ Distinct(es)
    BY WatchedIs
  <1>2. PICK k \in 1..Len(es) : es[k] = e
    BY DEF Elems
  <1>3. Len(q) + k \in 1..Len(q2) /\ Len(q) + k > Len(q) /\ Len(q) \in Nat
        /\ q2[Len(q) + k] = [op |-> op, ev |-> e, thr |-> t]
    BY <1>1, <1>2 DEF Extended
  <1>4. ASSUME NEW j \in 1..Len(q2), j > Len(q) + k
        PROVE  q2[j].ev # e
    <2>1. j - Len(q) \in 1..Len(es) /\ j - Len(q) > k /\ Len(q) + (j - Len(q)) = j
      BY <1>1, <1>4 DEF Extended
    <2>2. q2[Len(q) + (j - Len(q))] = [op |-> op, ev |-> es[j - Len(q)], thr |-> t]
      BY <2>1 DEF Extended
    <2>3. q2[j].ev = es[j - Len(q)]
      BY <2>1, <2>2
    <2> QED
      BY <2>1, <2>3, <1>1, <1>2 DEF Distinct
  <1> QED
    BY <1>3, <1>4

\* What the end of the list says about an event that was not named again stays.
LEMMA ExtendedOther ==
    ASSUME NEW q \in Seq(Change), NEW q2, NEW op \in {"ADD", "DELETE"}, NEW es \in Watched,
           NEW t \in Thr, Extended(q, q2, op, es, t), NEW e, e \notin Elems(es), NEW u
    PROVE  /\ Untouched(q2, e) <=> Untouched(q, e)
           /\ AddedLast(q2, u, e) <=> AddedLast(q, u, e)
  <1>1. Len(q) \in Nat /\ Len(q2) \in Nat /\ Len(q) <= Len(q2)
        /\ \A i \in 1..Len(q) : q2[i] = q[i] /\ i \in 1..Len(q2)
    BY WatchedIs DEF Extended
  <1>2. \A j \in 1..Len(q2) : j > Len(q) => q2[j].ev # e
    <2>1. \A i \in 1..Len(q2) : i > Len(q) =>
              \E x \in Elems(es) : q2[i] = [op |-> op, ev |-> x, thr |-> t]
      BY DEF Extended
    <2> SUFFICES ASSUME NEW j \in 1..Len(q2), j > Len(q) PROVE q2[j].ev # e
      OBVIOUS
    <2>2. PICK x \in Elems(es) : q2[j] = [op |-> op, ev |-> x, thr |-> t]
      BY <2>1
    <2>3. q2[j].ev = x
      BY <2>2
    <2> QED
      BY <2>3
  <1>3. Untouched(q2, e) <=> Untouched(q, e)
    BY <1>1, <1>2 DEF Untouched
  <1>4. ASSUME AddedLast(q, u, e) PROVE AddedLast(q2, u, e)
    BY <1>1, <1>2, <1>4 DEF AddedLast
  <1>5. ASSUME AddedLast(q2, u, e) PROVE AddedLast(q, u, e)
    <2>1. PICK i \in 1..Len(q2) : q2[i] = Add(e, u) /\ \A j \in 1..Len(q2) : j > i => q2[j].ev # e
      BY <1>5 DEF AddedLast
    <2>2. q2[i].ev = e
      BY <2>1 DEF Add
    <2>3. i \in 1..Len(q)
      BY <1>1, <1>2, <2>2
    <2> QED
      BY <2>1, <2>3, <1>1 DEF AddedLast
  <1> QED
    BY <1>3, <1>4, <1>5

\* An event that is added again is added last for the thread it is added for.
LEMMA ExtendedAdded ==
    ASSUME NEW q \in Seq(Change), NEW q2, NEW es \in Watched, NEW t \in Thr,
           Extended(q, q2, "ADD", es, t), NEW e, e \in Elems(es), NEW u
    PROVE  ~ Untouched(q2, e) /\ (AddedLast(q2, u, e) <=> u = t)
  <1>1. PICK i \in 1..Len(q2) :
              /\ i > Len(q) /\ q2[i] = [op |-> "ADD", ev |-> e, thr |-> t]
              /\ \A j \in 1..Len(q2) : j > i => q2[j].ev # e
    BY ExtendedHas
  <1>2. q2[i].ev = e
    BY <1>1
  <1>3. ~ Untouched(q2, e)
    BY <1>2 DEF Untouched
  <1>4. ASSUME u = t PROVE AddedLast(q2, u, e)
    BY <1>1, <1>4 DEF AddedLast, Add
  <1>5. ASSUME AddedLast(q2, u, e) PROVE u = t
    <2>1. PICK k \in 1..Len(q2) : q2[k] = Add(e, u) /\ \A j \in 1..Len(q2) : j > k => q2[j].ev # e
      BY <1>5 DEF AddedLast
    <2>2. q2[k].ev = e /\ q2[k].op = "ADD" /\ q2[k].thr = u
      BY <2>1 DEF Add
    <2>3. Len(q2) \in Nat
      BY DEF Extended
    <2>4. k = i
      BY <2>1, <2>2, <2>3, <1>1, <1>2
    <2> QED
      BY <2>2, <2>4, <1>1
  <1> QED
    BY <1>3, <1>4, <1>5

\* An event that is deleted is added last for nobody.
LEMMA ExtendedDeleted ==
    ASSUME NEW q \in Seq(Change), NEW q2, NEW es \in Watched, NEW t \in Thr,
           Extended(q, q2, "DELETE", es, t), NEW e, e \in Elems(es), NEW u
    PROVE  ~ Untouched(q2, e) /\ ~ AddedLast(q2, u, e)
  <1>1. PICK i \in 1..Len(q2) :
              /\ i > Len(q) /\ q2[i] = [op |-> "DELETE", ev |-> e, thr |-> t]
              /\ \A j \in 1..Len(q2) : j > i => q2[j].ev # e
    BY ExtendedHas
  <1>2. q2[i].ev = e
    BY <1>1
  <1>3. ~ Untouched(q2, e)
    BY <1>2 DEF Untouched
  <1>4. ASSUME AddedLast(q2, u, e) PROVE FALSE
    <2>1. PICK k \in 1..Len(q2) : q2[k] = Add(e, u) /\ \A j \in 1..Len(q2) : j > k => q2[j].ev # e
      BY <1>4 DEF AddedLast
    <2>2. q2[k].ev = e /\ q2[k].op = "ADD" /\ q2[k].thr = u
      BY <2>1 DEF Add
    <2>3. Len(q2) \in Nat
      BY DEF Extended
    <2>4. k = i
      BY <2>1, <2>2, <2>3, <1>1, <1>2
    <2> QED
      BY <2>2, <2>4, <1>1
  <1> QED
    BY <1>3, <1>4

\* The kernel takes the first change: what the end of the list says stays, but for
\* the event of a change that was the only one about it.
LEMMA TakenFirst ==
    ASSUME NEW q \in Seq(Change), q # <<>>
    PROVE  /\ Head(q) \in Change /\ 1 \in 1..Len(q) /\ q[1] = Head(q)
           /\ Tail(q) \in Seq(Change) /\ Len(Tail(q)) = Len(q) - 1
           /\ \A i \in 1..Len(Tail(q)) : i + 1 \in 1..Len(q) /\ Tail(q)[i] = q[i + 1]
           /\ \A i \in 1..Len(q) : i # 1 => i - 1 \in 1..Len(Tail(q)) /\ Tail(q)[i - 1] = q[i]
  OBVIOUS

\* What is said about another event stays.
LEMMA TakenOther ==
    ASSUME NEW q \in Seq(Change), q # <<>>, NEW e, e # Head(q).ev, NEW u
    PROVE  /\ Untouched(Tail(q), e) <=> Untouched(q, e)
           /\ AddedLast(Tail(q), u, e) <=> AddedLast(q, u, e)
  <1> DEFINE q2 == Tail(q)
  <1>1. /\ 1 \in 1..Len(q) /\ q[1] = Head(q)
        /\ Len(q) \in Nat /\ Len(q2) = Len(q) - 1
        /\ \A i \in 1..Len(q2) : i + 1 \in 1..Len(q) /\ q2[i] = q[i + 1]
        /\ \A i \in 1..Len(q) : i # 1 => i - 1 \in 1..Len(q2) /\ q2[i - 1] = q[i]
    BY TakenFirst
  <1> HIDE DEF q2
  <1>2. Untouched(q2, e) <=> Untouched(q, e)
    BY <1>1 DEF Untouched
  <1>3. ASSUME AddedLast(q2, u, e) PROVE AddedLast(q, u, e)
    <2>1. PICK i \in 1..Len(q2) : q2[i] = Add(e, u) /\ \A j \in 1..Len(q2) : j > i => q2[j].ev # e
      BY <1>3 DEF AddedLast
    <2>2. i + 1 \in 1..Len(q) /\ q[i + 1] = Add(e, u)
      BY <1>1, <2>1
    <2>3. ASSUME NEW j \in 1..Len(q), j > i + 1 PROVE q[j].ev # e
      <3>1. j - 1 \in 1..Len(q2) /\ q2[j - 1] = q[j] /\ j - 1 > i
        BY <2>3, <1>1
      <3> QED
        BY <3>1, <2>1
    <2> QED
      BY <2>2, <2>3 DEF AddedLast
  <1>4. ASSUME AddedLast(q, u, e) PROVE AddedLast(q2, u, e)
    <2>1. PICK i \in 1..Len(q) : q[i] = Add(e, u) /\ \A j \in 1..Len(q) : j > i => q[j].ev # e
      BY <1>4 DEF AddedLast
    <2>2. q[i].ev = e
      BY <2>1 DEF Add
    <2>3. i - 1 \in 1..Len(q2) /\ q2[i - 1] = Add(e, u)
      BY <1>1, <2>1, <2>2
    <2>4. ASSUME NEW j \in 1..Len(q2), j > i - 1 PROVE q2[j].ev # e
      <3>1. j + 1 \in 1..Len(q) /\ q2[j] = q[j + 1] /\ j + 1 > i
        BY <2>4, <1>1
      <3> QED
        BY <3>1, <2>1
    <2> QED
      BY <2>3, <2>4 DEF AddedLast
  <1> QED
    BY <1>2, <1>3, <1>4 DEF q2

\* The same for the event of the first change.
LEMMA TakenNamed ==
    ASSUME NEW q \in Seq(Change), q # <<>>, NEW e, e = Head(q).ev, NEW u
    PROVE  /\ ~ Untouched(q, e)
           /\ AddedLast(q, u, e) <=>
                AddedLast(Tail(q), u, e) \/ (Untouched(Tail(q), e) /\ Head(q) = Add(e, u))
  <1> DEFINE q2 == Tail(q)
  <1>1. /\ 1 \in 1..Len(q) /\ q[1] = Head(q)
        /\ Len(q) \in Nat /\ Len(q2) = Len(q) - 1
        /\ \A i \in 1..Len(q2) : i + 1 \in 1..Len(q) /\ q2[i] = q[i + 1]
        /\ \A i \in 1..Len(q) : i # 1 => i - 1 \in 1..Len(q2) /\ q2[i - 1] = q[i]
    BY TakenFirst
  <1> HIDE DEF q2
  <1>2. ~ Untouched(q, e)
    BY <1>1 DEF Untouched
  <1>3. ASSUME AddedLast(q2, u, e) PROVE AddedLast(q, u, e)
    <2>1. PICK i \in 1..Len(q2) : q2[i] = Add(e, u) /\ \A j \in 1..Len(q2) : j > i => q2[j].ev # e
      BY <1>3 DEF AddedLast
    <2>2. i + 1 \in 1..Len(q) /\ q[i + 1] = Add(e, u)
      BY <1>1, <2>1
    <2>3. ASSUME NEW j \in 1..Len(q), j > i + 1 PROVE q[j].ev # e
      <3>1. j - 1 \in 1..Len(q2) /\ q2[j - 1] = q[j] /\ j - 1 > i
        BY <2>3, <1>1
      <3> QED
        BY <3>1, <2>1
    <2> QED
      BY <2>2, <2>3 DEF AddedLast
  <1>4. ASSUME Untouched(q2, e), Head(q) = Add(e, u) PROVE AddedLast(q, u, e)
    <2>1. ASSUME NEW j \in 1..Len(q), j > 1 PROVE q[j].ev # e
      <3>1. j - 1 \in 1..Len(q2) /\ q2[j - 1] = q[j]
        BY <2>1, <1>1
      <3> QED
        BY <3>1, <1>4 DEF Untouched
    <2> QED
      BY <1>1, <1>4, <2>1 DEF AddedLast
  <1>5. ASSUME AddedLast(q, u, e)
        PROVE  AddedLast(q2, u, e) \/ (Untouched(q2, e) /\ Head(q) = Add(e, u))
    <2>1. PICK i \in 1..Len(q) : q[i] = Add(e, u) /\ \A j \in 1..Len(q) : j > i => q[j].ev # e
      BY <1>5 DEF AddedLast
    <2>2. ASSUME NEW j \in 1..Len(q2), j > i - 1 PROVE q2[j].ev # e
      <3>1. j + 1 \in 1..Len(q) /\ q2[j] = q[j + 1] /\ j + 1 > i
        BY <2>2, <1>1
      <3> QED
        BY <3>1, <2>1
    <2>3. CASE i = 1
      BY <2>1, <2>2, <2>3, <1>1 DEF Untouched
    <2>4. CASE i # 1
      <3>1. i - 1 \in 1..Len(q2) /\ q2[i - 1] = Add(e, u)
        BY <1>1, <2>1, <2>4
      <3> QED
        BY <3>1, <2>2 DEF AddedLast
    <2> QED
      BY <2>3, <2>4
  <1> QED
    BY <1>2, <1>3, <1>4, <1>5 DEF q2
-----------------------------------------------------------------------------
(***************************************************************************)
(* Types, and who runs in which part of the loop.                          *)
(***************************************************************************)

\* One thread runs, and none from kevent() on up to the results; the walk is over
\* when kevent() is called, and the results are gone when the next walk begins.
Shape ==
    /\ \A t \in Thr : me = t <=> state[t] = "RESUMED"
    /\ phase \in {"kevent", "over"} => me = NoThread
    /\ phase # "sift" => runq = {}
    /\ phase \in {"sift", "over"} => kevents1 = <<>>
    /\ phase # "results" => iter = 1

Base == TypeOK /\ Shape

\* The loop starts in order.
LEMMA BaseInit == Init => Base
  <1> SUFFICES ASSUME Init PROVE Base
    OBVIOUS
  <1> USE KeventPollerAssumption DEF Init
  <1>1. TypeOK
    BY WatchedIs DEF TypeOK
  <1>2. Shape
    BY DEF Shape
  <1> QED
    BY <1>1, <1>2 DEF Base

\* A thread goes to sleep.
LEMMA BaseSleep ==
    ASSUME Base, NEW t \in Thr, mnthr_sleep(t)
    PROVE  Base'
  <1> USE DEF Base
  <1>1. TypeOK'
    BY KeventPollerAssumption DEF TypeOK, mnthr_sleep, kernel, counts, round, pvars, cvars, hist
  <1>2. Shape'
    BY KeventPollerAssumption DEF TypeOK, Shape, mnthr_sleep, kernel, counts, round, pvars, cvars, hist
  <1> QED
    BY <1>1, <1>2

\* A thread sets its return code.
LEMMA BaseRetval ==
    ASSUME Base, NEW t \in Thr, mnthr_set_retval(t)
    PROVE  Base'
  <1> USE DEF Base
  <1>1. TypeOK'
    BY KeventPollerAssumption DEF TypeOK, mnthr_set_retval, kernel, counts, round, pvars, cvars, hist
  <1>2. Shape'
    BY KeventPollerAssumption DEF TypeOK, Shape, mnthr_set_retval, kernel, counts, round, pvars, cvars, hist
  <1> QED
    BY <1>1, <1>2

\* A thread ends.
LEMMA BaseExit ==
    ASSUME Base, NEW t \in Thr, Exit(t)
    PROVE  Base'
  <1> USE DEF Base
  <1>1. TypeOK'
    BY KeventPollerAssumption, WatchedIs DEF TypeOK, Exit, kernel, counts, round, pvars, cvars, hist
  <1>2. Shape'
    BY KeventPollerAssumption, WatchedIs DEF TypeOK, Shape, Exit, kernel, counts, round, pvars, cvars, hist
  <1> QED
    BY <1>1, <1>2

\* A context is used again.
LEMMA BaseSpawn ==
    ASSUME Base, NEW t \in Thr, NEW u \in Thr, mnthr_spawn(t, u)
    PROVE  Base'
  <1> USE DEF Base
  <1>1. TypeOK'
    BY KeventPollerAssumption DEF TypeOK, mnthr_spawn, kernel, counts, round, pvars, cvars, hist
  <1>2. Shape'
    BY KeventPollerAssumption DEF TypeOK, Shape, mnthr_spawn, kernel, counts, round, pvars, cvars, hist
  <1> QED
    BY <1>1, <1>2

\* A descriptor is closed.
LEMMA BaseClose ==
    ASSUME Base, NEW t \in Thr, NEW f \in Fd, close(t, f)
    PROVE  Base'
  <1> USE DEF Base
  <1>1. TypeOK'
    BY KeventPollerAssumption DEF TypeOK, close, kernel, counts, round, pvars, cvars, hist
  <1>2. Shape'
    BY KeventPollerAssumption DEF TypeOK, Shape, close, kernel, counts, round, pvars, cvars, hist
  <1> QED
    BY <1>1, <1>2

\* A descriptor is opened again.
LEMMA BaseReopen ==
    ASSUME Base, NEW t \in Thr, NEW f \in Fd, reopen(t, f)
    PROVE  Base'
  <1> USE DEF Base
  <1>1. TypeOK'
    BY KeventPollerAssumption DEF TypeOK, reopen, kernel, counts, round, pvars, cvars, hist
  <1>2. Shape'
    BY KeventPollerAssumption DEF TypeOK, Shape, reopen, kernel, counts, round, pvars, cvars, hist
  <1> QED
    BY <1>1, <1>2

\* The loop sleeps, or ends.
LEMMA BaseIdle ==
    ASSUME Base, loop_idle
    PROVE  Base'
  <1> USE DEF Base
  <1>1. TypeOK'
    BY DEF TypeOK, loop_idle, kernel, counts, round, pvars, cvars, hist
  <1>2. Shape'
    BY DEF TypeOK, Shape, loop_idle, kernel, counts, round, pvars, cvars, hist
  <1> QED
    BY <1>1, <1>2

\* kevent() is called.
LEMMA BaseKevent ==
    ASSUME Base, loop_kevent
    PROVE  Base'
  <1> USE DEF Base
  <1>1. TypeOK'
    BY DEF TypeOK, loop_kevent, Max2, kernel, counts, round, pvars, cvars, hist
  <1>2. Shape'
    BY DEF TypeOK, Shape, loop_kevent, Max2, kernel, counts, round, pvars, cvars, hist
  <1> QED
    BY <1>1, <1>2

\* The kernel takes a change, or reports that it has failed.
LEMMA BaseChange ==
    ASSUME Base, kevent_change
    PROVE  Base'
  <1> USE DEF Base
  <1> DEFINE c == Head(kevents0)
             r == [ev |-> c.ev, thr |-> c.thr, error |-> TRUE]
  <1>1. /\ kevents0 \in Seq(Change) /\ kevents0 # <<>> /\ kevents0' = Tail(kevents0)
        /\ open' = open /\ event_count' = event_count /\ event_max' = event_max
        /\ iter' = iter /\ runq' = runq /\ phase' = phase /\ phase = "kevent"
        /\ pdata' = pdata /\ mask' = mask /\ idx' = idx
        /\ state' = state /\ call' = call /\ rc' = rc /\ due' = due /\ me' = me
        /\ failed' = failed /\ clash' = clash
    BY DEF TypeOK, kevent_change, kernel, counts, round, pvars, cvars, hist
  <1>2. c \in Change /\ kevents0' \in Seq(Change)
    BY <1>1, TakenFirst
  <1>3. r \in Result /\ c.ev \in Event /\ c.thr \in Thr
    BY <1>2 DEF Change, Result
  <1>4. knote' \in [Event -> Thr \cup {NoThread}] /\ clean' \in BOOLEAN
    <2>1. \/ knote' = knote
          \/ knote' = [knote EXCEPT ![c.ev] = IF c.op = "ADD" THEN c.thr ELSE NoThread]
      BY DEF kevent_change
    <2>2. clean' = clean \/ clean' = (clean /\ c.op = "ADD")
      BY DEF kevent_change
    <2>3. knote \in [Event -> Thr \cup {NoThread}] /\ clean \in BOOLEAN
      BY DEF TypeOK
    <2>4. knote' \in [Event -> Thr \cup {NoThread}]
      BY <2>1, <2>3, <1>3
    <2> QED
      BY <2>2, <2>3, <2>4
  <1>5. kevents1' \in Seq(Result) /\ Len(kevents1') <= event_max /\ iter' \in 1..(Len(kevents1') + 1)
    <2>1. kevents1' = kevents1 \/ (Len(kevents1) < event_max /\ kevents1' = Append(kevents1, r))
      BY DEF kevent_change
    <2>2. kevents1 \in Seq(Result) /\ Len(kevents1) <= event_max /\ event_max \in Nat
          /\ iter \in 1..(Len(kevents1) + 1)
      BY DEF TypeOK
    <2>3. r \in Result
      BY <1>3
    <2> HIDE DEF r
    <2>4. CASE kevents1' = kevents1
      BY <2>2, <2>4, <1>1
    <2>5. CASE Len(kevents1) < event_max /\ kevents1' = Append(kevents1, r)
      <3>1. kevents1' \in Seq(Result) /\ Len(kevents1') = Len(kevents1) + 1
        BY <2>2, <2>3, <2>5
      <3> QED
        BY <3>1, <2>2, <2>5, <1>1
    <2> QED
      BY <2>1, <2>4, <2>5
  <1>6. TypeOK'
    BY <1>1, <1>2, <1>4, <1>5 DEF TypeOK
  <1>7. Shape'
    BY <1>1 DEF Shape
  <1> QED
    BY <1>6, <1>7

\* A call that fails as a whole leaves nothing behind.
LEMMA BaseFails ==
    ASSUME Base, kevent_fails
    PROVE  Base'
  <1> USE DEF Base
  <1>0. kevents0' = <<>> /\ kevents1' = <<>> /\ phase = "kevent"
    BY DEF kevent_fails
  <1>1. phase' \in {"results", "over"}
        /\ knote' = knote /\ open' = open /\ event_count' = event_count /\ event_max' = event_max
        /\ iter' = iter /\ runq' = runq
        /\ pdata' = pdata /\ mask' = mask /\ idx' = idx
        /\ state' = state /\ call' = call /\ rc' = rc /\ due' = due /\ me' = me
        /\ failed' = failed /\ clash' = clash
    BY DEF kevent_fails, kernel, counts, round, pvars, cvars, hist
  <1>2. iter = 1
    BY <1>0 DEF Shape
  <1>3. kevents0' \in Seq(Change) /\ kevents1' \in Seq(Result) /\ Len(kevents1') = 0
    BY <1>0
  <1>4. TypeOK'
    <2>1. clean' = FALSE
      BY DEF kevent_fails
    <2>2. clean' \in BOOLEAN
      BY <2>1
    <2> QED
      BY <1>1, <1>2, <1>3, <2>2 DEF TypeOK
  <1>5. Shape'
    BY <1>0, <1>1, <1>2 DEF Shape
  <1> QED
    BY <1>4, <1>5

\* The results that kevent() leaves in kevents1: those of failed changes, or one for
\* each of some registered events, or none.
NewResults ==
    \/ kevents1' = kevents1
    \/ /\ kevents1 = <<>>
       /\ kevents1' \in Seq(Result) /\ Len(kevents1') <= event_max
       /\ \A i \in 1..Len(kevents1') : /\ knote[kevents1'[i].ev] # NoThread
                                       /\ kevents1'[i].thr = knote[kevents1'[i].ev]
                                       /\ ~ kevents1'[i].error
       /\ \A i, j \in 1..Len(kevents1') : i # j => kevents1'[i].ev # kevents1'[j].ev

\* kevent() changes kevents1 and the part of the loop, and nothing else.
LEMMA ReturnsIs ==
    ASSUME TypeOK, kevent_returns
    PROVE  /\ NewResults
           /\ kevents0 = <<>> /\ phase = "kevent" /\ phase' \in {"results", "over"}
           /\ phase' = "over" => /\ event_count = 0 /\ due = {}
                                 /\ kevents1 = <<>> /\ kevents1' = <<>>
           /\ kevents0' = kevents0 /\ knote' = knote /\ open' = open
           /\ event_count' = event_count /\ event_max' = event_max
           /\ iter' = iter /\ runq' = runq
           /\ pdata' = pdata /\ mask' = mask /\ idx' = idx
           /\ state' = state /\ call' = call /\ rc' = rc /\ due' = due /\ me' = me
           /\ failed' = failed /\ clean' = clean /\ clash' = clash
  <1>1. /\ kevents0 = <<>> /\ phase = "kevent"
        /\ kevents0' = kevents0 /\ knote' = knote /\ open' = open
        /\ event_count' = event_count /\ event_max' = event_max
        /\ iter' = iter /\ runq' = runq
        /\ pdata' = pdata /\ mask' = mask /\ idx' = idx
        /\ state' = state /\ call' = call /\ rc' = rc /\ due' = due /\ me' = me
        /\ failed' = failed /\ clean' = clean /\ clash' = clash
    BY DEF kevent_returns, kernel, counts, pvars, cvars, hist
  <1>2. \/ kevents1' = kevents1 /\ phase' = "results"
        \/ /\ kevents1 = <<>>
           /\ \E n \in 0..event_max : \E es \in [1..n -> {e \in Event : knote[e] # NoThread}] :
                /\ Distinct(es)
                /\ kevents1' = [i \in 1..n |-> [ev |-> es[i], thr |-> knote[es[i]], error |-> FALSE]]
                /\ phase' = IF n = 0 /\ event_count = 0 /\ due = {} THEN "over" ELSE "results"
    BY DEF kevent_returns
  <1>3. CASE kevents1' = kevents1 /\ phase' = "results"
    BY <1>1, <1>3 DEF NewResults
  <1>4. CASE /\ kevents1 = <<>>
             /\ \E n \in 0..event_max : \E es \in [1..n -> {e \in Event : knote[e] # NoThread}] :
                  /\ Distinct(es)
                  /\ kevents1' = [i \in 1..n |-> [ev |-> es[i], thr |-> knote[es[i]], error |-> FALSE]]
                  /\ phase' = IF n = 0 /\ event_count = 0 /\ due = {} THEN "over" ELSE "results"
    <2>1. PICK n \in 0..event_max : \E es \in [1..n -> {e \in Event : knote[e] # NoThread}] :
                  /\ Distinct(es)
                  /\ kevents1' = [i \in 1..n |-> [ev |-> es[i], thr |-> knote[es[i]], error |-> FALSE]]
                  /\ phase' = IF n = 0 /\ event_count = 0 /\ due = {} THEN "over" ELSE "results"
      BY <1>4
    <2>2. PICK es \in [1..n -> {e \in Event : knote[e] # NoThread}] :
                  /\ Distinct(es)
                  /\ kevents1' = [i \in 1..n |-> [ev |-> es[i], thr |-> knote[es[i]], error |-> FALSE]]
                  /\ phase' = IF n = 0 /\ event_count = 0 /\ due = {} THEN "over" ELSE "results"
      BY <2>1
    <2>3. n \in Nat /\ n <= event_max /\ event_max \in Nat
      BY DEF TypeOK
    <2>4. knote \in [Event -> Thr \cup {NoThread}]
      BY DEF TypeOK
    <2>5. \A i \in 1..n : es[i] \in Event /\ knote[es[i]] \in Thr /\ knote[es[i]] # NoThread
      BY <2>2, <2>4
    <2>6. \A i \in 1..n : [ev |-> es[i], thr |-> knote[es[i]], error |-> FALSE] \in Result
      BY <2>5 DEF Result
    <2>7. kevents1' \in Seq(Result) /\ Len(kevents1') = n
      BY <2>2, <2>3, <2>6
    <2>8. \A i \in 1..n : kevents1'[i] = [ev |-> es[i], thr |-> knote[es[i]], error |-> FALSE]
      BY <2>2
    <2>9. es \in Seq(Event) /\ Len(es) = n
      BY <2>2, <2>3
    <2>10. \A i, j \in 1..n : i # j => es[i] # es[j]
      BY <2>2, <2>9 DEF Distinct
    <2>11. \A i \in 1..n : /\ kevents1'[i].ev = es[i] /\ kevents1'[i].thr = knote[es[i]]
                            /\ kevents1'[i].error = FALSE
      <3> SUFFICES ASSUME NEW i \in 1..n
                   PROVE  /\ kevents1'[i].ev = es[i] /\ kevents1'[i].thr = knote[es[i]]
                          /\ kevents1'[i].error = FALSE
        OBVIOUS
      <3>1. kevents1'[i] = [ev |-> es[i], thr |-> knote[es[i]], error |-> FALSE]
        BY <2>8
      <3> QED
        BY <3>1
    <2>12. NewResults
      BY <2>3, <2>5, <2>7, <2>10, <2>11, <1>4 DEF NewResults
    <2>13. ASSUME phase' = "over" PROVE n = 0 /\ event_count = 0 /\ due = {}
      BY <2>2, <2>13
    <2>14. n = 0 => kevents1' = <<>>
      BY <2>7
    <2> QED
      BY <2>2, <2>12, <2>13, <2>14, <1>1, <1>4
  <1> QED
    BY <1>2, <1>3, <1>4

\* kevent() returns.
LEMMA BaseReturns ==
    ASSUME Base, kevent_returns
    PROVE  Base'
  <1> USE DEF Base
  <1>1. kevents1' \in Seq(Result) /\ Len(kevents1') <= event_max
    BY ReturnsIs DEF TypeOK, NewResults
  <1>2. iter = 1
    BY ReturnsIs DEF Shape
  <1>3. iter' \in 1..(Len(kevents1') + 1)
    BY <1>1, <1>2, ReturnsIs
  <1>4. TypeOK'
    BY <1>1, <1>3, ReturnsIs DEF TypeOK
  <1>5. Shape'
    BY <1>2, ReturnsIs DEF Shape
  <1> QED
    BY <1>4, <1>5

\* The walk takes what is due.
LEMMA BaseRound ==
    ASSUME Base, loop_round
    PROVE  Base'
  <1> USE DEF Base
  <1>1. TypeOK'
    BY DEF TypeOK, loop_round, kernel, counts, round, pvars, cvars, hist
  <1>2. Shape'
    BY DEF TypeOK, Shape, loop_round, kernel, counts, round, pvars, cvars, hist
  <1> QED
    BY <1>1, <1>2

\* What Continue changes: the thread that goes on and nobody else.
LEMMA ContinueIs ==
    ASSUME TypeOK, NEW t \in Thr, NEW i \in 0..event_max,
           NEW r \in {0, INTERRUPTED, POLLER}, Continue(t, i, r)
    PROVE  /\ me' = t
           /\ state' = [state EXCEPT ![t] = "RESUMED"]
           /\ call' = [call EXCEPT ![t] = "none"]
           /\ rc' = [rc EXCEPT ![t] = r]
           /\ pdata' \in [Thr -> Watched]
           /\ \A u \in Thr \ {t} : pdata'[u] = pdata[u]
           /\ mask' \in [Thr -> SUBSET Filter]
           /\ idx' \in [Thr -> 0..event_max]
           /\ failed' \subseteq failed \cup {t}
           /\ r # 0 \/ i # 0 \/ call[t] # "wait" => failed' = failed
  <1>1. me' = t /\ state' = [state EXCEPT ![t] = "RESUMED"]
        /\ call' = [call EXCEPT ![t] = "none"] /\ rc' = [rc EXCEPT ![t] = r]
    BY DEF Continue
  <1>2. \/ idx' = [idx EXCEPT ![t] = i] /\ pdata' = pdata /\ mask' = mask /\ failed' = failed
        \/ /\ failed' = IF call[t] = "wait" /\ i = 0 THEN failed \cup {t} ELSE failed
           /\ r = 0 /\ call[t] \notin {"none", "sleep"}
           /\ pdata' = [pdata EXCEPT ![t] = <<>>]
           /\ mask' = [mask EXCEPT ![t] = {}]
           /\ idx' = [idx EXCEPT ![t] = 0]
    BY DEF Continue
  <1>3. pdata \in [Thr -> Watched] /\ mask \in [Thr -> SUBSET Filter] /\ idx \in [Thr -> 0..event_max]
        /\ event_max \in Nat
    BY DEF TypeOK
  <1>4. <<>> \in Watched
    BY WatchedIs
  <1>5. pdata' \in [Thr -> Watched] /\ \A u \in Thr \ {t} : pdata'[u] = pdata[u]
    BY <1>2, <1>3, <1>4
  <1>6. mask' \in [Thr -> SUBSET Filter] /\ idx' \in [Thr -> 0..event_max]
    BY <1>2, <1>3
  <1>7. failed' \subseteq failed \cup {t} /\ (r # 0 \/ i # 0 \/ call[t] # "wait" => failed' = failed)
    BY <1>2
  <1> QED
    BY <1>1, <1>5, <1>6, <1>7

\* The walk resumes a thread.
LEMMA BaseSift ==
    ASSUME Base, NEW t \in Thr, sift(t)
    PROVE  Base'
  <1> USE DEF Base
  <1>1. /\ phase = "sift" /\ me = NoThread /\ runq' = runq \ {t}
        /\ kevents0' = kevents0 /\ knote' = knote /\ open' = open
        /\ event_count' = event_count /\ event_max' = event_max
        /\ kevents1' = kevents1 /\ iter' = iter /\ phase' = phase /\ due' = due
        /\ clean' = clean /\ clash' = clash
    BY DEF sift, kernel, counts, hist
  <1>2. Continue(t, idx[t], rc[t]) /\ idx[t] \in 0..event_max /\ rc[t] \in {0, INTERRUPTED, POLLER}
    BY DEF sift, TypeOK
  <1>3. /\ me' = t /\ state' = [state EXCEPT ![t] = "RESUMED"]
        /\ call' = [call EXCEPT ![t] = "none"] /\ rc' = [rc EXCEPT ![t] = rc[t]]
        /\ pdata' \in [Thr -> Watched] /\ mask' \in [Thr -> SUBSET Filter]
        /\ idx' \in [Thr -> 0..event_max] /\ failed' \subseteq failed \cup {t}
    BY <1>2, ContinueIs
  <1>4. TypeOK'
    BY <1>1, <1>2, <1>3 DEF TypeOK
  <1>5. Shape'
    BY <1>1, <1>3, KeventPollerAssumption DEF Shape, TypeOK
  <1> QED
    BY <1>4, <1>5

\* What a result changes beside the change list: the thread it names, which waits
\* no more, and nobody else.
LEMMA ResultIs ==
    ASSUME Base, loop_result, NEW r, r = kevents1[iter], NEW t, t = r.thr
    PROVE  /\ phase = "results" /\ me = NoThread
           /\ iter \in 1..Len(kevents1) /\ iter' = iter + 1
           /\ r \in Result /\ t \in Thr /\ r.ev \in Event
           /\ \/ r.error /\ kevents0' = kevents0 /\ event_count' = event_count
              \/ /\ ~ r.error /\ event_count' = event_count - 1
                 /\ Extended(kevents0, kevents0', "DELETE", <<r.ev>>, t)
           /\ \/ /\ state[t] = "OTHER" /\ state' = [state EXCEPT ![t] = "SET"]
                 /\ due' = due \cup {t}
                 /\ pdata' = pdata /\ call' = call /\ rc' = rc /\ me' = me /\ failed' = failed
              \/ /\ state[t] = "DORMANT" /\ state' = state /\ due' = due
                 /\ pdata' = pdata /\ call' = call /\ rc' = rc /\ me' = me /\ failed' = failed
              \/ /\ state[t] \notin {"OTHER", "DORMANT"} /\ state' = [state EXCEPT ![t] = "RESUMED"]
                 /\ due' = due /\ call' = [call EXCEPT ![t] = "none"]
                 /\ rc' = [rc EXCEPT ![t] = IF r.error THEN POLLER ELSE 0] /\ me' = t
                 /\ failed' = failed
           /\ pdata' \in [Thr -> Watched]
           /\ \A u \in Thr \ {t} : pdata'[u] = pdata[u]
           /\ mask' \in [Thr -> SUBSET Filter] /\ idx' \in [Thr -> 0..event_max]
           /\ knote' = knote /\ open' = open /\ event_max' = event_max
           /\ kevents1' = kevents1 /\ runq' = runq /\ phase' = phase
           /\ clean' = clean /\ clash' = clash
  <1> USE DEF Base
  <1>1. /\ phase = "results" /\ me = NoThread /\ iter <= Len(kevents1) /\ iter' = iter + 1
        /\ knote' = knote /\ open' = open /\ event_max' = event_max
        /\ kevents1' = kevents1 /\ runq' = runq /\ phase' = phase
        /\ clean' = clean /\ clash' = clash
    BY DEF loop_result, kernel, hist
  <1>2. iter \in 1..Len(kevents1) /\ r \in Result
    BY <1>1 DEF TypeOK
  <1>3. t \in Thr /\ r.ev \in Event /\ r.error \in BOOLEAN /\ <<r.ev>> \in Watched
    BY <1>2, WatchedIs DEF Result
  <1>4. iter \in 0..event_max /\ iter # 0 /\ event_max \in Nat
    BY <1>2 DEF TypeOK
  <1>5. \/ r.error /\ kevents0' = kevents0 /\ event_count' = event_count
        \/ /\ ~ r.error /\ event_count' = event_count - 1
           /\ Extended(kevents0, kevents0', "DELETE", <<r.ev>>, t)
    <2>1. CASE r.error
      BY <2>1 DEF loop_result
    <2>2. CASE ~ r.error
      <3>1. kevents0' = kevents0 \o Changes("DELETE", <<r.ev>>, t) /\ event_count' = event_count - 1
        BY <2>2 DEF loop_result, new_event
      <3>2. kevents0 \in Seq(Change)
        BY DEF TypeOK
      <3>3. Extended(kevents0, kevents0', "DELETE", <<r.ev>>, t)
        BY <3>1, <3>2, <1>3, NewEventExtends
      <3> QED
        BY <2>2, <3>1, <3>3
    <2> QED
      BY <2>1, <2>2
  <1>6. CASE state[t] = "OTHER"
    <2>1. /\ mask' = [mask EXCEPT ![t] = @ \cup {r.ev[2]}] /\ idx' = [idx EXCEPT ![t] = 0]
          /\ state' = [state EXCEPT ![t] = "SET"] /\ due' = due \cup {t}
          /\ pdata' = pdata /\ call' = call /\ rc' = rc /\ me' = me /\ failed' = failed
      BY <1>6 DEF loop_result
    <2>2. r.ev[2] \in Filter
      BY <1>3 DEF Event
    <2>3. mask' \in [Thr -> SUBSET Filter]
      BY <2>1, <2>2, <1>3 DEF TypeOK
    <2>4. 0 \in 0..event_max /\ idx \in [Thr -> 0..event_max] /\ pdata \in [Thr -> Watched]
      BY <1>4 DEF TypeOK
    <2>5. idx' \in [Thr -> 0..event_max] /\ pdata' \in [Thr -> Watched]
      BY <2>1, <2>4
    <2> QED
      BY <2>1, <2>3, <2>5, <1>1, <1>2, <1>3, <1>5, <1>6
  <1>7. CASE state[t] = "DORMANT"
    <2>1. /\ idx' = [idx EXCEPT ![t] = iter] /\ mask' = mask
          /\ pdata' = pdata /\ state' = state /\ due' = due
          /\ call' = call /\ rc' = rc /\ me' = me /\ failed' = failed
      BY <1>7 DEF loop_result, cvars
    <2>2. idx' \in [Thr -> 0..event_max] /\ pdata' \in [Thr -> Watched]
          /\ mask' \in [Thr -> SUBSET Filter]
      BY <2>1, <1>4 DEF TypeOK
    <2> QED
      BY <2>1, <2>2, <1>1, <1>2, <1>3, <1>5, <1>7
  <1>8. CASE state[t] \notin {"OTHER", "DORMANT"}
    <2> DEFINE x == IF r.error THEN POLLER ELSE 0
    <2>1. Continue(t, iter, x) /\ due' = due
      BY <1>8 DEF loop_result
    <2>2. x \in {0, INTERRUPTED, POLLER}
      OBVIOUS
    <2> HIDE DEF x
    <2>3. /\ me' = t
          /\ state' = [state EXCEPT ![t] = "RESUMED"]
          /\ call' = [call EXCEPT ![t] = "none"]
          /\ rc' = [rc EXCEPT ![t] = x]
          /\ pdata' \in [Thr -> Watched]
          /\ \A u \in Thr \ {t} : pdata'[u] = pdata[u]
          /\ mask' \in [Thr -> SUBSET Filter]
          /\ idx' \in [Thr -> 0..event_max]
          /\ failed' = failed
      BY <2>1, <2>2, <1>3, <1>4, ContinueIs
    <2> QED
      BY <2>1, <2>3, <1>1, <1>2, <1>3, <1>5, <1>8 DEF x
  <1> QED
    BY <1>6, <1>7, <1>8

\* A result is handed to its thread.
LEMMA BaseResult ==
    ASSUME Base, loop_result
    PROVE  Base'
  <1> USE DEF Base
  <1>a. PICK r : r = kevents1[iter]
    OBVIOUS
  <1>b. PICK t : t = r.thr
    OBVIOUS
  <1>1. /\ phase = "results" /\ me = NoThread
        /\ iter \in 1..Len(kevents1) /\ iter' = iter + 1
        /\ t \in Thr
        /\ \/ kevents0' = kevents0 /\ event_count' = event_count
           \/ kevents0' \in Seq(Change) /\ event_count' = event_count - 1
        /\ \/ /\ state[t] = "OTHER" /\ state' = [state EXCEPT ![t] = "SET"]
              /\ due' = due \cup {t} /\ call' = call /\ rc' = rc /\ me' = me
           \/ /\ state[t] = "DORMANT" /\ state' = state /\ due' = due
              /\ call' = call /\ rc' = rc /\ me' = me
           \/ /\ state[t] \notin {"OTHER", "DORMANT"} /\ state' = [state EXCEPT ![t] = "RESUMED"]
              /\ due' = due /\ call' = [call EXCEPT ![t] = "none"]
              /\ rc' = [rc EXCEPT ![t] = IF r.error THEN POLLER ELSE 0] /\ me' = t
        /\ pdata' \in [Thr -> Watched] /\ failed' = failed
        /\ mask' \in [Thr -> SUBSET Filter] /\ idx' \in [Thr -> 0..event_max]
        /\ knote' = knote /\ open' = open /\ event_max' = event_max
        /\ kevents1' = kevents1 /\ runq' = runq /\ phase' = phase
        /\ clean' = clean /\ clash' = clash
    <2>1. Extended(kevents0, kevents0', "DELETE", <<r.ev>>, t) => kevents0' \in Seq(Change)
      BY DEF Extended
    <2> QED
      BY <2>1, <1>a, <1>b, ResultIs
  <1>2. iter' \in 1..(Len(kevents1') + 1)
    BY <1>1 DEF TypeOK
  <1>3. kevents0' \in Seq(Change) /\ event_count' \in Int
    BY <1>1 DEF TypeOK
  <1>4. rc' \in [Thr -> {0, INTERRUPTED, POLLER}] /\ me' \in Thr \cup {NoThread}
        /\ due' \in SUBSET Thr
    BY <1>1 DEF TypeOK
  <1>5. state' \in [Thr -> {"DORMANT", "RESUMED", "SLEEP", "SET", "RW", "OTHER"}]
        /\ call' \in [Thr -> {"none", "sleep", "wait", "wait_for_events"}]
    BY <1>1 DEF TypeOK
  <1>6. TypeOK'
    BY <1>1, <1>2, <1>3, <1>4, <1>5 DEF TypeOK
  <1>7. \A u \in Thr : me' = u <=> state'[u] = "RESUMED"
    BY <1>1, KeventPollerAssumption DEF Shape, TypeOK
  <1>8. Shape'
    BY <1>1, <1>7 DEF Shape
  <1> QED
    BY <1>6, <1>8

\* What a thread changes that begins to wait.
LEMMA WaitIs ==
    ASSUME Base, NEW t \in Thr, NEW es \in Watched, NEW st, NEW name, begin_wait(t, es, st, name)
    PROVE  /\ me = t /\ state[t] = "RESUMED" /\ me' = NoThread
           /\ Extended(kevents0, kevents0', "ADD", es, t)
           /\ event_count' = event_count + Len(es)
           /\ pdata' = [pdata EXCEPT ![t] = es] /\ mask' = [mask EXCEPT ![t] = {}]
           /\ state' = [state EXCEPT ![t] = st] /\ call' = [call EXCEPT ![t] = name]
           /\ clash' = clash \cup {e \in Elems(es) :
                                      \E u \in Thr \ {t} : Awaits(u, e) \/ Reported(u, e)}
           /\ knote' = knote /\ open' = open /\ event_max' = event_max
           /\ kevents1' = kevents1 /\ iter' = iter /\ runq' = runq /\ phase' = phase
           /\ idx' = idx /\ rc' = rc /\ due' = due /\ failed' = failed /\ clean' = clean
  <1> USE DEF Base
  <1>1. kevents0' = kevents0 \o Changes("ADD", es, t)
    BY DEF begin_wait, new_event
  <1>2. kevents0 \in Seq(Change)
    BY DEF TypeOK
  <1>3. Extended(kevents0, kevents0', "ADD", es, t)
    BY <1>1, <1>2, NewEventExtends
  <1>4. me = t /\ state[t] = "RESUMED"
    BY DEF begin_wait, Shape
  <1> QED
    BY <1>3, <1>4 DEF begin_wait, kernel, round

\* A wait is for one event, or for the two of a descriptor.
LEMMA WaitForms ==
    ASSUME NEW t \in Thr, NEW f \in Fd, mnthr_wait_for_rw(t, f) \/ mnthr_wait_for_events(t, f)
    PROVE  \E es \in Watched, st \in {"RW", "OTHER"}, name \in {"wait", "wait_for_events"} :
              /\ begin_wait(t, es, st, name)
              /\ es # <<>>
              /\ t \in Plain => st = "RW" /\ name = "wait" /\ Len(es) = 1
  <1>1. CASE mnthr_wait_for_rw(t, f)
    <2>1. PICK x \in Filter : begin_wait(t, <<<<f, x>>>>, "RW", "wait")
      BY <1>1 DEF mnthr_wait_for_rw
    <2>2. <<f, x>> \in Event
      BY DEF Event
    <2>3. <<<<f, x>>>> \in Watched
      BY <2>2, WatchedIs
    <2>4. <<<<f, x>>>> # <<>> /\ Len(<<<<f, x>>>>) = 1
      OBVIOUS
    <2> QED
      BY <2>1, <2>3, <2>4
  <1>2. CASE mnthr_wait_for_events(t, f)
    <2>1. begin_wait(t, Both(f), "OTHER", "wait_for_events") /\ t \notin Plain
      BY <1>2 DEF mnthr_wait_for_events, Plain
    <2>2. Both(f) \in Watched /\ Both(f) # <<>>
      BY WatchedIs
    <2> QED
      BY <2>1, <2>2
  <1> QED
    BY <1>1, <1>2

\* A thread begins to wait.
LEMMA BaseWait ==
    ASSUME Base, NEW t \in Thr, NEW es \in Watched, NEW st \in {"RW", "OTHER"},
           NEW name \in {"wait", "wait_for_events"}, begin_wait(t, es, st, name)
    PROVE  Base'
  <1> USE DEF Base
  <1>1. /\ me = t /\ state[t] = "RESUMED" /\ me' = NoThread
        /\ event_count' = event_count + Len(es)
        /\ pdata' = [pdata EXCEPT ![t] = es] /\ mask' = [mask EXCEPT ![t] = {}]
        /\ state' = [state EXCEPT ![t] = st] /\ call' = [call EXCEPT ![t] = name]
        /\ knote' = knote /\ open' = open /\ event_max' = event_max
        /\ kevents1' = kevents1 /\ iter' = iter /\ runq' = runq /\ phase' = phase
        /\ idx' = idx /\ rc' = rc /\ due' = due /\ failed' = failed /\ clean' = clean
    BY WaitIs
  <1>2. Extended(kevents0, kevents0', "ADD", es, t)
        /\ clash' = clash \cup {e \in Elems(es) :
                                   \E u \in Thr \ {t} : Awaits(u, e) \/ Reported(u, e)}
    BY WaitIs
  <1>3. kevents0' \in Seq(Change)
    BY <1>2 DEF Extended
  <1>4. es \in Seq(Event) /\ Len(es) \in Nat /\ Elems(es) \subseteq Event
    BY WatchedIs, ElemsType
  <1>5. clash' \in SUBSET Event
    BY <1>2, <1>4 DEF TypeOK
  <1>6. event_count' \in Int
    BY <1>1, <1>4 DEF TypeOK
  <1>7. /\ pdata' \in [Thr -> Watched] /\ mask' \in [Thr -> SUBSET Filter]
        /\ state' \in [Thr -> {"DORMANT", "RESUMED", "SLEEP", "SET", "RW", "OTHER"}]
        /\ call' \in [Thr -> {"none", "sleep", "wait", "wait_for_events"}]
    BY <1>1 DEF TypeOK
  <1>8. TypeOK'
    BY <1>1, <1>3, <1>5, <1>6, <1>7 DEF TypeOK
  <1>9. Shape'
    BY <1>1, KeventPollerAssumption DEF Shape, TypeOK
  <1> QED
    BY <1>8, <1>9

\* What an interrupt changes.
LEMMA InterruptIs ==
    ASSUME Base, NEW u \in Thr, NEW t \in Thr, mnthr_set_interrupt(u, t),
           NEW es, es = poller_clear_event(t)
    PROVE  /\ me = u /\ u # t /\ state[t] \notin {"RESUMED", "DORMANT"} /\ t \notin runq
           /\ es \in Watched
           /\ Extended(kevents0, kevents0', "DELETE", es, t)
           /\ event_count' = event_count - Len(es)
           /\ rc' = [rc EXCEPT ![t] = INTERRUPTED]
           /\ state' = [state EXCEPT ![t] = "SET"]
           /\ due' = due \cup {t}
           /\ clean' = (clean /\ ~ Pending(t))
           /\ knote' = knote /\ open' = open /\ event_max' = event_max
           /\ kevents1' = kevents1 /\ iter' = iter /\ runq' = runq /\ phase' = phase
           /\ pdata' = pdata /\ mask' = mask /\ idx' = idx /\ call' = call /\ me' = me
           /\ failed' = failed /\ clash' = clash
  <1> USE DEF Base
  <1>1. es \in Watched
    BY WatchedIs DEF poller_clear_event, TypeOK
  <1>2. kevents0' = kevents0 \o Changes("DELETE", es, t) /\ event_count' = event_count - Len(es)
    BY DEF mnthr_set_interrupt, new_event
  <1>3. kevents0 \in Seq(Change)
    BY DEF TypeOK
  <1>4. Extended(kevents0, kevents0', "DELETE", es, t)
    BY <1>1, <1>2, <1>3, NewEventExtends
  <1>5. me = u /\ u # t /\ state[t] \notin {"RESUMED", "DORMANT"} /\ t \notin runq
    BY DEF mnthr_set_interrupt, Shape
  <1> QED
    BY <1>1, <1>2, <1>4, <1>5 DEF mnthr_set_interrupt, kernel, round, pvars

\* A thread is interrupted.
LEMMA BaseInterrupt ==
    ASSUME Base, NEW u \in Thr, NEW t \in Thr, mnthr_set_interrupt(u, t)
    PROVE  Base'
  <1> USE DEF Base
  <1>a. PICK es : es = poller_clear_event(t)
    OBVIOUS
  <1>1. /\ me = u /\ u # t /\ state[t] \notin {"RESUMED", "DORMANT"} /\ t \notin runq
        /\ es \in Watched
        /\ event_count' = event_count - Len(es)
        /\ rc' = [rc EXCEPT ![t] = INTERRUPTED]
        /\ state' = [state EXCEPT ![t] = "SET"]
        /\ due' = due \cup {t}
        /\ knote' = knote /\ open' = open /\ event_max' = event_max
        /\ kevents1' = kevents1 /\ iter' = iter /\ runq' = runq /\ phase' = phase
        /\ pdata' = pdata /\ mask' = mask /\ idx' = idx /\ call' = call /\ me' = me
        /\ failed' = failed /\ clash' = clash
    BY <1>a, InterruptIs
  <1>2. Extended(kevents0, kevents0', "DELETE", es, t) /\ clean' = (clean /\ ~ Pending(t))
    BY <1>a, InterruptIs
  <1>3. kevents0' \in Seq(Change)
    BY <1>2 DEF Extended
  <1>4. clean' \in BOOLEAN
    BY <1>2
  <1>5. Len(es) \in Nat
    BY <1>1, WatchedIs
  <1>6. event_count' \in Int
    BY <1>1, <1>5 DEF TypeOK
  <1>7. /\ rc' \in [Thr -> {0, INTERRUPTED, POLLER}] /\ due' \in SUBSET Thr
        /\ state' \in [Thr -> {"DORMANT", "RESUMED", "SLEEP", "SET", "RW", "OTHER"}]
    BY <1>1 DEF TypeOK
  <1>8. TypeOK'
    BY <1>1, <1>3, <1>4, <1>6, <1>7 DEF TypeOK
  <1>9. Shape'
    BY <1>1, KeventPollerAssumption DEF Shape, TypeOK
  <1> QED
    BY <1>8, <1>9

\* Nothing happens.
LEMMA BaseStutter ==
    ASSUME Base, UNCHANGED vars
    PROVE  Base'
  BY DEF Base, TypeOK, Shape, vars, kernel, counts, round, pvars, cvars, hist

\* Every step keeps the types.
LEMMA BaseStep ==
    ASSUME Base, [Next]_vars
    PROVE  Base'
  <1>1. CASE UNCHANGED vars
    BY <1>1, BaseStutter
  <1>2. CASE Loop
    BY <1>2, BaseIdle, BaseKevent, BaseChange, BaseFails, BaseReturns, BaseResult, BaseRound DEF Loop
  <1>3. CASE \E t \in Thr : sift(t)
    BY <1>3, BaseSift
  <1>4. CASE \E t \in Thr : Calls(t)
    <2>1. PICK t \in Thr : Calls(t)
      BY <1>4
    <2>2. CASE \E f \in Fd : mnthr_wait_for_rw(t, f) \/ mnthr_wait_for_events(t, f)
      BY <2>2, WaitForms, BaseWait
    <2>3. CASE mnthr_sleep(t)
      BY <2>3, BaseSleep
    <2>4. CASE Exit(t)
      BY <2>4, BaseExit
    <2>5. CASE mnthr_set_retval(t)
      BY <2>5, BaseRetval
    <2>6. CASE \E u \in Thr : mnthr_set_interrupt(t, u) \/ mnthr_spawn(t, u)
      BY <2>6, BaseInterrupt, BaseSpawn
    <2>7. CASE \E f \in Fd : close(t, f) \/ reopen(t, f)
      BY <2>7, BaseClose, BaseReopen
    <2> QED
      BY <2>1, <2>2, <2>3, <2>4, <2>5, <2>6, <2>7 DEF Calls
  <1> QED
    BY <1>1, <1>2, <1>3, <1>4 DEF Next

\* The change list, the results and the threads' fields are what TypeOK says.
THEOREM KeventPollerTypes == Spec => []TypeOK
  <1>1. Base /\ [Next]_vars => Base'
    BY BaseStep
  <1>2. Base => TypeOK
    BY DEF Base
  <1> QED
    BY BaseInit, <1>1, <1>2, PTL DEF Spec
-----------------------------------------------------------------------------
(***************************************************************************)
(* The inductive invariant.  All of it holds as long as clean does.        *)
(***************************************************************************)

\* Who waits for what.
Waiting == {p \in Thr \X Event : Awaits(p[1], p[2])}

\* Who is or will be registered for what once the kernel has taken the changes.
Claimed == {p \in Thr \X Event : \/ AddedLast(kevents0, p[1], p[2])
                                 \/ knote[p[2]] = p[1] /\ Untouched(kevents0, p[2])}

\* The changes that have failed, and the events that have happened, for whom the
\* loop has not looked at the result yet.
Refused == {p \in Thr \X Event : \E i \in iter..Len(kevents1) :
               kevents1[i].thr = p[1] /\ kevents1[i].ev = p[2] /\ kevents1[i].error}
Arrived == {p \in Thr \X Event : \E i \in iter..Len(kevents1) :
               kevents1[i].thr = p[1] /\ kevents1[i].ev = p[2] /\ ~ kevents1[i].error}

\* A thread that waits has events to wait for.
WaitsForSomething == \A t \in Thr : state[t] \in {"RW", "OTHER"} => pdata[t] # <<>>

\* What state, call and rc of a thread say about each other, and where the thread
\* may be while they say it.
Coupled ==
    \A t \in Plain :
        /\ state[t] # "OTHER"
        /\ state[t] = "RW" => call[t] = "wait" /\ Len(pdata[t]) = 1 /\ t \notin due /\ t \notin runq
        /\ state[t] = "SET" /\ call[t] = "wait" => rc[t] # 0
        /\ state[t] = "SLEEP" => call[t] = "sleep"
        /\ state[t] \in {"RESUMED", "DORMANT"} => call[t] = "none" /\ t \notin due /\ t \notin runq
        /\ ~ (t \in due /\ t \in runq)

\* An addition in the change list is deleted behind it, or its thread still waits
\* for the event and it is the thread's last.
AddsAwaited ==
    \A i \in 1..Len(kevents0) : kevents0[i].op = "ADD" /\ kevents0[i].thr \in Plain =>
        \/ DeletedBehind(kevents0, i, kevents0[i].ev)
        \/ /\ <<kevents0[i].thr, kevents0[i].ev>> \in Waiting
           /\ \A j \in 1..Len(kevents0) : j > i => kevents0[j] # kevents0[i]

\* A thread that is registered for an event waits for it, or the change list names
\* the event.
KnotesAwaited ==
    \A e \in Event : knote[e] \in Plain => <<knote[e], e>> \in Waiting \/ ~ Untouched(kevents0, e)

\* A closed descriptor has no knotes.
ClosedForgotten == \A e \in Event : e[1] \notin open => knote[e] = NoThread

ListOK == AddsAwaited /\ KnotesAwaited /\ ClosedForgotten

\* While the kernel takes the changes: one that has failed was an addition for a
\* closed descriptor.  A deletion of the event is still to fail, or the thread waits
\* for the event and no other failed or coming addition is its own.
FailedOK ==
    phase = "kevent" => \A i \in 1..Len(kevents1) :
        /\ kevents1[i].error /\ kevents1[i].ev[1] \notin open
        /\ kevents1[i].thr \in Plain =>
             \/ DeletedBehind(kevents0, 0, kevents1[i].ev)
             \/ /\ <<kevents1[i].thr, kevents1[i].ev>> \in Waiting
                /\ \A j \in 1..Len(kevents0) : kevents0[j] # Add(kevents1[i].ev, kevents1[i].thr)
                /\ \A j \in 1..Len(kevents1) : j # i =>
                      kevents1[j].thr # kevents1[i].thr \/ kevents1[j].ev # kevents1[i].ev

\* While the loop looks at the results: each finds its thread waiting for the event,
\* no other is for the same thread, or for the same event unless changes have
\* failed; and who else waits for the event does so in spite of the first thread.
ResultsOK ==
    phase = "results" => \A i \in iter..Len(kevents1) :
        /\ kevents1[i].thr \in Plain =>
             /\ <<kevents1[i].thr, kevents1[i].ev>> \in Waiting
             /\ \A j \in iter..Len(kevents1) : j # i => kevents1[j].thr # kevents1[i].thr
        /\ kevents1[i].error => knote[kevents1[i].ev] = NoThread
        /\ kevents1[i].error /\ kevents1[i].thr \in Plain =>
             \A j \in 1..Len(kevents0) : kevents0[j] # Add(kevents1[i].ev, kevents1[i].thr)
        /\ ~ kevents1[i].error =>
             /\ \A j \in iter..Len(kevents1) : j # i /\ ~ kevents1[j].error =>
                   kevents1[j].ev # kevents1[i].ev
             /\ \A t \in Plain : t # kevents1[i].thr /\ <<t, kevents1[i].ev>> \in Waiting =>
                   kevents1[i].ev \in clash

\* Two threads that wait for one event have been seen to.
ClashSeen ==
    \A t, u \in Thr, e \in Event :
        t # u /\ <<t, e>> \in Waiting /\ <<u, e>> \in Waiting => e \in clash

\* Who waits for an event alone will be registered for it, or be told of the failure.
Reached ==
    \A t \in Plain, e \in Event \ clash :
        <<t, e>> \in Waiting => <<t, e>> \in Claimed \/ <<t, e>> \in Refused

\* event_count is not below the number of the waits, of the registrations that are
\* or will be, and of the events that have happened.
CountOK ==
    /\ event_count >= Cardinality(Waiting \cup Claimed \cup Arrived)
    /\ phase = "over" => event_count = 0

Good ==
    /\ WaitsForSomething
    /\ Coupled
    /\ ListOK
    /\ FailedOK
    /\ ResultsOK
    /\ ClashSeen
    /\ Reached
    /\ CountOK

Inv == Base /\ (clean => Good) /\ NoFail
-----------------------------------------------------------------------------
(***************************************************************************)
(* Who waits, after each step.                                             *)
(***************************************************************************)

\* Membership in Waiting.
LEMMA WaitingIs ==
    \A t \in Thr, e \in Event : <<t, e>> \in Waiting <=>
        state[t] \in {"RW", "OTHER"} /\ e \in Elems(pdata[t])
  BY DEF Waiting, Awaits

\* The same in the next state.
LEMMA WaitingIsNext ==
    \A t \in Thr, e \in Event : <<t, e>> \in Waiting' <=>
        state'[t] \in {"RW", "OTHER"} /\ e \in Elems(pdata'[t])
  BY DEF Waiting, Awaits

\* Waiting is a set of pairs.
LEMMA WaitingType == Waiting \in SUBSET (Thr \X Event) /\ Waiting' \in SUBSET (Thr \X Event)
  BY DEF Waiting

\* The waits go on as they are if the threads that wait keep their fields and no
\* other begins to wait.
LEMMA WaitingSame ==
    ASSUME \A t \in Thr : \/ state'[t] = state[t] /\ pdata'[t] = pdata[t]
                          \/ /\ state[t] \notin {"RW", "OTHER"}
                             /\ state'[t] \notin {"RW", "OTHER"}
    PROVE  Waiting' = Waiting
  <1>1. \A t \in Thr, e \in Event : <<t, e>> \in Waiting <=> <<t, e>> \in Waiting'
    BY WaitingIs, WaitingIsNext
  <1> QED
    BY <1>1, WaitingType

\* The waits of thread t end.
LEMMA WaitingEnds ==
    ASSUME NEW t \in Thr, state'[t] \notin {"RW", "OTHER"},
           \A u \in Thr \ {t} : state'[u] = state[u] /\ pdata'[u] = pdata[u]
    PROVE  /\ \A u \in Thr, e \in Event :
                <<u, e>> \in Waiting' <=> u # t /\ <<u, e>> \in Waiting
           /\ Waiting' \subseteq Waiting
  <1>1. \A u \in Thr, e \in Event : <<u, e>> \in Waiting' <=> u # t /\ <<u, e>> \in Waiting
    BY WaitingIs, WaitingIsNext
  <1> QED
    BY <1>1, WaitingType

\* Thread t begins to wait.
LEMMA WaitingBegins ==
    ASSUME Base, NEW t \in Thr, NEW es \in Watched, NEW st \in {"RW", "OTHER"},
           NEW name \in {"wait", "wait_for_events"}, begin_wait(t, es, st, name)
    PROVE  /\ \A e \in Event : <<t, e>> \notin Waiting
           /\ \A u \in Thr, e \in Event :
                <<u, e>> \in Waiting' <=> IF u = t THEN e \in Elems(es) ELSE <<u, e>> \in Waiting
  <1>1. /\ state[t] = "RESUMED"
        /\ state' = [state EXCEPT ![t] = st] /\ pdata' = [pdata EXCEPT ![t] = es]
    BY WaitIs
  <1>2. state \in [Thr -> {"DORMANT", "RESUMED", "SLEEP", "SET", "RW", "OTHER"}]
        /\ pdata \in [Thr -> Watched]
    BY DEF Base, TypeOK
  <1>3. \A e \in Event : <<t, e>> \notin Waiting
    BY <1>1, WaitingIs
  <1>4. ASSUME NEW u \in Thr, NEW e \in Event
        PROVE  <<u, e>> \in Waiting' <=> IF u = t THEN e \in Elems(es) ELSE <<u, e>> \in Waiting
    <2>1. CASE u = t
      <3>1. state'[u] = st /\ pdata'[u] = es
        BY <2>1, <1>1, <1>2
      <3> QED
        BY <2>1, <3>1, WaitingIsNext
    <2>2. CASE u # t
      <3>1. state'[u] = state[u] /\ pdata'[u] = pdata[u]
        BY <2>2, <1>1, <1>2
      <3> QED
        BY <2>2, <3>1, WaitingIs, WaitingIsNext
    <2> QED
      BY <2>1, <2>2
  <1> QED
    BY <1>3, <1>4

\* A thread that never calls mnthr_wait_for_events waits for one event.
LEMMA OneEvent ==
    ASSUME Base, Coupled, NEW t \in Plain, NEW e \in Event, <<t, e>> \in Waiting
    PROVE  /\ state[t] = "RW" /\ t \in Thr
           /\ \A x \in Event : <<t, x>> \in Waiting => x = e
  <1>1. t \in Thr
    BY DEF Plain
  <1>2. state[t] \in {"RW", "OTHER"} /\ e \in Elems(pdata[t])
    BY <1>1, WaitingIs
  <1>3. state[t] = "RW" /\ Len(pdata[t]) = 1
    BY <1>2 DEF Coupled
  <1>4. \A x : x \in Elems(pdata[t]) => x = pdata[t][1]
    BY <1>3 DEF Elems
  <1> QED
    BY <1>1, <1>2, <1>3, <1>4, WaitingIs
-----------------------------------------------------------------------------
(***************************************************************************)
(* The steps that leave the change list alone.                             *)
(***************************************************************************)

\* The pairs that are counted are finitely many, and fewer are not more.
LEMMA CountShrinks ==
    ASSUME NEW S, S \subseteq Thr \X Event, NEW R, R \subseteq S
    PROVE  /\ IsFiniteSet(S) /\ IsFiniteSet(R)
           /\ Cardinality(S) \in Nat /\ Cardinality(R) \in Nat
           /\ Cardinality(R) <= Cardinality(S)
  <1>1. IsFiniteSet(Filter)
    <2>1. IsFiniteSet({"READ"}) /\ IsFiniteSet({"WRITE"})
      BY FS_Singleton
    <2>2. IsFiniteSet({"READ"} \cup {"WRITE"})
      BY <2>1, FS_Union
    <2>3. Filter = {"READ"} \cup {"WRITE"}
      BY DEF Filter
    <2> QED
      BY <2>2, <2>3
  <1>2. IsFiniteSet(Event)
    BY <1>1, KeventPollerAssumption, FS_Product DEF Event
  <1>3. IsFiniteSet(Thr \X Event)
    BY <1>2, KeventPollerAssumption, FS_Product
  <1>4. IsFiniteSet(S)
    BY <1>3, FS_Subset
  <1> QED
    BY <1>4, FS_Subset, FS_CardinalityType

\* The pairs of the count are pairs.
LEMMA CountedType ==
    /\ Waiting \cup Claimed \cup Arrived \subseteq Thr \X Event
    /\ (Waiting \cup Claimed \cup Arrived)' \subseteq Thr \X Event
  BY DEF Waiting, Claimed, Arrived

\* The count is enough as long as nothing is added.
LEMMA CountKeeps ==
    ASSUME Base, CountOK, event_count' = event_count, phase' = "over" => event_count = 0,
           (Waiting \cup Claimed \cup Arrived)' \subseteq Waiting \cup Claimed \cup Arrived
    PROVE  CountOK'
  <1> DEFINE S == Waiting \cup Claimed \cup Arrived
  <1>1. S' \subseteq S /\ S \subseteq Thr \X Event
    BY CountedType
  <1> HIDE DEF S
  <1>2. Cardinality(S') <= Cardinality(S) /\ Cardinality(S) \in Nat /\ Cardinality(S') \in Nat
    BY <1>1, CountShrinks
  <1>3. event_count >= Cardinality(S) /\ event_count \in Int
    BY DEF CountOK, S, Base, TypeOK
  <1>4. event_count' >= Cardinality(S')
    BY <1>2, <1>3
  <1> QED
    BY <1>4 DEF CountOK, S

\* A step that changes no list and no count, and takes no wait from a thread that
\* waits for one event.
LEMMA QuietKeeps ==
    ASSUME Base, Good,
           kevents0' = kevents0, knote' = knote, open \subseteq open',
           event_count' = event_count, clash' = clash,
           Waiting' \subseteq Waiting,
           \A t \in Plain, e \in Event : <<t, e>> \in Waiting' <=> <<t, e>> \in Waiting,
           Refused' = Refused, Arrived' = Arrived,
           phase' = "over" => event_count = 0
    PROVE  ListOK' /\ ClashSeen' /\ Reached' /\ CountOK'
  <1> USE DEF Good
  <1>1. kevents0 \in Seq(Change) /\ knote \in [Event -> Thr \cup {NoThread}]
    BY DEF Base, TypeOK
  <1>2. Claimed' = Claimed
    BY DEF Claimed
  <1>3. AddsAwaited'
    <2> SUFFICES ASSUME NEW i \in 1..Len(kevents0), kevents0[i].op = "ADD", kevents0[i].thr \in Plain
                 PROVE  \/ DeletedBehind(kevents0, i, kevents0[i].ev)
                        \/ /\ <<kevents0[i].thr, kevents0[i].ev>> \in Waiting'
                           /\ \A j \in 1..Len(kevents0) : j > i => kevents0[j] # kevents0[i]
      BY DEF AddsAwaited, DeletedBehind
    <2>1. kevents0[i] \in Change
      BY <1>1
    <2>2. kevents0[i].ev \in Event
      BY <2>1 DEF Change
    <2> QED
      BY <2>2 DEF ListOK, AddsAwaited
  <1>4. KnotesAwaited'
    <2> SUFFICES ASSUME NEW e \in Event, knote[e] \in Plain
                 PROVE  <<knote[e], e>> \in Waiting' \/ ~ Untouched(kevents0, e)
      BY DEF KnotesAwaited, Untouched
    <2> QED
      BY DEF ListOK, KnotesAwaited
  <1>5. ClosedForgotten'
    BY DEF ListOK, ClosedForgotten
  <1>6. ClashSeen'
    BY DEF ClashSeen
  <1>7. Reached'
    BY <1>2 DEF Reached
  <1>8. CountOK'
    BY <1>2, CountKeeps
  <1> QED
    BY <1>3, <1>4, <1>5, <1>6, <1>7, <1>8 DEF ListOK

\* The results that are not looked at yet, while nothing about them changes.
LEMMA ResultsSame ==
    ASSUME Base, ResultsOK, phase # "kevent",
           kevents0' = kevents0, knote' = knote, clash' = clash,
           kevents1' = kevents1, iter' = iter, phase' = phase, Waiting' = Waiting
    PROVE  FailedOK' /\ ResultsOK' /\ Refused' = Refused /\ Arrived' = Arrived
  BY DEF FailedOK, ResultsOK, Refused, Arrived

\* The calls of the running thread that leave the lists alone.
LEMMA CallKeeps ==
    ASSUME Base, Good, NEW t \in Thr, me = t,
           kevents0' = kevents0, knote' = knote, open \subseteq open',
           event_count' = event_count, clash' = clash,
           kevents1' = kevents1, iter' = iter, phase' = phase, Waiting' = Waiting
    PROVE  ListOK' /\ FailedOK' /\ ResultsOK' /\ ClashSeen' /\ Reached' /\ CountOK'
  <1>1. phase # "kevent" /\ phase # "over"
    BY KeventPollerAssumption DEF Base, Shape
  <1>2. FailedOK' /\ ResultsOK' /\ Refused' = Refused /\ Arrived' = Arrived
    BY <1>1, ResultsSame DEF Good
  <1> QED
    BY <1>1, <1>2, QuietKeeps

\* A thread goes to sleep.
LEMMA GoodSleep ==
    ASSUME Base, Good, NEW t \in Thr, mnthr_sleep(t)
    PROVE  Good'
  <1>1. me = t /\ state[t] = "RESUMED"
    BY DEF Base, Shape, mnthr_sleep
  <1>2. WaitsForSomething' /\ Coupled'
    BY <1>1 DEF Good, Base, TypeOK, WaitsForSomething, Coupled, Plain, mnthr_sleep, kernel, counts, round, pvars, cvars, hist
  <1>3. Waiting' = Waiting
    <2>1. \A x \in Thr : \/ state'[x] = state[x] /\ pdata'[x] = pdata[x]
                         \/ /\ state[x] \notin {"RW", "OTHER"}
                            /\ state'[x] \notin {"RW", "OTHER"}
      BY <1>1 DEF Base, TypeOK, mnthr_sleep, kernel, counts, round, pvars, cvars, hist
    <2> QED
      BY <2>1, WaitingSame
  <1>4. /\ kevents0' = kevents0 /\ knote' = knote /\ open \subseteq open'
        /\ event_count' = event_count /\ clash' = clash
        /\ kevents1' = kevents1 /\ iter' = iter /\ phase' = phase
    BY DEF mnthr_sleep, kernel, counts, round, pvars, cvars, hist
  <1>5. ListOK' /\ FailedOK' /\ ResultsOK' /\ ClashSeen' /\ Reached' /\ CountOK'
    BY <1>1, <1>3, <1>4, CallKeeps
  <1> QED
    BY <1>2, <1>5 DEF Good

\* A thread sets its return code.
LEMMA GoodRetval ==
    ASSUME Base, Good, NEW t \in Thr, mnthr_set_retval(t)
    PROVE  Good'
  <1>1. me = t /\ state[t] = "RESUMED"
    BY DEF Base, Shape, mnthr_set_retval
  <1>2. WaitsForSomething' /\ Coupled'
    BY <1>1 DEF Good, Base, TypeOK, WaitsForSomething, Coupled, Plain, mnthr_set_retval, kernel, counts, round, pvars, cvars, hist
  <1>3. Waiting' = Waiting
    <2>1. \A x \in Thr : \/ state'[x] = state[x] /\ pdata'[x] = pdata[x]
                         \/ /\ state[x] \notin {"RW", "OTHER"}
                            /\ state'[x] \notin {"RW", "OTHER"}
      BY <1>1 DEF Base, TypeOK, mnthr_set_retval, kernel, counts, round, pvars, cvars, hist
    <2> QED
      BY <2>1, WaitingSame
  <1>4. /\ kevents0' = kevents0 /\ knote' = knote /\ open \subseteq open'
        /\ event_count' = event_count /\ clash' = clash
        /\ kevents1' = kevents1 /\ iter' = iter /\ phase' = phase
    BY DEF mnthr_set_retval, kernel, counts, round, pvars, cvars, hist
  <1>5. ListOK' /\ FailedOK' /\ ResultsOK' /\ ClashSeen' /\ Reached' /\ CountOK'
    BY <1>1, <1>3, <1>4, CallKeeps
  <1> QED
    BY <1>2, <1>5 DEF Good

\* A thread ends.
LEMMA GoodExit ==
    ASSUME Base, Good, NEW t \in Thr, Exit(t)
    PROVE  Good'
  <1>1. me = t /\ state[t] = "RESUMED"
    BY DEF Base, Shape, Exit
  <1>2. WaitsForSomething' /\ Coupled'
    BY <1>1 DEF Good, Base, TypeOK, WaitsForSomething, Coupled, Plain, Exit, kernel, counts, round, pvars, cvars, hist
  <1>3. Waiting' = Waiting
    <2>1. \A x \in Thr : \/ state'[x] = state[x] /\ pdata'[x] = pdata[x]
                         \/ /\ state[x] \notin {"RW", "OTHER"}
                            /\ state'[x] \notin {"RW", "OTHER"}
      BY <1>1 DEF Base, TypeOK, Exit, kernel, counts, round, pvars, cvars, hist
    <2> QED
      BY <2>1, WaitingSame
  <1>4. /\ kevents0' = kevents0 /\ knote' = knote /\ open \subseteq open'
        /\ event_count' = event_count /\ clash' = clash
        /\ kevents1' = kevents1 /\ iter' = iter /\ phase' = phase
    BY DEF Exit, kernel, counts, round, pvars, cvars, hist
  <1>5. ListOK' /\ FailedOK' /\ ResultsOK' /\ ClashSeen' /\ Reached' /\ CountOK'
    BY <1>1, <1>3, <1>4, CallKeeps
  <1> QED
    BY <1>2, <1>5 DEF Good

\* A context is used again.
LEMMA GoodSpawn ==
    ASSUME Base, Good, NEW t \in Thr, NEW u \in Thr, mnthr_spawn(t, u)
    PROVE  Good'
  <1>1. me = t /\ state[t] = "RESUMED"
    BY DEF Base, Shape, mnthr_spawn
  <1>2. WaitsForSomething' /\ Coupled'
    BY <1>1 DEF Good, Base, TypeOK, WaitsForSomething, Coupled, Plain, mnthr_spawn, kernel, counts, round, pvars, cvars, hist
  <1>3. Waiting' = Waiting
    <2>1. \A x \in Thr : \/ state'[x] = state[x] /\ pdata'[x] = pdata[x]
                         \/ /\ state[x] \notin {"RW", "OTHER"}
                            /\ state'[x] \notin {"RW", "OTHER"}
      BY <1>1 DEF Base, TypeOK, mnthr_spawn, kernel, counts, round, pvars, cvars, hist
    <2> QED
      BY <2>1, WaitingSame
  <1>4. /\ kevents0' = kevents0 /\ knote' = knote /\ open \subseteq open'
        /\ event_count' = event_count /\ clash' = clash
        /\ kevents1' = kevents1 /\ iter' = iter /\ phase' = phase
    BY DEF mnthr_spawn, kernel, counts, round, pvars, cvars, hist
  <1>5. ListOK' /\ FailedOK' /\ ResultsOK' /\ ClashSeen' /\ Reached' /\ CountOK'
    BY <1>1, <1>3, <1>4, CallKeeps
  <1> QED
    BY <1>2, <1>5 DEF Good

\* A descriptor is opened again.
LEMMA GoodReopen ==
    ASSUME Base, Good, NEW t \in Thr, NEW f \in Fd, reopen(t, f)
    PROVE  Good'
  <1>1. me = t /\ state[t] = "RESUMED"
    BY DEF Base, Shape, reopen
  <1>2. WaitsForSomething' /\ Coupled'
    BY <1>1 DEF Good, Base, TypeOK, WaitsForSomething, Coupled, Plain, reopen, kernel, counts, round, pvars, cvars, hist
  <1>3. Waiting' = Waiting
    <2>1. \A x \in Thr : \/ state'[x] = state[x] /\ pdata'[x] = pdata[x]
                         \/ /\ state[x] \notin {"RW", "OTHER"}
                            /\ state'[x] \notin {"RW", "OTHER"}
      BY <1>1 DEF Base, TypeOK, reopen, kernel, counts, round, pvars, cvars, hist
    <2> QED
      BY <2>1, WaitingSame
  <1>4. /\ kevents0' = kevents0 /\ knote' = knote /\ open \subseteq open'
        /\ event_count' = event_count /\ clash' = clash
        /\ kevents1' = kevents1 /\ iter' = iter /\ phase' = phase
    BY DEF reopen, kernel, counts, round, pvars, cvars, hist
  <1>5. ListOK' /\ FailedOK' /\ ResultsOK' /\ ClashSeen' /\ Reached' /\ CountOK'
    BY <1>1, <1>3, <1>4, CallKeeps
  <1> QED
    BY <1>2, <1>5 DEF Good

\* No results are left.
LEMMA NothingLeft ==
    ASSUME Base, iter > Len(kevents1), iter' > Len(kevents1'),
           iter' \in Nat, kevents1' \in Seq(Result)
    PROVE  Refused' = Refused /\ Arrived' = Arrived /\ ResultsOK'
  <1>1. iter..Len(kevents1) = {}
    BY DEF Base, TypeOK
  <1>2. iter'..Len(kevents1') = {}
    OBVIOUS
  <1> QED
    BY <1>1, <1>2 DEF Refused, Arrived, ResultsOK

\* The loop sleeps, or ends.
LEMMA GoodIdle ==
    ASSUME Base, Good, loop_idle
    PROVE  Good'
  <1>1. /\ kevents0' = kevents0 /\ knote' = knote /\ open' = open
        /\ event_count' = event_count /\ event_count = 0 /\ clash' = clash
        /\ phase = "sift" /\ phase' # "kevent" /\ kevents1' = <<>> /\ iter' = 1
        /\ state' = state /\ pdata' = pdata /\ call' = call /\ rc' = rc
        /\ due' = due /\ runq' = runq
    BY DEF loop_idle, kernel, counts, pvars, cvars, hist
  <1>2. kevents1 = <<>> /\ iter = 1
    BY <1>1 DEF Base, Shape
  <1>3. Waiting' = Waiting
    BY <1>1 DEF Waiting, Awaits
  <1>4. Refused' = Refused /\ Arrived' = Arrived /\ ResultsOK'
    BY <1>1, <1>2, NothingLeft
  <1>5. FailedOK'
    BY <1>1 DEF FailedOK
  <1>6. ListOK' /\ ClashSeen' /\ Reached' /\ CountOK'
    BY <1>1, <1>3, <1>4, QuietKeeps
  <1>7. WaitsForSomething' /\ Coupled'
    BY <1>1 DEF Good, WaitsForSomething, Coupled
  <1> QED
    BY <1>4, <1>5, <1>6, <1>7 DEF Good

\* kevent() is called.
LEMMA GoodKevent ==
    ASSUME Base, Good, loop_kevent
    PROVE  Good'
  <1>1. /\ kevents0' = kevents0 /\ knote' = knote /\ open' = open
        /\ event_count' = event_count /\ clash' = clash
        /\ phase = "sift" /\ phase' = "kevent" /\ kevents1' = kevents1 /\ iter' = iter
        /\ state' = state /\ pdata' = pdata /\ call' = call /\ rc' = rc
        /\ due' = due /\ runq' = runq
    BY DEF loop_kevent, kernel, pvars, cvars, hist
  <1>2. kevents1 = <<>> /\ iter = 1
    BY <1>1 DEF Base, Shape
  <1>3. Waiting' = Waiting
    BY <1>1 DEF Waiting, Awaits
  <1>4. Refused' = Refused /\ Arrived' = Arrived /\ ResultsOK'
    BY <1>1, <1>2, NothingLeft
  <1>5. FailedOK'
    BY <1>1, <1>2 DEF FailedOK
  <1>6. ListOK' /\ ClashSeen' /\ Reached' /\ CountOK'
    BY <1>1, <1>3, <1>4, QuietKeeps
  <1>7. WaitsForSomething' /\ Coupled'
    BY <1>1 DEF Good, WaitsForSomething, Coupled
  <1> QED
    BY <1>4, <1>5, <1>6, <1>7 DEF Good

\* The next round begins.
LEMMA GoodRound ==
    ASSUME Base, Good, loop_round
    PROVE  Good'
  <1>1. /\ kevents0' = kevents0 /\ knote' = knote /\ open' = open
        /\ event_count' = event_count /\ clash' = clash
        /\ phase = "results" /\ phase' = "sift" /\ kevents1' = <<>> /\ iter' = 1
        /\ state' = state /\ pdata' = pdata /\ call' = call /\ rc' = rc
        /\ iter > Len(kevents1)
    BY DEF loop_round, kernel, counts, pvars, cvars, hist
  <1>2. PICK x \in SUBSET {t \in due : state[t] = "SLEEP"} : due' = x /\ runq' = due \ x
    BY DEF loop_round
  <1>3. Waiting' = Waiting
    BY <1>1 DEF Waiting, Awaits
  <1>4. Refused' = Refused /\ Arrived' = Arrived /\ ResultsOK'
    BY <1>1, NothingLeft
  <1>5. FailedOK'
    BY <1>1 DEF FailedOK
  <1>6. ListOK' /\ ClashSeen' /\ Reached' /\ CountOK'
    BY <1>1, <1>3, <1>4, QuietKeeps
  <1>7. WaitsForSomething' /\ Coupled'
    BY <1>1, <1>2 DEF Good, WaitsForSomething, Coupled
  <1> QED
    BY <1>4, <1>5, <1>6, <1>7 DEF Good

\* The walk resumes a thread, which waits for no event unless it calls
\* mnthr_wait_for_events.
LEMMA GoodSift ==
    ASSUME Base, Good, NEW t \in Thr, sift(t)
    PROVE  Good'
  <1>1. /\ phase = "sift" /\ me = NoThread /\ t \in runq /\ runq' = runq \ {t}
        /\ kevents0' = kevents0 /\ knote' = knote /\ open' = open
        /\ event_count' = event_count /\ event_max' = event_max
        /\ kevents1' = kevents1 /\ iter' = iter /\ phase' = phase /\ due' = due
        /\ clean' = clean /\ clash' = clash
    BY DEF sift, kernel, counts, hist
  <1>2. Continue(t, idx[t], rc[t]) /\ idx[t] \in 0..event_max /\ rc[t] \in {0, INTERRUPTED, POLLER}
    BY DEF sift, Base, TypeOK
  <1>3. /\ state' = [state EXCEPT ![t] = "RESUMED"]
        /\ call' = [call EXCEPT ![t] = "none"] /\ rc' = [rc EXCEPT ![t] = rc[t]]
        /\ \A u \in Thr \ {t} : pdata'[u] = pdata[u]
    BY <1>2, ContinueIs DEF Base
  <1>4. /\ state \in [Thr -> {"DORMANT", "RESUMED", "SLEEP", "SET", "RW", "OTHER"}]
        /\ call \in [Thr -> {"none", "sleep", "wait", "wait_for_events"}]
        /\ rc \in [Thr -> {0, INTERRUPTED, POLLER}]
    BY DEF Base, TypeOK
  <1>5. state'[t] = "RESUMED" /\ call'[t] = "none"
        /\ \A u \in Thr \ {t} : state'[u] = state[u] /\ call'[u] = call[u] /\ rc'[u] = rc[u]
    BY <1>3, <1>4
  <1>6. t \in Plain => state[t] \notin {"RW", "OTHER"} /\ t \notin due
    BY <1>1 DEF Good, Coupled
  <1>7. /\ \A u \in Thr, e \in Event : <<u, e>> \in Waiting' <=> u # t /\ <<u, e>> \in Waiting
        /\ Waiting' \subseteq Waiting
    BY <1>3, <1>5, WaitingEnds
  <1>8. \A u \in Plain, e \in Event : <<u, e>> \in Waiting' <=> <<u, e>> \in Waiting
    BY <1>6, <1>7, WaitingIs DEF Plain
  <1>9. kevents1 = <<>> /\ iter = 1
    BY <1>1 DEF Base, Shape
  <1>10. Refused' = Refused /\ Arrived' = Arrived /\ ResultsOK'
    BY <1>1, <1>9, NothingLeft
  <1>11. FailedOK'
    BY <1>1 DEF FailedOK
  <1>12. ListOK' /\ ClashSeen' /\ Reached' /\ CountOK'
    BY <1>1, <1>7, <1>8, <1>10, QuietKeeps
  <1>13. WaitsForSomething'
    BY <1>3, <1>5 DEF Good, WaitsForSomething
  <1>14. Coupled'
    BY <1>1, <1>3, <1>5, <1>6 DEF Good, Coupled, Plain
  <1> QED
    BY <1>10, <1>11, <1>12, <1>13, <1>14 DEF Good

\* A descriptor nobody waits for is closed, and the kernel forgets its knotes.
LEMMA GoodClose ==
    ASSUME Base, Good, NEW t \in Thr, NEW f \in Fd, close(t, f)
    PROVE  Good'
  <1> USE DEF Good
  <1>1. /\ me = t /\ kevents0' = kevents0 /\ open' = open \ {f}
        /\ knote' = [e \in Event |-> IF e[1] = f THEN NoThread ELSE knote[e]]
        /\ event_count' = event_count /\ clash' = clash
        /\ kevents1' = kevents1 /\ iter' = iter /\ phase' = phase
        /\ state' = state /\ pdata' = pdata /\ call' = call /\ rc' = rc
        /\ due' = due /\ runq' = runq
    BY DEF close, kernel, counts, round, pvars, cvars, hist
  <1>2. phase # "kevent" /\ phase # "over"
    BY <1>1, KeventPollerAssumption DEF Base, Shape
  <1>3. Waiting' = Waiting
    BY <1>1 DEF Waiting, Awaits
  <1>4. ASSUME NEW u \in Thr, NEW e \in Event, <<u, e>> \in Waiting
        PROVE  e[1] # f
    <2>1. state[u] \in {"RW", "OTHER"} /\ e \in Elems(pdata[u])
      BY <1>4, WaitingIs
    <2>2. Elems(pdata[u]) \cap ({f} \X Filter) = {}
      BY <2>1 DEF close
    <2>3. e[1] = f => e \in {f} \X Filter
      BY DEF Event
    <2> QED
      BY <2>1, <2>2, <2>3
  <1>5. WaitsForSomething' /\ Coupled'
    BY <1>1 DEF WaitsForSomething, Coupled
  <1>6. kevents0 \in Seq(Change) /\ knote \in [Event -> Thr \cup {NoThread}]
    BY DEF Base, TypeOK
  <1>7. AddsAwaited'
    BY <1>1, <1>3 DEF ListOK, AddsAwaited, DeletedBehind
  <1>8. KnotesAwaited'
    <2> SUFFICES ASSUME NEW e \in Event, knote'[e] \in Plain
                 PROVE  <<knote'[e], e>> \in Waiting \/ ~ Untouched(kevents0, e)
      BY <1>1, <1>3 DEF KnotesAwaited, Untouched
    <2>1. knote'[e] = knote[e]
      BY <1>1, KeventPollerAssumption DEF Plain
    <2> QED
      BY <2>1 DEF ListOK, KnotesAwaited
  <1>9. ClosedForgotten'
    BY <1>1 DEF ListOK, ClosedForgotten
  <1>10. FailedOK'
    BY <1>1, <1>2 DEF FailedOK
  <1>11. ResultsOK'
    <2>1. ASSUME phase = "results", NEW i \in iter..Len(kevents1), kevents1[i].error
          PROVE  knote'[kevents1[i].ev] = NoThread
      <3>1. i \in 1..Len(kevents1) /\ kevents1 \in Seq(Result)
        BY DEF Base, TypeOK
      <3>2. kevents1[i] \in Result
        BY <3>1
      <3>3. kevents1[i].ev \in Event
        BY <3>2 DEF Result
      <3>4. knote[kevents1[i].ev] = NoThread
        BY <2>1 DEF ResultsOK
      <3> QED
        BY <3>3, <3>4, <1>1
    <2> QED
      BY <2>1, <1>1, <1>3 DEF ResultsOK
  <1>12. Refused' = Refused /\ Arrived' = Arrived
    BY <1>1 DEF Refused, Arrived
  <1>13. ClashSeen'
    BY <1>1, <1>3 DEF ClashSeen
  <1>14. \A u \in Thr, e \in Event :
            /\ <<u, e>> \in Claimed' => <<u, e>> \in Claimed
            /\ <<u, e>> \in Claimed /\ e[1] # f => <<u, e>> \in Claimed'
    <2> SUFFICES ASSUME NEW u \in Thr, NEW e \in Event
                 PROVE  /\ <<u, e>> \in Claimed' => <<u, e>> \in Claimed
                        /\ <<u, e>> \in Claimed /\ e[1] # f => <<u, e>> \in Claimed'
      OBVIOUS
    <2>1. <<u, e>> \in Claimed <=>
            AddedLast(kevents0, u, e) \/ (knote[e] = u /\ Untouched(kevents0, e))
      BY DEF Claimed
    <2>2. <<u, e>> \in Claimed' <=>
            AddedLast(kevents0, u, e) \/ (knote'[e] = u /\ Untouched(kevents0, e))
      BY <1>1 DEF Claimed, AddedLast, Untouched
    <2>3. (knote'[e] = u => knote[e] = u) /\ (e[1] # f => knote'[e] = knote[e])
      BY <1>1, KeventPollerAssumption
    <2> QED
      BY <2>1, <2>2, <2>3
  <1>15. Reached'
    <2> SUFFICES ASSUME NEW u \in Plain, NEW e \in Event \ clash, <<u, e>> \in Waiting
                 PROVE  <<u, e>> \in Claimed' \/ <<u, e>> \in Refused
      BY <1>1, <1>3, <1>12 DEF Reached
    <2>1. <<u, e>> \in Claimed \/ <<u, e>> \in Refused
      BY DEF Reached
    <2> QED
      BY <2>1, <1>4, <1>14 DEF Plain
  <1>16. CountOK'
    <2>1. Claimed' \subseteq Thr \X Event
      BY DEF Claimed
    <2>2. Claimed' \subseteq Claimed
      BY <2>1, <1>14
    <2> QED
      BY <2>2, <1>1, <1>2, <1>3, <1>12, CountKeeps
  <1> QED
    BY <1>5, <1>7, <1>8, <1>9, <1>10, <1>11, <1>13, <1>15, <1>16 DEF ListOK
-----------------------------------------------------------------------------
(***************************************************************************)
(* The calls that add changes: a wait, an interrupt.                       *)
(***************************************************************************)

\* The pairs of a thread and the events es.
Pairs(t, es) == {<<t, e>> : e \in Elems(es)}

\* The events of a wait one by one.
LEMMA PairsAre ==
    ASSUME NEW t \in Thr, NEW es \in Watched
    PROVE  /\ Pairs(t, es) \subseteq Thr \X Event
           /\ Len(es) = 0 => Pairs(t, es) = {}
           /\ Len(es) = 1 => Pairs(t, es) = {<<t, es[1]>>}
           /\ Len(es) = 2 => /\ Pairs(t, es) = {<<t, es[1]>>} \cup {<<t, es[2]>>}
                             /\ <<t, es[1]>> # <<t, es[2]>>
           /\ Len(es) = 0 \/ Len(es) = 1 \/ Len(es) = 2
  <1>1. es \in Seq(Event) /\ Distinct(es) /\ Len(es) \in 0..2
    BY WatchedIs
  <1>2. \A e \in Elems(es) : e \in Event
    BY <1>1, ElemsType
  <1>3. Len(es) = 0 => Elems(es) = {}
    BY DEF Elems
  <1>4. Len(es) = 1 => Elems(es) = {es[1]}
    BY DEF Elems
  <1>5. Len(es) = 2 => Elems(es) = {es[1]} \cup {es[2]} /\ es[1] # es[2]
    <2> SUFFICES ASSUME Len(es) = 2 PROVE Elems(es) = {es[1]} \cup {es[2]} /\ es[1] # es[2]
      OBVIOUS
    <2>1. 1..Len(es) = {1, 2}
      OBVIOUS
    <2>2. Elems(es) = {es[1]} \cup {es[2]}
      BY <2>1 DEF Elems
    <2>3. es[1] # es[2]
      BY <2>1, <1>1 DEF Distinct
    <2> QED
      BY <2>2, <2>3
  <1> QED
    BY <1>1, <1>2, <1>3, <1>4, <1>5 DEF Pairs

\* An element more counts for one at most.
LEMMA OneMore ==
    ASSUME NEW S, IsFiniteSet(S), NEW x
    PROVE  /\ IsFiniteSet(S \cup {x}) /\ Cardinality(S \cup {x}) \in Nat
           /\ Cardinality(S \cup {x}) <= Cardinality(S) + 1
  <1>1. IsFiniteSet(S \cup {x}) /\ (Cardinality(S \cup {x}) = Cardinality(S) \/ Cardinality(S \cup {x}) = Cardinality(S) + 1)
    BY FS_AddElement
  <1>2. Cardinality(S) \in Nat
    BY FS_CardinalityType
  <1> QED
    BY <1>1, <1>2

\* An element that is taken away counts for one.
LEMMA OneLess ==
    ASSUME NEW S, IsFiniteSet(S), NEW x \in S
    PROVE  /\ IsFiniteSet(S \ {x}) /\ Cardinality(S \ {x}) = Cardinality(S) - 1
  BY FS_RemoveElement

\* A wait adds at most as many pairs as it has events.
LEMMA CountPlus ==
    ASSUME NEW S, S \subseteq Thr \X Event, NEW t \in Thr, NEW es \in Watched,
           NEW R, R \subseteq S \cup Pairs(t, es)
    PROVE  Cardinality(R) <= Cardinality(S) + Len(es)
  <1> DEFINE P == S \cup Pairs(t, es)
  <1>1. P \subseteq Thr \X Event /\ R \subseteq P
    BY PairsAre
  <1>2. Cardinality(R) <= Cardinality(P) /\ Cardinality(R) \in Nat
    BY <1>1, CountShrinks
  <1>3. IsFiniteSet(S) /\ Cardinality(S) \in Nat
    BY CountShrinks
  <1>4. Cardinality(P) <= Cardinality(S) + Len(es) /\ Cardinality(P) \in Nat
    <2>1. CASE Len(es) = 0
      <3>1. P = S
        BY <2>1, PairsAre
      <3> HIDE DEF P
      <3> QED
        BY <3>1, <2>1, <1>3
    <2>2. CASE Len(es) = 1
      <3>1. P = S \cup {<<t, es[1]>>}
        BY <2>2, PairsAre
      <3> HIDE DEF P
      <3> QED
        BY <3>1, <2>2, <1>3, OneMore
    <2>3. CASE Len(es) = 2
      <3> DEFINE Q == S \cup {<<t, es[1]>>}
      <3>1. P = Q \cup {<<t, es[2]>>}
        BY <2>3, PairsAre
      <3>2. IsFiniteSet(Q) /\ Cardinality(Q) \in Nat /\ Cardinality(Q) <= Cardinality(S) + 1
        BY <1>3, OneMore
      <3> HIDE DEF P, Q
      <3>3. Cardinality(P) \in Nat /\ Cardinality(P) <= Cardinality(Q) + 1
        BY <3>1, <3>2, OneMore
      <3> QED
        BY <3>2, <3>3, <2>3, <1>3
    <2> QED
      BY <2>1, <2>2, <2>3, PairsAre
  <1>5. Len(es) \in Nat
    BY WatchedIs
  <1> HIDE DEF P
  <1> QED
    BY <1>2, <1>3, <1>4, <1>5

\* A wait that ends takes as many pairs away as it has events.
LEMMA CountMinus ==
    ASSUME NEW S, S \subseteq Thr \X Event, NEW t \in Thr, NEW es \in Watched,
           Pairs(t, es) \subseteq S, NEW R, R \subseteq S \ Pairs(t, es)
    PROVE  Cardinality(R) <= Cardinality(S) - Len(es)
  <1> DEFINE P == S \ Pairs(t, es)
  <1>1. P \subseteq Thr \X Event /\ R \subseteq P
    OBVIOUS
  <1>2. Cardinality(R) <= Cardinality(P) /\ Cardinality(R) \in Nat
    BY <1>1, CountShrinks
  <1>3. IsFiniteSet(S) /\ Cardinality(S) \in Nat
    BY CountShrinks
  <1>4. Cardinality(P) = Cardinality(S) - Len(es)
    <2>1. CASE Len(es) = 0
      <3>1. P = S
        BY <2>1, PairsAre
      <3> HIDE DEF P
      <3> QED
        BY <3>1, <2>1, <1>3
    <2>2. CASE Len(es) = 1
      <3>1. P = S \ {<<t, es[1]>>} /\ <<t, es[1]>> \in S
        BY <2>2, PairsAre
      <3> HIDE DEF P
      <3> QED
        BY <3>1, <2>2, <1>3, OneLess
    <2>3. CASE Len(es) = 2
      <3> DEFINE Q == S \ {<<t, es[1]>>}
      <3>1. P = Q \ {<<t, es[2]>>} /\ <<t, es[1]>> \in S /\ <<t, es[2]>> \in Q
        BY <2>3, PairsAre
      <3>2. IsFiniteSet(Q) /\ Cardinality(Q) = Cardinality(S) - 1
        BY <3>1, <1>3, OneLess
      <3> HIDE DEF P, Q
      <3>3. Cardinality(P) = Cardinality(Q) - 1
        BY <3>1, <3>2, OneLess
      <3> QED
        BY <3>2, <3>3, <2>3, <1>3
    <2> QED
      BY <2>1, <2>2, <2>3, PairsAre
  <1>5. Len(es) \in Nat
    BY WatchedIs
  <1> HIDE DEF P
  <1> QED
    BY <1>2, <1>3, <1>4, <1>5

\* Membership in Claimed, in this state and in the next.
LEMMA ClaimedIs ==
    ASSUME NEW u \in Thr, NEW e \in Event
    PROVE  /\ <<u, e>> \in Claimed <=>
                AddedLast(kevents0, u, e) \/ (knote[e] = u /\ Untouched(kevents0, e))
           /\ <<u, e>> \in Claimed' <=>
                AddedLast(kevents0', u, e) \/ (knote'[e] = u /\ Untouched(kevents0', e))
  <1>1. <<u, e>> \in Claimed <=>
          AddedLast(kevents0, u, e) \/ (knote[e] = u /\ Untouched(kevents0, e))
    BY DEF Claimed
  <1>2. <<u, e>> \in Claimed' <=>
          AddedLast(kevents0', u, e) \/ (knote'[e] = u /\ Untouched(kevents0', e))
    BY DEF Claimed, AddedLast, Untouched
  <1> QED
    BY <1>1, <1>2

\* Who will be registered, after changes for the events es are added.
LEMMA ClaimedExtends ==
    ASSUME Base, NEW t \in Thr, NEW es \in Watched, NEW op \in {"ADD", "DELETE"},
           Extended(kevents0, kevents0', op, es, t), knote' = knote
    PROVE  \A u \in Thr, e \in Event :
              <<u, e>> \in Claimed' <=> IF e \in Elems(es) THEN op = "ADD" /\ u = t
                                       ELSE <<u, e>> \in Claimed
  <1> SUFFICES ASSUME NEW u \in Thr, NEW e \in Event
               PROVE  <<u, e>> \in Claimed' <=> IF e \in Elems(es) THEN op = "ADD" /\ u = t
                                               ELSE <<u, e>> \in Claimed
    OBVIOUS
  <1>1. kevents0 \in Seq(Change)
    BY DEF Base, TypeOK
  <1>2. /\ <<u, e>> \in Claimed <=>
             AddedLast(kevents0, u, e) \/ (knote[e] = u /\ Untouched(kevents0, e))
        /\ <<u, e>> \in Claimed' <=>
             AddedLast(kevents0', u, e) \/ (knote[e] = u /\ Untouched(kevents0', e))
    BY ClaimedIs
  <1>3. CASE e \in Elems(es)
    <2>1. CASE op = "ADD"
      <3>1. ~ Untouched(kevents0', e) /\ (AddedLast(kevents0', u, e) <=> u = t)
        BY <2>1, <1>1, <1>3, ExtendedAdded
      <3> QED
        BY <2>1, <3>1, <1>2, <1>3
    <2>2. CASE op = "DELETE"
      <3>1. ~ Untouched(kevents0', e) /\ ~ AddedLast(kevents0', u, e)
        BY <2>2, <1>1, <1>3, ExtendedDeleted
      <3> QED
        BY <2>2, <3>1, <1>2, <1>3
    <2> QED
      BY <2>1, <2>2
  <1>4. CASE e \notin Elems(es)
    <2>1. /\ Untouched(kevents0', e) <=> Untouched(kevents0, e)
          /\ AddedLast(kevents0', u, e) <=> AddedLast(kevents0, u, e)
      BY <1>1, <1>4, ExtendedOther
    <2> QED
      BY <2>1, <1>2, <1>4
  <1> QED
    BY <1>3, <1>4

\* A thread begins to wait.
LEMMA GoodWait ==
    ASSUME Base, Good, NEW t \in Thr, NEW es \in Watched, NEW st \in {"RW", "OTHER"},
           NEW name \in {"wait", "wait_for_events"}, begin_wait(t, es, st, name),
           es # <<>>, t \in Plain => st = "RW" /\ name = "wait" /\ Len(es) = 1
    PROVE  Good'
  <1> USE DEF Good
  <1>1. /\ me = t /\ state[t] = "RESUMED"
        /\ event_count' = event_count + Len(es)
        /\ pdata' = [pdata EXCEPT ![t] = es]
        /\ state' = [state EXCEPT ![t] = st] /\ call' = [call EXCEPT ![t] = name]
        /\ knote' = knote /\ open' = open
        /\ kevents1' = kevents1 /\ iter' = iter /\ runq' = runq /\ phase' = phase
        /\ rc' = rc /\ due' = due
    BY WaitIs
  <1>2. Extended(kevents0, kevents0', "ADD", es, t)
    BY WaitIs
  <1>3. clash' = clash \cup {e \in Elems(es) :
                               \E u \in Thr \ {t} : Awaits(u, e) \/ Reported(u, e)}
    BY WaitIs
  <1>4. /\ \A e \in Event : <<t, e>> \notin Waiting
        /\ \A u \in Thr, e \in Event :
             <<u, e>> \in Waiting' <=> IF u = t THEN e \in Elems(es) ELSE <<u, e>> \in Waiting
    BY WaitingBegins
  <1>5. /\ state \in [Thr -> {"DORMANT", "RESUMED", "SLEEP", "SET", "RW", "OTHER"}]
        /\ call \in [Thr -> {"none", "sleep", "wait", "wait_for_events"}]
        /\ pdata \in [Thr -> Watched]
        /\ kevents0 \in Seq(Change) /\ kevents1 \in Seq(Result) /\ iter \in Nat \ {0}
        /\ knote \in [Event -> Thr \cup {NoThread}]
    BY DEF Base, TypeOK
  <1>6. phase # "kevent" /\ phase # "over"
    BY <1>1, KeventPollerAssumption DEF Base, Shape
  <1>7. WaitsForSomething' /\ Coupled'
    BY <1>1, <1>5 DEF WaitsForSomething, Coupled, Plain
  <1>8. /\ kevents0' \in Seq(Change) /\ Len(kevents0) \in Nat /\ Len(kevents0') = Len(kevents0) + Len(es)
        /\ \A i \in 1..Len(kevents0) : i \in 1..Len(kevents0') /\ kevents0'[i] = kevents0[i]
        /\ \A i \in 1..Len(kevents0') : i > Len(kevents0) =>
             \E e \in Elems(es) : kevents0'[i] = [op |-> "ADD", ev |-> e, thr |-> t]
    <2>1. Len(es) \in Nat
      BY WatchedIs
    <2> QED
      BY <1>2, <1>5, <2>1 DEF Extended
  <1>9. Elems(es) \subseteq Event
    BY WatchedIs, ElemsType
  <1>10. AddsAwaited'
    <2> SUFFICES ASSUME NEW i \in 1..Len(kevents0'),
                        kevents0'[i].op = "ADD", kevents0'[i].thr \in Plain
                 PROVE  \/ DeletedBehind(kevents0', i, kevents0'[i].ev)
                        \/ /\ <<kevents0'[i].thr, kevents0'[i].ev>> \in Waiting'
                           /\ \A j \in 1..Len(kevents0') : j > i => kevents0'[j] # kevents0'[i]
      BY DEF AddsAwaited, DeletedBehind
    <2>1. CASE i \in 1..Len(kevents0)
      <3>1. kevents0'[i] = kevents0[i] /\ kevents0[i] \in Change
        BY <2>1, <1>5, <1>8
      <3>2. kevents0[i].ev \in Event /\ kevents0[i].thr \in Thr
        BY <3>1 DEF Change
      <3>3. CASE DeletedBehind(kevents0, i, kevents0[i].ev)
        BY <3>1, <3>3, <1>8 DEF DeletedBehind
      <3>4. CASE /\ <<kevents0[i].thr, kevents0[i].ev>> \in Waiting
                 /\ \A j \in 1..Len(kevents0) : j > i => kevents0[j] # kevents0[i]
        <4>1. kevents0[i].thr # t /\ <<kevents0[i].thr, kevents0[i].ev>> \in Waiting'
          BY <3>2, <3>4, <1>4
        <4>2. ASSUME NEW j \in 1..Len(kevents0'), j > i
              PROVE  kevents0'[j] # kevents0[i]
          <5>1. CASE j \in 1..Len(kevents0)
            BY <5>1, <4>2, <3>4, <1>8
          <5>2. CASE j > Len(kevents0)
            <6>1. PICK e \in Elems(es) : kevents0'[j] = [op |-> "ADD", ev |-> e, thr |-> t]
              BY <5>2, <1>8
            <6>2. kevents0'[j].thr = t
              BY <6>1
            <6> QED
              BY <6>2, <4>1
          <5> QED
            BY <5>1, <5>2, <1>8
        <4> QED
          BY <3>1, <4>1, <4>2
      <3> QED
        BY <2>1, <3>1, <3>3, <3>4 DEF ListOK, AddsAwaited
    <2>2. CASE i > Len(kevents0)
      <3>1. PICK e \in Elems(es) : kevents0'[i] = [op |-> "ADD", ev |-> e, thr |-> t]
        BY <2>2, <1>8
      <3>2. kevents0'[i].thr = t /\ kevents0'[i].ev = e
        BY <3>1
      <3>3. Len(es) = 1
        BY <3>2
      <3>4. \A j \in 1..Len(kevents0') : ~ (j > i)
        BY <2>2, <3>3, <1>8
      <3>5. <<t, e>> \in Waiting'
        BY <1>4, <1>9
      <3> QED
        BY <3>2, <3>4, <3>5
    <2> QED
      BY <2>1, <2>2, <1>8
  <1>11. KnotesAwaited'
    <2> SUFFICES ASSUME NEW e \in Event, knote[e] \in Plain
                 PROVE  <<knote[e], e>> \in Waiting' \/ ~ Untouched(kevents0', e)
      BY <1>1 DEF KnotesAwaited, Untouched
    <2>1. CASE <<knote[e], e>> \in Waiting
      BY <2>1, <1>4 DEF Plain
    <2>2. CASE ~ Untouched(kevents0, e)
      BY <2>2, <1>8 DEF Untouched
    <2> QED
      BY <2>1, <2>2 DEF ListOK, KnotesAwaited
  <1>12. ClosedForgotten'
    BY <1>1 DEF ListOK, ClosedForgotten
  <1>13. FailedOK'
    BY <1>1, <1>6 DEF FailedOK
  <1>14. Refused' = Refused /\ Arrived' = Arrived
    BY <1>1 DEF Refused, Arrived
  <1>15. ResultsOK'
    <2> SUFFICES ASSUME phase = "results", NEW i \in iter..Len(kevents1)
                 PROVE  /\ kevents1[i].thr \in Plain =>
                             /\ <<kevents1[i].thr, kevents1[i].ev>> \in Waiting'
                             /\ \A j \in iter..Len(kevents1) : j # i =>
                                   kevents1[j].thr # kevents1[i].thr
                        /\ kevents1[i].error => knote[kevents1[i].ev] = NoThread
                        /\ kevents1[i].error /\ kevents1[i].thr \in Plain =>
                             \A j \in 1..Len(kevents0') :
                                kevents0'[j] # Add(kevents1[i].ev, kevents1[i].thr)
                        /\ ~ kevents1[i].error =>
                             /\ \A j \in iter..Len(kevents1) : j # i /\ ~ kevents1[j].error =>
                                   kevents1[j].ev # kevents1[i].ev
                             /\ \A u \in Plain : u # kevents1[i].thr /\
                                                 <<u, kevents1[i].ev>> \in Waiting' =>
                                   kevents1[i].ev \in clash'
      BY <1>1 DEF ResultsOK, Add
    <2>1. i \in 1..Len(kevents1) /\ kevents1[i] \in Result
      BY <1>5
    <2>2. kevents1[i].ev \in Event /\ kevents1[i].thr \in Thr
      BY <2>1 DEF Result
    <2>3. kevents1[i].thr \in Plain =>
            kevents1[i].thr # t /\ <<kevents1[i].thr, kevents1[i].ev>> \in Waiting'
      BY <2>2, <1>4 DEF ResultsOK
    <2>4. ASSUME kevents1[i].error, kevents1[i].thr \in Plain, NEW j \in 1..Len(kevents0')
          PROVE  kevents0'[j] # Add(kevents1[i].ev, kevents1[i].thr)
      <3>1. CASE j \in 1..Len(kevents0)
        BY <3>1, <2>4, <1>8 DEF ResultsOK
      <3>2. CASE j > Len(kevents0)
        <4>1. PICK e \in Elems(es) : kevents0'[j] = [op |-> "ADD", ev |-> e, thr |-> t]
          BY <3>2, <1>8
        <4>2. kevents0'[j].thr = t /\ Add(kevents1[i].ev, kevents1[i].thr).thr = kevents1[i].thr
          BY <4>1 DEF Add
        <4> QED
          BY <4>2, <2>3, <2>4
      <3> QED
        BY <3>1, <3>2, <1>8
    <2>5. ASSUME ~ kevents1[i].error, NEW u \in Plain, u # kevents1[i].thr,
                 <<u, kevents1[i].ev>> \in Waiting'
          PROVE  kevents1[i].ev \in clash'
      <3>1. CASE u # t
        <4>1. <<u, kevents1[i].ev>> \in Waiting
          BY <3>1, <2>2, <2>5, <1>4 DEF Plain
        <4> QED
          BY <4>1, <2>5, <1>3 DEF ResultsOK
      <3>2. CASE u = t
        <4>1. kevents1[i].ev \in Elems(es)
          BY <3>2, <2>2, <2>5, <1>4
        <4>2. Reported(kevents1[i].thr, kevents1[i].ev) /\ kevents1[i].thr \in Thr \ {t}
          BY <3>2, <2>2, <2>5 DEF Reported
        <4> QED
          BY <4>1, <4>2, <1>3
      <3> QED
        BY <3>1, <3>2
    <2>6. /\ kevents1[i].thr \in Plain => \A j \in iter..Len(kevents1) : j # i =>
                                             kevents1[j].thr # kevents1[i].thr
          /\ kevents1[i].error => knote[kevents1[i].ev] = NoThread
          /\ ~ kevents1[i].error =>
               \A j \in iter..Len(kevents1) : j # i /\ ~ kevents1[j].error =>
                  kevents1[j].ev # kevents1[i].ev
      BY DEF ResultsOK
    <2> QED
      BY <2>3, <2>4, <2>5, <2>6
  <1>16. ASSUME NEW u \in Thr, u # t, NEW e \in Elems(es), <<u, e>> \in Waiting
         PROVE  e \in clash'
    <2>1. Awaits(u, e)
      BY <1>16 DEF Waiting
    <2> QED
      BY <1>3, <1>16, <2>1
  <1>17. ClashSeen'
    <2> SUFFICES ASSUME NEW u \in Thr, NEW v \in Thr, NEW e \in Event, u # v,
                        <<u, e>> \in Waiting', <<v, e>> \in Waiting'
                 PROVE  e \in clash'
      BY DEF ClashSeen
    <2>1. CASE u = t
      BY <2>1, <1>4, <1>16
    <2>2. CASE v = t
      BY <2>2, <1>4, <1>16
    <2>3. CASE u # t /\ v # t
      BY <2>3, <1>3, <1>4 DEF ClashSeen
    <2> QED
      BY <2>1, <2>2, <2>3
  <1>18. \A u \in Thr, e \in Event :
            <<u, e>> \in Claimed' <=> IF e \in Elems(es) THEN u = t ELSE <<u, e>> \in Claimed
    BY <1>1, <1>2, ClaimedExtends
  <1>19. Reached'
    <2> SUFFICES ASSUME NEW u \in Plain, NEW e \in Event, e \notin clash', <<u, e>> \in Waiting'
                 PROVE  <<u, e>> \in Claimed' \/ <<u, e>> \in Refused
      BY <1>14 DEF Reached
    <2>1. u \in Thr /\ e \notin clash
      BY <1>3 DEF Plain
    <2>2. CASE u = t
      BY <2>2, <1>4, <1>18
    <2>3. CASE u # t
      <3>1. <<u, e>> \in Waiting /\ e \notin Elems(es)
        BY <2>1, <2>3, <1>4, <1>16
      <3>2. <<u, e>> \in Claimed \/ <<u, e>> \in Refused
        BY <3>1, <2>1 DEF Reached
      <3> QED
        BY <3>1, <3>2, <2>1, <1>18
    <2> QED
      BY <2>2, <2>3
  <1>20. CountOK'
    <2> DEFINE S == Waiting \cup Claimed \cup Arrived
    <2>1. S \subseteq Thr \X Event /\ S' \subseteq Thr \X Event
      BY CountedType
    <2>2. ASSUME NEW u \in Thr, NEW e \in Event, <<u, e>> \in S'
          PROVE  <<u, e>> \in S \cup Pairs(t, es)
      <3>1. <<u, e>> \in Waiting' \/ <<u, e>> \in Claimed' \/ <<u, e>> \in Arrived
        BY <2>2, <1>14
      <3>2. u = t /\ e \in Elems(es) => <<u, e>> \in Pairs(t, es)
        BY DEF Pairs
      <3> QED
        BY <3>1, <3>2, <1>4, <1>18
    <2>3. S' \subseteq S \cup Pairs(t, es)
      BY <2>1, <2>2
    <2> HIDE DEF S
    <2>4. Cardinality(S') <= Cardinality(S) + Len(es)
      BY <2>1, <2>3, CountPlus
    <2>5. Cardinality(S) \in Nat /\ Cardinality(S') \in Nat
      BY <2>1, CountShrinks
    <2>6. event_count >= Cardinality(S) /\ event_count \in Int /\ Len(es) \in Nat
      BY WatchedIs DEF CountOK, S, Base, TypeOK
    <2>7. event_count' >= Cardinality(S')
      BY <2>4, <2>5, <2>6, <1>1
    <2> QED
      BY <2>7, <1>1, <1>6 DEF CountOK, S
  <1> QED
    BY <1>7, <1>10, <1>11, <1>12, <1>13, <1>15, <1>17, <1>19, <1>20 DEF ListOK

\* The waits of thread t end, and the events es are deleted for it: those it waits
\* for, if it waits for one at a time.
LEMMA DeleteKeeps ==
    ASSUME Base, Good, NEW t \in Thr, NEW es \in Watched,
           Extended(kevents0, kevents0', "DELETE", es, t),
           knote' = knote, open' = open, clash' = clash,
           event_count' = event_count - Len(es), phase' # "over",
           \A u \in Thr, e \in Event : <<u, e>> \in Waiting' <=> u # t /\ <<u, e>> \in Waiting,
           t \in Plain => \A e \in Event : <<t, e>> \in Waiting => e \in Elems(es),
           \A u \in Plain, e \in Elems(es) : u # t /\ <<u, e>> \in Waiting => e \in clash,
           \A u \in Plain, e \in Event : u # t /\ <<u, e>> \in Refused => <<u, e>> \in Refused',
           Pairs(t, es) \subseteq Waiting \cup Claimed \cup Arrived,
           Arrived' \subseteq Arrived \ Pairs(t, es)
    PROVE  /\ ListOK' /\ ClashSeen' /\ Reached' /\ CountOK'
           /\ \A j \in 1..Len(kevents0') : kevents0'[j].op = "ADD" =>
                \E k \in 1..Len(kevents0) : kevents0[k] = kevents0'[j]
  <1> USE DEF Good
  <1>1. kevents0 \in Seq(Change) /\ knote \in [Event -> Thr \cup {NoThread}]
    BY DEF Base, TypeOK
  <1>2. Len(es) \in Nat /\ Elems(es) \subseteq Event
    BY WatchedIs, ElemsType
  <1>3. /\ kevents0' \in Seq(Change) /\ Len(kevents0) \in Nat /\ Len(kevents0') = Len(kevents0) + Len(es)
        /\ \A i \in 1..Len(kevents0) : i \in 1..Len(kevents0') /\ kevents0'[i] = kevents0[i]
    BY <1>1, <1>2 DEF Extended
  <1>4. \A i \in 1..Len(kevents0') : i > Len(kevents0) => kevents0'[i].op = "DELETE"
    <2>1. \A i \in 1..Len(kevents0') : i > Len(kevents0) =>
             \E e \in Elems(es) : kevents0'[i] = [op |-> "DELETE", ev |-> e, thr |-> t]
      BY DEF Extended
    <2> SUFFICES ASSUME NEW i \in 1..Len(kevents0'), i > Len(kevents0)
                 PROVE  kevents0'[i].op = "DELETE"
      OBVIOUS
    <2>2. PICK e \in Elems(es) : kevents0'[i] = [op |-> "DELETE", ev |-> e, thr |-> t]
      BY <2>1
    <2> QED
      BY <2>2
  <1>5. \A e \in Elems(es) : \E i \in 1..Len(kevents0') :
           i > Len(kevents0) /\ kevents0'[i].op = "DELETE" /\ kevents0'[i].ev = e
    <2> SUFFICES ASSUME NEW e \in Elems(es)
                 PROVE  \E i \in 1..Len(kevents0') :
                           i > Len(kevents0) /\ kevents0'[i].op = "DELETE" /\ kevents0'[i].ev = e
      OBVIOUS
    <2>1. PICK i \in 1..Len(kevents0') :
              /\ i > Len(kevents0) /\ kevents0'[i] = [op |-> "DELETE", ev |-> e, thr |-> t]
              /\ \A j \in 1..Len(kevents0') : j > i => kevents0'[j].ev # e
      BY <1>1, ExtendedHas
    <2>2. kevents0'[i].op = "DELETE" /\ kevents0'[i].ev = e
      BY <2>1
    <2> QED
      BY <2>1, <2>2
  <1>6. \A j \in 1..Len(kevents0') : kevents0'[j].op = "ADD" =>
           j \in 1..Len(kevents0) /\ kevents0[j] = kevents0'[j]
    BY <1>3, <1>4
  <1>7. AddsAwaited'
    <2> SUFFICES ASSUME NEW i \in 1..Len(kevents0'),
                        kevents0'[i].op = "ADD", kevents0'[i].thr \in Plain
                 PROVE  \/ DeletedBehind(kevents0', i, kevents0'[i].ev)
                        \/ /\ <<kevents0'[i].thr, kevents0'[i].ev>> \in Waiting'
                           /\ \A j \in 1..Len(kevents0') : j > i => kevents0'[j] # kevents0'[i]
      BY DEF AddsAwaited, DeletedBehind
    <2>1. i \in 1..Len(kevents0) /\ kevents0'[i] = kevents0[i] /\ kevents0[i] \in Change
      BY <1>1, <1>6
    <2>2. kevents0[i].ev \in Event /\ kevents0[i].thr \in Thr
      BY <2>1 DEF Change
    <2>3. CASE DeletedBehind(kevents0, i, kevents0[i].ev)
      BY <2>1, <2>3, <1>3 DEF DeletedBehind
    <2>4. CASE /\ <<kevents0[i].thr, kevents0[i].ev>> \in Waiting
               /\ \A j \in 1..Len(kevents0) : j > i => kevents0[j] # kevents0[i]
      <3>1. CASE kevents0[i].thr = t
        <4>1. kevents0[i].ev \in Elems(es)
          BY <3>1, <2>1, <2>2, <2>4
        <4>2. PICK j \in 1..Len(kevents0') :
                 j > Len(kevents0) /\ kevents0'[j].op = "DELETE" /\ kevents0'[j].ev = kevents0[i].ev
          BY <4>1, <1>5
        <4>3. j > i
          BY <4>2, <2>1, <1>3
        <4> QED
          BY <4>2, <4>3, <2>1 DEF DeletedBehind
      <3>2. CASE kevents0[i].thr # t
        <4>1. <<kevents0[i].thr, kevents0[i].ev>> \in Waiting'
          BY <3>2, <2>2, <2>4
        <4>2. ASSUME NEW j \in 1..Len(kevents0'), j > i, kevents0'[j] = kevents0'[i]
              PROVE  FALSE
          <5>1. j \in 1..Len(kevents0) /\ kevents0[j] = kevents0'[j]
            BY <4>2, <1>6
          <5> QED
            BY <5>1, <4>2, <2>1, <2>4
        <4> QED
          BY <4>1, <4>2, <2>1
      <3> QED
        BY <3>1, <3>2
    <2> QED
      BY <2>1, <2>3, <2>4 DEF ListOK, AddsAwaited
  <1>8. KnotesAwaited'
    <2> SUFFICES ASSUME NEW e \in Event, knote[e] \in Plain
                 PROVE  <<knote[e], e>> \in Waiting' \/ ~ Untouched(kevents0', e)
      BY DEF KnotesAwaited, Untouched
    <2>1. CASE <<knote[e], e>> \in Waiting /\ knote[e] # t
      BY <2>1 DEF Plain
    <2>2. CASE <<knote[e], e>> \in Waiting /\ knote[e] = t
      <3>1. e \in Elems(es)
        BY <2>2
      <3> QED
        BY <3>1, <1>5 DEF Untouched
    <2>3. CASE ~ Untouched(kevents0, e)
      BY <2>3, <1>3 DEF Untouched
    <2> QED
      BY <2>1, <2>2, <2>3 DEF ListOK, KnotesAwaited
  <1>9. ClosedForgotten'
    BY DEF ListOK, ClosedForgotten
  <1>10. ClashSeen'
    BY DEF ClashSeen
  <1>11. \A u \in Thr, e \in Event :
            <<u, e>> \in Claimed' <=> e \notin Elems(es) /\ <<u, e>> \in Claimed
    BY ClaimedExtends
  <1>12. Reached'
    <2> SUFFICES ASSUME NEW u \in Plain, NEW e \in Event, e \notin clash, <<u, e>> \in Waiting'
                 PROVE  <<u, e>> \in Claimed' \/ <<u, e>> \in Refused'
      BY DEF Reached
    <2>1. u \in Thr /\ u # t /\ <<u, e>> \in Waiting
      BY DEF Plain
    <2>2. <<u, e>> \in Claimed \/ <<u, e>> \in Refused
      BY <2>1 DEF Reached
    <2>3. e \notin Elems(es)
      BY <2>1
    <2> QED
      BY <2>1, <2>2, <2>3, <1>11
  <1>13. CountOK'
    <2> DEFINE S == Waiting \cup Claimed \cup Arrived
    <2>1. S \subseteq Thr \X Event /\ S' \subseteq Thr \X Event
      BY CountedType
    <2>2. ASSUME NEW u \in Thr, NEW e \in Event, <<u, e>> \in S'
          PROVE  <<u, e>> \in S \ Pairs(t, es)
      <3>1. <<u, e>> \in Pairs(t, es) => u = t /\ e \in Elems(es)
        BY DEF Pairs
      <3>2. CASE <<u, e>> \in Waiting'
        BY <3>1, <3>2
      <3>3. CASE <<u, e>> \in Claimed'
        BY <3>1, <3>3, <1>11
      <3>4. CASE <<u, e>> \in Arrived'
        BY <3>4
      <3> QED
        BY <2>2, <3>2, <3>3, <3>4
    <2>3. S' \subseteq S \ Pairs(t, es) /\ Pairs(t, es) \subseteq S
      BY <2>1, <2>2
    <2> HIDE DEF S
    <2>4. Cardinality(S') <= Cardinality(S) - Len(es)
      BY <2>1, <2>3, CountMinus
    <2>5. Cardinality(S) \in Nat /\ Cardinality(S') \in Nat
      BY <2>1, CountShrinks
    <2>6. event_count >= Cardinality(S) /\ event_count \in Int
      BY DEF CountOK, S, Base, TypeOK
    <2>7. event_count' >= Cardinality(S')
      BY <2>4, <2>5, <2>6, <1>2
    <2> QED
      BY <2>7 DEF CountOK, S
  <1> QED
    BY <1>6, <1>7, <1>8, <1>9, <1>10, <1>12, <1>13 DEF ListOK

\* The results left over when the waits of thread t end, for whom none is left.
LEMMA ResultsLeft ==
    ASSUME Base, Good, NEW t \in Thr, phase' = "results" => phase = "results",
           knote' = knote, clash' = clash, kevents1' = kevents1,
           iter' \in Nat, iter' >= iter,
           \A u \in Thr, e \in Event : <<u, e>> \in Waiting' <=> u # t /\ <<u, e>> \in Waiting,
           phase = "results" /\ t \in Plain =>
               \A i \in iter'..Len(kevents1) : kevents1[i].thr # t,
           \A j \in 1..Len(kevents0') : kevents0'[j].op = "ADD" =>
               \E k \in 1..Len(kevents0) : kevents0[k] = kevents0'[j]
    PROVE  ResultsOK'
  <1> SUFFICES ASSUME phase = "results", NEW i \in iter'..Len(kevents1)
                 PROVE  /\ kevents1[i].thr \in Plain =>
                             /\ <<kevents1[i].thr, kevents1[i].ev>> \in Waiting'
                             /\ \A j \in iter'..Len(kevents1) : j # i =>
                                   kevents1[j].thr # kevents1[i].thr
                        /\ kevents1[i].error => knote[kevents1[i].ev] = NoThread
                        /\ kevents1[i].error /\ kevents1[i].thr \in Plain =>
                             \A j \in 1..Len(kevents0') :
                                kevents0'[j] # Add(kevents1[i].ev, kevents1[i].thr)
                        /\ ~ kevents1[i].error =>
                             /\ \A j \in iter'..Len(kevents1) : j # i /\ ~ kevents1[j].error =>
                                   kevents1[j].ev # kevents1[i].ev
                             /\ \A u \in Plain : u # kevents1[i].thr /\
                                                 <<u, kevents1[i].ev>> \in Waiting' =>
                                   kevents1[i].ev \in clash
    BY DEF ResultsOK, Add
  <1>1. kevents1 \in Seq(Result) /\ iter \in Nat \ {0} /\ Len(kevents1) \in Nat
    BY DEF Base, TypeOK
  <1>2. iter'..Len(kevents1) \subseteq iter..Len(kevents1) /\ i \in 1..Len(kevents1)
    BY <1>1
  <1>3. kevents1[i] \in Result /\ i \in iter..Len(kevents1)
    BY <1>1, <1>2
  <1>4. kevents1[i].ev \in Event /\ kevents1[i].thr \in Thr
    BY <1>3 DEF Result
  <1>5. ASSUME kevents1[i].thr \in Plain
        PROVE  /\ <<kevents1[i].thr, kevents1[i].ev>> \in Waiting'
               /\ \A j \in iter'..Len(kevents1) : j # i => kevents1[j].thr # kevents1[i].thr
    <2>1. /\ <<kevents1[i].thr, kevents1[i].ev>> \in Waiting
          /\ \A j \in iter..Len(kevents1) : j # i => kevents1[j].thr # kevents1[i].thr
      BY <1>3, <1>5 DEF Good, ResultsOK
    <2>2. kevents1[i].thr # t
      BY <1>5
    <2> QED
      BY <2>1, <2>2, <1>2, <1>4
  <1>6. kevents1[i].error => knote[kevents1[i].ev] = NoThread
    BY <1>3 DEF Good, ResultsOK
  <1>7. ASSUME kevents1[i].error, kevents1[i].thr \in Plain, NEW j \in 1..Len(kevents0')
        PROVE  kevents0'[j] # Add(kevents1[i].ev, kevents1[i].thr)
    <2>1. \A k \in 1..Len(kevents0) : kevents0[k] # Add(kevents1[i].ev, kevents1[i].thr)
      BY <1>3, <1>7 DEF Good, ResultsOK
    <2>2. Add(kevents1[i].ev, kevents1[i].thr).op = "ADD"
      BY DEF Add
    <2> QED
      BY <2>1, <2>2
  <1>8. ASSUME ~ kevents1[i].error
        PROVE  /\ \A j \in iter'..Len(kevents1) : j # i /\ ~ kevents1[j].error =>
                     kevents1[j].ev # kevents1[i].ev
               /\ \A u \in Plain : u # kevents1[i].thr /\ <<u, kevents1[i].ev>> \in Waiting' =>
                     kevents1[i].ev \in clash
    <2>1. /\ \A j \in iter..Len(kevents1) : j # i /\ ~ kevents1[j].error =>
                kevents1[j].ev # kevents1[i].ev
          /\ \A u \in Plain : u # kevents1[i].thr /\ <<u, kevents1[i].ev>> \in Waiting =>
                kevents1[i].ev \in clash
      BY <1>3, <1>8 DEF Good, ResultsOK
    <2> QED
      BY <2>1, <1>2, <1>4 DEF Plain
  <1> QED
    BY <1>5, <1>6, <1>7, <1>8

\* A thread is interrupted for which no result is left.
LEMMA GoodInterrupt ==
    ASSUME Base, Good, NEW u \in Thr, NEW t \in Thr, mnthr_set_interrupt(u, t), clean'
    PROVE  Good'
  <1> USE DEF Good
  <1>a. PICK es : es = poller_clear_event(t)
    OBVIOUS
  <1>1. /\ me = u /\ state[t] \notin {"RESUMED", "DORMANT"} /\ t \notin runq
        /\ es \in Watched
        /\ event_count' = event_count - Len(es)
        /\ rc' = [rc EXCEPT ![t] = INTERRUPTED]
        /\ state' = [state EXCEPT ![t] = "SET"]
        /\ due' = due \cup {t}
        /\ knote' = knote /\ open' = open
        /\ kevents1' = kevents1 /\ iter' = iter /\ runq' = runq /\ phase' = phase
        /\ pdata' = pdata /\ call' = call /\ clash' = clash
    BY <1>a, InterruptIs
  <1>2. Extended(kevents0, kevents0', "DELETE", es, t) /\ clean' = (clean /\ ~ Pending(t))
    BY <1>a, InterruptIs
  <1>3. ~ Pending(t)
    BY <1>2
  <1>4. phase # "kevent" /\ phase # "over"
    BY <1>1, KeventPollerAssumption DEF Base, Shape
  <1>5. /\ state \in [Thr -> {"DORMANT", "RESUMED", "SLEEP", "SET", "RW", "OTHER"}]
        /\ rc \in [Thr -> {0, INTERRUPTED, POLLER}]
        /\ iter \in Nat
    BY DEF Base, TypeOK
  <1>6. \A x \in Thr, e \in Event : <<x, e>> \in Waiting' <=> x # t /\ <<x, e>> \in Waiting
    <2>1. state'[t] \notin {"RW", "OTHER"} /\ \A x \in Thr \ {t} : state'[x] = state[x] /\ pdata'[x] = pdata[x]
      BY <1>1, <1>5
    <2> QED
      BY <2>1, WaitingEnds
  <1>7. \A e \in Event : <<t, e>> \in Waiting <=> e \in Elems(es)
    <2>1. Elems(<<>>) = {}
      BY DEF Elems
    <2>2. es = IF state[t] \in {"RW", "OTHER"} THEN pdata[t] ELSE <<>>
      BY <1>a DEF poller_clear_event
    <2> QED
      BY <2>1, <2>2, WaitingIs
  <1>8. Elems(es) \subseteq Event
    BY <1>1, WatchedIs, ElemsType
  <1>9. Refused' = Refused /\ Arrived' = Arrived
    BY <1>1 DEF Refused, Arrived
  <1>10. Pairs(t, es) \subseteq Waiting /\ Arrived \cap Pairs(t, es) = {}
    <2>1. Pairs(t, es) \subseteq Waiting
      BY <1>7, <1>8 DEF Pairs
    <2>2. \A e \in Event : <<t, e>> \notin Arrived
      BY <1>3 DEF Arrived, Pending
    <2> QED
      BY <2>1, <2>2, <1>8 DEF Pairs
  <1>11. \A v \in Plain, e \in Elems(es) : v # t /\ <<v, e>> \in Waiting => e \in clash
    BY <1>7, <1>8 DEF ClashSeen, Plain
  <1>12. /\ ListOK' /\ ClashSeen' /\ Reached' /\ CountOK'
         /\ \A j \in 1..Len(kevents0') : kevents0'[j].op = "ADD" =>
              \E k \in 1..Len(kevents0) : kevents0[k] = kevents0'[j]
    BY <1>1, <1>2, <1>4, <1>6, <1>7, <1>9, <1>10, <1>11, DeleteKeeps
  <1>13. FailedOK'
    BY <1>1, <1>4 DEF FailedOK
  <1>14. ResultsOK'
    <2>1. \A i \in iter'..Len(kevents1) : kevents1[i].thr # t
      BY <1>1, <1>3 DEF Pending
    <2> QED
      BY <2>1, <1>1, <1>5, <1>6, <1>12, ResultsLeft
  <1>15. WaitsForSomething' /\ Coupled'
    <2>1. INTERRUPTED # 0
      BY DEF INTERRUPTED
    <2> QED
      BY <2>1, <1>1, <1>5 DEF WaitsForSomething, Coupled, Plain
  <1> QED
    BY <1>12, <1>13, <1>14, <1>15

-----------------------------------------------------------------------------
(***************************************************************************)
(* The results one by one.                                                 *)
(***************************************************************************)

\* Thread t is told that its change has failed, and waits no more.
LEMMA ErrorKeeps ==
    ASSUME Base, Good, NEW t \in Thr, NEW x \in Event,
           kevents0' = kevents0, knote' = knote, open' = open, clash' = clash,
           event_count' = event_count, phase' # "over",
           \A u \in Thr, e \in Event : <<u, e>> \in Waiting' <=> u # t /\ <<u, e>> \in Waiting,
           t \in Plain => /\ <<t, x>> \in Waiting
                          /\ \A j \in 1..Len(kevents0) : kevents0[j] # Add(x, t),
           knote[x] = NoThread,
           \A u \in Plain, e \in Event : u # t /\ <<u, e>> \in Refused => <<u, e>> \in Refused',
           Arrived' \subseteq Arrived
    PROVE  ListOK' /\ ClashSeen' /\ Reached' /\ CountOK'
  <1> USE DEF Good
  <1>1. kevents0 \in Seq(Change) /\ knote \in [Event -> Thr \cup {NoThread}]
    BY DEF Base, TypeOK
  <1>2. Claimed' = Claimed
    BY DEF Claimed
  <1>3. t \in Plain => \A e \in Event : <<t, e>> \in Waiting => e = x
    BY OneEvent
  <1>4. AddsAwaited'
    <2> SUFFICES ASSUME NEW i \in 1..Len(kevents0), kevents0[i].op = "ADD", kevents0[i].thr \in Plain
                 PROVE  \/ DeletedBehind(kevents0, i, kevents0[i].ev)
                        \/ /\ <<kevents0[i].thr, kevents0[i].ev>> \in Waiting'
                           /\ \A j \in 1..Len(kevents0) : j > i => kevents0[j] # kevents0[i]
      BY DEF AddsAwaited, DeletedBehind
    <2>1. kevents0[i] \in Change
      BY <1>1
    <2>2. kevents0[i].ev \in Event /\ kevents0[i].thr \in Thr
          /\ kevents0[i] = Add(kevents0[i].ev, kevents0[i].thr)
      BY <2>1 DEF Change, Add
    <2>3. CASE DeletedBehind(kevents0, i, kevents0[i].ev)
      BY <2>3
    <2>4. CASE /\ <<kevents0[i].thr, kevents0[i].ev>> \in Waiting
               /\ \A j \in 1..Len(kevents0) : j > i => kevents0[j] # kevents0[i]
      <3>1. kevents0[i].thr # t
        BY <2>2, <2>4, <1>3
      <3> QED
        BY <3>1, <2>2, <2>4
    <2> QED
      BY <2>3, <2>4 DEF ListOK, AddsAwaited
  <1>5. KnotesAwaited'
    <2> SUFFICES ASSUME NEW e \in Event, knote[e] \in Plain
                 PROVE  <<knote[e], e>> \in Waiting' \/ ~ Untouched(kevents0, e)
      BY DEF KnotesAwaited, Untouched
    <2>1. e # x
      BY KeventPollerAssumption DEF Plain
    <2> QED
      BY <2>1, <1>3 DEF ListOK, KnotesAwaited, Plain
  <1>6. ClosedForgotten'
    BY DEF ListOK, ClosedForgotten
  <1>7. ClashSeen'
    BY DEF ClashSeen
  <1>8. Reached'
    <2> SUFFICES ASSUME NEW u \in Plain, NEW e \in Event, e \notin clash, <<u, e>> \in Waiting'
                 PROVE  <<u, e>> \in Claimed' \/ <<u, e>> \in Refused'
      BY DEF Reached
    <2>1. u \in Thr /\ u # t /\ <<u, e>> \in Waiting
      BY DEF Plain
    <2> QED
      BY <2>1, <1>2 DEF Reached
  <1>9. CountOK'
    <2>1. Waiting' \subseteq Waiting
      BY WaitingType
    <2> QED
      BY <2>1, <1>2, CountKeeps
  <1> QED
    BY <1>4, <1>5, <1>6, <1>7, <1>8, <1>9 DEF ListOK

\* The next result is handed to its thread, and the event deleted unless the change
\* has failed.
LEMMA GoodResult ==
    ASSUME Base, Good, loop_result
    PROVE  Good'
  <1> USE DEF Good
  <1>a. PICK r : r = kevents1[iter]
    OBVIOUS
  <1>b. PICK t : t = r.thr
    OBVIOUS
  <1>1. /\ phase = "results" /\ phase' = phase
        /\ iter \in 1..Len(kevents1) /\ iter' = iter + 1
        /\ r \in Result /\ t \in Thr /\ r.ev \in Event
        /\ knote' = knote /\ open' = open /\ clash' = clash
        /\ kevents1' = kevents1 /\ runq' = runq
        /\ \A u \in Thr \ {t} : pdata'[u] = pdata[u]
    BY <1>a, <1>b, ResultIs
  <1>2. \/ r.error /\ kevents0' = kevents0 /\ event_count' = event_count
        \/ /\ ~ r.error /\ event_count' = event_count - 1
           /\ Extended(kevents0, kevents0', "DELETE", <<r.ev>>, t)
    BY <1>a, <1>b, ResultIs
  <1>3. \/ /\ state[t] = "OTHER" /\ state' = [state EXCEPT ![t] = "SET"]
           /\ due' = due \cup {t} /\ call' = call /\ rc' = rc
        \/ state[t] = "DORMANT" /\ state' = state /\ due' = due /\ call' = call /\ rc' = rc
        \/ /\ state[t] \notin {"OTHER", "DORMANT"} /\ state' = [state EXCEPT ![t] = "RESUMED"]
           /\ due' = due /\ call' = [call EXCEPT ![t] = "none"]
           /\ rc' = [rc EXCEPT ![t] = IF r.error THEN POLLER ELSE 0]
    BY <1>a, <1>b, ResultIs
  <1>4. /\ state \in [Thr -> {"DORMANT", "RESUMED", "SLEEP", "SET", "RW", "OTHER"}]
        /\ call \in [Thr -> {"none", "sleep", "wait", "wait_for_events"}]
        /\ rc \in [Thr -> {0, INTERRUPTED, POLLER}]
        /\ kevents1 \in Seq(Result) /\ iter \in Nat \ {0} /\ Len(kevents1) \in Nat
    BY DEF Base, TypeOK
  <1>5. state'[t] \notin {"RW", "OTHER"}
        /\ \A u \in Thr \ {t} : state'[u] = state[u] /\ call'[u] = call[u] /\ rc'[u] = rc[u]
                                /\ (u \in due' <=> u \in due)
    BY <1>1, <1>3, <1>4
  <1>6. \A u \in Thr, e \in Event : <<u, e>> \in Waiting' <=> u # t /\ <<u, e>> \in Waiting
    BY <1>1, <1>5, WaitingEnds
  <1>7. iter \in iter..Len(kevents1) /\ iter'..Len(kevents1) \subseteq iter..Len(kevents1)
        /\ iter \notin iter'..Len(kevents1) /\ iter' \in Nat /\ iter' >= iter
        /\ \A i \in iter..Len(kevents1) : i # iter => i \in iter'..Len(kevents1)
    BY <1>1, <1>4
  <1>8. t \in Plain => /\ <<t, r.ev>> \in Waiting
                       /\ \A j \in iter'..Len(kevents1) : kevents1[j].thr # t
    BY <1>a, <1>b, <1>1, <1>7 DEF ResultsOK
  <1>9. /\ r.error => knote[r.ev] = NoThread
        /\ r.error /\ t \in Plain => \A j \in 1..Len(kevents0) : kevents0[j] # Add(r.ev, t)
        /\ ~ r.error =>
             /\ \A j \in iter'..Len(kevents1) : ~ kevents1[j].error => kevents1[j].ev # r.ev
             /\ \A u \in Plain : u # t /\ <<u, r.ev>> \in Waiting => r.ev \in clash
    BY <1>a, <1>b, <1>1, <1>7 DEF ResultsOK
  <1>10. \A u \in Plain, e \in Event : u # t /\ <<u, e>> \in Refused => <<u, e>> \in Refused'
    <2> SUFFICES ASSUME NEW u \in Plain, NEW e \in Event, u # t, <<u, e>> \in Refused
                 PROVE  <<u, e>> \in Refused'
      OBVIOUS
    <2>1. PICK i \in iter..Len(kevents1) :
             kevents1[i].thr = u /\ kevents1[i].ev = e /\ kevents1[i].error
      BY DEF Refused
    <2>2. i \in iter'..Len(kevents1)
      BY <2>1, <1>a, <1>b, <1>7
    <2> QED
      BY <2>1, <2>2, <1>1 DEF Refused, Plain
  <1>11. Arrived' \subseteq Arrived
    BY <1>1, <1>7 DEF Arrived
  <1>12. /\ ListOK' /\ ClashSeen' /\ Reached' /\ CountOK'
         /\ \A j \in 1..Len(kevents0') : kevents0'[j].op = "ADD" =>
              \E k \in 1..Len(kevents0) : kevents0[k] = kevents0'[j]
    <2>1. CASE r.error /\ kevents0' = kevents0 /\ event_count' = event_count
      <3>1. ListOK' /\ ClashSeen' /\ Reached' /\ CountOK'
        BY <2>1, <1>1, <1>6, <1>8, <1>9, <1>10, <1>11, ErrorKeeps
      <3> QED
        BY <2>1, <3>1
    <2>2. CASE /\ ~ r.error /\ event_count' = event_count - 1
               /\ Extended(kevents0, kevents0', "DELETE", <<r.ev>>, t)
      <3>1. <<r.ev>> \in Watched /\ Len(<<r.ev>>) = 1 /\ Elems(<<r.ev>>) = {r.ev}
        <4>1. Len(<<r.ev>>) = 1 /\ <<r.ev>>[1] = r.ev /\ 1..Len(<<r.ev>>) = {1}
          OBVIOUS
        <4> QED
          BY <4>1, <1>1, WatchedIs DEF Elems
      <3>2. PICK es : es = <<r.ev>>
        OBVIOUS
      <3>3. es \in Watched /\ Len(es) = 1 /\ Elems(es) = {r.ev}
            /\ Extended(kevents0, kevents0', "DELETE", es, t)
        BY <3>1, <3>2, <2>2
      <3>4. t \in Plain => \A e \in Event : <<t, e>> \in Waiting => e \in Elems(es)
        BY <3>3, <1>1, <1>8, OneEvent
      <3>5. \A u \in Plain, e \in Elems(es) : u # t /\ <<u, e>> \in Waiting => e \in clash
        BY <3>3, <1>9, <2>2
      <3>6. Pairs(t, es) = {<<t, r.ev>>}
        BY <3>3 DEF Pairs
      <3>7. <<t, r.ev>> \in Arrived
        BY <1>a, <1>b, <1>1, <1>7, <2>2 DEF Arrived
      <3>8. <<t, r.ev>> \notin Arrived'
        BY <1>1, <1>7, <1>9, <2>2 DEF Arrived
      <3>9. Pairs(t, es) \subseteq Waiting \cup Claimed \cup Arrived
            /\ Arrived' \subseteq Arrived \ Pairs(t, es)
        BY <3>6, <3>7, <3>8, <1>11
      <3> QED
        BY <3>3, <3>4, <3>5, <3>9, <2>2, <1>1, <1>6, <1>10, DeleteKeeps
    <2> QED
      BY <2>1, <2>2, <1>2
  <1>13. FailedOK'
    BY <1>1 DEF FailedOK
  <1>14. ResultsOK'
    BY <1>1, <1>6, <1>7, <1>8, <1>12, ResultsLeft
  <1>15. WaitsForSomething'
    BY <1>1, <1>5 DEF WaitsForSomething
  <1>16. Coupled'
    <2>1. CASE t \in Plain
      <3>1. state[t] = "RW"
        BY <2>1, <1>1, <1>8, OneEvent
      <3>2. state'[t] = "RESUMED" /\ call'[t] = "none" /\ due' = due
        BY <3>1, <1>1, <1>3, <1>4
      <3> QED
        BY <3>1, <3>2, <1>1, <1>5 DEF Coupled, Plain
    <2>2. CASE t \notin Plain
      BY <2>2, <1>1, <1>5 DEF Coupled, Plain
    <2> QED
      BY <2>1, <2>2
  <1> QED
    BY <1>12, <1>13, <1>14, <1>15, <1>16

-----------------------------------------------------------------------------
(***************************************************************************)
(* kevent(): the changes one by one, and what it returns.                  *)
(***************************************************************************)

\* What a change does, unless it is a deletion that fails.
LEMMA ChangeIs ==
    ASSUME Base, kevent_change, clean', NEW c, c = Head(kevents0)
    PROVE  /\ kevents0 \in Seq(Change) /\ kevents0 # <<>> /\ kevents0' = Tail(kevents0)
           /\ c \in Change /\ c.ev \in Event /\ c.thr \in Thr
           /\ phase = "kevent" /\ phase' = phase /\ iter = 1 /\ iter' = iter
           /\ open' = open /\ event_count' = event_count /\ clash' = clash
           /\ pdata' = pdata /\ state' = state /\ call' = call /\ rc' = rc
           /\ due' = due /\ runq' = runq
           /\ c.op = "DELETE" => c.ev[1] \in open
           /\ \/ /\ c.ev[1] \in open /\ kevents1' = kevents1
                 /\ knote' = [knote EXCEPT ![c.ev] = IF c.op = "ADD" THEN c.thr ELSE NoThread]
              \/ /\ c = Add(c.ev, c.thr) /\ c.ev[1] \notin open /\ knote' = knote
                 /\ kevents1' = Append(kevents1, [ev |-> c.ev, thr |-> c.thr, error |-> TRUE])
  <1>1. kevents0 \in Seq(Change) /\ kevents0 # <<>> /\ kevents0' = Tail(kevents0)
    BY DEF Base, TypeOK, kevent_change
  <1>2. c \in Change
    BY <1>1, TakenFirst
  <1>3. c.ev \in Event /\ c.thr \in Thr /\ c.op \in {"ADD", "DELETE"}
        /\ (c.op = "ADD" => c = Add(c.ev, c.thr))
    BY <1>2 DEF Change, Add
  <1>4. /\ phase = "kevent" /\ phase' = phase /\ iter' = iter
        /\ open' = open /\ event_count' = event_count /\ clash' = clash
        /\ pdata' = pdata /\ state' = state /\ call' = call /\ rc' = rc
        /\ due' = due /\ runq' = runq
    BY DEF kevent_change, counts, pvars, cvars
  <1>5. iter = 1
    BY <1>4 DEF Base, Shape
  <1>6. \/ /\ ~ Rejected(c) /\ kevents1' = kevents1
           /\ knote' = [knote EXCEPT ![c.ev] = IF c.op = "ADD" THEN c.thr ELSE NoThread]
        \/ /\ Rejected(c) /\ knote' = knote /\ c.op = "ADD"
           /\ kevents1' = Append(kevents1, [ev |-> c.ev, thr |-> c.thr, error |-> TRUE])
    BY DEF kevent_change
  <1>7. ~ Rejected(c) => c.ev[1] \in open
    BY DEF Rejected
  <1>8. Rejected(c) /\ c.op = "ADD" => c.ev[1] \notin open
    BY DEF Rejected
  <1> QED
    BY <1>1, <1>2, <1>3, <1>4, <1>5, <1>6, <1>7, <1>8

\* The kernel takes the next change.
LEMMA GoodChange ==
    ASSUME Base, Good, kevent_change, clean'
    PROVE  Good'
  <1> USE DEF Good
  <1>a. PICK c : c = Head(kevents0)
    OBVIOUS
  <1>b. PICK x : x = [ev |-> c.ev, thr |-> c.thr, error |-> TRUE]
    OBVIOUS
  <1>1. /\ kevents0 \in Seq(Change) /\ kevents0 # <<>> /\ kevents0' = Tail(kevents0)
        /\ c \in Change /\ c.ev \in Event /\ c.thr \in Thr
        /\ phase = "kevent" /\ phase' = phase /\ iter = 1 /\ iter' = iter
        /\ open' = open /\ event_count' = event_count /\ clash' = clash
        /\ pdata' = pdata /\ state' = state /\ call' = call /\ rc' = rc
        /\ due' = due /\ runq' = runq
        /\ c.op = "DELETE" => c.ev[1] \in open
    BY <1>a, ChangeIs
  <1>2. \/ /\ c.ev[1] \in open /\ kevents1' = kevents1
           /\ knote' = [knote EXCEPT ![c.ev] = IF c.op = "ADD" THEN c.thr ELSE NoThread]
        \/ /\ c = Add(c.ev, c.thr) /\ c.ev[1] \notin open /\ knote' = knote
           /\ kevents1' = Append(kevents1, x)
    BY <1>a, <1>b, ChangeIs
  <1>3. x \in Result /\ x.ev = c.ev /\ x.thr = c.thr /\ x.error
    BY <1>b, <1>1 DEF Result
  <1>4. /\ knote \in [Event -> Thr \cup {NoThread}]
        /\ kevents1 \in Seq(Result) /\ Len(kevents1) \in Nat
    BY DEF Base, TypeOK
  <1>5. /\ 1 \in 1..Len(kevents0) /\ kevents0[1] = c /\ Len(kevents0) \in Nat
        /\ Len(kevents0') = Len(kevents0) - 1
        /\ \A i \in 1..Len(kevents0') : i + 1 \in 1..Len(kevents0) /\ kevents0'[i] = kevents0[i + 1]
        /\ \A i \in 1..Len(kevents0) : i # 1 => i - 1 \in 1..Len(kevents0')
                                               /\ kevents0'[i - 1] = kevents0[i]
    BY <1>a, <1>1, TakenFirst
  <1>6. \A i, e : DeletedBehind(kevents0, i + 1, e) /\ i \in Nat => DeletedBehind(kevents0', i, e)
    <2> SUFFICES ASSUME NEW i \in Nat, NEW e, DeletedBehind(kevents0, i + 1, e)
                 PROVE  DeletedBehind(kevents0', i, e)
      OBVIOUS
    <2>1. PICK j \in 1..Len(kevents0) : j > i + 1 /\ kevents0[j].op = "DELETE" /\ kevents0[j].ev = e
      BY DEF DeletedBehind
    <2>2. j - 1 \in 1..Len(kevents0') /\ j - 1 > i /\ kevents0'[j - 1] = kevents0[j]
      BY <2>1, <1>5
    <2> QED
      BY <2>1, <2>2 DEF DeletedBehind
  <1>7. Waiting' = Waiting
    BY <1>1 DEF Waiting, Awaits
  <1>8. AddsAwaited'
    <2> SUFFICES ASSUME NEW i \in 1..Len(kevents0'),
                        kevents0'[i].op = "ADD", kevents0'[i].thr \in Plain
                 PROVE  \/ DeletedBehind(kevents0', i, kevents0'[i].ev)
                        \/ /\ <<kevents0'[i].thr, kevents0'[i].ev>> \in Waiting
                           /\ \A j \in 1..Len(kevents0') : j > i => kevents0'[j] # kevents0'[i]
      BY <1>7 DEF AddsAwaited, DeletedBehind
    <2>1. i + 1 \in 1..Len(kevents0) /\ kevents0'[i] = kevents0[i + 1] /\ i \in Nat
      BY <1>5
    <2>2. CASE DeletedBehind(kevents0, i + 1, kevents0[i + 1].ev)
      BY <2>1, <2>2, <1>6
    <2>3. CASE /\ <<kevents0[i + 1].thr, kevents0[i + 1].ev>> \in Waiting
               /\ \A j \in 1..Len(kevents0) : j > i + 1 => kevents0[j] # kevents0[i + 1]
      <3>1. ASSUME NEW j \in 1..Len(kevents0'), j > i PROVE kevents0'[j] # kevents0'[i]
        <4>1. j + 1 \in 1..Len(kevents0) /\ j + 1 > i + 1 /\ kevents0'[j] = kevents0[j + 1]
          BY <3>1, <2>1, <1>5
        <4> QED
          BY <4>1, <2>1, <2>3
      <3> QED
        BY <3>1, <2>1, <2>3
    <2> QED
      BY <2>1, <2>2, <2>3 DEF ListOK, AddsAwaited
  <1>9. c.op = "ADD" /\ c.thr \in Plain =>
           \/ DeletedBehind(kevents0', 0, c.ev)
           \/ /\ <<c.thr, c.ev>> \in Waiting
              /\ \A j \in 1..Len(kevents0') : kevents0'[j] # c
    <2> SUFFICES ASSUME c.op = "ADD", c.thr \in Plain
                 PROVE  \/ DeletedBehind(kevents0', 0, c.ev)
                        \/ /\ <<c.thr, c.ev>> \in Waiting
                           /\ \A j \in 1..Len(kevents0') : kevents0'[j] # c
      OBVIOUS
    <2>1. CASE DeletedBehind(kevents0, 1, c.ev)
      <3>1. 0 \in Nat /\ 0 + 1 = 1
        OBVIOUS
      <3> QED
        BY <2>1, <3>1, <1>6
    <2>2. CASE /\ <<c.thr, c.ev>> \in Waiting
               /\ \A j \in 1..Len(kevents0) : j > 1 => kevents0[j] # c
      <3>1. ASSUME NEW j \in 1..Len(kevents0') PROVE kevents0'[j] # c
        <4>1. j + 1 \in 1..Len(kevents0) /\ j + 1 > 1 /\ kevents0'[j] = kevents0[j + 1]
          BY <1>5
        <4> QED
          BY <4>1, <2>2
      <3> QED
        BY <3>1, <2>2
    <2> QED
      BY <2>1, <2>2, <1>5 DEF ListOK, AddsAwaited
  <1>10. KnotesAwaited'
    <2> SUFFICES ASSUME NEW e \in Event, knote'[e] \in Plain
                 PROVE  <<knote'[e], e>> \in Waiting \/ ~ Untouched(kevents0', e)
      BY <1>7 DEF KnotesAwaited, Untouched
    <2>1. CASE e # c.ev
      <3>1. knote'[e] = knote[e]
        BY <2>1, <1>2, <1>4
      <3>2. Untouched(kevents0', e) <=> Untouched(kevents0, e)
        BY <2>1, <1>a, <1>1, TakenOther
      <3> QED
        BY <3>1, <3>2 DEF ListOK, KnotesAwaited
    <2>2. CASE e = c.ev
      <3>1. c.op = "ADD" /\ knote'[e] = c.thr
        BY <2>2, <1>1, <1>2, <1>4, KeventPollerAssumption DEF ListOK, ClosedForgotten, Plain
      <3>2. DeletedBehind(kevents0', 0, c.ev) \/ <<c.thr, c.ev>> \in Waiting
        BY <3>1, <1>9
      <3> QED
        BY <3>1, <3>2, <2>2 DEF DeletedBehind, Untouched
    <2> QED
      BY <2>1, <2>2
  <1>11. ClosedForgotten'
    <2> SUFFICES ASSUME NEW e \in Event, e[1] \notin open PROVE knote'[e] = NoThread
      BY <1>1 DEF ClosedForgotten
    <2>1. knote[e] = NoThread
      BY DEF ListOK, ClosedForgotten
    <2> QED
      BY <2>1, <1>1, <1>2, <1>4
  <1>12. /\ Len(kevents1') \in Nat /\ Len(kevents1) <= Len(kevents1')
         /\ \A i \in 1..Len(kevents1) : i \in 1..Len(kevents1') /\ kevents1'[i] = kevents1[i]
         /\ \A i \in 1..Len(kevents1') : i \notin 1..Len(kevents1) =>
               /\ kevents1'[i] = x /\ c = Add(c.ev, c.thr) /\ c.ev[1] \notin open
               /\ \A j \in 1..Len(kevents1') : j # i => j \in 1..Len(kevents1)
    <2>1. CASE kevents1' = kevents1
      BY <2>1, <1>4
    <2>2. CASE c = Add(c.ev, c.thr) /\ c.ev[1] \notin open /\ kevents1' = Append(kevents1, x)
      <3>1. /\ Len(kevents1') = Len(kevents1) + 1 /\ kevents1'[Len(kevents1) + 1] = x
            /\ \A i \in 1..Len(kevents1) : kevents1'[i] = kevents1[i]
        BY <2>2, <1>3, <1>4
      <3> QED
        BY <3>1, <2>2, <1>4
    <2> QED
      BY <2>1, <2>2, <1>2
  <1>13. FailedOK'
    <2> SUFFICES ASSUME NEW i \in 1..Len(kevents1')
                 PROVE  /\ kevents1'[i].error /\ kevents1'[i].ev[1] \notin open
                        /\ kevents1'[i].thr \in Plain =>
                             \/ DeletedBehind(kevents0', 0, kevents1'[i].ev)
                             \/ /\ <<kevents1'[i].thr, kevents1'[i].ev>> \in Waiting
                                /\ \A j \in 1..Len(kevents0') :
                                      kevents0'[j] # Add(kevents1'[i].ev, kevents1'[i].thr)
                                /\ \A j \in 1..Len(kevents1') : j # i =>
                                      \/ kevents1'[j].thr # kevents1'[i].thr
                                      \/ kevents1'[j].ev # kevents1'[i].ev
      BY <1>1, <1>7 DEF FailedOK, DeletedBehind, Add
    <2>a. ASSUME NEW e, e[1] \notin open, DeletedBehind(kevents0, 0, e)
          PROVE  DeletedBehind(kevents0', 0, e)
      <3>1. PICK j \in 1..Len(kevents0) : j > 0 /\ kevents0[j].op = "DELETE" /\ kevents0[j].ev = e
        BY <2>a DEF DeletedBehind
      <3>2. j # 1
        BY <3>1, <2>a, <1>1, <1>5
      <3>3. j - 1 \in 1..Len(kevents0') /\ kevents0'[j - 1] = kevents0[j] /\ j - 1 > 0
        BY <3>1, <3>2, <1>5
      <3> QED
        BY <3>1, <3>3 DEF DeletedBehind
    <2>b. ASSUME NEW y, \A j \in 1..Len(kevents0) : kevents0[j] # y
          PROVE  c # y /\ \A j \in 1..Len(kevents0') : kevents0'[j] # y
      BY <2>b, <1>5
    <2>1. CASE i \in 1..Len(kevents1)
      <3>1. kevents1'[i] = kevents1[i] /\ kevents1[i].error /\ kevents1[i].ev[1] \notin open
        BY <2>1, <1>1, <1>12 DEF FailedOK
      <3>2. CASE kevents1[i].thr \in Plain
        <4>1. CASE DeletedBehind(kevents0, 0, kevents1[i].ev)
          BY <4>1, <3>1, <2>a
        <4>2. CASE /\ <<kevents1[i].thr, kevents1[i].ev>> \in Waiting
                   /\ \A j \in 1..Len(kevents0) : kevents0[j] # Add(kevents1[i].ev, kevents1[i].thr)
                   /\ \A j \in 1..Len(kevents1) : j # i =>
                         kevents1[j].thr # kevents1[i].thr \/ kevents1[j].ev # kevents1[i].ev
          <5>1. /\ c # Add(kevents1[i].ev, kevents1[i].thr)
                /\ \A j \in 1..Len(kevents0') : kevents0'[j] # Add(kevents1[i].ev, kevents1[i].thr)
            BY <4>2, <2>b
          <5>2. ASSUME NEW j \in 1..Len(kevents1'), j # i
                PROVE  kevents1'[j].thr # kevents1[i].thr \/ kevents1'[j].ev # kevents1[i].ev
            <6>1. CASE j \in 1..Len(kevents1)
              BY <6>1, <5>2, <4>2, <1>12
            <6>2. CASE j \notin 1..Len(kevents1)
              BY <6>2, <5>1, <1>3, <1>12
            <6> QED
              BY <6>1, <6>2
          <5> QED
            BY <5>1, <5>2, <4>2, <3>1
        <4> QED
          BY <4>1, <4>2, <3>2, <2>1, <1>1 DEF FailedOK
      <3> QED
        BY <3>1, <3>2
    <2>2. CASE i \notin 1..Len(kevents1)
      <3>1. /\ kevents1'[i] = x /\ c = Add(c.ev, c.thr) /\ c.ev[1] \notin open
            /\ \A j \in 1..Len(kevents1') : j # i => j \in 1..Len(kevents1)
        BY <2>2, <1>12
      <3>2. kevents1'[i].error /\ kevents1'[i].ev = c.ev /\ kevents1'[i].thr = c.thr
        BY <3>1, <1>3
      <3>3. c.op = "ADD"
        BY <3>1 DEF Add
      <3>4. CASE c.thr \in Plain /\ ~ DeletedBehind(kevents0', 0, c.ev)
        <4>1. <<c.thr, c.ev>> \in Waiting /\ \A j \in 1..Len(kevents0') : kevents0'[j] # c
          BY <3>3, <3>4, <1>9
        <4>2. ASSUME NEW j \in 1..Len(kevents1'), j # i, kevents1'[j].thr = c.thr, kevents1'[j].ev = c.ev
              PROVE  FALSE
          <5>1. j \in 1..Len(kevents1) /\ kevents1'[j] = kevents1[j]
            BY <4>2, <3>1, <1>12
          <5>2. \/ DeletedBehind(kevents0, 0, c.ev)
                \/ \A k \in 1..Len(kevents0) : kevents0[k] # Add(c.ev, c.thr)
            BY <5>1, <4>2, <3>4, <1>1 DEF FailedOK
          <5>3. \A k \in 1..Len(kevents0) : kevents0[k] # Add(c.ev, c.thr)
            BY <5>2, <2>a, <3>1, <3>4
          <5> QED
            BY <5>3, <3>1, <1>5
        <4> QED
          BY <4>1, <4>2, <3>1, <3>2
      <3> QED
        BY <3>1, <3>2, <3>4
    <2> QED
      BY <2>1, <2>2
  <1>14. ResultsOK'
    BY <1>1 DEF ResultsOK
  <1>15. ClashSeen'
    BY <1>1, <1>7 DEF ClashSeen
  <1>16. Refused \subseteq Refused'
    BY <1>1, <1>12 DEF Refused
  <1>17. Arrived' \subseteq Arrived
    <2>1. \A i \in 1..Len(kevents1') : kevents1'[i].error
      BY <1>1, <1>3, <1>12 DEF FailedOK
    <2>2. Arrived' = {}
      BY <2>1, <1>1 DEF Arrived
    <2> QED
      BY <2>2
  <1>18. ASSUME NEW u \in Thr, NEW e \in Event
         PROVE  /\ <<u, e>> \in Claimed' => <<u, e>> \in Claimed
                /\ <<u, e>> \in Claimed => <<u, e>> \in Claimed' \/ <<u, e>> \in Refused'
    <2>1. /\ <<u, e>> \in Claimed <=>
               AddedLast(kevents0, u, e) \/ (knote[e] = u /\ Untouched(kevents0, e))
          /\ <<u, e>> \in Claimed' <=>
               AddedLast(kevents0', u, e) \/ (knote'[e] = u /\ Untouched(kevents0', e))
      BY ClaimedIs
    <2>2. CASE e # c.ev
      <3>1. /\ Untouched(kevents0', e) <=> Untouched(kevents0, e)
            /\ AddedLast(kevents0', u, e) <=> AddedLast(kevents0, u, e)
        BY <2>2, <1>a, <1>1, TakenOther
      <3>2. knote'[e] = knote[e]
        BY <2>2, <1>2, <1>4
      <3> QED
        BY <3>1, <3>2, <2>1
    <2>3. CASE e = c.ev
      <3>1. /\ ~ Untouched(kevents0, e)
            /\ AddedLast(kevents0, u, e) <=>
                 AddedLast(kevents0', u, e) \/ (Untouched(kevents0', e) /\ c = Add(e, u))
        BY <2>3, <1>a, <1>1, TakenNamed
      <3>2. c = Add(e, u) <=> c.op = "ADD" /\ c.thr = u
        BY <2>3, <1>1 DEF Change, Add
      <3>3. CASE knote' = [knote EXCEPT ![c.ev] = IF c.op = "ADD" THEN c.thr ELSE NoThread]
        <4>1. knote'[e] = u <=> c = Add(e, u)
          BY <3>2, <3>3, <2>3, <1>1, <1>4, KeventPollerAssumption
        <4> QED
          BY <4>1, <3>1, <2>1
      <3>4. CASE c.ev[1] \notin open /\ knote' = knote /\ kevents1' = Append(kevents1, x)
        <4>1. knote'[e] # u
          BY <3>4, <2>3, KeventPollerAssumption DEF ListOK, ClosedForgotten
        <4>2. c = Add(e, u) => <<u, e>> \in Refused'
          <5> SUFFICES ASSUME c = Add(e, u) PROVE <<u, e>> \in Refused'
            OBVIOUS
          <5>1. c.thr = u
            BY <3>2
          <5>2. /\ Len(kevents1) + 1 \in iter'..Len(kevents1')
                /\ kevents1'[Len(kevents1) + 1] = x
            BY <3>4, <1>1, <1>3, <1>4
          <5> QED
            BY <5>1, <5>2, <2>3, <1>3 DEF Refused
        <4> QED
          BY <4>1, <4>2, <3>1, <2>1
      <3> QED
        BY <3>3, <3>4, <1>2
    <2> QED
      BY <2>2, <2>3
  <1>19. Reached'
    <2> SUFFICES ASSUME NEW u \in Plain, NEW e \in Event, e \notin clash, <<u, e>> \in Waiting
                 PROVE  <<u, e>> \in Claimed' \/ <<u, e>> \in Refused'
      BY <1>1, <1>7 DEF Reached
    <2>1. u \in Thr /\ (<<u, e>> \in Claimed \/ <<u, e>> \in Refused)
      BY DEF Reached, Plain
    <2> QED
      BY <2>1, <1>16, <1>18
  <1>20. CountOK'
    <2>1. Claimed' \subseteq Thr \X Event
      BY DEF Claimed
    <2>2. Claimed' \subseteq Claimed
      BY <2>1, <1>18
    <2> QED
      BY <2>2, <1>1, <1>7, <1>17, CountKeeps
  <1>21. WaitsForSomething' /\ Coupled'
    BY <1>1 DEF WaitsForSomething, Coupled
  <1> QED
    BY <1>8, <1>10, <1>11, <1>13, <1>14, <1>15, <1>19, <1>20, <1>21 DEF ListOK

\* What kevent() returns can be handed out: the changes that have failed, each for
\* a thread that waits for its event, or events that have happened, each for the
\* thread that is registered for it.
LEMMA ReturnsOK ==
    ASSUME Base, Good, kevent_returns
    PROVE  ResultsOK'
  <1> USE DEF Good
  <1>1. /\ kevents0 = <<>> /\ kevents0' = kevents0 /\ phase = "kevent"
        /\ knote' = knote /\ clash' = clash /\ iter' = iter
        /\ pdata' = pdata /\ state' = state
    BY ReturnsIs DEF Base
  <1>2. /\ iter = 1 /\ knote \in [Event -> Thr \cup {NoThread}] /\ kevents1 \in Seq(Result)
    BY <1>1 DEF Base, TypeOK, Shape
  <1>3. Waiting' = Waiting
    BY <1>1 DEF Waiting, Awaits
  <1>4. \A e : Untouched(kevents0, e) /\ ~ DeletedBehind(kevents0, 0, e)
               /\ \A u : ~ AddedLast(kevents0, u, e)
    BY <1>1 DEF Untouched, DeletedBehind, AddedLast
  <1>a. 1..Len(kevents0') = {}
    BY <1>1
  <1> SUFFICES ASSUME NEW i \in 1..Len(kevents1')
               PROVE  /\ kevents1'[i].thr \in Plain =>
                           /\ <<kevents1'[i].thr, kevents1'[i].ev>> \in Waiting
                           /\ \A j \in 1..Len(kevents1') : j # i =>
                                 kevents1'[j].thr # kevents1'[i].thr
                      /\ kevents1'[i].error => knote[kevents1'[i].ev] = NoThread
                      /\ ~ kevents1'[i].error =>
                           /\ \A j \in 1..Len(kevents1') : j # i /\ ~ kevents1'[j].error =>
                                 kevents1'[j].ev # kevents1'[i].ev
                           /\ \A t \in Plain : t # kevents1'[i].thr /\
                                               <<t, kevents1'[i].ev>> \in Waiting =>
                                 kevents1'[i].ev \in clash
    BY <1>1, <1>2, <1>3, <1>a DEF ResultsOK, Add
  <1>5. CASE kevents1' = kevents1
    <2>1. \A j \in 1..Len(kevents1) : kevents1[j] \in Result
      BY <1>2
    <2>2. \A j \in 1..Len(kevents1) : kevents1[j].ev \in Event
      BY <2>1 DEF Result
    <2>3. kevents1[i].error /\ kevents1[i].ev[1] \notin open
      BY <1>1, <1>5 DEF FailedOK
    <2>4. knote[kevents1[i].ev] = NoThread
      BY <2>2, <2>3, <1>5 DEF ListOK, ClosedForgotten
    <2>5. \A k \in 1..Len(kevents1) : kevents1[k].thr \in Plain =>
             /\ <<kevents1[k].thr, kevents1[k].ev>> \in Waiting
             /\ \A j \in 1..Len(kevents1) : j # k =>
                   kevents1[j].thr # kevents1[k].thr \/ kevents1[j].ev # kevents1[k].ev
      BY <1>1, <1>4 DEF FailedOK
    <2>6. ASSUME kevents1[i].thr \in Plain, NEW j \in 1..Len(kevents1), j # i,
                 kevents1[j].thr = kevents1[i].thr
          PROVE  FALSE
      <3>1. /\ <<kevents1[i].thr, kevents1[i].ev>> \in Waiting
            /\ <<kevents1[i].thr, kevents1[j].ev>> \in Waiting
        BY <2>5, <2>6, <1>5
      <3>2. kevents1[i].ev \in Event /\ kevents1[j].ev \in Event
        BY <2>2, <1>5
      <3>3. kevents1[j].ev = kevents1[i].ev
        BY <3>1, <3>2, <2>6, OneEvent
      <3> QED
        BY <3>3, <2>5, <2>6, <1>5
    <2> QED
      BY <2>3, <2>4, <2>5, <2>6, <1>5
  <1>6. CASE /\ kevents1 = <<>> /\ kevents1' \in Seq(Result)
             /\ \A j \in 1..Len(kevents1') : /\ knote[kevents1'[j].ev] # NoThread
                                             /\ kevents1'[j].thr = knote[kevents1'[j].ev]
                                             /\ ~ kevents1'[j].error
             /\ \A j, k \in 1..Len(kevents1') : j # k => kevents1'[j].ev # kevents1'[k].ev
    <2>1. \A j \in 1..Len(kevents1') : kevents1'[j] \in Result
      BY <1>6
    <2>2. \A j \in 1..Len(kevents1') : kevents1'[j].ev \in Event
      BY <2>1 DEF Result
    <2>3. \A j \in 1..Len(kevents1') : kevents1'[j].thr \in Plain =>
             <<kevents1'[j].thr, kevents1'[j].ev>> \in Waiting
      BY <2>2, <1>4, <1>6 DEF ListOK, KnotesAwaited
    <2>4. ASSUME kevents1'[i].thr \in Plain, NEW j \in 1..Len(kevents1'), j # i,
                 kevents1'[j].thr = kevents1'[i].thr
          PROVE  FALSE
      <3>1. /\ <<kevents1'[i].thr, kevents1'[i].ev>> \in Waiting
            /\ <<kevents1'[i].thr, kevents1'[j].ev>> \in Waiting
        BY <2>3, <2>4
      <3>2. kevents1'[j].ev = kevents1'[i].ev
        BY <3>1, <2>2, <2>4, OneEvent
      <3> QED
        BY <3>2, <2>4, <1>6
    <2>5. ASSUME NEW t \in Plain, t # kevents1'[i].thr, <<t, kevents1'[i].ev>> \in Waiting,
                 kevents1'[i].ev \notin clash
          PROVE  FALSE
      <3>1. kevents1'[i].ev \in Event /\ t \in Thr
        BY <2>2 DEF Plain
      <3>2. <<t, kevents1'[i].ev>> \in Claimed \/ <<t, kevents1'[i].ev>> \in Refused
        BY <3>1, <2>5 DEF Reached
      <3>3. <<t, kevents1'[i].ev>> \notin Refused
        BY <1>2, <1>6 DEF Refused
      <3>4. knote[kevents1'[i].ev] = t
        BY <3>1, <3>2, <3>3, <1>4, ClaimedIs
      <3> QED
        BY <3>4, <2>5, <1>6
    <2> QED
      BY <2>3, <2>4, <2>5, <1>6
  <1> QED
    BY <1>5, <1>6, ReturnsIs DEF NewResults, Base

\* kevent() returns.
LEMMA GoodReturns ==
    ASSUME Base, Good, kevent_returns
    PROVE  Good'
  <1> USE DEF Good
  <1>1. /\ kevents0 = <<>> /\ kevents0' = kevents0
        /\ phase = "kevent" /\ phase' # "kevent" /\ (phase' = "over" => event_count = 0)
        /\ knote' = knote /\ open' = open /\ event_count' = event_count
        /\ clash' = clash /\ iter' = iter
        /\ pdata' = pdata /\ state' = state /\ call' = call /\ rc' = rc
        /\ due' = due /\ runq' = runq
    BY ReturnsIs DEF Base
  <1>2. iter = 1 /\ kevents1 \in Seq(Result)
    BY <1>1 DEF Base, Shape, TypeOK
  <1>3. Waiting' = Waiting
    BY <1>1 DEF Waiting, Awaits
  <1>4. Claimed' = Claimed
    BY <1>1 DEF Claimed, AddedLast, Untouched
  <1>5. ListOK'
    BY <1>1, <1>3 DEF ListOK, AddsAwaited, KnotesAwaited, ClosedForgotten, DeletedBehind, Untouched
  <1>6. FailedOK' /\ ClashSeen'
    BY <1>1, <1>3 DEF FailedOK, ClashSeen
  <1>7. Refused \subseteq Refused' /\ Arrived' \subseteq Claimed \cup Arrived
    <2>1. CASE kevents1' = kevents1
      BY <2>1, <1>1 DEF Refused, Arrived
    <2>2. CASE /\ kevents1 = <<>>
               /\ \A j \in 1..Len(kevents1') : kevents1'[j].thr = knote[kevents1'[j].ev]
      <3>1. Refused = {}
        BY <2>2, <1>2 DEF Refused
      <3>2. ASSUME NEW u \in Thr, NEW e \in Event, <<u, e>> \in Arrived'
            PROVE  <<u, e>> \in Claimed
        <4>1. knote[e] = u
          BY <3>2, <2>2, <1>1, <1>2 DEF Arrived
        <4>2. Untouched(kevents0, e)
          BY <1>1 DEF Untouched
        <4> QED
          BY <4>1, <4>2, ClaimedIs
      <3>3. Arrived' \subseteq Thr \X Event
        BY DEF Arrived
      <3> QED
        BY <3>1, <3>2, <3>3
    <2> QED
      BY <2>1, <2>2, ReturnsIs DEF NewResults, Base
  <1>8. Reached'
    BY <1>1, <1>3, <1>4, <1>7 DEF Reached
  <1>9. CountOK'
    BY <1>1, <1>3, <1>4, <1>7, CountKeeps
  <1>10. WaitsForSomething' /\ Coupled'
    BY <1>1 DEF WaitsForSomething, Coupled
  <1> QED
    BY <1>5, <1>6, <1>8, <1>9, <1>10, ReturnsOK

-----------------------------------------------------------------------------
(***************************************************************************)
(* The theorems.                                                           *)
(***************************************************************************)

\* Nobody waits when the loop starts, and nothing is counted.
LEMMA GoodInit == Init => Good
  <1> SUFFICES ASSUME Init PROVE Good
    OBVIOUS
  <1>1. /\ kevents0 = <<>> /\ kevents1 = <<>> /\ iter = 1 /\ phase = "results"
        /\ knote = [e \in Event |-> NoThread] /\ open = Fd /\ event_count = 0
        /\ state = [t \in Thr |-> "SET"] /\ call = [t \in Thr |-> "none"]
        /\ runq = {}
    BY DEF Init
  <1>2. Waiting = {} /\ Claimed = {} /\ Refused = {} /\ Arrived = {}
    <2>1. \A t \in Thr, e \in Event : <<t, e>> \notin Waiting
      BY <1>1, WaitingIs
    <2>2. \A t \in Thr, e \in Event : <<t, e>> \notin Claimed
      <3> SUFFICES ASSUME NEW t \in Thr, NEW e \in Event PROVE <<t, e>> \notin Claimed
        OBVIOUS
      <3>1. ~ AddedLast(kevents0, t, e)
        BY <1>1 DEF AddedLast
      <3>2. knote[e] # t
        BY <1>1, KeventPollerAssumption
      <3> QED
        BY <3>1, <3>2, ClaimedIs
    <2>3. Waiting \subseteq Thr \X Event /\ Claimed \subseteq Thr \X Event
      BY DEF Waiting, Claimed
    <2>4. Refused = {} /\ Arrived = {}
      BY <1>1 DEF Refused, Arrived
    <2> QED
      BY <2>1, <2>2, <2>3, <2>4
  <1>3. WaitsForSomething /\ Coupled
    BY <1>1 DEF WaitsForSomething, Coupled, Plain
  <1>4. ListOK
    <2>1. AddsAwaited
      BY <1>1 DEF AddsAwaited
    <2>2. KnotesAwaited
      BY <1>1, KeventPollerAssumption DEF KnotesAwaited, Plain
    <2>3. ClosedForgotten
      BY <1>1 DEF ClosedForgotten
    <2> QED
      BY <2>1, <2>2, <2>3 DEF ListOK
  <1>5. FailedOK /\ ResultsOK
    BY <1>1 DEF FailedOK, ResultsOK
  <1>6. ClashSeen /\ Reached
    BY <1>2 DEF ClashSeen, Reached
  <1>7. CountOK
    <2> DEFINE S == Waiting \cup Claimed \cup Arrived
    <2>1. S = {}
      BY <1>2
    <2>2. Cardinality(S) = 0
      BY <2>1, FS_EmptySet
    <2> HIDE DEF S
    <2>3. event_count >= Cardinality(S) /\ phase # "over"
      BY <2>2, <1>1
    <2> QED
      BY <2>3 DEF CountOK, S
  <1> QED
    BY <1>3, <1>4, <1>5, <1>6, <1>7 DEF Good

\* A step after which no deletion has failed keeps the invariant.
LEMMA GoodStep ==
    ASSUME Base, Good, Next, clean'
    PROVE  Good'
  <1>1. CASE Loop
    <2>1. ~ kevent_fails
      BY DEF kevent_fails
    <2> QED
      BY <2>1, <1>1, GoodIdle, GoodKevent, GoodChange, GoodReturns, GoodResult, GoodRound DEF Loop
  <1>2. CASE \E t \in Thr : sift(t)
    BY <1>2, GoodSift
  <1>3. CASE \E t \in Thr : Calls(t)
    <2>1. PICK t \in Thr : Calls(t)
      BY <1>3
    <2>2. CASE \E f \in Fd : mnthr_wait_for_rw(t, f) \/ mnthr_wait_for_events(t, f)
      BY <2>2, WaitForms, GoodWait
    <2>3. CASE mnthr_sleep(t) \/ Exit(t) \/ mnthr_set_retval(t)
      BY <2>3, GoodSleep, GoodExit, GoodRetval
    <2>4. CASE \E u \in Thr : mnthr_set_interrupt(t, u) \/ mnthr_spawn(t, u)
      BY <2>4, GoodInterrupt, GoodSpawn
    <2>5. CASE \E f \in Fd : close(t, f) \/ reopen(t, f)
      BY <2>5, GoodClose, GoodReopen
    <2> QED
      BY <2>1, <2>2, <2>3, <2>4, <2>5 DEF Calls
  <1> QED
    BY <1>1, <1>2, <1>3 DEF Next

\* A thread without a result is given none only in the walk, if the code it is
\* resumed with says success.
LEMMA NoFailStep ==
    ASSUME Base, Good, NoFail, Next, clean'
    PROVE  NoFail'
  <1>1. clean /\ failed \subseteq Selectors
    BY DEF Next, NoFail
  <1>2. CASE failed' = failed
    BY <1>1, <1>2 DEF NoFail
  <1>3. CASE \E t \in Thr : sift(t)
    <2>1. PICK t \in Thr : sift(t)
      BY <1>3
    <2>2. Continue(t, idx[t], rc[t]) /\ idx[t] \in 0..event_max /\ rc[t] \in {0, INTERRUPTED, POLLER}
          /\ t \in runq
      BY <2>1 DEF sift, Base, TypeOK
    <2>3. /\ failed' \subseteq failed \cup {t}
          /\ rc[t] # 0 \/ idx[t] # 0 \/ call[t] # "wait" => failed' = failed
      BY <2>2, ContinueIs DEF Base
    <2>4. t \in Plain => rc[t] # 0 \/ call[t] # "wait"
      <3> SUFFICES ASSUME t \in Plain PROVE rc[t] # 0 \/ call[t] # "wait"
        OBVIOUS
      <3>1. state[t] \in {"DORMANT", "RESUMED", "SLEEP", "SET", "RW", "OTHER"}
        BY DEF Base, TypeOK
      <3> QED
        BY <3>1, <2>2 DEF Good, Coupled
    <2> QED
      BY <2>3, <2>4, <1>1 DEF NoFail, Plain
  <1>4. CASE Loop
    <2>1. ASSUME loop_result PROVE failed' = failed
      <3>1. PICK r : r = kevents1[iter]
        OBVIOUS
      <3>2. PICK t : t = r.thr
        OBVIOUS
      <3> QED
        BY <2>1, <3>1, <3>2, ResultIs
    <2>2. failed' = failed
      BY <1>4, <2>1 DEF Loop, loop_idle, loop_kevent, kevent_change, kevent_fails, kevent_returns, loop_round
    <2> QED
      BY <2>2, <1>2
  <1>5. CASE \E t \in Thr : Calls(t)
    <2>1. failed' = failed
      BY <1>5 DEF Calls, mnthr_wait_for_rw, mnthr_wait_for_events, begin_wait, mnthr_sleep, Exit,
                  mnthr_set_retval, mnthr_set_interrupt, mnthr_spawn, close, reopen
    <2> QED
      BY <2>1, <1>2
  <1> QED
    BY <1>3, <1>4, <1>5 DEF Next

\* Nothing happens.
LEMMA GoodStutter ==
    ASSUME Good, UNCHANGED vars
    PROVE  Good'
  <1>1. /\ kevents0' = kevents0 /\ knote' = knote /\ open' = open /\ event_count' = event_count
        /\ kevents1' = kevents1 /\ iter' = iter /\ runq' = runq /\ phase' = phase
        /\ pdata' = pdata /\ state' = state /\ call' = call /\ rc' = rc /\ due' = due
        /\ clash' = clash
    BY DEF vars, kernel, counts, round, pvars, cvars, hist
  <1>2. Waiting' = Waiting /\ Claimed' = Claimed /\ Refused' = Refused /\ Arrived' = Arrived
    BY <1>1 DEF Waiting, Awaits, Claimed, AddedLast, Untouched, Refused, Arrived
  <1>3. WaitsForSomething' /\ Coupled'
    BY <1>1 DEF Good, WaitsForSomething, Coupled
  <1>4. ListOK'
    BY <1>1, <1>2 DEF Good, ListOK, AddsAwaited, KnotesAwaited, ClosedForgotten, DeletedBehind, Untouched
  <1>5. FailedOK' /\ ResultsOK'
    BY <1>1, <1>2 DEF Good, FailedOK, ResultsOK, DeletedBehind, Add
  <1>6. ClashSeen' /\ Reached' /\ CountOK'
    BY <1>1, <1>2 DEF Good, ClashSeen, Reached, CountOK
  <1> QED
    BY <1>3, <1>4, <1>5, <1>6 DEF Good

\* The invariant is inductive.
LEMMA InvHolds == Spec => []Inv
  <1>1. Init => Inv
    BY BaseInit, GoodInit DEF Inv, NoFail, Init
  <1>2. Inv /\ [Next]_vars => Inv'
    <2> SUFFICES ASSUME Inv, [Next]_vars PROVE Inv'
      OBVIOUS
    <2>1. Base'
      BY BaseStep DEF Inv
    <2>2. CASE Next
      <3>1. clean
        BY <2>2 DEF Next
      <3>2. ASSUME clean' PROVE Good' /\ NoFail'
        BY <3>1, <3>2, <2>2, GoodStep, NoFailStep DEF Inv
      <3>3. ~ clean' => NoFail'
        BY DEF NoFail
      <3> QED
        BY <2>1, <3>2, <3>3 DEF Inv
    <2>3. CASE UNCHANGED vars
      <3>1. clean' = clean /\ failed' = failed
        BY <2>3 DEF vars, hist
      <3>2. clean' => Good'
        BY <2>3, <3>1, GoodStutter DEF Inv
      <3> QED
        BY <2>1, <3>1, <3>2 DEF Inv, NoFail
    <2> QED
      BY <2>2, <2>3
  <1> QED
    BY <1>1, <1>2, PTL DEF Spec

\* As long as no deletion fails, a thread that waits for one event, alone, is
\* reachable: the event is in the change list, registered for it, or reported.
THEOREM KeventWaiterReachable == Spec => []WaiterReachable
  <1>1. Inv => WaiterReachable
    <2> SUFFICES ASSUME Inv, clean, NEW t \in Plain, NEW e \in Event \ clash, Awaits(t, e)
                 PROVE  \/ [op |-> "ADD", ev |-> e, thr |-> t] \in Elems(kevents0)
                        \/ knote[e] = t
                        \/ Reported(t, e)
      BY DEF WaiterReachable, Plain
    <2>1. t \in Thr /\ Good /\ e \in Event
      BY DEF Inv, Plain
    <2>2. <<t, e>> \in Waiting
      BY <2>1 DEF Waiting
    <2>3. <<t, e>> \in Claimed \/ <<t, e>> \in Refused
      BY <2>1, <2>2 DEF Good, Reached
    <2>4. CASE <<t, e>> \in Claimed
      <3>1. AddedLast(kevents0, t, e) \/ knote[e] = t
        BY <2>1, <2>4, ClaimedIs
      <3>2. AddedLast(kevents0, t, e) => Add(e, t) \in Elems(kevents0)
        BY DEF AddedLast, Elems
      <3> QED
        BY <3>1, <3>2 DEF Add
    <2>5. CASE <<t, e>> \in Refused
      BY <2>5 DEF Refused, Reported
    <2> QED
      BY <2>3, <2>4, <2>5
  <1> QED
    BY <1>1, InvHolds, PTL

\* poller_sift_sleepq finds no thread that waits for one event.
THEOREM KeventSiftFindsNoWaiter == Spec => []SiftFindsNoWaiter
  <1>1. Inv => SiftFindsNoWaiter
    BY DEF Inv, Base, TypeOK, Good, Coupled, Plain, SiftFindsNoWaiter
  <1> QED
    BY <1>1, InvHolds, PTL

\* A result for a thread that waits for one event at a time finds it in the wait
\* the result belongs to.
THEOREM KeventResultIsAwaited == Spec => []ResultIsAwaited
  <1>1. Inv => ResultIsAwaited
    <2> SUFFICES ASSUME Inv, clean, phase = "results", NEW i \in iter..Len(kevents1),
                        kevents1[i].thr \notin Selectors
                 PROVE  Awaits(kevents1[i].thr, kevents1[i].ev)
      BY DEF ResultIsAwaited
    <2>1. kevents1[i] \in Result
      BY DEF Inv, Base, TypeOK
    <2>2. kevents1[i].thr \in Plain
      BY <2>1 DEF Result, Plain
    <2>3. <<kevents1[i].thr, kevents1[i].ev>> \in Waiting
      BY <2>2 DEF Inv, Good, ResultsOK
    <2> QED
      BY <2>3 DEF Waiting
  <1> QED
    BY <1>1, InvHolds, PTL

\* mnthr_loop ends only when no thread waits for an event, the threads in
\* mnthr_wait_for_events and those that wait for one event together included.
THEOREM KeventLoopServesWaiters == Spec => []LoopServesWaiters
  <1>1. Inv => LoopServesWaiters
    <2> SUFFICES ASSUME Inv, clean, phase = "over", NEW t \in Thr, state[t] \in {"RW", "OTHER"}
                 PROVE  FALSE
      BY DEF LoopServesWaiters
    <2> DEFINE S == Waiting \cup Claimed \cup Arrived
    <2>1. event_count = 0 /\ event_count >= Cardinality(S)
      BY DEF Inv, Good, CountOK
    <2>2. S \subseteq Thr \X Event
      BY CountedType
    <2>3. pdata[t] \in Watched /\ pdata[t] # <<>>
      BY DEF Inv, Base, TypeOK, Good, WaitsForSomething
    <2>4. pdata[t] \in Seq(Event)
      BY <2>3, WatchedIs
    <2>5. 1 \in 1..Len(pdata[t]) /\ pdata[t][1] \in Event
      BY <2>3, <2>4
    <2>6. <<t, pdata[t][1]>> \in Waiting
      BY <2>5, WaitingIs DEF Elems
    <2>7. PICK p : p \in S
      BY <2>6
    <2> HIDE DEF S
    <2>8. IsFiniteSet(S) /\ Cardinality(S) \in Nat
      BY <2>2, CountShrinks
    <2>9. Cardinality(S) = 0
      BY <2>1, <2>8
    <2> QED
      BY <2>7, <2>8, <2>9, FS_EmptySet
  <1> QED
    BY <1>1, InvHolds, PTL

\* No wait for one event returns success without a result.
THEOREM KeventNoFail == Spec => []NoFail
  <1>1. Inv => NoFail
    BY DEF Inv
  <1> QED
    BY <1>1, InvHolds, PTL
-----------------------------------------------------------------------------
(***************************************************************************)
(* How a wait for one event ends.                                          *)
(***************************************************************************)

\* The loop looks at a result for thread t and event e, and the thread is given the
\* code of that result.
EndsByItsEvent(t, e) ==
    /\ phase = "results" /\ iter <= Len(kevents1)
    /\ kevents1[iter].thr = t /\ kevents1[iter].ev = e
    /\ rc'[t] = IF kevents1[iter].error THEN POLLER ELSE 0

\* Another thread calls mnthr_set_interrupt, and the thread is given its code.
EndsByInterrupt(t) == me # NoThread /\ me # t /\ rc'[t] = INTERRUPTED

\* As long as no deletion fails, a wait for one event ends in two ways only: by a
\* result for that very event, or by mnthr_set_interrupt of another thread.  A result
\* for an earlier wait of the thread, a reused context or the walk over the_sleepq
\* never ends it.
WaitEndsByItsEvent ==
    [][\A t \in Plain, e \in Event :
         clean /\ Awaits(t, e) /\ ~ Awaits(t, e)' => EndsByItsEvent(t, e) \/ EndsByInterrupt(t)]_vars

\* The step that ends a wait is the one that looks at its result, or an interrupt.
LEMMA WaitEndsStep ==
    ASSUME Inv, Next, NEW t \in Plain, NEW e \in Event,
           clean, <<t, e>> \in Waiting, <<t, e>> \notin Waiting'
    PROVE  EndsByItsEvent(t, e) \/ EndsByInterrupt(t)
  <1>1. Base /\ Good /\ t \in Thr
    BY DEF Inv, Plain
  <1>2. state[t] = "RW" /\ t \notin runq
    BY <1>1, OneEvent DEF Good, Coupled
  <1>3. ~ (state'[t] = state[t] /\ pdata'[t] = pdata[t])
    BY <1>1, WaitingIs, WaitingIsNext
  <1>4. state \in [Thr -> {"DORMANT", "RESUMED", "SLEEP", "SET", "RW", "OTHER"}]
        /\ pdata \in [Thr -> Watched] /\ rc \in [Thr -> {0, INTERRUPTED, POLLER}]
    BY <1>1 DEF Base, TypeOK
  <1>5. CASE Loop
    <2>1. ~ (state' = state /\ pdata' = pdata)
      BY <1>3
    <2>2. loop_result
      BY <1>5, <2>1 DEF Loop, loop_idle, loop_kevent, kevent_change, kevent_fails, kevent_returns,
                        loop_round, cvars, pvars
    <2>3. PICK r : r = kevents1[iter]
      OBVIOUS
    <2>4. PICK u : u = r.thr
      OBVIOUS
    <2>5. /\ phase = "results" /\ iter \in 1..Len(kevents1)
          /\ r \in Result /\ u \in Thr /\ r.ev \in Event
          /\ \/ state[u] = "OTHER" /\ state' = [state EXCEPT ![u] = "SET"]
             \/ state[u] = "DORMANT" /\ state' = state /\ pdata' = pdata
             \/ /\ state' = [state EXCEPT ![u] = "RESUMED"]
                /\ rc' = [rc EXCEPT ![u] = IF r.error THEN POLLER ELSE 0]
          /\ \A v \in Thr \ {u} : pdata'[v] = pdata[v]
      BY <1>1, <2>2, <2>3, <2>4, ResultIs
    <2>6. u = t
      BY <2>5, <1>1, <1>3, <1>4
    <2>7. rc'[t] = IF r.error THEN POLLER ELSE 0
      BY <2>5, <2>6, <2>1, <1>1, <1>2, <1>4
    <2>8. iter \in Nat /\ Len(kevents1) \in Nat
      BY <1>1 DEF Base, TypeOK
    <2>9. iter \in iter..Len(kevents1) /\ iter <= Len(kevents1)
      BY <2>5, <2>8
    <2>10. <<t, r.ev>> \in Waiting
      BY <2>3, <2>4, <2>5, <2>6, <2>9, <1>1 DEF Good, ResultsOK
    <2>11. r.ev = e
      BY <2>10, <2>5, <1>1, OneEvent DEF Good
    <2> QED
      BY <2>3, <2>4, <2>5, <2>6, <2>7, <2>9, <2>11 DEF EndsByItsEvent
  <1>6. ASSUME NEW u \in Thr, sift(u) PROVE FALSE
    <2>1. u \in runq /\ Continue(u, idx[u], rc[u])
          /\ idx[u] \in 0..event_max /\ rc[u] \in {0, INTERRUPTED, POLLER}
      BY <1>6, <1>1 DEF sift, Base, TypeOK
    <2>2. state' = [state EXCEPT ![u] = "RESUMED"] /\ \A v \in Thr \ {u} : pdata'[v] = pdata[v]
      BY <2>1, <1>1, ContinueIs DEF Base
    <2> QED
      BY <2>1, <2>2, <1>1, <1>2, <1>3, <1>4
  <1>7. CASE \E u \in Thr : Calls(u)
    <2>1. PICK u \in Thr : Calls(u)
      BY <1>7
    <2>2. ~ (\E f \in Fd : mnthr_wait_for_rw(u, f) \/ mnthr_wait_for_events(u, f))
      <3> SUFFICES ASSUME NEW f \in Fd, mnthr_wait_for_rw(u, f) \/ mnthr_wait_for_events(u, f)
                   PROVE  FALSE
        OBVIOUS
      <3>1. PICK es \in Watched, st \in {"RW", "OTHER"}, name \in {"wait", "wait_for_events"} :
               begin_wait(u, es, st, name)
        BY WaitForms
      <3>2. u # t
        BY <3>1, <1>1, WaitingBegins
      <3> QED
        BY <3>1, <3>2, <1>1, WaitingBegins
    <2>3. ASSUME me = u, u = t PROVE FALSE
      BY <2>3, <1>1, <1>2 DEF Base, Shape
    <2>4. ~ (mnthr_sleep(u) \/ Exit(u))
      BY <2>3, <1>1, <1>3, <1>4 DEF mnthr_sleep, Exit, pvars
    <2>5. ~ (mnthr_set_retval(u) \/ \E f \in Fd : close(u, f) \/ reopen(u, f))
      BY <1>3 DEF mnthr_set_retval, close, reopen, cvars, pvars
    <2>6. ASSUME NEW v \in Thr PROVE ~ mnthr_spawn(u, v)
      BY <1>1, <1>2, <1>3, <1>4 DEF mnthr_spawn, pvars
    <2>7. PICK v \in Thr : mnthr_set_interrupt(u, v)
      BY <2>1, <2>2, <2>4, <2>5, <2>6 DEF Calls
    <2>8. PICK es : es = poller_clear_event(v)
      OBVIOUS
    <2>9. /\ me = u /\ u # v /\ pdata' = pdata
          /\ state' = [state EXCEPT ![v] = "SET"] /\ rc' = [rc EXCEPT ![v] = INTERRUPTED]
      BY <2>7, <2>8, <1>1, InterruptIs
    <2>10. v = t
      BY <2>9, <1>1, <1>3, <1>4
    <2>11. rc'[t] = INTERRUPTED
      BY <2>9, <2>10, <1>1, <1>4
    <2> QED
      BY <2>9, <2>10, <2>11, KeventPollerAssumption DEF EndsByInterrupt
  <1> QED
    BY <1>5, <1>6, <1>7 DEF Next

\* As long as no deletion fails, a wait for one event ends by a result for that event,
\* whose code the call returns, or by mnthr_set_interrupt.
THEOREM KeventWaitEndsByItsEvent == Spec => WaitEndsByItsEvent
  <1>1. Inv /\ [Next]_vars =>
          [\A t \in Plain, e \in Event :
             clean /\ Awaits(t, e) /\ ~ Awaits(t, e)' => EndsByItsEvent(t, e) \/ EndsByInterrupt(t)]_vars
    <2> SUFFICES ASSUME Inv, Next, NEW t \in Plain, NEW e \in Event,
                        clean, Awaits(t, e), ~ Awaits(t, e)'
                 PROVE  EndsByItsEvent(t, e) \/ EndsByInterrupt(t)
      OBVIOUS
    <2>1. <<t, e>> \in Waiting /\ <<t, e>> \notin Waiting'
      BY DEF Waiting, Awaits, Plain
    <2> QED
      BY <2>1, WaitEndsStep
  <1> QED
    BY <1>1, InvHolds, PTL DEF Spec, WaitEndsByItsEvent
=============================================================================
