---------------------------- MODULE DTQueueProofs ----------------------------
(***************************************************************************)
(* What the queue operations do to the elements of a queue, for every      *)
(* queue.  The proofs about the sleep queue and the primitives cite these. *)
(***************************************************************************)
EXTENDS DTQueue, TLAPS

\* The elements of a queue of S are in S.
LEMMA ElemsType ==
    ASSUME NEW S, NEW q \in Seq(S)
    PROVE  \A x \in Elems(q) : x \in S
  BY DEF Elems

\* Linking at the tail adds one element and keeps a queue free of repetitions.
LEMMA EnqueueElems ==
    ASSUME NEW S, NEW q \in Seq(S), NEW e \in S
    PROVE  /\ DTQUEUE_ENQUEUE(q, e) \in Seq(S)
           /\ Elems(DTQUEUE_ENQUEUE(q, e)) = Elems(q) \cup {e}
           /\ Distinct(q) /\ e \notin Elems(q) => Distinct(DTQUEUE_ENQUEUE(q, e))
  BY DEF DTQUEUE_ENQUEUE, Elems, Distinct

\* Linking at the head does the same.
LEMMA InsertElems ==
    ASSUME NEW S, NEW q \in Seq(S), NEW e \in S
    PROVE  /\ <<e>> \o q \in Seq(S)
           /\ Len(<<e>> \o q) = Len(q) + 1
           /\ (<<e>> \o q)[1] = e
           /\ \A i \in 1..Len(q) : (<<e>> \o q)[i + 1] = q[i]
           /\ Head(<<e>> \o q) = e
           /\ Tail(<<e>> \o q) = q
           /\ Elems(<<e>> \o q) = Elems(q) \cup {e}
           /\ Distinct(q) /\ e \notin Elems(q) => Distinct(<<e>> \o q)
  <1>1. <<e>> \o q \in Seq(S)
    OBVIOUS
  <1>2. Len(<<e>> \o q) = Len(q) + 1
    OBVIOUS
  <1>3. (<<e>> \o q)[1] = e
    OBVIOUS
  <1>4. \A i \in 1..Len(q) : (<<e>> \o q)[i + 1] = q[i]
    OBVIOUS
  <1>5. Head(<<e>> \o q) = e /\ Tail(<<e>> \o q) = q
    BY <1>1, <1>2, <1>3, <1>4
  <1>6. Elems(<<e>> \o q) = Elems(q) \cup {e}
    <2> DEFINE r == <<e>> \o q
    <2>1. \A j \in 1..Len(r) : j = 1 \/ (j - 1 \in 1..Len(q) /\ r[j] = q[j - 1])
      BY <1>1, <1>2, <1>4
    <2>2. \A i \in 1..Len(q) : i + 1 \in 1..Len(r) /\ r[i + 1] = q[i]
      BY <1>2, <1>4
    <2>3. 1 \in 1..Len(r) /\ r[1] = e
      BY <1>2, <1>3
    <2> HIDE DEF r
    <2>4. \A x : x \in Elems(r) => x \in Elems(q) \cup {e}
      BY <2>1, <2>3 DEF Elems
    <2>5. \A x : x \in Elems(q) \cup {e} => x \in Elems(r)
      BY <2>2, <2>3 DEF Elems
    <2> QED
      BY <2>4, <2>5 DEF r
  <1>7. Distinct(q) /\ e \notin Elems(q) => Distinct(<<e>> \o q)
    BY <1>1, <1>2, <1>3, <1>4 DEF Elems, Distinct
  <1> QED
    BY <1>1, <1>2, <1>3, <1>4, <1>5, <1>6, <1>7

\* Linking at the tail passes over the head.
LEMMA EnqueueBehindHead ==
    ASSUME NEW S, NEW q \in Seq(S), NEW h \in S, NEW e \in S
    PROVE  Append(<<h>> \o q, e) = <<h>> \o Append(q, e)
  <1> DEFINE p == <<h>> \o q
             r == <<h>> \o Append(q, e)
  <1>1. p \in Seq(S) /\ Len(p) = Len(q) + 1
    OBVIOUS
  <1>2. Append(p, e) \in Seq(S) /\ r \in Seq(S) /\ Len(Append(p, e)) = Len(r)
    OBVIOUS
  <1>3. \A i \in 1..Len(r) : Append(p, e)[i] = r[i]
    OBVIOUS
  <1> QED
    BY <1>2, <1>3

\* Taking the head off a queue without repetitions.
LEMMA TailElems ==
    ASSUME NEW S, NEW q \in Seq(S), q # <<>>, Distinct(q)
    PROVE  /\ Head(q) \in S
           /\ Tail(q) \in Seq(S)
           /\ Head(q) \in Elems(q)
           /\ Elems(Tail(q)) = Elems(q) \ {Head(q)}
           /\ Distinct(Tail(q))
           /\ <<Head(q)>> \o Tail(q) = q
  <1>1. /\ Head(q) = q[1] /\ Head(q) \in S /\ 1 \in 1..Len(q)
        /\ Tail(q) \in Seq(S) /\ Len(Tail(q)) = Len(q) - 1
        /\ \A i \in 1..Len(Tail(q)) : Tail(q)[i] = q[i + 1]
    OBVIOUS
  <1>2. Distinct(Tail(q))
    BY <1>1 DEF Distinct
  <1>3. \A x : x \in Elems(Tail(q)) => x \in Elems(q) \ {Head(q)}
    BY <1>1 DEF Elems, Distinct
  <1>4. \A x : x \in Elems(q) \ {Head(q)} => x \in Elems(Tail(q))
    <2> TAKE x
    <2> HAVE x \in Elems(q) \ {Head(q)}
    <2> PICK i \in 1..Len(q) : x = q[i]
      BY DEF Elems
    <2>1. i - 1 \in 1..Len(Tail(q)) /\ Tail(q)[i - 1] = x
      BY <1>1
    <2> QED
      BY <2>1 DEF Elems
  <1>5. <<Head(q)>> \o Tail(q) = q
    BY <1>1
  <1> QED
    BY <1>1, <1>2, <1>3, <1>4, <1>5 DEF Elems

\* A queue of n elements is a function on 1..n.
LEMMA SeqIs ==
    ASSUME NEW S, NEW r \in Seq(S), NEW n, Len(r) = n
    PROVE  r = [i \in 1..n |-> r[i]]
  OBVIOUS

\* Append and Tail, element by element.
LEMMA AppendIs ==
    ASSUME NEW S, NEW q \in Seq(S), NEW e \in S
    PROVE  Append(q, e) =
             [i \in 1..(Len(q) + 1) |-> IF i = Len(q) + 1 THEN e ELSE q[i]]
  <1>1. Append(q, e) \in Seq(S) /\ Len(Append(q, e)) = Len(q) + 1
    OBVIOUS
  <1>2. \A i \in 1..(Len(q) + 1) :
           Append(q, e)[i] = IF i = Len(q) + 1 THEN e ELSE q[i]
    OBVIOUS
  <1>3. Append(q, e) = [i \in 1..(Len(q) + 1) |-> Append(q, e)[i]]
    BY <1>1, SeqIs, Zenon
  <1> QED
    BY <1>2, <1>3

\* The tail of a queue, as a function of the position.
LEMMA TailIs ==
    ASSUME NEW S, NEW q \in Seq(S), q # <<>>
    PROVE  Tail(q) = [i \in 1..(Len(q) - 1) |-> q[i + 1]]
  <1>1. Tail(q) \in Seq(S) /\ Len(Tail(q)) = Len(q) - 1
    OBVIOUS
  <1>2. \A i \in 1..(Len(q) - 1) : Tail(q)[i] = q[i + 1]
    OBVIOUS
  <1>3. Tail(q) = [i \in 1..(Len(q) - 1) |-> Tail(q)[i]]
    BY <1>1, SeqIs, Zenon
  <1> QED
    BY <1>2, <1>3

\* The head of a queue is its first element.
LEMMA HeadIs ==
    ASSUME NEW S, NEW q \in Seq(S), q # <<>>
    PROVE  Head(q) \in S /\ 1 \in 1..Len(q) /\ Head(q) = q[1] /\ Head(q) \in Elems(q)
  BY DEF Elems

\* r is q without its i-th element.
Shifted(r, q, i) ==
    \A j \in 1..Len(r) : /\ j \in 1..Len(q) /\ j + 1 \in 1..Len(q)
                         /\ j < i => r[j] = q[j]
                         /\ ~ (j < i) => r[j] = q[j + 1]

\* The elements of a queue from which one was shifted out.
LEMMA ShiftedElems ==
    ASSUME NEW S, NEW q \in Seq(S), NEW r \in Seq(S), NEW i \in 1..Len(q),
           Len(r) = Len(q) - 1, Shifted(r, q, i), Distinct(q)
    PROVE  Elems(r) = Elems(q) \ {q[i]} /\ Distinct(r)
  <1>0. \A m, n \in 1..Len(q) : q[m] = q[n] => m = n
    BY DEF Distinct
  <1>1. Distinct(r)
    <2> SUFFICES ASSUME NEW j \in 1..Len(r), NEW l \in 1..Len(r), r[j] = r[l]
                 PROVE  j = l
      BY DEF Distinct
    <2>1. PICK m \in 1..Len(q) : r[j] = q[m] /\ m = IF j < i THEN j ELSE j + 1
      BY DEF Shifted
    <2>2. PICK n \in 1..Len(q) : r[l] = q[n] /\ n = IF l < i THEN l ELSE l + 1
      BY DEF Shifted
    <2>3. m = n
      BY <2>1, <2>2, <1>0
    <2> QED
      BY <2>1, <2>2, <2>3
  <1>2. \A x : x \in Elems(r) => x \in Elems(q) \ {q[i]}
    <2> TAKE x
    <2> HAVE x \in Elems(r)
    <2> PICK j \in 1..Len(r) : x = r[j]
      BY DEF Elems
    <2>1. PICK m \in 1..Len(q) : x = q[m] /\ m # i
      <3>1. CASE j < i
        BY <3>1 DEF Shifted
      <3>2. CASE ~ (j < i)
        BY <3>2 DEF Shifted
      <3> QED
        BY <3>1, <3>2
    <2> QED
      BY <2>1, <1>0 DEF Elems
  <1>3. \A x : x \in Elems(q) \ {q[i]} => x \in Elems(r)
    <2> TAKE x
    <2> HAVE x \in Elems(q) \ {q[i]}
    <2> PICK j \in 1..Len(q) : x = q[j]
      BY DEF Elems
    <2>1. CASE j < i
      <3>1. j \in 1..Len(r) /\ r[j] = q[j]
        BY <2>1 DEF Shifted
      <3> QED
        BY <3>1 DEF Elems
    <2>2. CASE j > i
      <3>1. j - 1 \in 1..Len(r) /\ ~ (j - 1 < i) /\ (j - 1) + 1 = j
        BY <2>2
      <3>2. r[j - 1] = q[j]
        BY <3>1 DEF Shifted
      <3> QED
        BY <3>1, <3>2 DEF Elems
    <2> QED
      BY <2>1, <2>2
  <1> QED
    BY <1>1, <1>2, <1>3

\* Unlinking an element is shifting it out.
LEMMA RemoveShifts ==
    ASSUME NEW S, NEW q \in Seq(S), NEW e, e \in Elems(q)
    PROVE  \E i \in 1..Len(q) :
              /\ q[i] = e
              /\ DTQUEUE_REMOVE(q, e) \in Seq(S)
              /\ Len(DTQUEUE_REMOVE(q, e)) = Len(q) - 1
              /\ Shifted(DTQUEUE_REMOVE(q, e), q, i)
  <1> DEFINE i == CHOOSE j \in 1..Len(q) : q[j] = e
             r == [j \in 1..(Len(q) - 1) |-> IF j < i THEN q[j] ELSE q[j + 1]]
  <1>0. i \in 1..Len(q) /\ q[i] = e
    BY DEF Elems
  <1>1. DTQUEUE_REMOVE(q, e) = r
    BY DEF DTQUEUE_REMOVE
  <1> HIDE DEF i
  <1>2. r \in Seq(S) /\ Len(r) = Len(q) - 1
    <2>1. Len(q) - 1 \in Nat
      BY <1>0
    <2>2. \A j \in 1..(Len(q) - 1) : r[j] \in S
      BY <1>0
    <2> QED
      BY <2>1, <2>2
  <1>3. Shifted(r, q, i)
    BY <1>0, <1>2 DEF Shifted
  <1> QED
    BY <1>0, <1>1, <1>2, <1>3

\* Unlinking an element takes that element off, keeps the others and their
\* order, and leaves a queue without repetitions.
LEMMA RemoveElems ==
    ASSUME NEW S, NEW q \in Seq(S), NEW e, Distinct(q)
    PROVE  /\ DTQUEUE_REMOVE(q, e) \in Seq(S)
           /\ Elems(DTQUEUE_REMOVE(q, e)) = Elems(q) \ {e}
           /\ Distinct(DTQUEUE_REMOVE(q, e))
  <1>1. CASE e \notin Elems(q)
    BY <1>1 DEF DTQUEUE_REMOVE
  <1>2. CASE e \in Elems(q)
    BY <1>2, RemoveShifts, ShiftedElems
  <1> QED
    BY <1>1, <1>2

\* Unlinking passes over a head that is another element.
LEMMA RemoveBehindHead ==
    ASSUME NEW S, NEW q \in Seq(S), NEW h \in S, NEW e, h # e, Distinct(q)
    PROVE  DTQUEUE_REMOVE(<<h>> \o q, e) = <<h>> \o DTQUEUE_REMOVE(q, e)
  <1> DEFINE p == <<h>> \o q
  <1>0. /\ p \in Seq(S) /\ Len(p) = Len(q) + 1 /\ p[1] = h
        /\ \A i \in 1..Len(q) : p[i + 1] = q[i]
        /\ Elems(p) = Elems(q) \cup {h}
    BY InsertElems
  <1>1. CASE e \notin Elems(q)
    BY <1>0, <1>1 DEF DTQUEUE_REMOVE
  <1>2. CASE e \in Elems(q)
    <2> PICK i \in 1..Len(q) : q[i] = e /\ i = CHOOSE j \in 1..Len(q) : q[j] = e
      BY <1>2 DEF Elems
    <2> DEFINE r == [j \in 1..(Len(q) - 1) |-> IF j < i THEN q[j] ELSE q[j + 1]]
    <2>1. DTQUEUE_REMOVE(q, e) = r
      BY <1>2 DEF DTQUEUE_REMOVE
    <2>2. \A j \in 1..Len(p) : p[j] = e <=> j = i + 1
      <3> TAKE j \in 1..Len(p)
      <3>1. CASE j = 1
        BY <3>1, <1>0
      <3>2. CASE j # 1
        <4>1. j - 1 \in 1..Len(q) /\ p[j] = q[j - 1]
          BY <3>2, <1>0
        <4> QED
          BY <4>1 DEF Distinct
      <3> QED
        BY <3>1, <3>2
    <2>3. (CHOOSE j \in 1..Len(p) : p[j] = e) = i + 1
      BY <2>2, <1>0
    <2>4. DTQUEUE_REMOVE(p, e) =
            [j \in 1..(Len(p) - 1) |-> IF j < i + 1 THEN p[j] ELSE p[j + 1]]
      BY <2>3, <1>0, <1>2 DEF DTQUEUE_REMOVE
    <2>5. r \in Seq(S) /\ Len(r) = Len(q) - 1
      BY RemoveElems, <2>1
    <2>6. /\ <<h>> \o r \in Seq(S) /\ Len(<<h>> \o r) = Len(q)
          /\ (<<h>> \o r)[1] = h
          /\ \A j \in 1..Len(r) : (<<h>> \o r)[j + 1] = r[j]
      BY <2>5, InsertElems
    <2>7. \A j \in 1..Len(q) :
            (<<h>> \o r)[j] = IF j < i + 1 THEN p[j] ELSE p[j + 1]
      <3> TAKE j \in 1..Len(q)
      <3>1. CASE j = 1
        BY <3>1, <2>6, <1>0
      <3>2. CASE j # 1
        <4>1. j - 1 \in 1..Len(r) /\ (<<h>> \o r)[j] = r[j - 1]
          BY <3>2, <2>5, <2>6
        <4>2. r[j - 1] = IF j - 1 < i THEN q[j - 1] ELSE q[j]
          BY <4>1, <2>5, <3>2
        <4>3. p[j] = q[j - 1] /\ p[j + 1] = q[j]
          BY <1>0, <3>2
        <4> QED
          BY <4>1, <4>2, <4>3
      <3> QED
        BY <3>1, <3>2
    <2> HIDE DEF r
    <2>8. DTQUEUE_REMOVE(p, e) = [j \in 1..Len(q) |-> (<<h>> \o r)[j]]
      <3>1. Len(p) - 1 = Len(q)
        BY <1>0
      <3> QED
        BY <2>4, <2>7, <3>1
    <2>9. <<h>> \o r = [j \in 1..Len(q) |-> (<<h>> \o r)[j]]
      BY <2>6
    <2> QED
      BY <2>1, <2>8, <2>9
  <1> QED
    BY <1>1, <1>2

\* Unlinking the head.
LEMMA RemoveHead ==
    ASSUME NEW S, NEW q \in Seq(S), NEW e \in S, e \notin Elems(q)
    PROVE  DTQUEUE_REMOVE(<<e>> \o q, e) = q
  <1> DEFINE p == <<e>> \o q
  <1>0. /\ p \in Seq(S) /\ Len(p) = Len(q) + 1 /\ p[1] = e
        /\ \A i \in 1..Len(q) : p[i + 1] = q[i]
        /\ Elems(p) = Elems(q) \cup {e}
    BY InsertElems
  <1>1. \A j \in 1..Len(p) : p[j] = e <=> j = 1
    <2> TAKE j \in 1..Len(p)
    <2>1. CASE j # 1
      <3>1. j - 1 \in 1..Len(q) /\ p[j] = q[j - 1]
        BY <2>1, <1>0
      <3> QED
        BY <2>1, <3>1 DEF Elems
    <2> QED
      BY <2>1, <1>0
  <1>2. (CHOOSE j \in 1..Len(p) : p[j] = e) = 1
    BY <1>1, <1>0
  <1>3. DTQUEUE_REMOVE(p, e) =
            [j \in 1..(Len(p) - 1) |-> IF j < 1 THEN p[j] ELSE p[j + 1]]
    BY <1>0, <1>2 DEF DTQUEUE_REMOVE
  <1> QED
    BY <1>0, <1>3
=============================================================================
