--------------------------- MODULE TransferProofs ---------------------------
(***************************************************************************)
(* The descriptor helpers, for any sizes, any amount of data and any       *)
(* number of steps of the peer and of other processes in between: nothing  *)
(* that was taken from the kernel is lost or written past the end of the   *)
(* buffer, what a write call reports as sent was sent, and a socket call   *)
(* returns the descriptor it promises.                                     *)
(***************************************************************************)
EXTENDS Transfer, SequenceTheorems, TLAPS

\* Only a loop of accept calls holds something between two steps, and it does not
\* wait any more.
Empty == call.hand # <<>> => call.fn \in Accepts /\ call.st \notin {"none", "wait", "ready"}

\* The calls that read into a buffer of which they know the size have room for
\* what they may still read: for the size they were given ...
SizedFits ==
    ~ Idle /\ call.fn \in {"read_allb", "read_allb_et"} =>
        /\ call.sz > 0 /\ call.rem = call.sz
        /\ Len(buf) + call.sz <= cap

\* ... or for what the wait announced.
AnnouncedFits ==
    call.st = "sys" /\ call.fn \in {"read_all", "accept_all"} =>
        /\ Len(call.hand) <= call.navail
        /\ Len(buf) + call.navail <= cap

\* Neither a wait nor an edge-triggered call goes on to a transfer of nothing.
SysTransfers ==
    call.st = "sys" /\ call.fn \in Singles \cup Writes => call.navail > 0

\* A write call has sent all but the last call.rem of its bytes.
WriteSent ==
    /\ ~ Idle /\ call.fn \in Writes =>
         /\ 0 < call.rem /\ call.rem <= call.sz
         /\ pos + call.sz <= Len(buf)
         /\ out = SubSeq(buf, pos + 1, pos + call.sz - call.rem)
    /\ call.st = "ok" /\ call.fn \in Writes =>
         out = SubSeq(buf, pos + 1, pos + call.sz)

\* mnthr_sendfile has sent a prefix of the file, and counts what is left of it
\* until the first refusal.
FileSent ==
    call.fn = "sendfile" =>
        /\ Len(out) <= FileLen
        /\ ~ Idle => call.rem > 0
        /\ ~ Idle /\ ~ call.again => call.rem = call.sz - Len(out)
        /\ \A i \in 1..Len(out) : out[i] = i
        /\ call.st = "ok" /\ ~ call.again =>
              Len(out) = IF call.sz <= FileLen THEN call.sz ELSE FileLen

\* A descriptor that is not ready belongs to the socket call that goes on.
SockOwned == sock \in {"blocking", "connecting"} => call.fn \in Sockets /\ ~ Idle

TransferInv ==
    /\ TypeOK
    /\ Empty
    /\ NothingLost
    /\ SizedFits
    /\ AnnouncedFits
    /\ SysTransfers
    /\ WriteSent
    /\ FileSent
    /\ SockOwned
    /\ SocketReady
-----------------------------------------------------------------------------
\* The least of two numbers, as Min defines it.
LEMMA MinOfTwo ==
    ASSUME NEW a \in Int, NEW b \in Int
    PROVE  Min({a, b}) = IF a <= b THEN a ELSE b
  <1>1. \E x \in {a, b} : \A y \in {a, b} : x =< y
    OBVIOUS
  <1>2. Min({a, b}) \in {a, b} /\ \A y \in {a, b} : Min({a, b}) =< y
    BY <1>1 DEF Min
  <1> QED
    BY <1>2

\* The least of three numbers.
LEMMA MinOfThree ==
    ASSUME NEW a \in Int, NEW b \in Int, NEW c \in Int
    PROVE  /\ Min({a, b, c}) \in {a, b, c}
           /\ Min({a, b, c}) <= a /\ Min({a, b, c}) <= b /\ Min({a, b, c}) <= c
  <1>1. \E x \in {a, b, c} : \A y \in {a, b, c} : x =< y
    OBVIOUS
  <1>2. Min({a, b, c}) \in {a, b, c} /\ \A y \in {a, b, c} : Min({a, b, c}) =< y
    BY <1>1 DEF Min
  <1> QED
    BY <1>2

\* The greatest of two numbers.
LEMMA MaxOfTwo ==
    ASSUME NEW a \in Int, NEW b \in Int
    PROVE  Max({a, b}) = IF a >= b THEN a ELSE b
  <1>1. \E x \in {a, b} : \A y \in {a, b} : x >= y
    OBVIOUS
  <1>2. Max({a, b}) \in {a, b} /\ \A y \in {a, b} : Max({a, b}) >= y
    BY <1>1 DEF Max
  <1> QED
    BY <1>2

\* The types the steps use.
LEMMA Constants ==
    /\ MaxIn \in Nat /\ MaxFill \in Nat /\ FileLen \in Nat /\ MaxFails \in Nat
    /\ Addrs \in Nat
    /\ MaxSz \in Nat /\ MaxSz > 0 /\ Room \in Nat /\ Room > 0
    /\ GrowSz \in Nat /\ GrowSz > 0
  BY TransferAssumption

\* The types of what is in the kernel.
LEMMA KernelTypes ==
    ASSUME TypeOK
    PROVE  /\ arrived \in Nat /\ arrived <= MaxIn
           /\ inq \in Seq(1..arrived) /\ Len(inq) \in Nat
           /\ room \in Nat /\ room <= Room
           /\ out \in Seq(Nat) /\ Len(out) \in Nat
  <1>1. /\ arrived \in 0..MaxIn /\ room \in 0..Room
        /\ inq \in Seq(1..arrived) /\ out \in Seq(Nat)
    BY DEF TypeOK
  <1>2. Len(inq) \in Nat /\ Len(out) \in Nat
    BY <1>1, LenProperties
  <1> QED
    BY <1>1, <1>2, Constants

\* The types of the buffer of the caller.
LEMMA BufferTypes ==
    ASSUME TypeOK
    PROVE  /\ buf \in Seq(1..arrived) /\ Len(buf) \in Nat
           /\ taken \in Seq(1..arrived) /\ Len(taken) \in Nat
           /\ cap \in Nat /\ pos \in Nat
  <1>1. buf \in Seq(1..arrived) /\ taken \in Seq(1..arrived) /\ cap \in Nat /\ pos \in Nat
    BY DEF TypeOK
  <1>2. Len(buf) \in Nat /\ Len(taken) \in Nat
    BY <1>1, LenProperties
  <1> QED
    BY <1>1, <1>2

\* The types of the locals of a call.
LEMMA CallTypes ==
    ASSUME TypeOK
    PROVE  /\ call \in Call /\ call.fn \in Calls
           /\ call.st \in {"none", "wait", "ready", "sys", "spin", "ok", "error"}
           /\ call.sz \in Nat /\ call.sz <= MaxSz + MaxFails + MaxIn
           /\ call.navail \in Int /\ call.rem \in Int
           /\ call.hand \in Seq(1..MaxIn) /\ Len(call.hand) \in Nat
  <1>1. call \in Call
    BY DEF TypeOK
  <1>2. /\ call.fn \in Calls
        /\ call.st \in {"none", "wait", "ready", "sys", "spin", "ok", "error"}
        /\ call.sz \in 0..(MaxSz + MaxFails + MaxIn)
        /\ call.navail \in Int /\ call.rem \in Int /\ call.hand \in Seq(1..MaxIn)
    BY <1>1 DEF Call
  <1>3. Len(call.hand) \in Nat
    BY <1>2, LenProperties
  <1> QED
    BY <1>1, <1>2, <1>3, Constants

\* All but the types is about the thread: what the peer and the others do between
\* its steps leaves it alone.
LEMMA OthersKeep ==
    ASSUME TransferInv, UNCHANGED <<buffer, sock, call, out, taken>>
    PROVE  /\ Empty' /\ NothingLost' /\ SizedFits' /\ AnnouncedFits' /\ SysTransfers'
           /\ WriteSent' /\ FileSent' /\ SockOwned' /\ SocketReady'
  <1> USE DEF buffer, TransferInv
  <1>1. Empty' /\ SockOwned' /\ SocketReady' /\ SysTransfers'
    BY DEF Empty, SockOwned, SocketReady, SysTransfers, Idle
  <1>2. NothingLost' /\ SizedFits' /\ AnnouncedFits'
    BY DEF NothingLost, SizedFits, AnnouncedFits, Idle
  <1>3. WriteSent' /\ FileSent'
    BY DEF WriteSent, FileSent, Idle
  <1> QED
    BY <1>1, <1>2, <1>3

\* More has arrived.
LEMMA SeqGrows ==
    ASSUME NEW m \in Nat, NEW n \in Nat, m <= n, NEW s \in Seq(1..m)
    PROVE  s \in Seq(1..n)
  <1>1. 1..m \subseteq 1..n
    OBVIOUS
  <1> QED
    BY <1>1, SeqMonotonic

\* What the peer and other processes do.
LEMMA OthersStep ==
    ASSUME TransferInv, Others
    PROVE  TransferInv'
  <1>1. TypeOK
    BY DEF TransferInv
  <1>2. UNCHANGED <<buffer, sock, call, out, taken>>
    BY DEF Others, arrive, peer_close, steal, drain, fill
  <1>3. eof' \in BOOLEAN
    BY <1>1 DEF Others, arrive, peer_close, steal, drain, fill, TypeOK
  <1>4. kind' = kind /\ filled' \in 0..MaxFill /\ room' \in 0..Room
    <2>1. filled \in 0..MaxFill /\ room \in 0..Room /\ MaxFill \in Nat /\ Room \in Nat
      BY <1>1, Constants DEF TypeOK
    <2> QED
      BY <2>1 DEF Others, arrive, peer_close, steal, drain, fill
  <1>5. /\ arrived' \in 0..MaxIn /\ inq' \in Seq(1..arrived')
        /\ buf \in Seq(1..arrived') /\ taken \in Seq(1..arrived')
    <2>1. CASE arrive
      <3>1. arrived' = arrived + 1 /\ arrived < MaxIn /\ inq' = Append(inq, arrived + 1)
        BY <2>1 DEF arrive
      <3>2. arrived \in Nat /\ MaxIn \in Nat
        BY <1>1, KernelTypes, Constants
      <3>3. /\ arrived' \in 0..MaxIn /\ arrived <= arrived'
            /\ arrived + 1 \in 1..arrived' /\ arrived' \in Nat
        BY <3>1, <3>2
      <3>4. /\ inq \in Seq(1..arrived') /\ buf \in Seq(1..arrived')
            /\ taken \in Seq(1..arrived')
        BY <1>1, <3>2, <3>3, KernelTypes, BufferTypes, SeqGrows
      <3> QED
        BY <3>1, <3>3, <3>4, AppendProperties
    <2>2. CASE steal
      BY <1>1, <2>2, HeadTailProperties DEF steal, TypeOK
    <2>3. CASE peer_close \/ drain \/ fill
      BY <1>1, <2>3 DEF peer_close, drain, fill, TypeOK
    <2> QED
      BY <2>1, <2>2, <2>3 DEF Others
  <1>6. TypeOK'
    BY <1>1, <1>2, <1>3, <1>4, <1>5 DEF TypeOK, buffer
  <1> QED
    BY <1>2, <1>6, OthersKeep DEF TransferInv
-----------------------------------------------------------------------------
\* The invariant holds before the first call.
LEMMA TransferInit == Init => TransferInv
  <1> SUFFICES ASSUME Init PROVE TransferInv
    OBVIOUS
  <1>1. /\ kind \in {"stream", "listener"} /\ inq = <<>> /\ arrived = 0
        /\ room = Room /\ filled = 0 /\ buf = <<>> /\ cap = 0 /\ pos = 0
        /\ sock = "none" /\ out = <<>> /\ taken = <<>>
    BY DEF Init
  <1>2. /\ call.fn = "socket" /\ call.st = "none" /\ call.hand = <<>>
    BY DEF Init, NoCall
  <1>3. TypeOK
    <2>1. eof \in BOOLEAN
      BY DEF Init
    <2>2. call \in Call
      <3>1. call = NoCall
        BY DEF Init
      <3>2. <<>> \in Seq(1..MaxIn) /\ 0 \in 0..(MaxSz + MaxFails + MaxIn)
        BY Constants, EmptySeq
      <3> QED
        BY <3>1, <3>2 DEF NoCall, Call, Calls, Sockets
    <2>3. inq \in Seq(1..arrived) /\ buf \in Seq(1..arrived) /\ taken \in Seq(1..arrived)
      BY <1>1, EmptySeq
    <2>4. out \in Seq(Nat)
      BY <1>1, EmptySeq
    <2> QED
      BY <1>1, <2>1, <2>2, <2>3, <2>4, Constants DEF TypeOK
  <1>4. NothingLost
    BY <1>1, <1>2, EmptySeq DEF NothingLost, Idle
  <1> QED
    BY <1>1, <1>2, <1>3, <1>4
       DEF TransferInv, Empty, SizedFits, AnnouncedFits, SysTransfers, WriteSent, FileSent,
           SockOwned, SocketReady, Idle, Sockets, Writes, Singles

\* A call that fails with empty hands leaves everything in order, whatever becomes
\* of pos, if a socket call has closed its descriptor.
LEMMA FailsKeeps ==
    ASSUME TransferInv, Fails, ~ Idle, call.hand = <<>>,
           UNCHANGED <<kernel, buf, out, taken>>,
           cap' \in Nat, cap <= cap' \/ Len(buf) <= cap', pos' \in Nat,
           sock' = IF call.fn \in Sockets THEN "none" ELSE sock
    PROVE  TransferInv'
  <1>1. TypeOK
    BY DEF TransferInv
  <1>2. /\ call' \in Call /\ call'.fn = call.fn /\ call'.st = "error"
        /\ call'.hand = <<>> /\ call'.sz = call.sz
        /\ Idle'
    BY <1>1, CallTypes DEF Fails, Call, Idle
  <1>3. /\ kind' = kind /\ inq' = inq /\ arrived' = arrived /\ eof' = eof /\ room' = room
        /\ filled' = filled
    BY DEF kernel
  <1>4. TypeOK'
    BY <1>1, <1>2, <1>3 DEF TypeOK
  <1>5. NothingLost'
    <2>1. taken = buf /\ Len(taken) <= cap
      BY <1>1, BufferTypes, ConcatEmptySeq DEF TransferInv, NothingLost
    <2>2. taken' = buf' /\ Len(taken') <= cap'
      BY <1>1, <2>1, BufferTypes
    <2>3. buf' \o <<>> = buf'
      BY <1>4, ConcatEmptySeq DEF TypeOK
    <2> QED
      BY <1>2, <2>2, <2>3 DEF NothingLost
  <1>6. FileSent'
    BY <1>2 DEF TransferInv, FileSent
  <1>7. SockOwned' /\ SocketReady'
    BY <1>2 DEF TransferInv, SockOwned, SocketReady
  <1>8. /\ Empty' /\ SizedFits' /\ AnnouncedFits' /\ SysTransfers' /\ WriteSent'
    BY <1>2 DEF Empty, SizedFits, AnnouncedFits, SysTransfers, WriteSent
  <1> QED
    BY <1>4, <1>5, <1>6, <1>7, <1>8 DEF TransferInv

\* Between two calls the thread has no more business with the kernel.
LEMMA IdleLost ==
    ASSUME TransferInv, Idle
    PROVE  taken = buf /\ Len(buf) <= cap /\ sock \notin {"blocking", "connecting"}
  <1>1. TypeOK
    BY DEF TransferInv
  <1> QED
    BY <1>1, BufferTypes, ConcatEmptySeq DEF TransferInv, NothingLost, SockOwned

\* What the caller does between two calls with what the last one gave it.
LEMMA ForgetStep ==
    ASSUME TransferInv, advance \/ bytestream_rewind \/ close
    PROVE  TransferInv'
  <1>1. TypeOK
    BY DEF TransferInv
  <1>2. Idle /\ Forget /\ UNCHANGED <<kernel, cap>>
    BY DEF advance, bytestream_rewind, close, kernel, buffer
  <1>3. /\ call' = NoCall /\ out' = <<>> /\ cap' = cap
        /\ call'.fn = "socket" /\ call'.st = "none" /\ call'.hand = <<>>
    BY <1>2 DEF Forget, NoCall
  <1>4. /\ kind' = kind /\ inq' = inq /\ arrived' = arrived /\ eof' = eof /\ room' = room
        /\ filled' = filled
    BY <1>2 DEF kernel
  <1>5. /\ taken' = buf' /\ Len(buf') <= cap' /\ buf' \in Seq(1..arrived)
        /\ pos' \in Nat /\ sock' \in {sock, "none"}
    <2>1. taken = buf /\ Len(buf) <= cap /\ buf \in Seq(1..arrived) /\ pos \in Nat /\ cap \in Nat
      BY <1>1, <1>2, IdleLost, BufferTypes
    <2>2. CASE advance \/ close
      BY <1>3, <2>1, <2>2 DEF advance, close, buffer
    <2>3. CASE bytestream_rewind
      BY <1>3, <2>1, <2>3, EmptySeq DEF bytestream_rewind
    <2> QED
      BY <2>2, <2>3
  <1>6. TypeOK'
    <2>1. call' \in Call
      <3>1. <<>> \in Seq(1..MaxIn) /\ 0 \in 0..(MaxSz + MaxFails + MaxIn)
        BY Constants, EmptySeq
      <3> QED
        BY <1>3, <3>1 DEF NoCall, Call, Calls, Sockets
    <2>2. out' \in Seq(Nat)
      BY <1>3, EmptySeq
    <2> QED
      BY <1>1, <1>3, <1>4, <1>5, <2>1, <2>2 DEF TypeOK
  <1>7. NothingLost'
    BY <1>3, <1>5, <1>4, ConcatEmptySeq DEF NothingLost, Idle
  <1>8. SockOwned'
    BY <1>2, <1>5, IdleLost DEF SockOwned
  <1> QED
    BY <1>3, <1>6, <1>7, <1>8
       DEF TransferInv, Empty, SizedFits, AnnouncedFits, SysTransfers, WriteSent, FileSent,
           SocketReady, Idle, Sockets, Writes, Singles
-----------------------------------------------------------------------------
\* What the calls have to see to before they start.
LEMMA BeginKeeps ==
    ASSUME TransferInv,
           NEW fn \in Calls, NEW st \in {"wait", "sys"}, NEW sz \in 0..MaxSz, NEW rem \in Nat,
           NEW stream \in BOOLEAN, Begin(fn, st, sz, rem, stream),
           UNCHANGED <<kernel, buf, pos, sock, taken>>,
           cap' \in Nat, cap <= cap',
           fn \in {"read_all", "accept_all"} => st = "wait",
           fn \in {"read_allb", "read_allb_et", "write_all", "write_all_et", "sendfile"}
             => sz > 0 /\ rem = sz,
           fn \in {"read_allb", "read_allb_et"} => Len(buf) + sz <= cap',
           fn \in Writes => pos + sz <= Len(buf)
    PROVE  TransferInv'
  <1>1. TypeOK
    BY DEF TransferInv
  <1>2. /\ Idle /\ out' = <<>>
        /\ call' = [fn |-> fn, st |-> st, sz |-> sz, navail |-> sz, rem |-> rem,
                    hand |-> <<>>, stream |-> stream, again |-> FALSE]
    BY DEF Begin
  <1>3. /\ call'.fn = fn /\ call'.st = st /\ call'.sz = sz /\ call'.navail = sz
        /\ call'.rem = rem /\ call'.hand = <<>> /\ ~ Idle'
    BY <1>2 DEF Idle
  <1>4. taken = buf /\ Len(buf) <= cap /\ sock \notin {"blocking", "connecting"}
    BY <1>2, IdleLost
  <1>5. TypeOK'
    <2>1. call' \in Call
      <3>1. <<>> \in Seq(1..MaxIn) /\ sz \in 0..(MaxSz + MaxFails + MaxIn)
        BY Constants, EmptySeq
      <3>2. sz \in Int /\ rem \in Int
        OBVIOUS
      <3> QED
        BY <1>2, <3>1, <3>2 DEF Call
    <2>2. out' \in Seq(Nat)
      BY <1>2, EmptySeq
    <2> QED
      BY <1>1, <2>1, <2>2 DEF TypeOK, kernel
  <1>6. NothingLost'
    <2>1. buf \o <<>> = buf
      BY <1>1, BufferTypes, ConcatEmptySeq
    <2>2. Len(taken') <= cap'
      BY <1>1, <1>4, BufferTypes
    <2> QED
      BY <1>3, <1>4, <2>1, <2>2 DEF NothingLost
  <1>7. SizedFits' /\ AnnouncedFits' /\ SysTransfers'
    BY <1>3 DEF SizedFits, AnnouncedFits, SysTransfers, Singles, Writes
  <1>8. WriteSent'
    <2>1. ASSUME fn \in Writes
          PROVE  /\ 0 < rem /\ rem <= sz /\ pos + sz <= Len(buf)
                 /\ <<>> = SubSeq(buf, pos + 1, pos + sz - rem)
      <3>1. sz > 0 /\ rem = sz /\ pos \in Nat
        BY <1>1, <2>1, BufferTypes DEF Writes
      <3>2. pos + sz - rem < pos + 1 /\ pos + 1 \in Int /\ pos + sz - rem \in Int
        BY <3>1
      <3> QED
        BY <2>1, <3>1, <3>2, SubSeqEmpty
    <2> QED
      BY <1>2, <1>3, <2>1 DEF WriteSent
  <1>9. FileSent'
    <2>1. Len(out') = 0
      BY <1>2, EmptySeq
    <2> QED
      BY <1>3, <2>1, Constants DEF FileSent
  <1>10. SockOwned' /\ SocketReady' /\ Empty'
    BY <1>3, <1>4 DEF SockOwned, SocketReady, Empty
  <1> QED
    BY <1>5, <1>6, <1>7, <1>8, <1>9, <1>10 DEF TransferInv

\* A call begins: nothing is in hand, nothing is sent yet.
LEMMA BeginCallStep ==
    ASSUME TransferInv, BeginCall
    PROVE  TransferInv'
  <1>1. TypeOK /\ cap \in Nat /\ Len(buf) \in Nat
    BY BufferTypes DEF TransferInv
  <1>2. ASSUME NEW fn \in {"read_all"} \cup Accepts, begin_read_all(fn) PROVE TransferInv'
    <2>1. /\ Begin(fn, "wait", 0, 0, FALSE) /\ UNCHANGED <<kernel, buf, cap, pos, sock, taken>>
      BY <1>2 DEF begin_read_all, buffer
    <2>2. fn \in Calls /\ fn \in {"read_all", "accept_all", "accept_all2"}
      BY DEF Calls, Reads, Singles, Accepts
    <2>3. FALSE \in BOOLEAN /\ 0 \in 0..MaxSz /\ 0 \in Nat
      BY Constants
    <2>4. cap' \in Nat /\ cap <= cap'
      BY <1>1, <2>1
    <2> QED
      BY <2>1, <2>2, <2>3, <2>4, BeginKeeps DEF Writes
  <1>3. ASSUME NEW sz \in 1..MaxSz, NEW fn \in {"read_allb", "read_allb_et"},
               mnthr_bytestream_read_more(fn, sz)
        PROVE  TransferInv'
    <2>1. /\ cap' = Grown(sz) /\ UNCHANGED <<kernel, buf, pos, sock, taken>>
          /\ Begin(fn, IF fn = "read_allb" THEN "wait" ELSE "sys", sz, sz, TRUE)
      BY <1>3 DEF mnthr_bytestream_read_more
    <2>2. Grown(sz) \in Nat /\ cap <= Grown(sz) /\ Len(buf) + sz <= Grown(sz)
      <3> DEFINE need == Len(buf) + sz - cap
      <3>1. need \in Int /\ GrowSz \in Int /\ sz \in Nat
        BY <1>1, Constants
      <3>2. Max({need, GrowSz}) = IF need >= GrowSz THEN need ELSE GrowSz
        BY <3>1, MaxOfTwo
      <3>3. Grown(sz) = IF need > 0 THEN cap + Max({need, GrowSz}) ELSE cap
        BY DEF Grown
      <3> QED
        BY <1>1, <3>1, <3>2, <3>3, Constants
    <2>3. fn \in Calls /\ sz \in 0..MaxSz /\ sz > 0 /\ sz \in Nat
      BY Constants DEF Calls, Reads, Singles
    <2> QED
      BY <2>1, <2>2, <2>3, BeginKeeps DEF Writes
  <1>4. ASSUME NEW sz \in 1..MaxSz, NEW fn \in Writes, NEW b \in BOOLEAN, begin_write(fn, sz, b)
        PROVE  TransferInv'
    <2>1. /\ pos + sz <= Len(buf) /\ UNCHANGED <<kernel, buf, cap, pos, sock, taken>>
          /\ Begin(fn, IF fn = "write_all" THEN "wait" ELSE "sys", sz, sz, b)
      BY <1>4 DEF begin_write, buffer
    <2>2. fn \in Calls /\ sz \in 0..MaxSz /\ sz > 0 /\ sz \in Nat
      BY Constants DEF Calls
    <2> QED
      BY <1>1, <2>1, <2>2, BeginKeeps DEF Writes
  <1>5. ASSUME NEW sz \in 1..MaxSz, begin_sendfile(sz) PROVE TransferInv'
    <2>1. /\ Begin("sendfile", "wait", sz, sz, FALSE)
          /\ UNCHANGED <<kernel, buf, cap, pos, sock, taken>>
      BY <1>5 DEF begin_sendfile, buffer
    <2>2. "sendfile" \in Calls /\ sz \in 0..MaxSz /\ sz > 0 /\ sz \in Nat
      BY Constants DEF Calls
    <2>3. FALSE \in BOOLEAN /\ cap' \in Nat /\ cap <= cap'
      BY <1>1, <2>1
    <2> QED
      BY <2>1, <2>2, <2>3, BeginKeeps DEF Writes
  <1>6. ASSUME NEW fn \in Sockets, begin_socket(fn) PROVE TransferInv'
    <2>1. /\ Begin(fn, "sys", 0, Addrs, FALSE)
          /\ UNCHANGED <<kernel, buf, cap, pos, sock, taken>>
      BY <1>6 DEF begin_socket, buffer
    <2>2. fn \in Calls /\ fn \in {"socket", "socket_bind", "socket_connect"}
      BY DEF Calls, Sockets
    <2>3. FALSE \in BOOLEAN /\ 0 \in 0..MaxSz /\ Addrs \in Nat
      BY Constants
    <2>4. cap' \in Nat /\ cap <= cap'
      BY <1>1, <2>1
    <2> QED
      BY <2>1, <2>2, <2>3, <2>4, BeginKeeps DEF Writes
  <1> QED
    BY <1>2, <1>3, <1>4, <1>5, <1>6 DEF BeginCall
-----------------------------------------------------------------------------
\* A step of a socket call that goes on or succeeds.
LEMMA SocketKeeps ==
    ASSUME TransferInv, ~ Idle, call.fn \in Sockets,
           UNCHANGED <<kernel, buffer, out, taken>>,
           call' \in Call, call'.fn = call.fn, call'.hand = call.hand,
           sock' \in {"none", "blocking", "nonblocking", "connecting", "connected"},
           call'.st \in {"wait", "ready", "sys", "ok"},
           call'.st = "ok" =>
             sock' = IF call.fn = "socket_connect" THEN "connected" ELSE "nonblocking"
    PROVE  TransferInv'
  <1>1. TypeOK
    BY DEF TransferInv
  <1>2. TypeOK'
    BY <1>1 DEF TypeOK, kernel, buffer
  <1>3. call.fn \notin Accepts /\ call.hand = <<>>
    BY DEF TransferInv, Empty, Sockets, Accepts
  <1>4. NothingLost'
    BY <1>3 DEF TransferInv, NothingLost, buffer
  <1>5. /\ call.fn \notin {"read_all", "read_allb", "read_allb_et", "accept_all", "sendfile"}
        /\ call.fn \notin Singles \cup Writes
    BY DEF Sockets, Singles, Writes
  <1>6. SocketReady' /\ SockOwned'
    BY DEF SocketReady, SockOwned, Idle
  <1> QED
    BY <1>2, <1>3, <1>4, <1>5, <1>6
       DEF TransferInv, Empty, SizedFits, AnnouncedFits, SysTransfers, WriteSent, FileSent

\* The steps of mnthr_socket_bind and mnthr_socket_connect: a descriptor is made, used
\* for one address after the other, and closed on each failure.
LEMMA SocketStep ==
    ASSUME TransferInv, socket \/ socket_fcntl \/ bind \/ connect \/ connect_wait
    PROVE  TransferInv'
  <1>1. TypeOK
    BY DEF TransferInv
  <1>2. /\ ~ Idle /\ call.fn \in Sockets /\ UNCHANGED <<kernel, buffer, out, taken>>
    BY DEF socket, socket_fcntl, bind, connect, connect_wait, Idle, Sockets, TransferInv, SockOwned
  <1>3. CASE Fails /\ sock' = "none"
    <2>1. call.hand = <<>> /\ cap \in Nat /\ pos \in Nat /\ cap <= cap
      BY <1>1, <1>2, BufferTypes DEF TransferInv, Empty, Sockets, Accepts
    <2> QED
      BY <1>2, <1>3, <2>1, FailsKeeps DEF buffer
  <1>4. CASE ~ (Fails /\ sock' = "none")
    <2>1. /\ call.fn \in {"socket", "socket_bind", "socket_connect"}
          /\ sock \in {"none", "blocking", "nonblocking", "connecting", "connected"}
      BY <1>1, <1>2 DEF TypeOK, Sockets
    <2>2. ASSUME call' = [call EXCEPT !.rem = @ - 1] \/ call' = call,
                 call.st = "sys"
          PROVE  call' \in Call /\ call'.fn = call.fn /\ call'.hand = call.hand /\ call'.st = "sys"
      <3>1. call.rem - 1 \in Int
        BY <1>1, CallTypes
      <3> QED
        BY <1>1, <2>2, <3>1, CallTypes DEF Call
    <2>3. ASSUME NEW st \in {"ok", "wait"}, call' = [call EXCEPT !.st = st]
          PROVE  call' \in Call /\ call'.fn = call.fn /\ call'.hand = call.hand /\ call'.st = st
      BY <1>1, <2>3, CallTypes DEF Call
    <2>4. CASE socket
      <3>1. call.st = "sys"
        BY <2>4 DEF socket
      <3>2. call' = [call EXCEPT !.rem = @ - 1] \/ call' = call
        BY <1>4, <2>4 DEF socket
      <3>3. sock' \in {"none", "blocking"}
        BY <1>4, <2>4 DEF socket
      <3> QED
        BY <1>2, <2>2, <3>1, <3>2, <3>3, SocketKeeps
    <2>5. CASE socket_fcntl
      <3>1. sock' = "nonblocking" /\ call.st = "sys"
        BY <1>4, <2>5 DEF socket_fcntl, socket_failed
      <3>2. \/ call.fn = "socket" /\ call' = [call EXCEPT !.st = "ok"]
            \/ call' = call
        BY <1>4, <2>5 DEF socket_fcntl, socket_failed, Succeeds
      <3> QED
        BY <1>2, <2>2, <2>3, <3>1, <3>2, SocketKeeps
    <2>6. CASE bind
      <3>1. sock' = "nonblocking" /\ call' = [call EXCEPT !.st = "ok"] /\ call.fn = "socket_bind"
        BY <1>4, <2>6 DEF bind, socket_failed, Succeeds
      <3> QED
        BY <1>2, <2>3, <3>1, SocketKeeps
    <2>7. CASE connect
      <3>1. /\ call.fn = "socket_connect"
            /\ \/ sock' = "connected" /\ call' = [call EXCEPT !.st = "ok"]
               \/ sock' = "connecting" /\ call' = [call EXCEPT !.st = "wait"]
        BY <1>4, <2>7 DEF connect, socket_failed, Succeeds
      <3> QED
        BY <1>2, <2>3, <3>1, SocketKeeps
    <2>8. CASE connect_wait
      <3>1. /\ call.fn = "socket_connect"
            /\ sock' = "connected" /\ call' = [call EXCEPT !.st = "ok"]
        BY <1>4, <2>8 DEF connect_wait, socket_failed, Succeeds
      <3> QED
        BY <1>2, <2>3, <3>1, SocketKeeps
    <2> QED
      BY <2>4, <2>5, <2>6, <2>7, <2>8
  <1> QED
    BY <1>3, <1>4
-----------------------------------------------------------------------------
\* A wait inside of a call begins or ends, and the call goes on with what it has.
LEMMA GoesOn ==
    ASSUME TransferInv, ~ Idle, call.hand = <<>>,
           NEW st \in {"wait", "ready", "sys"}, NEW m \in Int,
           call' = [call EXCEPT !.st = st, !.navail = m],
           UNCHANGED <<kernel, buf, pos, sock, out, taken>>,
           cap' \in Nat, Len(buf) <= cap',
           call.fn \in {"read_allb", "read_allb_et"} => cap <= cap',
           st = "sys" /\ call.fn \in {"read_all", "accept_all"} => m >= 0 /\ Len(buf) + m <= cap',
           st = "sys" /\ call.fn \in Singles \cup Writes => m > 0
    PROVE  TransferInv'
  <1>1. TypeOK
    BY DEF TransferInv
  <1>2. /\ call' \in Call /\ call'.fn = call.fn /\ call'.st = st /\ call'.sz = call.sz
        /\ call'.navail = m /\ call'.rem = call.rem /\ call'.hand = <<>>
        /\ call'.again = call.again /\ ~ Idle'
    BY <1>1, CallTypes DEF Call, Idle
  <1>3. TypeOK'
    BY <1>1, <1>2 DEF TypeOK, kernel
  <1>4. NothingLost'
    <2>1. taken = buf \o <<>>
      BY DEF TransferInv, NothingLost
    <2>2. taken = buf
      BY <1>1, <2>1, BufferTypes, ConcatEmptySeq
    <2>3. Len(taken') <= cap'
      BY <2>2
    <2> QED
      BY <1>2, <2>1, <2>3 DEF NothingLost
  <1>5. SizedFits'
    BY <1>1, <1>2, BufferTypes, CallTypes DEF TransferInv, SizedFits
  <1>6. AnnouncedFits'
    <2>1. Len(<<>>) = 0
      BY EmptySeq
    <2> QED
      BY <1>2, <2>1 DEF AnnouncedFits
  <1>7. WriteSent'
    BY <1>2 DEF TransferInv, WriteSent
  <1>8. FileSent'
    BY <1>2 DEF TransferInv, FileSent
  <1> QED
    BY <1>2, <1>3, <1>4, <1>5, <1>6, <1>7, <1>8
       DEF TransferInv, Empty, SysTransfers, SockOwned, SocketReady

\* A wait begins, announces something, or fails.
LEMMA WaitStep ==
    ASSUME TransferInv, wait_event \/ wait_returns \/ wait_fails
    PROVE  TransferInv'
  <1>1. TypeOK
    BY DEF TransferInv
  <1>2. /\ cap \in Nat /\ pos \in Nat /\ Len(buf) \in Nat /\ Len(inq) \in Nat /\ room \in Nat
        /\ call.navail \in Int /\ MaxSz \in Nat /\ WBUFLEN \in Int
    BY <1>1, BufferTypes, KernelTypes, CallTypes, Constants DEF WBUFLEN
  <1>3. ~ Idle /\ call.hand = <<>>
    BY DEF wait_event, wait_returns, wait_fails, Idle, TransferInv, Empty
  <1>4. Len(buf) <= cap
    <2>1. taken = buf \o <<>> /\ Len(taken) <= cap
      BY <1>3 DEF TransferInv, NothingLost
    <2> QED
      BY <1>1, <2>1, BufferTypes, ConcatEmptySeq
  <1>5. CASE wait_event
    <2>1. /\ UNCHANGED <<kernel, buf, cap, pos, sock, out, taken>>
      BY <1>5 DEF wait_event, buffer
    <2>2. \E m \in Int : call' = [call EXCEPT !.st = "ready", !.navail = m]
      <3>1. CASE call' = [call EXCEPT !.st = "ready", !.navail = Len(inq)]
        <4>1. Len(inq) \in Int
          BY <1>2
        <4> QED
          BY <3>1, <4>1, Zenon
      <3>2. CASE call' = [call EXCEPT !.st = "ready", !.navail = room]
        <4>1. room \in Int
          BY <1>2
        <4> QED
          BY <3>2, <4>1, Zenon
      <3>3. CASE call' = [call EXCEPT !.st = "ready"]
        <4>1. call' = [call EXCEPT !.st = "ready", !.navail = call.navail]
          BY <1>1, <3>3, CallTypes DEF Call
        <4> QED
          BY <1>2, <4>1
      <3> QED
        BY <1>5, <3>1, <3>2, <3>3 DEF wait_event
    <2>3. PICK m \in Int : call' = [call EXCEPT !.st = "ready", !.navail = m]
      BY <2>2
    <2>4. cap' \in Nat /\ Len(buf) <= cap' /\ cap <= cap'
      BY <1>2, <1>4, <2>1
    <2> QED
      BY <1>3, <2>1, <2>3, <2>4, GoesOn
  <1>6. CASE wait_returns
    <2>1. /\ UNCHANGED <<kernel, buf, pos, sock, out, taken>> /\ call.fn \notin Sockets
      BY <1>6 DEF wait_returns
    <2>2. PICK n \in Announced :
             IF Refused(n) THEN Fails /\ UNCHANGED cap
             ELSE /\ call' = [call EXCEPT !.st = "sys", !.navail = n]
                  /\ cap' = IF call.fn \in {"read_all", "accept_all"}
                            THEN Len(buf) + n ELSE cap
      BY <1>6 DEF wait_returns
    <2>3. n \in Int
      BY <1>2 DEF Announced
    <2>4. CASE Refused(n)
      BY <1>2, <1>3, <2>1, <2>2, <2>4, FailsKeeps
    <2>5. CASE ~ Refused(n)
      <3>1. call.fn \notin {"accept_all2", "read_allb_et"} => n > 0
        BY <2>3, <2>5 DEF Refused
      <3>2. /\ call' = [call EXCEPT !.st = "sys", !.navail = n]
            /\ cap' = IF call.fn \in {"read_all", "accept_all"} THEN Len(buf) + n ELSE cap
        BY <2>2, <2>5
      <3>3. /\ call.fn \in {"read_all", "accept_all"} => n > 0
            /\ call.fn \in Singles \cup Writes => n > 0
        BY <3>1 DEF Singles, Writes
      <3>4. cap' \in Nat /\ Len(buf) <= cap'
        BY <1>2, <1>4, <2>3, <3>2, <3>3
      <3>5. call.fn \in {"read_allb", "read_allb_et"} => cap <= cap'
        BY <1>2, <3>2
      <3>6. call.fn \in {"read_all", "accept_all"} => n >= 0 /\ Len(buf) + n <= cap'
        BY <1>2, <2>3, <3>2, <3>3
      <3> QED
        BY <1>3, <2>1, <2>3, <3>2, <3>3, <3>4, <3>5, <3>6, GoesOn
    <2> QED
      BY <2>4, <2>5
  <1>7. CASE wait_fails
    <2>1. /\ UNCHANGED <<kernel, buf, cap, sock, out, taken>> /\ call.fn \notin Sockets
          /\ Fails /\ pos' = FailedPos
      BY <1>7 DEF wait_fails
    <2>2. FailedPos \in Nat
      BY <1>2 DEF FailedPos
    <2> QED
      BY <1>2, <1>3, <2>1, <2>2, FailsKeeps
  <1> QED
    BY <1>5, <1>6, <1>7

\* A read or write that fails ends its call.
LEMMA ErrorStep ==
    ASSUME TransferInv, read_error \/ write_error
    PROVE  TransferInv'
  <1>1. TypeOK
    BY DEF TransferInv
  <1>2. /\ cap \in Nat /\ pos \in Nat /\ Len(buf) \in Nat /\ MaxSz \in Nat
    BY <1>1, BufferTypes, Constants
  <1>3. /\ ~ Idle /\ call.fn \notin Accepts /\ call.fn \notin Sockets /\ Fails
        /\ UNCHANGED <<kernel, buf, cap, sock, out, taken>>
        /\ pos' \in {pos, FailedPos}
    BY DEF read_error, write_error, Idle, Reads, Writes, Singles, Accepts, Sockets, buffer
  <1>4. pos' \in Nat
    BY <1>2, <1>3 DEF FailedPos
  <1>5. call.hand = <<>>
    BY <1>3 DEF TransferInv, Empty
  <1> QED
    BY <1>2, <1>3, <1>4, <1>5, FailsKeeps
-----------------------------------------------------------------------------
\* What the kernel hands out.
LEMMA TakeTypes ==
    ASSUME TypeOK, NEW n \in Int, 0 <= n, n <= Len(inq), Take(n)
    PROVE  /\ inq' \in Seq(1..arrived) /\ taken' \in Seq(1..arrived)
           /\ taken' = taken \o SubSeq(inq, 1, n)
           /\ SubSeq(inq, 1, n) \in Seq(1..arrived) /\ Len(SubSeq(inq, 1, n)) = n
           /\ Len(taken') = Len(taken) + n
           /\ n = 0 => SubSeq(inq, 1, n) = <<>> /\ inq' = inq /\ taken' = taken
           /\ UNCHANGED <<kind, arrived, eof, room, filled>>
  <1>1. /\ inq \in Seq(1..arrived) /\ Len(inq) \in Nat
        /\ taken \in Seq(1..arrived) /\ Len(taken) \in Nat
    BY KernelTypes, BufferTypes
  <1>2. /\ inq' = SubSeq(inq, n + 1, Len(inq)) /\ taken' = taken \o SubSeq(inq, 1, n)
        /\ UNCHANGED <<kind, arrived, eof, room, filled>>
    BY DEF Take
  <1>3. \A i \in 1..Len(inq) : inq[i] \in 1..arrived
    BY <1>1, ElementOfSeq
  <1>4. SubSeq(inq, 1, n) \in Seq(1..arrived) /\ Len(SubSeq(inq, 1, n)) = n
    <2>1. 1 \in Int /\ \A i \in 1..n : inq[i] \in 1..arrived
      BY <1>1, <1>3
    <2>2. /\ SubSeq(inq, 1, n) \in Seq(1..arrived)
          /\ Len(SubSeq(inq, 1, n)) = IF 1 <= n THEN n - 1 + 1 ELSE 0
      BY <2>1, SubSeqProperties
    <2> QED
      BY <2>2
  <1>5. inq' \in Seq(1..arrived)
    <2>1. n + 1 \in Int /\ Len(inq) \in Int /\ \A i \in (n + 1)..Len(inq) : inq[i] \in 1..arrived
      BY <1>1, <1>3
    <2> QED
      BY <1>2, <2>1, SubSeqProperties
  <1>6. taken' \in Seq(1..arrived) /\ Len(taken') = Len(taken) + n
    BY <1>1, <1>2, <1>4, ConcatProperties
  <1>7. ASSUME n = 0
        PROVE  SubSeq(inq, 1, n) = <<>> /\ inq' = inq /\ taken' = taken
    <2>1. SubSeq(inq, 1, 0) = <<>>
      BY SubSeqEmpty
    <2>2. SubSeq(inq, 1, Len(inq)) = inq
      BY <1>1, SubSeqFull
    <2>3. n + 1 = 1
      BY <1>7
    <2> QED
      BY <1>1, <1>2, <1>7, <2>1, <2>2, <2>3, ConcatEmptySeq
  <1> QED
    BY <1>2, <1>4, <1>5, <1>6, <1>7

\* A read or accept call succeeds when all it took is below the offset.
LEMMA ReadEnds ==
    ASSUME TransferInv, ~ Idle, call.fn \in Reads, Succeeds,
           inq' \in Seq(1..arrived), UNCHANGED <<kind, arrived, eof, room, filled, pos, sock, out>>,
           taken' = buf', buf' \in Seq(1..arrived), cap' \in Nat, Len(buf') <= cap'
    PROVE  TransferInv'
  <1>1. TypeOK
    BY DEF TransferInv
  <1>2. call' \in Call /\ call'.fn = call.fn /\ call'.st = "ok" /\ call'.hand = call.hand /\ Idle'
    BY <1>1, CallTypes DEF Succeeds, Call, Idle
  <1>3. TypeOK'
    BY <1>1, <1>2 DEF TypeOK
  <1>4. NothingLost'
    <2>1. buf' \o <<>> = buf'
      BY ConcatEmptySeq
    <2> QED
      BY <1>2, <2>1 DEF NothingLost
  <1>5. call.fn \notin Writes /\ call.fn \notin Sockets /\ call.fn # "sendfile"
    BY DEF Reads, Singles, Accepts, Writes, Sockets
  <1>6. Empty'
    BY <1>2 DEF TransferInv, Empty
  <1> QED
    BY <1>2, <1>3, <1>4, <1>5, <1>6
       DEF TransferInv, SizedFits, AnnouncedFits, SysTransfers, WriteSent, FileSent, SockOwned,
           SocketReady

\* The one read(2) of mnthr_read_all and mnthr_read_allb takes at most what was announced,
\* which is at most the room in the buffer.
LEMMA ReadSingleStep ==
    ASSUME TransferInv, read_single
    PROVE  TransferInv'
  <1> DEFINE n == Min({Len(inq), call.navail} \cup IF call.fn = "read_all" THEN {} ELSE {call.sz})
  <1>1. TypeOK
    BY DEF TransferInv
  <1>2. /\ inq \in Seq(1..arrived) /\ Len(inq) \in Nat /\ buf \in Seq(1..arrived)
        /\ Len(buf) \in Nat /\ cap \in Nat /\ pos \in Nat /\ call.navail \in Int /\ call.sz \in Nat
    BY <1>1, KernelTypes, BufferTypes, CallTypes
  <1>3. /\ call.st = "sys" /\ call.fn \in Singles /\ Take(n)
        /\ IF n = 0 THEN Fails /\ UNCHANGED buf
           ELSE Succeeds /\ buf' = buf \o SubSeq(inq, 1, n)
        /\ UNCHANGED <<cap, pos, sock, out>>
    BY DEF read_single
  <1>4. /\ ~ Idle /\ call.fn \in {"read_all", "read_allb"} /\ call.fn \in Reads
        /\ call.fn \notin Sockets
    BY <1>3 DEF Idle, Singles, Reads, Sockets
  <1>5. call.navail > 0 /\ call.hand = <<>>
    BY <1>3, <1>4 DEF TransferInv, SysTransfers, Empty, Accepts
  <1>6. taken = buf
    <2>1. taken = buf \o <<>>
      BY <1>4, <1>5 DEF TransferInv, NothingLost
    <2> QED
      BY <1>2, <2>1, ConcatEmptySeq
  \* The read asks for no more than there is room for.
  <1>7. /\ n \in Int /\ 0 <= n /\ n <= Len(inq) /\ Len(buf) + n <= cap
    <2>1. CASE call.fn = "read_all"
      <3>1. n = Min({Len(inq), call.navail})
        BY <2>1
      <3>2. n = IF Len(inq) <= call.navail THEN Len(inq) ELSE call.navail
        BY <1>2, <3>1, MinOfTwo
      <3>3. Len(buf) + call.navail <= cap
        BY <1>3, <2>1 DEF TransferInv, AnnouncedFits
      <3> QED
        BY <1>2, <1>5, <3>2, <3>3
    <2>2. CASE call.fn = "read_allb"
      <3>1. n = Min({Len(inq), call.navail, call.sz})
        <4>1. {Len(inq), call.navail} \cup {call.sz} = {Len(inq), call.navail, call.sz}
          OBVIOUS
        <4> QED
          BY <2>2, <4>1
      <3> HIDE DEF n
      <3>2. /\ n \in {Len(inq), call.navail, call.sz}
            /\ n <= Len(inq) /\ n <= call.navail /\ n <= call.sz
        <4>1. Len(inq) \in Int /\ call.navail \in Int /\ call.sz \in Int
          BY <1>2
        <4> QED
          BY <3>1, <4>1, MinOfThree
      <3>3. Len(buf) + call.sz <= cap
        BY <1>4, <2>2 DEF TransferInv, SizedFits
      <3> QED
        BY <1>2, <1>5, <3>2, <3>3
    <2> QED
      BY <1>4, <2>1, <2>2
  <1> HIDE DEF n
  <1>8. /\ inq' \in Seq(1..arrived) /\ taken' = taken \o SubSeq(inq, 1, n)
        /\ SubSeq(inq, 1, n) \in Seq(1..arrived) /\ Len(SubSeq(inq, 1, n)) = n
        /\ n = 0 => inq' = inq /\ taken' = taken
        /\ UNCHANGED <<kind, arrived, eof, room, filled>>
    BY <1>1, <1>3, <1>7, TakeTypes
  <1>9. CASE n = 0
    <2>1. UNCHANGED <<kernel, buf, out, taken>> /\ Fails /\ sock' = sock
      BY <1>3, <1>8, <1>9 DEF kernel
    <2>2. cap' \in Nat /\ cap <= cap' /\ pos' \in Nat
      BY <1>2, <1>3
    <2> QED
      BY <1>4, <1>5, <2>1, <2>2, FailsKeeps
  <1>10. CASE n # 0
    <2>1. Succeeds /\ buf' = buf \o SubSeq(inq, 1, n)
      BY <1>3, <1>10
    <2>2. buf' \in Seq(1..arrived) /\ Len(buf') = Len(buf) + n
      BY <1>2, <1>8, <2>1, ConcatProperties
    <2>3. taken' = buf'
      BY <1>6, <1>8, <2>1
    <2>4. cap' \in Nat /\ Len(buf') <= cap'
      BY <1>2, <1>3, <1>7, <2>2
    <2> QED
      BY <1>3, <1>4, <1>8, <2>1, <2>2, <2>3, <2>4, ReadEnds
  <1> QED
    BY <1>9, <1>10

\* A read(2) of mnthr_read_allb_et.
LEMMA ReadEtStep ==
    ASSUME TransferInv, read_et
    PROVE  TransferInv'
  <1> DEFINE n == Min({Len(inq), call.rem})
             hand == call.hand \o SubSeq(inq, 1, n)
  <1>1. TypeOK
    BY DEF TransferInv
  <1>2. /\ inq \in Seq(1..arrived) /\ Len(inq) \in Nat /\ buf \in Seq(1..arrived)
        /\ Len(buf) \in Nat /\ cap \in Nat /\ pos \in Nat /\ call.navail \in Int
        /\ call.rem \in Int /\ call.sz \in Nat
    BY <1>1, KernelTypes, BufferTypes, CallTypes
  <1>3. /\ call.st = "sys" /\ call.fn = "read_allb_et" /\ Take(n)
        /\ IF read_et_over(n) THEN Succeeds /\ buf' = buf \o hand
           ELSE /\ call' = [call EXCEPT !.st = IF n = 0 THEN "wait" ELSE "sys",
                                        !.rem = @ - n, !.hand = hand]
                /\ UNCHANGED buf
        /\ UNCHANGED <<cap, pos, sock, out>>
    BY DEF read_et
  <1>4. ~ Idle /\ call.fn \in Reads /\ call.hand = <<>>
    BY <1>3 DEF Idle, Reads, TransferInv, Empty, Accepts
  <1>5. call.sz > 0 /\ call.rem = call.sz /\ Len(buf) + call.sz <= cap
    BY <1>3, <1>4 DEF TransferInv, SizedFits
  <1>6. taken = buf
    <2>1. taken = buf \o <<>>
      BY <1>4 DEF TransferInv, NothingLost
    <2> QED
      BY <1>2, <2>1, ConcatEmptySeq
  <1>7. n \in Int /\ 0 <= n /\ n <= Len(inq) /\ n <= call.sz
    <2>1. n = IF Len(inq) <= call.rem THEN Len(inq) ELSE call.rem
      BY <1>2, MinOfTwo
    <2> QED
      BY <1>2, <1>5, <2>1
  <1> HIDE DEF n
  <1>8. /\ inq' \in Seq(1..arrived) /\ taken' = taken \o SubSeq(inq, 1, n)
        /\ SubSeq(inq, 1, n) \in Seq(1..arrived) /\ Len(SubSeq(inq, 1, n)) = n
        /\ n = 0 => inq' = inq /\ taken' = taken
        /\ UNCHANGED <<kind, arrived, eof, room, filled>>
    BY <1>1, <1>3, <1>7, TakeTypes
  <1>9. hand = SubSeq(inq, 1, n)
    BY <1>4, <1>8, ConcatEmptySeq
  <1>10. CASE read_et_over(n)
    <2>1. Succeeds /\ buf' = buf \o SubSeq(inq, 1, n)
      BY <1>3, <1>9, <1>10
    <2>2. buf' \in Seq(1..arrived) /\ Len(buf') = Len(buf) + n
      BY <1>2, <1>8, <2>1, ConcatProperties
    <2>3. taken' = buf'
      BY <1>6, <1>8, <2>1
    <2>4. cap' \in Nat /\ Len(buf') <= cap'
      BY <1>2, <1>3, <1>5, <1>7, <2>2
    <2> QED
      BY <1>3, <1>4, <1>8, <2>1, <2>2, <2>3, <2>4, ReadEnds
  \* Nothing was there: the loop waits, as empty-handed as before.
  <1>11. CASE ~ read_et_over(n)
    <2>1. n = 0
      BY <1>7, <1>11 DEF read_et_over
    <2>2. hand = <<>>
      <3>1. SubSeq(inq, 1, 0) = <<>>
        BY SubSeqEmpty
      <3> QED
        BY <1>9, <2>1, <3>1
    <2>3. call' = [call EXCEPT !.st = "wait", !.navail = call.navail]
      <3>1. call' = [call EXCEPT !.st = "wait", !.rem = call.rem - 0, !.hand = <<>>]
        BY <1>3, <1>11, <2>1, <2>2
      <3>2. call.rem - 0 = call.rem
        BY <1>2
      <3> QED
        BY <1>1, <1>4, <3>1, <3>2, CallTypes DEF Call
    <2>4. UNCHANGED <<kernel, buf, pos, sock, out, taken>> /\ cap' = cap
      BY <1>3, <1>8, <1>11, <2>1 DEF kernel
    <2>5. cap' \in Nat /\ Len(buf) <= cap' /\ cap <= cap'
      BY <1>2, <1>5, <2>4
    <2> QED
      BY <1>2, <1>3, <1>4, <2>3, <2>4, <2>5, GoesOn
  <1> QED
    BY <1>10, <1>11
-----------------------------------------------------------------------------
\* One more connection: it is in the hands of the call, and there is room for it.
LEMMA AcceptOne ==
    ASSUME TransferInv, call.st = "sys", call.fn \in Accepts,
           cap' \in Nat, call.fn = "accept_all" => cap' = cap,
           call.fn = "accept_all2" => Len(buf) + Len(call.hand) + 1 <= cap',
           inq # <<>>, call.fn = "accept_all" => Len(call.hand) < call.navail,
           Take(1), call' = [call EXCEPT !.hand = Append(@, Head(inq))],
           UNCHANGED <<buf, pos, sock, out>>
    PROVE  TransferInv'
  <1>1. TypeOK
    BY DEF TransferInv
  <1>2. /\ arrived \in Nat /\ arrived <= MaxIn /\ MaxIn \in Nat
        /\ inq \in Seq(1..arrived) /\ Len(inq) \in Nat /\ buf \in Seq(1..arrived)
        /\ Len(buf) \in Nat /\ cap \in Nat /\ call.navail \in Int
        /\ call.hand \in Seq(1..MaxIn) /\ Len(call.hand) \in Nat
    BY <1>1, KernelTypes, BufferTypes, CallTypes, Constants
  <1>3. Len(inq) >= 1
    BY <1>2, EmptySeq
  <1>4. /\ inq' \in Seq(1..arrived) /\ taken' \in Seq(1..arrived)
        /\ taken' = taken \o SubSeq(inq, 1, 1)
        /\ UNCHANGED <<kind, arrived, eof, room, filled>>
    <2>1. 1 \in Int /\ 0 <= 1 /\ 1 <= Len(inq)
      BY <1>2, <1>3
    <2> QED
      BY <1>1, <2>1, TakeTypes
  <1>5. Head(inq) \in 1..MaxIn /\ SubSeq(inq, 1, 1) = <<Head(inq)>>
    <2>1. Head(inq) = inq[1] /\ inq[1] \in 1..arrived
      BY <1>2, <1>3, ElementOfSeq
    <2>2. 1 \in 1..Len(inq) /\ 1 \in 1..Len(inq)
      BY <1>2, <1>3
    <2>3. SubSeq(inq, 1, 1) = <<inq[1]>> \o SubSeq(inq, 1 + 1, 1)
      BY <1>2, <2>2, SubSeqRecursiveFirst
    <2>4. SubSeq(inq, 1 + 1, 1) = <<>>
      BY SubSeqEmpty
    <2>5. <<inq[1]>> \in Seq(1..arrived)
      BY <2>1
    <2>6. <<inq[1]>> \o <<>> = <<inq[1]>>
      BY <2>5, ConcatEmptySeq
    <2>7. inq[1] \in 1..MaxIn
      BY <1>2, <2>1
    <2> QED
      BY <2>1, <2>3, <2>4, <2>6, <2>7
  <1>6. /\ Append(call.hand, Head(inq)) \in Seq(1..MaxIn)
        /\ Append(call.hand, Head(inq)) # <<>>
        /\ Len(Append(call.hand, Head(inq))) = Len(call.hand) + 1
        /\ Append(call.hand, Head(inq)) = call.hand \o <<Head(inq)>>
    <2>1. call.hand \in Seq(1..MaxIn) /\ Head(inq) \in 1..MaxIn
      BY <1>2, <1>5
    <2>2. Append(call.hand, Head(inq)) = call.hand \o <<Head(inq)>>
      BY <2>1, AppendIsConcat
    <2> QED
      BY <2>1, <2>2, AppendProperties
  <1>7. /\ call' \in Call /\ call'.fn = call.fn /\ call'.st = "sys" /\ call'.sz = call.sz
        /\ call'.navail = call.navail /\ call'.hand = Append(call.hand, Head(inq))
        /\ ~ Idle' /\ ~ Idle
    BY <1>1, <1>6, CallTypes DEF Call, Idle
  <1>8. TypeOK'
    BY <1>1, <1>4, <1>7 DEF TypeOK
  <1>9. buf \in Seq(1..MaxIn) /\ <<Head(inq)>> \in Seq(1..MaxIn)
    BY <1>2, <1>5, SeqGrows
  <1>10. taken = buf \o call.hand /\ Len(taken) <= cap
    BY <1>7 DEF TransferInv, NothingLost
  <1>11. taken' = buf \o call'.hand
    <2>1. taken' = (buf \o call.hand) \o <<Head(inq)>>
      BY <1>4, <1>5, <1>10
    <2>2. (buf \o call.hand) \o <<Head(inq)>> = buf \o (call.hand \o <<Head(inq)>>)
      <3>1. \A s, t, u \in Seq(1..MaxIn) : (s \o t) \o u = s \o (t \o u)
        BY ConcatAssociative
      <3>2. /\ buf \in Seq(1..MaxIn) /\ call.hand \in Seq(1..MaxIn)
            /\ <<Head(inq)>> \in Seq(1..MaxIn)
        BY <1>2, <1>9
      <3> QED
        BY <3>1, <3>2
    <2> QED
      BY <1>6, <1>7, <2>1, <2>2
  <1>12. Len(taken') = Len(buf) + Len(call.hand) + 1
    BY <1>2, <1>6, <1>7, <1>9, <1>11, ConcatProperties
  <1>13. call.fn = "accept_all" => Len(buf) + call.navail <= cap
    BY DEF TransferInv, AnnouncedFits
  <1>14. Len(taken') <= cap'
    BY <1>2, <1>12, <1>13 DEF Accepts
  <1>15. NothingLost'
    BY <1>7, <1>11, <1>14 DEF NothingLost
  <1>16. AnnouncedFits'
    BY <1>2, <1>6, <1>7, <1>13 DEF AnnouncedFits, Accepts
  <1>17. /\ call.fn \notin Writes /\ call.fn \notin Sockets /\ call.fn \notin Singles
         /\ call.fn \notin {"sendfile", "read_allb", "read_allb_et"}
    BY DEF Accepts, Writes, Sockets, Singles
  <1> QED
    BY <1>7, <1>8, <1>15, <1>16, <1>17
       DEF TransferInv, Empty, SizedFits, SysTransfers, WriteSent, FileSent, SockOwned, SocketReady

\* An accept(2) of mnthr_accept_all or mnthr_accept_all2.
LEMMA AcceptStep ==
    ASSUME TransferInv, accept
    PROVE  TransferInv'
  <1>1. TypeOK
    BY DEF TransferInv
  <1>2. /\ Len(buf) \in Nat /\ cap \in Nat /\ pos \in Nat /\ Len(call.hand) \in Nat
        /\ inq \in Seq(1..arrived) /\ taken \in Seq(1..arrived)
    BY <1>1, KernelTypes, BufferTypes, CallTypes
  <1>3. /\ call.st = "sys" /\ call.fn \in Accepts /\ UNCHANGED <<pos, sock, out>>
        /\ cap' = IF call.fn = "accept_all2" THEN Len(buf) + Len(call.hand) + 1 ELSE cap
    BY DEF accept
  <1>4. /\ cap' \in Nat
        /\ call.fn = "accept_all" => cap' = cap
        /\ call.fn = "accept_all2" => Len(buf) + Len(call.hand) + 1 <= cap'
    BY <1>2, <1>3
  <1>5. ~ Idle /\ call.fn \in Reads /\ call.fn \notin Sockets
    BY <1>3 DEF Idle, Reads, Accepts, Sockets
  <1>6. CASE accept_over /\ UNCHANGED <<kernel, taken>>
    <2>1. CASE call.hand = <<>>
      <3>1. cap <= cap' \/ Len(buf) <= cap'
        BY <1>2, <1>3
      <3> QED
        BY <1>2, <1>3, <1>4, <1>5, <1>6, <2>1, <3>1, FailsKeeps DEF accept_over
    <2>2. CASE call.hand # <<>>
      <3>1. Succeeds /\ buf' = buf \o call.hand
        BY <1>6, <2>2 DEF accept_over
      <3>2. taken = buf \o call.hand /\ Len(taken) <= cap
        BY <1>5 DEF TransferInv, NothingLost
      <3>3. Len(buf') <= cap' /\ buf' \in Seq(1..arrived) /\ taken' = buf'
        <4>1. Len(taken) = Len(buf) + Len(call.hand)
          <5>1. buf \in Seq(1..MaxIn) /\ call.hand \in Seq(1..MaxIn)
            BY <1>1, BufferTypes, KernelTypes, CallTypes, Constants, SeqGrows
          <5> QED
            BY <3>2, <5>1, ConcatProperties
        <4> QED
          BY <1>2, <1>3, <1>4, <1>6, <3>1, <3>2, <4>1
      <3> QED
        BY <1>2, <1>3, <1>4, <1>5, <1>6, <3>1, <3>3, ReadEnds DEF kernel
    <2> QED
      BY <2>1, <2>2
  <1>7. CASE ~ (accept_over /\ UNCHANGED <<kernel, taken>>)
    <2>1. /\ inq # <<>>
          /\ call.fn = "accept_all" => Len(call.hand) < call.navail
          /\ Take(1)
          /\ call' = [call EXCEPT !.hand = Append(@, Head(inq))]
          /\ UNCHANGED buf
      BY <1>7 DEF accept
    <2> QED
      BY <1>3, <1>4, <2>1, AcceptOne
  <1> QED
    BY <1>6, <1>7
-----------------------------------------------------------------------------
\* A write(2) or send(2) sends the next bytes of those that remain.
LEMMA WriteStep ==
    ASSUME TransferInv, write
    PROVE  TransferInv'
  <1> DEFINE n == Min({room, call.navail, call.rem})
             from == pos + call.sz - call.rem
  <1>1. TypeOK
    BY DEF TransferInv
  <1>2. /\ room \in Nat /\ room <= Room /\ Room \in Nat /\ MaxSz \in Nat
        /\ buf \in Seq(1..arrived) /\ Len(buf) \in Nat /\ cap \in Nat /\ pos \in Nat
        /\ arrived \in Nat /\ call.navail \in Int /\ call.rem \in Int /\ call.sz \in Nat
        /\ out \in Seq(Nat)
    BY <1>1, KernelTypes, BufferTypes, CallTypes, Constants
  <1>3. /\ call.st = "sys" /\ call.fn \in Writes
        /\ room' = room - n
        /\ out' = out \o SubSeq(buf, from + 1, from + n)
        /\ CASE n = 0 /\ call.fn = "write_all" -> Fails
             [] n = 0 /\ call.fn = "write_all_et" -> call' = [call EXCEPT !.st = "wait"]
             [] n > 0 /\ Remaining(n) = 0 -> Succeeds
             [] n > 0 /\ Remaining(n) > 0 ->
                  call' = [call EXCEPT !.rem = Remaining(n),
                                       !.st = IF call.fn = "write_all" THEN "wait" ELSE "sys"]
        /\ pos' = IF n = 0 /\ call.fn = "write_all" THEN FailedPos ELSE pos
        /\ UNCHANGED <<kind, inq, arrived, eof, filled, buf, cap, sock, taken>>
    BY DEF write
  <1>4. /\ ~ Idle /\ call.fn \in {"write_all", "write_all_et"} /\ call.fn \notin Sockets
        /\ call.fn \notin Accepts /\ call.fn \notin Singles /\ call.fn # "sendfile"
        /\ call.fn \notin {"read_allb", "read_allb_et", "read_all", "accept_all"}
    BY <1>3 DEF Idle, Writes, Sockets, Accepts, Singles
  <1>5. /\ call.navail > 0 /\ call.hand = <<>>
        /\ 0 < call.rem /\ call.rem <= call.sz /\ pos + call.sz <= Len(buf)
        /\ out = SubSeq(buf, pos + 1, from)
    BY <1>3, <1>4 DEF TransferInv, SysTransfers, Empty, WriteSent
  <1>6. Len(buf) <= cap /\ taken = buf \o <<>>
    <2>1. taken = buf \o <<>> /\ Len(taken) <= cap
      BY <1>4, <1>5 DEF TransferInv, NothingLost
    <2> QED
      BY <1>2, <2>1, ConcatEmptySeq
  <1>7. n \in Int /\ 0 <= n /\ n <= room /\ n <= call.rem
    <2>1. room \in Int /\ call.navail \in Int /\ call.rem \in Int
      BY <1>2
    <2>2. n \in {room, call.navail, call.rem} /\ n <= room /\ n <= call.rem
      BY <2>1, MinOfThree
    <2>3. room \in Nat /\ call.navail > 0 /\ 0 < call.rem
      BY <1>2, <1>5
    <2> HIDE DEF n
    <2> QED
      BY <2>1, <2>2, <2>3
  <1> HIDE DEF n
  \* The numbers alone.
  <1>8. /\ room \in Nat /\ room <= Room /\ Room \in Nat /\ Len(buf) \in Nat /\ pos \in Nat
         /\ call.rem \in Int /\ call.sz \in Nat /\ n \in Int
         /\ 0 <= n /\ n <= room /\ n <= call.rem /\ room' = room - n
         /\ 0 < call.rem /\ call.rem <= call.sz /\ pos + call.sz <= Len(buf)
    BY <1>2, <1>3, <1>5, <1>7
  \* What was sent grows by the next n bytes.
  <1>9. out' = SubSeq(buf, pos + 1, from + n) /\ out' \in Seq(Nat)
    <2>1. /\ pos + 1 \in 1..Len(buf) + 1 /\ from \in (pos + 1) - 1..Len(buf)
          /\ from + n \in from..Len(buf)
      BY <1>8
    <2> HIDE DEF from
    <2>2. SubSeq(buf, pos + 1, from) \o SubSeq(buf, from + 1, from + n)
            = SubSeq(buf, pos + 1, from + n)
      BY <1>2, <2>1, ConcatAdjacentSubSeq
    <2>3. out' = SubSeq(buf, pos + 1, from + n)
      BY <1>3, <1>5, <2>2 DEF from
    <2>4. pos + 1 \in Int /\ from + n \in Int /\ \A i \in (pos + 1)..(from + n) : buf[i] \in Nat
      <3>1. \A i \in 1..Len(buf) : buf[i] \in 1..arrived
        BY <1>2, ElementOfSeq
      <3>2. Len(buf) \in Nat /\ arrived \in Nat /\ pos \in Nat /\ from \in Int /\ n \in Int
        BY <1>2, <1>8 DEF from
      <3>3. \A i \in (pos + 1)..(from + n) : i \in 1..Len(buf)
        BY <2>1, <3>2
      <3>4. \A i \in (pos + 1)..(from + n) : buf[i] \in Nat
        BY <3>1, <3>2, <3>3
      <3> QED
        BY <3>2, <3>4
    <2> QED
      BY <2>3, <2>4, SubSeqProperties
  <1>10. CASE n = 0
    <2>1. room' = room /\ from + n = from
      BY <1>2, <1>3, <1>10
    <2>2. out' = out
      BY <1>5, <1>9, <2>1
    <2>3. UNCHANGED <<kernel, buf, cap, sock, out, taken>>
      BY <1>3, <2>1, <2>2 DEF kernel
    <2>4. CASE call.fn = "write_all"
      <3>1. Fails /\ pos' = FailedPos
        BY <1>3, <1>10, <2>4
      <3>2. cap' \in Nat /\ cap <= cap' /\ pos' \in Nat
        BY <1>2, <2>3, <3>1 DEF FailedPos
      <3> QED
        BY <1>4, <1>5, <2>3, <3>1, <3>2, FailsKeeps
    <2>5. CASE call.fn = "write_all_et"
      <3>1. call' = [call EXCEPT !.st = "wait"] /\ pos' = pos
        BY <1>3, <1>10, <2>5
      <3>2. call' = [call EXCEPT !.st = "wait", !.navail = call.navail]
        BY <1>1, <3>1, CallTypes DEF Call
      <3>3. cap' \in Nat /\ Len(buf) <= cap' /\ cap <= cap'
        BY <1>2, <1>6, <2>3
      <3> QED
        BY <1>2, <1>4, <1>5, <2>3, <3>1, <3>2, <3>3, GoesOn
    <2> QED
      BY <1>4, <2>4, <2>5
  <1>11. CASE n > 0
    <2>1. pos' = pos /\ Remaining(n) = call.rem - n /\ call.rem - n \in Int /\ 0 <= call.rem - n
      BY <1>2, <1>3, <1>7, <1>11 DEF Remaining
    <2>2. /\ call' \in Call /\ call'.fn = call.fn /\ call'.sz = call.sz /\ call'.hand = <<>>
          /\ call'.navail = call.navail
          /\ \/ call'.st = "ok" /\ call.rem - n = 0
             \/ /\ call'.st \in {"wait", "sys"} /\ call.rem - n > 0 /\ call'.rem = call.rem - n
      <3>1. CASE call.rem - n = 0
        <4>1. call' = [call EXCEPT !.st = "ok"]
          <5>1. n > 0 /\ Remaining(n) = 0 /\ n # 0 /\ ~ (Remaining(n) > 0)
            BY <1>7, <1>11, <2>1, <3>1
          <5> QED
            BY <1>3, <5>1 DEF Succeeds
        <4> QED
          BY <1>1, <1>5, <3>1, <4>1, CallTypes DEF Call
      <3>2. CASE call.rem - n > 0
        <4>1. call' = [call EXCEPT !.rem = call.rem - n,
                                   !.st = IF call.fn = "write_all" THEN "wait" ELSE "sys"]
          <5>1. n > 0 /\ Remaining(n) > 0 /\ n # 0 /\ Remaining(n) # 0
            BY <1>7, <1>11, <2>1, <3>2
          <5>2. call' = [call EXCEPT !.rem = Remaining(n),
                                     !.st = IF call.fn = "write_all" THEN "wait" ELSE "sys"]
            BY <1>3, <5>1
          <5> QED
            BY <2>1, <5>2, Zenon
        <4> QED
          BY <1>1, <1>5, <2>1, <3>2, <4>1, CallTypes DEF Call
      <3> QED
        BY <2>1, <3>1, <3>2
    <2>3. TypeOK'
      <3>1. room' \in 0..Room
        BY <1>8
      <3> QED
        BY <1>1, <1>3, <1>9, <2>1, <2>2, <3>1 DEF TypeOK
    <2>4. WriteSent'
      <3>1. /\ call'.st = "ok" => from + n = pos + call.sz
            /\ call'.st # "ok" =>
                 /\ from + n = pos + call.sz - (call.rem - n)
                 /\ 0 < call.rem - n /\ call.rem - n <= call.sz
        <4>1. \/ call'.st = "ok" /\ call.rem - n = 0
              \/ call'.st \in {"wait", "sys"} /\ call.rem - n > 0
          BY <2>2
        <4>2. from + n = pos + call.sz - (call.rem - n) /\ call.rem - n <= call.sz
          BY <1>8
        <4>3. call.rem - n = 0 => from + n = pos + call.sz
          BY <1>8
        <4> QED
          BY <4>1, <4>2, <4>3
      <3> QED
        BY <1>3, <1>5, <1>9, <2>1, <2>2, <3>1 DEF WriteSent, Idle
    <2>5. NothingLost'
      <3>1. Len(taken) <= cap
        BY DEF TransferInv, NothingLost
      <3> QED
        BY <1>3, <1>6, <2>2, <3>1 DEF NothingLost
    <2>6. SysTransfers' /\ Empty'
      BY <1>5, <2>2 DEF SysTransfers, Empty
    <2> QED
      BY <1>3, <1>4, <2>2, <2>3, <2>4, <2>5, <2>6
         DEF TransferInv, SizedFits, AnnouncedFits, FileSent, SockOwned, SocketReady
  <1> QED
    BY <1>7, <1>10, <1>11
-----------------------------------------------------------------------------
\* The file's part of the invariant is all a step of mnthr_sendfile can disturb.
LEMMA FileKeeps ==
    ASSUME TransferInv, ~ Idle, call.fn = "sendfile",
           call' \in Call, call'.fn = "sendfile", call'.hand = call.hand,
           out' \in Seq(Nat), room' \in 0..Room, FileSent',
           UNCHANGED <<kind, inq, arrived, eof, filled, buffer, sock, taken>>
    PROVE  TransferInv'
  <1>1. TypeOK
    BY DEF TransferInv
  <1>2. TypeOK'
    BY <1>1 DEF TypeOK, buffer
  <1>3. call.hand = <<>>
    BY DEF TransferInv, Empty, Accepts
  <1>4. NothingLost'
    BY <1>3 DEF TransferInv, NothingLost, buffer
  <1>5. "sendfile" \notin Sockets \cup Accepts \cup Singles \cup Writes
    BY DEF Sockets, Accepts, Singles, Writes
  <1>6. SockOwned'
    BY <1>5 DEF TransferInv, SockOwned
  <1> QED
    BY <1>2, <1>3, <1>4, <1>5, <1>6
       DEF TransferInv, Empty, SizedFits, AnnouncedFits, SysTransfers, WriteSent, SocketReady

\* The next n bytes of the file follow those that were sent.
LEMMA FileAppends ==
    ASSUME NEW s \in Seq(Nat), NEW n \in Nat, \A i \in 1..Len(s) : s[i] = i
    PROVE  LET r == s \o [i \in 1..n |-> Len(s) + i]
           IN  r \in Seq(Nat) /\ Len(r) = Len(s) + n /\ \A i \in 1..Len(r) : r[i] = i
  <1> DEFINE t == [i \in 1..n |-> Len(s) + i]
  <1>1. Len(s) \in Nat
    BY LenProperties
  <1>2. t \in Seq(Nat) /\ Len(t) = n /\ \A i \in 1..n : t[i] = Len(s) + i
    BY <1>1
  <1> HIDE DEF t
  <1>3. /\ s \o t \in Seq(Nat) /\ Len(s \o t) = Len(s) + n
        /\ \A i \in 1..Len(s) + n : (s \o t)[i] = IF i <= Len(s) THEN s[i] ELSE t[i - Len(s)]
    BY <1>2, ConcatProperties
  <1>4. ASSUME NEW i \in 1..Len(s) + n PROVE (s \o t)[i] = i
    <2>1. CASE i <= Len(s)
      BY <1>1, <1>3, <2>1
    <2>2. CASE ~ (i <= Len(s))
      <3>1. i - Len(s) \in 1..n /\ Len(s) + (i - Len(s)) = i
        BY <1>1, <2>2
      <3> QED
        BY <1>2, <1>3, <2>2, <3>1
    <2> QED
      BY <2>1, <2>2
  <1> QED
    BY <1>3, <1>4 DEF t

\* A sendfile(2), taken or refused.
LEMMA SendfileStep ==
    ASSUME TransferInv, sendfile \/ sendfile_error
    PROVE  TransferInv'
  <1>1. TypeOK
    BY DEF TransferInv
  <1>2. /\ room \in Nat /\ room <= Room /\ Room \in Nat /\ call.rem \in Int /\ call.sz \in Nat
        /\ Len(out) \in Nat /\ FileLen \in Nat /\ MaxSz \in Nat /\ MaxSz > 0 /\ MaxFails \in Nat
    BY <1>1, KernelTypes, CallTypes, Constants
  <1>3. /\ ~ Idle /\ call.fn = "sendfile" /\ out \in Seq(Nat) /\ room \in 0..Room
        /\ UNCHANGED <<kind, inq, arrived, eof, filled, buffer, sock, taken>>
    BY <1>1 DEF sendfile, sendfile_error, Idle, kernel, TypeOK
  <1>4. /\ Len(out) <= FileLen /\ call.rem > 0
        /\ ~ call.again => call.rem = call.sz - Len(out)
        /\ \A i \in 1..Len(out) : out[i] = i
    BY <1>3 DEF TransferInv, FileSent
  \* After a refusal or an error the count is wrong, and is not relied on.
  <1>5. ASSUME NEW st \in {"sys", "spin"}, NEW r \in Int, r > 0,
               call' = [call EXCEPT !.st = st, !.rem = r, !.again = TRUE],
               UNCHANGED <<room, out>>
        PROVE  TransferInv'
    <2>1. /\ call' \in Call /\ call'.fn = "sendfile" /\ call'.hand = call.hand
          /\ call'.rem = r /\ call'.again = TRUE /\ call'.st # "ok"
      BY <1>1, <1>3, <1>5, CallTypes DEF Call
    <2>2. FileSent'
      BY <1>4, <1>5, <2>1 DEF FileSent
    <2> QED
      BY <1>3, <1>5, <2>1, <2>2, FileKeeps
  <1>6. CASE sendfile_error
    <2>1. /\ UNCHANGED <<room, out>>
          /\ call' = [call EXCEPT !.st = "spin", !.again = TRUE,
                                  !.rem = Min({Remaining(-1), MaxSz + MaxFails})]
      BY <1>6 DEF sendfile_error, kernel
    <2> DEFINE r == Min({Remaining(-1), MaxSz + MaxFails})
    <2>2. r \in Int /\ r > 0
      <3>1. Remaining(-1) \in Int /\ Remaining(-1) > 0
        BY <1>2, <1>4 DEF Remaining
      <3>2. r = IF Remaining(-1) <= MaxSz + MaxFails THEN Remaining(-1) ELSE MaxSz + MaxFails
        BY <1>2, <3>1, MinOfTwo
      <3> QED
        BY <1>2, <3>1, <3>2
    <2> HIDE DEF r
    <2>3. call' = [call EXCEPT !.st = "spin", !.rem = r, !.again = TRUE]
      BY <1>1, <2>1, CallTypes DEF Call, r
    <2> QED
      BY <1>5, <2>1, <2>2, <2>3
  <1>7. CASE sendfile /\ room = 0
    <2>1. /\ call.st = "sys" /\ UNCHANGED <<room, out>>
          /\ call' = [call EXCEPT !.rem = Remaining(-1), !.again = TRUE]
      BY <1>7 DEF sendfile
    <2>2. Remaining(-1) \in Int /\ Remaining(-1) > 0
      BY <1>2, <1>4 DEF Remaining
    <2>3. call' = [call EXCEPT !.st = "sys", !.rem = Remaining(-1), !.again = TRUE]
      BY <1>1, <2>1, CallTypes DEF Call
    <2> QED
      BY <1>5, <2>1, <2>2, <2>3
  <1>8. CASE sendfile /\ room > 0
    <2> DEFINE n == Min({room, call.rem, FileLen - Len(out)})
    <2>1. /\ call.st = "sys" /\ room' = room - n
          /\ out' = out \o [i \in 1..n |-> Len(out) + i]
          /\ IF sendfile_over(n) THEN Succeeds
             ELSE call' = [call EXCEPT !.rem = Remaining(n)]
      <3>1. room # 0
        BY <1>2, <1>8
      <3> QED
        BY <1>8, <3>1, Zenon DEF sendfile
    <2>2. /\ n \in Nat /\ n <= room /\ n <= call.rem /\ n <= FileLen - Len(out)
          /\ n = 0 => Len(out) = FileLen
      <3>1. room \in Int /\ call.rem \in Int /\ FileLen - Len(out) \in Int
        BY <1>2
      <3>2. /\ n \in {room, call.rem, FileLen - Len(out)}
            /\ n <= room /\ n <= call.rem /\ n <= FileLen - Len(out)
        BY <3>1, MinOfThree
      <3> HIDE DEF n
      <3> QED
        BY <1>2, <1>4, <1>8, <3>2
    <2> HIDE DEF n
    <2>3. out' \in Seq(Nat) /\ Len(out') = Len(out) + n /\ \A i \in 1..Len(out') : out'[i] = i
      BY <1>3, <1>4, <2>1, <2>2, FileAppends
    <2>4. room' \in 0..Room /\ Len(out') <= FileLen
      BY <1>2, <2>1, <2>2, <2>3
    <2>5. Remaining(n) = call.rem - n /\ call.rem - n \in Int /\ 0 <= call.rem - n
      BY <1>2, <2>2 DEF Remaining
    <2>6. CASE n = 0 \/ call.rem - n = 0
      <3>1. /\ call' \in Call /\ call'.fn = "sendfile" /\ call'.hand = call.hand
            /\ call'.st = "ok" /\ call'.sz = call.sz /\ call'.again = call.again
        <4>1. call' = [call EXCEPT !.st = "ok"]
          BY <2>1, <2>5, <2>6 DEF sendfile_over, Succeeds
        <4> QED
          BY <1>1, <1>3, <4>1, CallTypes DEF Call
      <3>2. ~ call.again => Len(out') = IF call.sz <= FileLen THEN call.sz ELSE FileLen
        <4>1. ASSUME ~ call.again PROVE call.rem = call.sz - Len(out)
          BY <1>4, <4>1
        <4>2. /\ Len(out') = Len(out) + n /\ n \in Nat
              /\ n <= call.rem /\ n <= FileLen - Len(out)
              /\ n = 0 => Len(out) = FileLen
          BY <2>2, <2>3
        <4>3. /\ Len(out) \in Nat /\ FileLen \in Nat /\ call.sz \in Nat /\ call.rem \in Int
              /\ call.rem > 0
          BY <1>2, <1>4
        <4> QED
          BY <2>6, <4>1, <4>2, <4>3
      <3>3. FileSent'
        BY <2>3, <2>4, <3>1, <3>2 DEF FileSent, Idle
      <3> QED
        BY <1>3, <2>3, <2>4, <3>1, <3>3, FileKeeps
    <2>7. CASE ~ (n = 0 \/ call.rem - n = 0)
      <3>1. /\ call' \in Call /\ call'.fn = "sendfile" /\ call'.hand = call.hand
            /\ call'.st = "sys" /\ call'.sz = call.sz /\ call'.again = call.again
            /\ call'.rem = call.rem - n
        <4>1. call' = [call EXCEPT !.rem = call.rem - n]
          BY <2>1, <2>5, <2>7 DEF sendfile_over
        <4> QED
          BY <1>1, <1>3, <2>1, <2>5, <4>1, CallTypes DEF Call
      <3>2. /\ call.rem - n > 0
            /\ ~ call.again => call.rem - n = call.sz - Len(out')
        BY <1>2, <1>4, <2>2, <2>3, <2>5, <2>7
      <3>3. FileSent'
        BY <2>3, <2>4, <3>1, <3>2 DEF FileSent
      <3> QED
        BY <1>3, <2>3, <2>4, <3>1, <3>3, FileKeeps
    <2> QED
      BY <2>6, <2>7
  <1> QED
    BY <1>2, <1>6, <1>7, <1>8
-----------------------------------------------------------------------------
\* Every step keeps the invariant.
LEMMA TransferStep == TransferInv /\ [Next]_vars => TransferInv'
  <1> SUFFICES ASSUME TransferInv, [Next]_vars PROVE TransferInv'
    OBVIOUS
  <1>1. CASE UNCHANGED vars
    <2>1. UNCHANGED <<buffer, sock, call, out, taken>>
      BY <1>1 DEF vars
    <2>2. TypeOK'
      BY <1>1 DEF TransferInv, TypeOK, vars, kernel, buffer
    <2> QED
      BY <2>1, <2>2, OthersKeep DEF TransferInv
  <1>2. CASE Step
    BY <1>2, WaitStep, ReadSingleStep, ReadEtStep, AcceptStep, WriteStep, SendfileStep, SocketStep
       DEF Step
  <1>3. CASE Errors
    BY <1>3, WaitStep, ErrorStep, SendfileStep DEF Errors
  <1>4. CASE BeginCall \/ Others \/ advance \/ bytestream_rewind \/ close
    BY <1>4, BeginCallStep, OthersStep, ForgetStep
  <1> QED
    BY <1>1, <1>2, <1>3, <1>4 DEF Next

\* Hence it is one.
LEMMA TransferInvariant == Spec => []TransferInv
  BY TransferInit, TransferStep, PTL DEF Spec

\* The state of the helpers is of its type.
THEOREM TransferTypes == Spec => []TypeOK
  <1>1. TransferInv => TypeOK
    BY DEF TransferInv
  <1> QED
    BY <1>1, TransferInvariant, PTL

\* No read or accept call loses what it took from the kernel or writes past the
\* end of its buffer, for any sizes and amounts, however others empty the
\* descriptor between the wait and the system call.
THEOREM TransferNothingLost == Spec => []NothingLost
  <1>1. TransferInv => NothingLost
    BY DEF TransferInv
  <1> QED
    BY <1>1, TransferInvariant, PTL

\* No call waits with bytes or connections in hand.
THEOREM TransferWaitsEmptyHanded == Spec => []WaitsEmptyHanded
  <1>1. TransferInv => WaitsEmptyHanded
    BY DEF TransferInv, Empty, WaitsEmptyHanded
  <1> QED
    BY <1>1, TransferInvariant, PTL

\* A write call that reports success has sent what it was asked to, once and in
\* order; mnthr_sendfile has if the kernel never refused for want of room.
THEOREM TransferSentExactly == Spec => []SentExactly
  <1>1. TransferInv => SentExactly
    <2> SUFFICES ASSUME TransferInv, call.st = "ok", call.fn \in Writes \cup {"sendfile"},
                        ~ call.again
                 PROVE  out = Asked
      BY DEF SentExactly
    <2>1. TypeOK
      BY DEF TransferInv
    <2>2. CASE call.fn \in Writes
      BY <2>2 DEF TransferInv, WriteSent, Asked, Writes
    <2>3. CASE call.fn = "sendfile"
      <3> DEFINE m == Min({call.sz, FileLen})
      <3>1. call.sz \in Int /\ FileLen \in Int /\ out \in Seq(Nat)
        BY <2>1, CallTypes, KernelTypes, Constants
      <3>2. m = IF call.sz <= FileLen THEN call.sz ELSE FileLen
        BY <3>1, MinOfTwo
      <3> HIDE DEF m
      <3>3. Len(out) = m /\ \A i \in 1..m : out[i] = i
        BY <2>3, <3>2 DEF TransferInv, FileSent
      <3>4. out = [i \in 1..m |-> out[i]]
        BY <3>1, <3>3, LenProperties
      <3>5. out = [i \in 1..m |-> i]
        BY <3>3, <3>4
      <3> QED
        BY <2>3, <3>5 DEF Asked, m
    <2> QED
      BY <2>2, <2>3
  <1> QED
    BY <1>1, TransferInvariant, PTL

\* A socket call returns the descriptor it promises, or -1 and leaves none open.
THEOREM TransferSocketReady == Spec => []SocketReady
  <1>1. TransferInv => SocketReady
    BY DEF TransferInv
  <1> QED
    BY <1>1, TransferInvariant, PTL
=============================================================================
