------------------------------ MODULE Transfer ------------------------------
(***************************************************************************)
(* The descriptor helpers: calls made of waits and non-blocking system     *)
(* calls that carry on from what the last one did.                         *)
(*                                                                         *)
(* One thread makes the calls, one at a time; every wait and every system  *)
(* call is a step of its own, so that the peer, and other processes that   *)
(* hold the same descriptors, act between any two of them: what a wait has *)
(* announced may be gone when the system call asks for it.                 *)
(*                                                                         *)
(* The descriptor read from is a stream of bytes or a listening socket,    *)
(* whose connections are taken one by one.  The buffer is the caller's     *)
(* (data and offset) or that of a bytestream (data, pos and eod).          *)
(* External: the kernel, the peer and the bytestream itself.               *)
(***************************************************************************)
EXTENDS Integers, Sequences, FiniteSetsExt

CONSTANTS
    MaxIn,      \* how many bytes or connections arrive
    MaxSz,      \* the largest size passed to a call
    Room,       \* what the kernel buffers for the descriptor written to
    MaxFill,    \* how often another process writes there
    FileLen,    \* the length of the file that is sent
    MaxFails,   \* bound on the failed calls of one mnthr_sendfile
    GrowSz,     \* growsz of the bytestream
    Addrs       \* how many addresses getaddrinfo returns

ASSUME TransferAssumption ==
    /\ {MaxIn, MaxFill, FileLen, MaxFails, Addrs} \subseteq Nat
    /\ {MaxSz, Room, GrowSz} \subseteq Nat \ {0}

VARIABLES
    kind,       \* the descriptor read from: "stream" or "listener"
    inq,        \* what the kernel has for it, in order of arrival ...
    arrived,    \* ... out of the items 1..arrived
    eof,        \* the peer has closed its end
    room,       \* free space for the descriptor written to
    filled,     \* writes of other processes so far
    buf,        \* the data up to the offset, or eod
    cap,        \* the size of the buffer
    pos,        \* pos of the bytestream
    sock,       \* the descriptor made by the socket calls
    call,       \* the call being made, or the last one
    out,        \* what the kernel took from the call
    taken       \* history: what the calls took from the kernel

kernel == <<kind, inq, arrived, eof, room, filled>>
buffer == <<buf, cap, pos>>
vars == <<kernel, buffer, sock, call, out, taken>>

Singles  == {"read_all", "read_allb"}           \* one wait, one read
Accepts  == {"accept_all", "accept_all2"}
Reads    == Singles \cup Accepts \cup {"read_allb_et"}
Writes   == {"write_all", "write_all_et"}
Sockets  == {"socket", "socket_bind", "socket_connect"}
Calls    == Reads \cup Writes \cup Sockets \cup {"sendfile"}

\* A call: the function, where it stands, the size it was given, navail, what is
\* left to do, what it holds past the offset, whether the bytestream adapter made
\* it, and whether a sendfile of it was refused.
Call == [fn : Calls, st : {"none", "wait", "ready", "sys", "spin", "ok", "error"},
         sz : 0..(MaxSz + MaxFails + MaxIn), navail : Int, rem : Int,
         hand : Seq(1..MaxIn), stream : BOOLEAN, again : BOOLEAN]

TypeOK ==
    /\ kind \in {"stream", "listener"} /\ eof \in BOOLEAN
    /\ inq \in Seq(1..arrived) /\ arrived \in 0..MaxIn
    /\ room \in 0..Room /\ filled \in 0..MaxFill
    /\ buf \in Seq(1..arrived) /\ cap \in Nat /\ pos \in Nat
    /\ sock \in {"none", "blocking", "nonblocking", "connecting", "connected"}
    /\ call \in Call
    /\ out \in Seq(Nat) /\ taken \in Seq(1..arrived)

Idle == call.st \in {"none", "ok", "error"}

NoCall == [fn |-> "socket", st |-> "none", sz |-> 0, navail |-> 0, rem |-> 0,
           hand |-> <<>>, stream |-> FALSE, again |-> FALSE]

Init ==
    /\ kind \in {"stream", "listener"}
    /\ inq = <<>> /\ arrived = 0 /\ eof = FALSE
    /\ room = Room /\ filled = 0
    /\ buf = <<>> /\ cap = 0 /\ pos = 0
    /\ sock = "none"
    /\ call = NoCall
    /\ out = <<>> /\ taken = <<>>
-----------------------------------------------------------------------------
(***************************************************************************)
(* The peer and the other processes.                                       *)
(***************************************************************************)
arrive ==
    /\ ~ eof /\ arrived < MaxIn
    /\ arrived' = arrived + 1
    /\ inq' = Append(inq, arrived + 1)
    /\ UNCHANGED <<kind, eof, room, filled, buffer, sock, call, out, taken>>

peer_close ==
    /\ kind = "stream" /\ ~ eof
    /\ eof' = TRUE
    /\ UNCHANGED <<kind, inq, arrived, room, filled, buffer, sock, call, out, taken>>

\* Another process reads from the same descriptor, or accepts.
steal ==
    /\ inq # <<>>
    /\ inq' = Tail(inq)
    /\ UNCHANGED <<kind, arrived, eof, room, filled, buffer, sock, call, out, taken>>

drain ==
    /\ room < Room
    /\ \E r \in (room + 1)..Room : room' = r
    /\ UNCHANGED <<kind, inq, arrived, eof, filled, buffer, sock, call, out, taken>>

\* Another process writes to the same descriptor.
fill ==
    /\ room > 0 /\ filled < MaxFill
    /\ room' = 0
    /\ filled' = filled + 1
    /\ UNCHANGED <<kind, inq, arrived, eof, buffer, sock, call, out, taken>>

\* The last call no longer matters.
Forget == call' = NoCall /\ out' = <<>>

\* The caller parses some of the bytestream, or starts over with it.
advance ==
    /\ Idle /\ pos < Len(buf)
    /\ pos' = pos + 1
    /\ Forget
    /\ UNCHANGED <<kernel, buf, cap, sock, taken>>

bytestream_rewind ==
    /\ Idle /\ buf # <<>>
    /\ buf' = <<>> /\ pos' = 0
    /\ taken' = <<>>
    /\ Forget
    /\ UNCHANGED <<kernel, cap, sock>>

\* The caller closes the descriptor a socket call gave it.
close ==
    /\ Idle /\ sock # "none"
    /\ sock' = "none"
    /\ Forget
    /\ UNCHANGED <<kernel, buffer, taken>>
-----------------------------------------------------------------------------
(***************************************************************************)
(* Starting a call.                                                        *)
(***************************************************************************)
Begin(fn, st, sz, rem, stream) ==
    /\ Idle
    /\ call' = [fn |-> fn, st |-> st, sz |-> sz, navail |-> sz, rem |-> rem,
                hand |-> <<>>, stream |-> stream, again |-> FALSE]
    /\ out' = <<>>

\* mnthr_read_all, and mnthr_accept_all and mnthr_accept_all2
begin_read_all(fn) ==
    /\ fn \in IF kind = "stream" THEN {"read_all"} ELSE Accepts
    /\ Begin(fn, "wait", 0, 0, FALSE)
    /\ UNCHANGED <<kernel, buffer, sock, taken>>

\* The size of the bytestream's buffer before sz more bytes are read.
Grown(sz) ==
    LET need == Len(buf) + sz - cap
    IN  IF need > 0 THEN cap + Max({need, GrowSz}) ELSE cap

\* MNTHR_BYTESTREAM_READ_MORE_BODY, on mnthr_read_allb (which mnthr_recv_allb and
\* mnthr_recvfrom_allb repeat) or on mnthr_read_allb_et.
mnthr_bytestream_read_more(fn, sz) ==
    /\ kind = "stream"
    /\ cap' = Grown(sz)
    /\ Begin(fn, IF fn = "read_allb" THEN "wait" ELSE "sys", sz, sz, TRUE)
    /\ UNCHANGED <<kernel, buf, pos, sock, taken>>

\* mnthr_write_all (mnthr_send_all, mnthr_sendto_all) or mnthr_write_all_et of sz
\* bytes from pos, called by the thread or by MNTHR_BYTESTREAM_WRITE_BODY.
begin_write(fn, sz, stream) ==
    /\ kind = "stream"
    /\ pos + sz <= Len(buf)
    /\ Begin(fn, IF fn = "write_all" THEN "wait" ELSE "sys", sz, sz, stream)
    /\ UNCHANGED <<kernel, buffer, sock, taken>>

begin_sendfile(sz) ==
    /\ Begin("sendfile", "wait", sz, sz, FALSE)
    /\ UNCHANGED <<kernel, buffer, sock, taken>>

begin_socket(fn) ==
    /\ sock = "none"
    /\ Begin(fn, "sys", 0, Addrs, FALSE)
    /\ UNCHANGED <<kernel, buffer, sock, taken>>
-----------------------------------------------------------------------------
(***************************************************************************)
(* The waits inside of the calls.                                          *)
(***************************************************************************)
Fails == call' = [call EXCEPT !.st = "error"]
Succeeds == call' = [call EXCEPT !.st = "ok"]

\* The descriptor is ready: the thread is resumed with what there is now.
wait_event ==
    /\ call.st = "wait"
    /\ \/ call.fn \in Reads /\ (inq # <<>> \/ eof)
          /\ call' = [call EXCEPT !.st = "ready", !.navail = Len(inq)]
       \/ call.fn \in Writes \cup {"sendfile"} /\ room > 0
          /\ call' = [call EXCEPT !.st = "ready", !.navail = room]
       \/ call.fn \in Sockets
          /\ call' = [call EXCEPT !.st = "ready"]
    /\ UNCHANGED <<kernel, buffer, sock, out, taken>>

\* MNTHR_DEFAULT_WBUFLEN, and the 1024*1024 of the libev poller: more than there
\* may be room for.
WBUFLEN == MaxSz + Room

\* mnthr_get_rbuflen and mnthr_get_wbuflen: the kqueue poller returns what the
\* event announced, the libev poller asks again (reading) or guesses (writing).
Announced ==
    IF call.fn \in Reads THEN {call.navail, Len(inq)} ELSE {call.navail, WBUFLEN}

\* What the caller of the wait takes for an error.
Refused(navail) == navail <= 0 /\ call.fn \notin {"accept_all2", "read_allb_et"}

\* The wait returns; mnthr_read_all and mnthr_accept_all make room for what it
\* announced.
wait_returns ==
    /\ call.st = "ready" /\ call.fn \notin Sockets
    /\ \E n \in Announced :
          IF Refused(n) THEN Fails /\ UNCHANGED cap
          ELSE /\ call' = [call EXCEPT !.st = "sys", !.navail = n]
               /\ cap' = IF call.fn \in {"read_all", "accept_all"}
                         THEN Len(buf) + n ELSE cap
    /\ UNCHANGED <<kernel, buf, pos, sock, out, taken>>

\* TRRET of a call the bytestream adapter made: the code is taken for a count.
FailedPos == IF call.fn \in Writes /\ call.stream THEN Len(buf) + MaxSz ELSE pos

\* The wait is interrupted or refused.
wait_fails ==
    /\ call.st \in {"wait", "ready"} /\ call.fn \notin Sockets
    /\ Fails
    /\ pos' = FailedPos
    /\ UNCHANGED <<kernel, buf, cap, sock, out, taken>>
-----------------------------------------------------------------------------
(***************************************************************************)
(* Reading and accepting.                                                  *)
(***************************************************************************)

\* The first n items leave the kernel for the buffer.
Take(n) ==
    /\ inq' = SubSeq(inq, n + 1, Len(inq))
    /\ taken' = taken \o SubSeq(inq, 1, n)
    /\ UNCHANGED <<kind, arrived, eof, room, filled>>

\* The one read of mnthr_read_all, mnthr_read_allb, mnthr_recv_allb and
\* mnthr_recvfrom_allb, which fail on EAGAIN and at the end of the stream.  The
\* descriptor is a stream: of a datagram, recvfrom would drop what is beyond sz.
read_single ==
    LET n == Min({Len(inq), call.navail} \cup IF call.fn = "read_all" THEN {} ELSE {call.sz})
    IN  /\ call.st = "sys" /\ call.fn \in Singles
        /\ Take(n)
        /\ IF n = 0 THEN Fails /\ UNCHANGED buf
           ELSE Succeeds /\ buf' = buf \o SubSeq(inq, 1, n)
        /\ UNCHANGED <<cap, pos, sock, out>>

\* Wrong: a short read does not end the loop.
read_et_over_More(n) == n = call.rem \/ (n = 0 /\ eof)

\* The loop of mnthr_read_allb_et ends with a read that was answered, be it short.
read_et_over(n) == n > 0 \/ eof

\* One turn of the loop of mnthr_read_allb_et.
read_et ==
    LET n == Min({Len(inq), call.rem})
        hand == call.hand \o SubSeq(inq, 1, n)
    IN  /\ call.st = "sys" /\ call.fn = "read_allb_et"
        /\ Take(n)
        /\ IF read_et_over(n) THEN Succeeds /\ buf' = buf \o hand
           ELSE /\ call' = [call EXCEPT !.st = IF n = 0 THEN "wait" ELSE "sys",
                                        !.rem = @ - n, !.hand = hand]
                /\ UNCHANGED buf
        /\ UNCHANGED <<cap, pos, sock, out>>

\* Any other error of a read.
read_error ==
    /\ call.st = "sys" /\ call.fn \in Reads \ Accepts
    /\ Fails
    /\ UNCHANGED <<kernel, buffer, sock, out, taken>>

\* Wrong: fewer connections than announced are an error.
accept_over_Fewer ==
    IF call.hand = <<>> \/ (call.fn = "accept_all" /\ Len(call.hand) < call.navail)
    THEN Fails /\ UNCHANGED buf
    ELSE Succeeds /\ buf' = buf \o call.hand

\* The loop of accept calls is over: they count if there was one.
accept_over ==
    IF call.hand = <<>> THEN Fails /\ UNCHANGED buf
    ELSE Succeeds /\ buf' = buf \o call.hand

\* One accept of mnthr_accept_all or mnthr_accept_all2: it fails (EAGAIN, or no
\* descriptor is left), or the loop has its number, or there is one more.  The
\* latter gives the buffer room for one more before each, which may make it smaller.
accept ==
    /\ call.st = "sys" /\ call.fn \in Accepts
    /\ cap' = IF call.fn = "accept_all2" THEN Len(buf) + Len(call.hand) + 1 ELSE cap
    /\ \/ accept_over /\ UNCHANGED <<kernel, taken>>
       \/ /\ inq # <<>>
          /\ call.fn = "accept_all" => Len(call.hand) < call.navail
          /\ Take(1)
          /\ call' = [call EXCEPT !.hand = Append(@, Head(inq))]
          /\ UNCHANGED buf
    /\ UNCHANGED <<pos, sock, out>>
-----------------------------------------------------------------------------
(***************************************************************************)
(* Writing.                                                                *)
(***************************************************************************)

\* Wrong: all of what was asked for is taken for written.
Remaining_Asked(n) == call.rem - Min({call.navail, call.rem})

\* remaining, after n bytes were written
Remaining(n) == call.rem - n

\* One write: EAGAIN when there is no room, and as much as fits otherwise.
write ==
    LET n == Min({room, call.navail, call.rem})
        from == pos + call.sz - call.rem
    IN  /\ call.st = "sys" /\ call.fn \in Writes
        /\ room' = room - n
        /\ out' = out \o SubSeq(buf, from + 1, from + n)
        /\ CASE n = 0 /\ call.fn = "write_all" -> Fails
             [] n = 0 /\ call.fn = "write_all_et" -> call' = [call EXCEPT !.st = "wait"]
             [] n > 0 /\ Remaining(n) = 0 -> Succeeds
             [] n > 0 /\ Remaining(n) > 0 ->
                  call' = [call EXCEPT !.rem = Remaining(n),
                                       !.st = IF call.fn = "write_all" THEN "wait" ELSE "sys"]
        /\ pos' = IF n = 0 /\ call.fn = "write_all" THEN FailedPos ELSE pos
        /\ UNCHANGED <<kind, inq, arrived, eof, filled, buf, cap, sock, taken>>

\* Any other error of a write.
write_error ==
    /\ call.st = "sys" /\ call.fn \in Writes
    /\ Fails
    /\ pos' = FailedPos
    /\ UNCHANGED <<kernel, buf, cap, sock, out, taken>>

\* Wrong: the end of the file is not noticed.
sendfile_over_NoBreak(n) == Remaining(n) = 0

\* mnthr_sendfile stops at the end of the file and when nothing is left to send.
sendfile_over(n) == n = 0 \/ Remaining(n) = 0

\* One sendfile of mnthr_sendfile as built without HAVE_SF_HDTR: the call answers
\* with the bytes it sent and advances *offset.  It does not wait again when there is
\* no room: the -1 is subtracted from what is left, and the loop goes on.
sendfile ==
    LET n == Min({room, call.rem, FileLen - Len(out)})
    IN  /\ call.st = "sys" /\ call.fn = "sendfile"
        /\ \/ /\ room = 0
              /\ call.rem + Len(out) - call.sz < MaxFails
              /\ call' = [call EXCEPT !.rem = Remaining(-1), !.again = TRUE]
              /\ UNCHANGED <<room, out>>
           \/ /\ room > 0
              /\ room' = room - n
              /\ out' = out \o [i \in 1..n |-> Len(out) + i]
              /\ IF sendfile_over(n) THEN Succeeds
                 ELSE call' = [call EXCEPT !.rem = Remaining(n)]
        /\ UNCHANGED <<kind, inq, arrived, eof, filled, buffer, sock, taken>>

\* sendfile fails for another reason, and fails again whenever it is asked again:
\* no error ends the loop.  (What is left is counted up to a bound.)
sendfile_error ==
    /\ call.st \in {"sys", "spin"} /\ call.fn = "sendfile"
    /\ call' = [call EXCEPT !.st = "spin", !.again = TRUE,
                            !.rem = Min({Remaining(-1), MaxSz + MaxFails})]
    /\ UNCHANGED <<kernel, buffer, sock, out, taken>>
-----------------------------------------------------------------------------
(***************************************************************************)
(* Making a socket.                                                        *)
(***************************************************************************)

\* socket() for the next address; the first one that works is the only one tried.
socket ==
    /\ call.st = "sys" /\ call.fn \in Sockets /\ sock = "none"
    /\ \/ call.rem = 0 /\ Fails /\ UNCHANGED sock
       \/ call.rem > 0 /\ call' = [call EXCEPT !.rem = @ - 1] /\ UNCHANGED sock
       \/ call.rem > 0 /\ sock' = "blocking" /\ UNCHANGED call
    /\ UNCHANGED <<kernel, buffer, out, taken>>

\* Wrong: the descriptor is left open.
socket_failed_Open == Fails /\ UNCHANGED sock

\* A step after socket() has failed.
socket_failed == Fails /\ sock' = "none"

\* fcntl, and for mnthr_socket the end.
socket_fcntl ==
    /\ call.st = "sys" /\ sock = "blocking"
    /\ \/ socket_failed
       \/ sock' = "nonblocking" /\ IF call.fn = "socket" THEN Succeeds ELSE UNCHANGED call
    /\ UNCHANGED <<kernel, buffer, out, taken>>

bind ==
    /\ call.st = "sys" /\ call.fn = "socket_bind" /\ sock = "nonblocking"
    /\ \/ socket_failed
       \/ Succeeds /\ UNCHANGED sock
    /\ UNCHANGED <<kernel, buffer, out, taken>>

\* mnthr_connect: connect() answers at once or is in progress, in which case the
\* thread waits and asks for the outcome.
connect ==
    /\ call.st = "sys" /\ call.fn = "socket_connect" /\ sock = "nonblocking"
    /\ \/ socket_failed
       \/ Succeeds /\ sock' = "connected"
       \/ sock' = "connecting" /\ call' = [call EXCEPT !.st = "wait"]
    /\ UNCHANGED <<kernel, buffer, out, taken>>

connect_wait ==
    /\ call.fn = "socket_connect"
    /\ \/ call.st \in {"wait", "ready"} /\ socket_failed
       \/ call.st = "ready" /\ Succeeds /\ sock' = "connected"
    /\ UNCHANGED <<kernel, buffer, out, taken>>
-----------------------------------------------------------------------------
BeginCall ==
    \/ \E fn \in {"read_all"} \cup Accepts : begin_read_all(fn)
    \/ \E sz \in 1..MaxSz :
          \/ \E fn \in {"read_allb", "read_allb_et"} : mnthr_bytestream_read_more(fn, sz)
          \/ \E fn \in Writes, b \in BOOLEAN : begin_write(fn, sz, b)
          \/ begin_sendfile(sz)
    \/ \E fn \in Sockets : begin_socket(fn)

Step ==
    \/ wait_event \/ wait_returns
    \/ read_single \/ read_et \/ accept
    \/ write \/ sendfile
    \/ socket \/ socket_fcntl \/ bind \/ connect \/ connect_wait

Errors == wait_fails \/ read_error \/ write_error \/ sendfile_error

Others == arrive \/ peer_close \/ steal \/ drain \/ fill

Next == BeginCall \/ Step \/ Errors \/ Others \/ advance \/ bytestream_rewind \/ close

Spec == Init /\ [][Next]_vars

\* The thread runs on when it can, a peer reads what it is sent, and it closes in
\* the end.
FairSpec == Spec /\ WF_vars(Step) /\ WF_vars(drain) /\ WF_vars(peer_close)
-----------------------------------------------------------------------------
\* What the kernel handed out to the calls is in the buffer, in order and below
\* the offset, or in the hands of the call that goes on: no read or accept call
\* that reports an error has taken something, although others take bytes and
\* connections between the wait and the system call.  And all of it is within the
\* buffer, whose size was computed before the wait or from what it announced.
NothingLost ==
    LET hand == IF Idle THEN <<>> ELSE call.hand
    IN  taken = buf \o hand /\ Len(taken) <= cap

\* mnthr_read_allb_et never waits with bytes in hand: the peer may be waiting for
\* the answer to them.  Nor does mnthr_accept_all.
WaitsEmptyHanded == call.st = "wait" => call.hand = <<>>

\* The bytes a call was asked to send.
Asked ==
    IF call.fn = "sendfile" THEN [i \in 1..Min({call.sz, FileLen}) |-> i]
    ELSE SubSeq(buf, pos + 1, pos + call.sz)

\* A write call that reports success has sent what it was asked to, once and in
\* order, however the kernel cut it up and others filled its buffer meanwhile;
\* mnthr_sendfile has if the kernel never refused for want of room.
SentExactly ==
    call.st = "ok" /\ call.fn \in Writes \cup {"sendfile"} /\ ~ call.again => out = Asked

\* A socket call returns a descriptor that does not block (connected, for
\* mnthr_socket_connect), or -1 and leaves none open, also when it was interrupted
\* while the connection was in progress.
SocketReady ==
    call.fn \in Sockets =>
        CASE call.st = "ok" -> sock = IF call.fn = "socket_connect"
                                      THEN "connected" ELSE "nonblocking"
          [] call.st = "error" -> sock = "none"
          [] OTHER -> TRUE

\* Every call returns, if the thread runs, the peer reads on and closes in the
\* end, but for two: a call that accepts waits for as long as nobody connects, and
\* mnthr_sendfile does not return when its descriptor fails for good.
CallEnds == ~ Idle /\ call.fn \notin Accepts ~> Idle \/ call.st = "spin"
=============================================================================
