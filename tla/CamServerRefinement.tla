------------------------ MODULE CamServerRefinement ------------------------
(* CamServer implements StreamService: every handler maps to one step of   *)
(* the service or to a stutter.                                            *)
EXTENDS CamServerProofs

-----------------------------------------------------------------------------
(* What the functions of Server do to the part of its state that the       *)
(* service and the camera see: the connection it holds, the stream, the    *)
(* process and the calls of stream_callback.                               *)

Same(s, t) ==
    /\ t.socket = s.socket /\ t.streaming = s.streaming
    /\ t.process = s.process /\ t.calls = s.calls

\* The stream was switched by one call of update_stream_status.
Switched(s, t, on) == t.streaming = on /\ t.calls = Append(s.calls, on)

LEMMA CancelSame ==
    ASSUME NEW s \in ServerState
    PROVE  Same(s, Cancel(s))
<1>1. ASSUME NEW q
      PROVE  Same(s, [s EXCEPT !.timer = "idle", !.queue = q])
  BY DEF ServerState, Same
<1>2. QED
  BY <1>1 DEF Cancel, Same

LEMMA CloseSame ==
    ASSUME NEW s \in ServerState, NEW c \in Conns
    PROVE  Same(s, Close(s, c))
<1>1. ASSUME NEW q, NEW a, NEW b, NEW d
      PROVE  Same(s, [s EXCEPT !.status = a, !.reads = b, !.inbox = d, !.queue = q])
  BY DEF ServerState, Same
<1>2. QED
  BY <1>1 DEF Close, ServerState, Same

LEMMA StatusSwitched ==
    ASSUME NEW s \in ServerState, NEW on \in BOOLEAN
    PROVE  LET t == update_stream_status(s, on)
           IN  /\ Switched(s, t, on)
               /\ t.socket = s.socket /\ t.process = s.process
BY DEF update_stream_status, ServerState, Switched

LEMMA ResetShown ==
    ASSUME NEW s \in ServerState
    PROVE  /\ reset(s).socket = NoConn
           /\ reset(s).process = s.process
           /\ Switched(s, reset(s), FALSE)
<1> DEFINE closed == IF s.socket = NoConn THEN s
                     ELSE [Close(s, s.socket) EXCEPT !.socket = NoConn]
           off == update_stream_status(closed, FALSE)
<1>1. /\ closed \in ServerState /\ closed.socket = NoConn
      /\ closed.process = s.process /\ closed.calls = s.calls
  <2>1. CASE s.socket = NoConn
    BY <2>1
  <2>2. CASE s.socket # NoConn
    <3>1. s.socket \in Conns
      BY <2>2 DEF ServerState
    <3>2. Close(s, s.socket) \in ServerState /\ Same(s, Close(s, s.socket))
      BY <3>1, CloseType, CloseSame
    <3>3. ASSUME NEW t \in ServerState
          PROVE  LET u == [t EXCEPT !.socket = NoConn]
                 IN  /\ u \in ServerState /\ u.socket = NoConn
                     /\ u.process = t.process /\ u.calls = t.calls
      BY DEF ServerState
    <3>4. QED
      BY <2>2, <3>2, <3>3 DEF Same
  <2>3. QED
    BY <2>1, <2>2
<1>2. off \in ServerState /\ reset(s) = Cancel(off)
  <2>1. closed \in ServerState
    BY <1>1
  <2>2. off \in ServerState
    <3> HIDE DEF closed
    <3>1. QED
      BY <2>1, UpdateStreamStatusType
  <2>3. QED
    BY <2>2 DEF reset
<1>3. /\ off.socket = NoConn /\ off.process = s.process
      /\ Switched(s, off, FALSE)
  <2> HIDE DEF closed
  <2>1. QED
    BY <1>1, StatusSwitched DEF Switched
<1>4. QED
  <2> HIDE DEF off
  <2>1. QED
    BY <1>2, <1>3, CancelSame DEF Same, Switched

LEMMA StartKeepaliveSame ==
    ASSUME NEW s \in ServerState
    PROVE  /\ Same(s, start_keepalive(s))
           /\ start_keepalive(s).temp_socket = s.temp_socket
<1>1. ASSUME NEW t \in ServerState
      PROVE  LET u == [t EXCEPT !.timer = "armed"]
             IN  Same(t, u) /\ u.temp_socket = t.temp_socket
  BY DEF ServerState, Same
<1>2. QED
  BY <1>1, CancelType, CancelSame, CancelEffect DEF start_keepalive, Same

\* A read is only started on a socket; without one the assertion ends the
\* process, whatever else is true.
LEMMA StartReadShown ==
    ASSUME NEW s \in ServerState
    PROVE  LET t == start_read(s)
           IN  /\ s.socket # NoConn => Same(s, t)
               /\ s.socket = NoConn => t.process = "aborted"
               /\ t.socket = s.socket /\ t.streaming = s.streaming
               /\ t.calls = s.calls /\ t.temp_socket = s.temp_socket
<1>1. ASSUME NEW q, NEW b
      PROVE  /\ LET t == [s EXCEPT !.queue = q, !.inbox = b]
                IN  Same(s, t) /\ t.temp_socket = s.temp_socket
             /\ LET t == [s EXCEPT !.reads = b]
                IN  Same(s, t) /\ t.temp_socket = s.temp_socket
             /\ LET t == [s EXCEPT !.process = "aborted"]
                IN  /\ t.process = "aborted" /\ t.socket = s.socket
                    /\ t.streaming = s.streaming /\ t.calls = s.calls
                    /\ t.temp_socket = s.temp_socket
  BY DEF ServerState, Same
<1>2. ASSUME NEW c \in Conns
      PROVE  LET t == AsyncRead(s, c)
             IN  Same(s, t) /\ t.temp_socket = s.temp_socket
  BY <1>1 DEF AsyncRead, ServerState, Same
<1>3. s.socket # NoConn => s.socket \in Conns
  BY DEF ServerState
<1>4. CASE s.socket = NoConn
  BY <1>1, <1>4 DEF start_read, Same
<1>5. CASE s.socket # NoConn
  BY <1>2, <1>3, <1>5 DEF start_read, Same
<1>6. QED
  BY <1>4, <1>5

LEMMA PerformSame ==
    ASSUME NEW s \in ServerState, NEW c \in Conns, NEW n
    PROVE  Same(s, Perform(s, c, n))
<1>1. ASSUME NEW q, NEW a, NEW b
      PROVE  Same(s, [s EXCEPT !.reads = a, !.inbox = b, !.queue = q])
  BY DEF ServerState, Same
<1>2. QED
  BY <1>1 DEF Perform, ServerState, Same

LEMMA StartAsyncAcceptSame ==
    ASSUME NEW s \in ServerState, ~s.temp_socket
    PROVE  Same(s, start_async_accept(s))
BY DEF start_async_accept, ServerState, Same

-----------------------------------------------------------------------------
(* Whose commands are on their way. A read that is queued, or pending, is  *)
(* one of the connection that the server holds, or of one that it closed:  *)
(* without this the commands that a handler obeys could be anybody's.      *)

Closed(s) == {c \in Conns : s.status[c] = "closed"}

\* Only the connection that is held has reads pending.
OnlyHeldRead(s) == \A c \in Conns : s.reads[c] > 0 => c = s.socket

OwnReads(s) ==
    \A e \in Range(s.queue) :
        e.op = "read" => e.conn = s.socket \/ s.status[e.conn] = "closed"

Own(s) == OnlyHeldRead(s) /\ OwnReads(s)

\* Nobody is served or asks that did not before.
Quiet(s, t) ==
    /\ Asking(t) \subseteq Asking(s)
    /\ Closed(t) = Closed(s)
    /\ Own(s) => Own(t)

\* The same, and the connection that was held, if any, is closed.
Ended(s, t) ==
    /\ Asking(t) \subseteq Asking(s)
    /\ Closed(t) = (Closed(s) \cup {s.socket}) \ {NoConn}
    /\ Own(s) => Own(t)

LEMMA QuietTwice ==
    ASSUME NEW s, NEW t, NEW u, Quiet(t, u)
    PROVE  /\ Quiet(s, t) => Quiet(s, u)
           /\ Ended(s, t) => Ended(s, u)
BY DEF Quiet, Ended

\* What t receives and completes has been received in s.
NoneNew(s, t) ==
    /\ \A c \in Conns : Range(t.inbox[c]) \cap Command \subseteq Range(s.inbox[c])
    /\ \A e \in Range(t.queue) :
          \/ e \in Range(s.queue)
          \/ e.op # "read"
          \/ e.result \notin Command
          \/ e.result \in Range(s.inbox[e.conn])

LEMMA NoneNewAsks ==
    ASSUME NEW s, NEW t, NoneNew(s, t)
    PROVE  Asking(t) \subseteq Asking(s)
<1> SUFFICES ASSUME NEW c \in Conns, c \in Asking(t) PROVE c \in Asking(s)
  BY DEF Asking
<1>1. CASE Range(t.inbox[c]) \cap Command # {}
  BY <1>1 DEF NoneNew, Asking
<1>2. ASSUME NEW e \in Range(t.queue), e.op = "read", e.conn = c, e.result \in Command
      PROVE  c \in Asking(s)
  BY <1>2 DEF NoneNew, Asking
<1>3. QED
  BY <1>1, <1>2 DEF Asking

LEMMA AppendRange ==
    ASSUME NEW S, NEW q \in Seq(S), NEW e \in S
    PROVE  Range(Append(q, e)) = Range(q) \cup {e}
<1>1. /\ DOMAIN q = 1..Len(q) /\ Len(q) \in Nat
      /\ DOMAIN Append(q, e) = 1..(Len(q) + 1)
      /\ \A i \in 1..Len(q) : Append(q, e)[i] = q[i]
      /\ Append(q, e)[Len(q) + 1] = e
  OBVIOUS
<1>2. QED
  BY <1>1 DEF Range

LEMMA ConcatRange ==
    ASSUME NEW S, NEW q \in Seq(S), NEW r \in Seq(S)
    PROVE  Range(q \o r) = Range(q) \cup Range(r)
<1>1. /\ DOMAIN q = 1..Len(q) /\ Len(q) \in Nat
      /\ DOMAIN r = 1..Len(r) /\ Len(r) \in Nat
      /\ DOMAIN (q \o r) = 1..(Len(q) + Len(r))
      /\ \A i \in 1..Len(q) : (q \o r)[i] = q[i]
      /\ \A i \in (Len(q) + 1)..(Len(q) + Len(r)) : (q \o r)[i] = r[i - Len(q)]
  OBVIOUS
<1>2. ASSUME NEW i \in 1..Len(r)
      PROVE  i + Len(q) \in 1..(Len(q) + Len(r)) /\ (q \o r)[i + Len(q)] = r[i]
  <2>1. i + Len(q) \in (Len(q) + 1)..(Len(q) + Len(r)) /\ (i + Len(q)) - Len(q) = i
    BY <1>1
  <2>2. QED
    BY <1>1, <2>1
<1>3. Range(r) \subseteq Range(q \o r)
  <2>1. ASSUME NEW i \in 1..Len(r)
        PROVE  r[i] \in Range(q \o r)
    <3>1. (q \o r)[i + Len(q)] \in Range(q \o r)
      BY <1>1, <1>2 DEF Range
    <3>2. QED
      BY <1>2, <3>1
  <2>2. QED
    BY <1>1, <2>1 DEF Range
<1>4. Range(q) \subseteq Range(q \o r)
  BY <1>1 DEF Range
<1>5. Range(q \o r) \subseteq Range(q) \cup Range(r)
  <2>1. ASSUME NEW i \in 1..(Len(q) + Len(r))
        PROVE  (q \o r)[i] \in Range(q) \cup Range(r)
    <3>1. CASE i \in 1..Len(q)
      BY <1>1, <3>1 DEF Range
    <3>2. CASE i \notin 1..Len(q)
      <4>1. i \in (Len(q) + 1)..(Len(q) + Len(r)) /\ i - Len(q) \in 1..Len(r)
        BY <1>1, <3>2
      <4>2. QED
        BY <1>1, <4>1 DEF Range
    <3>3. QED
      BY <3>1, <3>2
  <2>2. QED
    BY <1>1, <2>1 DEF Range
<1>6. QED
  BY <1>3, <1>4, <1>5

LEMMA TailRange ==
    ASSUME NEW S, NEW q \in Seq(S), q # <<>>
    PROVE  Range(Tail(q)) \subseteq Range(q) /\ Head(q) \in Range(q)
<1>1. /\ DOMAIN q = 1..Len(q) /\ Len(q) \in Nat \ {0}
      /\ DOMAIN Tail(q) = 1..(Len(q) - 1)
      /\ \A i \in 1..(Len(q) - 1) : i + 1 \in 1..Len(q) /\ Tail(q)[i] = q[i + 1]
      /\ Head(q) = q[1]
  OBVIOUS
<1>2. QED
  BY <1>1 DEF Range

\* Reads return what has been received, and leave the rest of it.
LEMMA ReadFromInbox ==
    ASSUME NEW b \in Seq(Command \cup {"eof"}), NEW n \in Nat, NEW i \in Nat \ {0}
    PROVE  /\ Received(b, i) \in Command => Received(b, i) \in Range(b)
           /\ Range(Remaining(b, n)) \cap Command \subseteq Range(b)
<1>1. "eof" \notin Command
  BY DEF Command
<1>2. Len(b) \in Nat /\ DOMAIN b = 1..Len(b)
  OBVIOUS
<1>3. Received(b, i) \in Command => Received(b, i) \in Range(b)
  BY <1>1, <1>2 DEF Received, Range
<1>4. CASE n < Len(b)
  <2>1. /\ DOMAIN SubSeq(b, n + 1, Len(b)) = 1..(Len(b) - n)
        /\ \A k \in 1..(Len(b) - n) :
              k + n \in 1..Len(b) /\ SubSeq(b, n + 1, Len(b))[k] = b[k + n]
    BY <1>2, <1>4
  <2>2. Range(SubSeq(b, n + 1, Len(b))) \subseteq Range(b)
    BY <1>2, <2>1 DEF Range
  <2>3. QED
    BY <1>3, <1>4, <2>2 DEF Remaining
<1>5. CASE ~(n < Len(b))
  <2>1. Remaining(b, n) = <<"eof">> \/ Remaining(b, n) = <<>>
    BY <1>5 DEF Remaining
  <2>2. Range(<<"eof">>) = {"eof"} /\ Range(<<>>) = {}
    BY DEF Range
  <2>3. QED
    BY <1>1, <1>3, <2>1, <2>2
<1>6. QED
  BY <1>4, <1>5

\* What is queued is no read, and nothing else has changed that matters here.
LEMMA NoReadQuiet ==
    ASSUME NEW s, NEW t, t.socket = s.socket, t.status = s.status,
           t.reads = s.reads, t.inbox = s.inbox,
           \A e \in Range(t.queue) : e \in Range(s.queue) \/ e.op # "read"
    PROVE  Quiet(s, t)
<1>1. NoneNew(s, t)
  BY DEF NoneNew
<1>2. Own(s) => Own(t)
  BY DEF Own, OnlyHeldRead, OwnReads
<1>3. QED
  BY <1>1, <1>2, NoneNewAsks DEF Quiet, Closed

\* What is queued and started is reads of the connection that is held.
LEMMA HeldReadQuiet ==
    ASSUME NEW s, NEW t, t.socket = s.socket, t.status = s.status, NoneNew(s, t),
           \A c \in Conns : t.reads[c] > 0 => s.reads[c] > 0 \/ c = s.socket,
           \A e \in Range(t.queue) : e \in Range(s.queue) \/ e.conn = s.socket
    PROVE  Quiet(s, t)
<1>1. Own(s) => Own(t)
  BY DEF Own, OnlyHeldRead, OwnReads
<1>2. QED
  BY <1>1, NoneNewAsks DEF Quiet, Closed

LEMMA CancelQuiet ==
    ASSUME NEW s \in ServerState
    PROVE  Quiet(s, Cancel(s))
<1> DEFINE e == WaitDone("aborted")
           q == Append(s.queue, e)
<1>1. e \in Completion /\ e.op # "read" /\ s.queue \in Seq(Completion)
  BY WaitDoneType, QueueType DEF WaitDone
<1>2. Range(q) = Range(s.queue) \cup {e}
  <2> HIDE DEF e
  <2>1. QED
    BY <1>1, AppendRange
<1> DEFINE t == [s EXCEPT !.timer = "idle", !.queue = q]
<1>3. /\ t.socket = s.socket /\ t.status = s.status
      /\ t.reads = s.reads /\ t.inbox = s.inbox /\ t.queue = q
  <2> HIDE DEF q
  <2>1. QED
    BY DEF ServerState
<1>4. Quiet(s, s)
  BY NoReadQuiet
<1>5. Quiet(s, t)
  <2> HIDE DEF e, q, t
  <2>1. \A x \in Range(t.queue) : x \in Range(s.queue) \/ x.op # "read"
    BY <1>1, <1>2, <1>3
  <2>2. QED
    BY <1>3, <2>1, NoReadQuiet
<1>6. QED
  BY <1>4, <1>5 DEF Cancel

LEMMA StatusQuiet ==
    ASSUME NEW s \in ServerState, NEW on
    PROVE  Quiet(s, update_stream_status(s, on))
<1>1. ASSUME NEW f
      PROVE  LET t == [s EXCEPT !.streaming = on, !.calls = f]
             IN  /\ t.socket = s.socket /\ t.status = s.status
                 /\ t.reads = s.reads /\ t.inbox = s.inbox /\ t.queue = s.queue
  BY DEF ServerState
<1>2. QED
  BY <1>1, NoReadQuiet DEF update_stream_status

LEMMA StartKeepaliveQuiet ==
    ASSUME NEW s \in ServerState
    PROVE  Quiet(s, start_keepalive(s))
<1>1. ASSUME NEW t \in ServerState
      PROVE  Quiet(t, [t EXCEPT !.timer = "armed"])
  <2>1. LET u == [t EXCEPT !.timer = "armed"]
        IN  /\ u.socket = t.socket /\ u.status = t.status
            /\ u.reads = t.reads /\ u.inbox = t.inbox /\ u.queue = t.queue
    BY DEF ServerState
  <2>2. QED
    BY <2>1, NoReadQuiet
<1>2. Quiet(s, Cancel(s)) /\ Quiet(Cancel(s), start_keepalive(s))
  BY <1>1, CancelType, CancelQuiet DEF start_keepalive
<1>3. QED
  BY <1>2, QuietTwice

LEMMA AbortQuiet ==
    ASSUME NEW s \in ServerState, NEW p
    PROVE  Quiet(s, [s EXCEPT !.process = p])
<1>1. LET t == [s EXCEPT !.process = p]
      IN  /\ t.socket = s.socket /\ t.status = s.status
          /\ t.reads = s.reads /\ t.inbox = s.inbox /\ t.queue = s.queue
  BY DEF ServerState
<1>2. QED
  BY <1>1, NoReadQuiet

LEMMA AsyncReadQuiet ==
    ASSUME NEW s \in ServerState, NEW c \in Conns, c = s.socket
    PROVE  Quiet(s, AsyncRead(s, c))
<1> DEFINE b == s.inbox[c]
           e == ReadDone(c, Received(b, 1))
           q == Append(s.queue, e)
           r == Remaining(b, 1)
<1>1. /\ e \in Completion /\ s.queue \in Seq(Completion)
      /\ b \in Seq(Command \cup {"eof"}) /\ s.inbox \in [Conns -> Seq(Command \cup {"eof"})]
      /\ s.reads \in [Conns -> Nat]
  BY FirstReceivedType, QueueType, InboxType DEF ServerState
<1>2. e.conn = c /\ e.result = Received(b, 1)
  BY DEF ReadDone
<1>3. /\ Received(b, 1) \in Command => Received(b, 1) \in Range(b)
      /\ Range(r) \cap Command \subseteq Range(b)
  <2>1. 1 \in Nat /\ 1 \in Nat \ {0}
    OBVIOUS
  <2> HIDE DEF b
  <2>2. QED
    BY <1>1, <2>1, ReadFromInbox
<1>4. Range(q) = Range(s.queue) \cup {e}
  <2> HIDE DEF e
  <2>1. QED
    BY <1>1, AppendRange
<1>5. CASE s.reads[c] = 0 /\ s.inbox[c] # <<>>
  <2> DEFINE t == [s EXCEPT !.queue = q, !.inbox[c] = r]
  <2>1. AsyncRead(s, c) = t
    BY <1>5 DEF AsyncRead
  <2>2. /\ t.socket = s.socket /\ t.status = s.status /\ t.reads = s.reads
        /\ t.queue = q /\ t.inbox = [s.inbox EXCEPT ![c] = r]
    <3> HIDE DEF q, r
    <3>1. QED
      BY DEF ServerState
  <2>3. t.inbox[c] = r /\ \A d \in Conns : d # c => t.inbox[d] = s.inbox[d]
    <3> HIDE DEF r, t
    <3>1. QED
      BY <1>1, <2>2
  <2>4. NoneNew(s, t)
    <3> HIDE DEF q, e, r, t
    <3>1. \A d \in Conns : Range(t.inbox[d]) \cap Command \subseteq Range(s.inbox[d])
      BY <1>3, <2>3
    <3>2. \A x \in Range(t.queue) :
            \/ x \in Range(s.queue)
            \/ x.result \notin Command
            \/ x.result \in Range(s.inbox[x.conn])
      BY <1>2, <1>3, <1>4, <2>2
    <3>3. QED
      BY <3>1, <3>2 DEF NoneNew
  <2>5. \A x \in Range(t.queue) : x \in Range(s.queue) \/ x.conn = s.socket
    <3> HIDE DEF q, e, t
    <3>1. QED
      BY <1>2, <1>4, <2>2
  <2>6. Quiet(s, t)
    <3> HIDE DEF t
    <3>1. QED
      BY <2>2, <2>4, <2>5, HeldReadQuiet
  <2>7. QED
    BY <2>1, <2>6
<1>6. CASE ~(s.reads[c] = 0 /\ s.inbox[c] # <<>>)
  <2> DEFINE t == [s EXCEPT !.reads[c] = @ + 1]
  <2>1. AsyncRead(s, c) = t
    BY <1>6 DEF AsyncRead
  <2>2. /\ t.socket = s.socket /\ t.status = s.status /\ t.inbox = s.inbox
        /\ t.queue = s.queue /\ \A d \in Conns : d # c => t.reads[d] = s.reads[d]
    BY DEF ServerState
  <2>3. QED
    <3> HIDE DEF t
    <3>1. NoneNew(s, t)
      BY <2>2 DEF NoneNew
    <3>2. QED
      BY <2>1, <2>2, <3>1, HeldReadQuiet
<1>7. QED
  BY <1>5, <1>6

LEMMA StartReadQuiet ==
    ASSUME NEW s \in ServerState
    PROVE  Quiet(s, start_read(s))
<1>1. s.socket # NoConn => s.socket \in Conns
  BY DEF ServerState
<1>2. QED
  BY <1>1, AbortQuiet, AsyncReadQuiet DEF start_read

LEMMA StartAsyncAcceptQuiet ==
    ASSUME NEW s \in ServerState
    PROVE  Quiet(s, start_async_accept(s))
<1>1. LET t == [s EXCEPT !.temp_socket = TRUE, !.accepting = TRUE]
      IN  /\ t.socket = s.socket /\ t.status = s.status
          /\ t.reads = s.reads /\ t.inbox = s.inbox /\ t.queue = s.queue
  BY DEF ServerState
<1>2. Quiet(s, [s EXCEPT !.temp_socket = TRUE, !.accepting = TRUE])
  BY <1>1, NoReadQuiet
<1>3. QED
  BY <1>2, AbortQuiet DEF start_async_accept

\* reset closes the connection that is held; its reads come back aborted.
LEMMA CloseEnded ==
    ASSUME NEW s \in ServerState, s.socket \in Conns
    PROVE  Ended(s, [Close(s, s.socket) EXCEPT !.socket = NoConn])
<1> DEFINE c == s.socket
           e == ReadDone(c, "aborted")
           r == Copies(s.reads[c], e)
           q == s.queue \o r
           t == [Close(s, c) EXCEPT !.socket = NoConn]
<1>1. /\ s.queue \in Seq(Completion) /\ r \in Seq(Completion)
      /\ s.status \in [Conns -> ConnStatus] /\ s.reads \in [Conns -> Nat]
      /\ s.inbox \in [Conns -> Seq(Command \cup {"eof"})]
  BY QueueType, InboxType, CopiesType, CompletionTypes DEF Result, ReadError, ServerState
<1>2. Range(r) \subseteq {e}
  BY DEF Copies, Range
<1>3. Range(q) = Range(s.queue) \cup Range(r)
  <2> HIDE DEF r
  <2>1. QED
    BY <1>1, ConcatRange
<1>4. e.conn = c /\ e.result \notin Command /\ e.op = "read"
  BY DEF ReadDone, Command
<1>5. /\ t.socket = NoConn /\ t.queue = q
      /\ t.status = [s.status EXCEPT ![c] = "closed"]
      /\ t.reads = [s.reads EXCEPT ![c] = 0]
      /\ t.inbox = [s.inbox EXCEPT ![c] = <<>>]
  BY DEF Close, ServerState
<1>6. /\ t.status[c] = "closed" /\ t.reads[c] = 0 /\ t.inbox[c] = <<>>
      /\ \A d \in Conns : d # c => /\ t.status[d] = s.status[d]
                                   /\ t.reads[d] = s.reads[d]
                                   /\ t.inbox[d] = s.inbox[d]
  <2> HIDE DEF t
  <2>1. QED
    BY <1>1, <1>5
<1>7. NoneNew(s, t)
  <2>1. Range(<<>>) = {}
    BY DEF Range
  <2> HIDE DEF t, q, r, e
  <2>2. \A d \in Conns : Range(t.inbox[d]) \cap Command \subseteq Range(s.inbox[d])
    BY <1>6, <2>1
  <2>3. \A x \in Range(t.queue) : x \in Range(s.queue) \/ x.result \notin Command
    BY <1>2, <1>3, <1>4, <1>5
  <2>4. QED
    BY <2>2, <2>3 DEF NoneNew
<1>8. Closed(t) = (Closed(s) \cup {c}) \ {NoConn}
  <2> HIDE DEF t
  <2>1. QED
    BY <1>6, ConnsAssumption DEF Closed
<1>9. ASSUME Own(s)
      PROVE  Own(t)
  <2> HIDE DEF t, q, r, e
  <2>1. ASSUME NEW d \in Conns, t.reads[d] > 0
        PROVE  FALSE
    <3>1. d # c
      BY <1>6, <2>1
    <3>2. s.reads[d] > 0
      BY <1>6, <2>1, <3>1
    <3>3. QED
      BY <1>9, <3>1, <3>2 DEF Own, OnlyHeldRead
  <2>2. ASSUME NEW x \in Range(t.queue), x.op = "read"
        PROVE  t.status[x.conn] = "closed"
    <3>1. CASE x \in Range(s.queue)
      <4>1. x.conn = c \/ s.status[x.conn] = "closed"
        BY <1>9, <2>2, <3>1 DEF Own, OwnReads
      <4>2. x.conn \in Conns
        <5>1. x \in Completion
          BY <1>1, <3>1 DEF Range
        <5>2. QED
          BY <2>2, <5>1 DEF Completion
      <4>3. QED
        BY <1>6, <4>1, <4>2
    <3>2. CASE x = e
      BY <1>4, <1>6, <3>2
    <3>3. QED
      BY <1>2, <1>3, <1>5, <2>2, <3>1, <3>2
  <2>3. QED
    BY <2>1, <2>2 DEF Own, OnlyHeldRead, OwnReads
<1>10. QED
  <2> HIDE DEF t
  <2>1. Asking(t) \subseteq Asking(s)
    BY <1>7, NoneNewAsks
  <2>2. QED
    BY <1>8, <1>9, <2>1 DEF Ended, t

LEMMA ResetEnded ==
    ASSUME NEW s \in ServerState
    PROVE  Ended(s, reset(s))
<1> DEFINE closed == IF s.socket = NoConn THEN s
                     ELSE [Close(s, s.socket) EXCEPT !.socket = NoConn]
           off == update_stream_status(closed, FALSE)
<1>1. closed \in ServerState /\ Ended(s, closed)
  <2>1. CASE s.socket = NoConn
    <3>1. closed = s
      BY <2>1
    <3>2. Ended(s, s)
      BY <2>1, ConnsAssumption DEF Ended, Closed
    <3>3. QED
      BY <3>1, <3>2
  <2>2. CASE s.socket # NoConn
    <3>1. s.socket \in Conns
      BY <2>2 DEF ServerState
    <3>2. Close(s, s.socket) \in ServerState
      BY <3>1, CloseType
    <3>3. ASSUME NEW t \in ServerState
          PROVE  [t EXCEPT !.socket = NoConn] \in ServerState
      BY DEF ServerState
    <3>4. QED
      BY <2>2, <3>1, <3>2, <3>3, CloseEnded
  <2>3. QED
    BY <2>1, <2>2
<1>2. off \in ServerState /\ Quiet(closed, off)
  <2> HIDE DEF closed
  <2>1. QED
    BY <1>1, UpdateStreamStatusType, StatusQuiet
<1>3. Quiet(off, Cancel(off))
  <2> HIDE DEF off
  <2>1. QED
    BY <1>2, CancelQuiet
<1>4. reset(s) = Cancel(off)
  BY DEF reset
<1>5. QED
  <2> HIDE DEF off, closed
  <2>1. Ended(s, off)
    BY <1>1, <1>2, QuietTwice
  <2>2. QED
    BY <1>3, <1>4, <2>1, QuietTwice

\* The connection that takes the place of another has had no reads yet.
LEMMA MovedEnded ==
    ASSUME NEW s \in ServerState, NEW c \in Conns
    PROVE  Ended(s, [reset(s) EXCEPT !.socket = c, !.temp_socket = FALSE])
<1> DEFINE u == reset(s)
           t == [u EXCEPT !.socket = c, !.temp_socket = FALSE]
<1>1. u \in ServerState /\ u.socket = NoConn /\ Ended(s, u)
  BY ResetType, ResetEffect, ResetEnded
<1>2. /\ t.socket = c /\ t.status = u.status /\ t.reads = u.reads
      /\ t.inbox = u.inbox /\ t.queue = u.queue
  <2>1. ASSUME NEW v \in ServerState
        PROVE  LET w == [v EXCEPT !.socket = c, !.temp_socket = FALSE]
               IN  /\ w.socket = c /\ w.status = v.status /\ w.reads = v.reads
                   /\ w.inbox = v.inbox /\ w.queue = v.queue
    BY DEF ServerState
  <2>2. QED
    BY <1>1, <2>1
<1>3. Asking(t) = Asking(u) /\ Closed(t) = Closed(u)
  <2> HIDE DEF t, u
  <2>1. QED
    BY <1>2 DEF Asking, Closed
<1>4. ASSUME Own(u)
      PROVE  Own(t)
  <2> HIDE DEF t, u
  <2>1. OnlyHeldRead(t)
    BY <1>1, <1>2, <1>4, ConnsAssumption DEF Own, OnlyHeldRead
  <2>2. ASSUME NEW x \in Range(t.queue), x.op = "read"
        PROVE  t.status[x.conn] = "closed"
    <3>1. x \in Range(u.queue)
      BY <1>2, <2>2
    <3>2. x \in Completion
      <4>1. u.queue \in Seq(Completion)
        BY <1>1, QueueType
      <4>2. QED
        BY <3>1, <4>1 DEF Range
    <3>3. x.conn # NoConn
      BY <2>2, <3>2, ConnsAssumption DEF Completion
    <3>4. QED
      BY <1>1, <1>2, <1>4, <2>2, <3>1, <3>3 DEF Own, OwnReads
  <2>3. QED
    BY <2>1, <2>2 DEF Own, OwnReads
<1>5. QED
  <2> HIDE DEF t, u
  <2>1. Ended(s, t)
    BY <1>1, <1>3, <1>4 DEF Ended
  <2>2. QED
    BY <2>1 DEF t, u

\* The reads that the reactor performs are those of the connection that is held.
LEMMA PerformQuiet ==
    ASSUME NEW s \in ServerState, NEW c \in Conns, c = s.socket,
           NEW n \in 0..s.reads[c]
    PROVE  Quiet(s, Perform(s, c, n))
<1> DEFINE b == s.inbox[c]
           k == s.reads[c] - n
           r == Remaining(b, n)
           more == [i \in 1..(n - 1) |-> ReadDone(c, Received(b, i + 1))]
           q == s.queue \o more
           t == Perform(s, c, n)
<1>1. /\ n \in Nat /\ s.reads \in [Conns -> Nat] /\ s.queue \in Seq(Completion)
      /\ b \in Seq(Command \cup {"eof"})
      /\ s.inbox \in [Conns -> Seq(Command \cup {"eof"})]
  BY QueueType, InboxType DEF ServerState
<1>2. ASSUME NEW i \in 1..(n - 1)
      PROVE  /\ more[i] \in Completion /\ more[i].conn = c
             /\ more[i].result \in Command => more[i].result \in Range(b)
  <2>1. i + 1 \in Nat \ {0}
    BY <1>1
  <2>2. /\ Received(b, i + 1) \in Result
        /\ Received(b, i + 1) \in Command => Received(b, i + 1) \in Range(b)
    <3> HIDE DEF b
    <3>1. QED
      BY <1>1, <2>1, ReceivedType, ReadFromInbox DEF Result, ReadError
  <2>3. more[i] = ReadDone(c, Received(b, i + 1))
    OBVIOUS
  <2>4. QED
    <3> HIDE DEF b, more
    <3>1. QED
      BY <2>2, <2>3, CompletionTypes DEF ReadDone
<1>3. DOMAIN more = 1..(n - 1) /\ more \in Seq(Completion)
  <2>1. CASE n = 0
    <3>1. more = <<>> /\ DOMAIN more = {}
      BY <2>1
    <3>2. QED
      BY <2>1, <3>1
  <2>2. CASE n > 0
    <3>1. n - 1 \in Nat
      BY <1>1, <2>2
    <3>2. DOMAIN more = 1..(n - 1)
      OBVIOUS
    <3>3. \A i \in 1..(n - 1) : ReadDone(c, Received(b, i + 1)) \in Completion
      BY <1>2
    <3>4. QED
      BY <3>1, <3>2, <3>3
  <2>3. QED
    BY <1>1, <2>1, <2>2
<1>4. Range(q) = Range(s.queue) \cup Range(more)
  <2> HIDE DEF more
  <2>1. QED
    BY <1>1, <1>3, ConcatRange
<1>5. \A x \in Range(more) : /\ x.conn = c
                             /\ x.result \in Command => x.result \in Range(b)
  <2> HIDE DEF more, b
  <2>1. QED
    BY <1>2, <1>3 DEF Range
<1>6. /\ t.socket = s.socket /\ t.status = s.status /\ t.queue = q
      /\ t.reads = [s.reads EXCEPT ![c] = k] /\ t.inbox = [s.inbox EXCEPT ![c] = r]
  <2>1. t = [s EXCEPT !.reads[c] = k, !.inbox[c] = r, !.queue = q]
    BY DEF Perform, ServerState
  <2> HIDE DEF k, r, q, t
  <2>2. QED
    BY <2>1 DEF ServerState
<1>7. /\ t.inbox[c] = r
      /\ \A d \in Conns : d # c => /\ t.inbox[d] = s.inbox[d]
                                   /\ t.reads[d] = s.reads[d]
  <2> HIDE DEF t, k, r, q
  <2>1. QED
    BY <1>1, <1>6
<1>8. Range(r) \cap Command \subseteq Range(b)
  <2>1. 1 \in Nat \ {0}
    OBVIOUS
  <2> HIDE DEF b
  <2>2. QED
    BY <1>1, <2>1, ReadFromInbox
<1>9. NoneNew(s, t)
  <2> HIDE DEF t, q, r, more
  <2>1. \A d \in Conns : Range(t.inbox[d]) \cap Command \subseteq Range(s.inbox[d])
    BY <1>7, <1>8
  <2>2. \A x \in Range(t.queue) :
          \/ x \in Range(s.queue)
          \/ x.result \notin Command
          \/ x.result \in Range(s.inbox[x.conn])
    BY <1>4, <1>5, <1>6
  <2>3. QED
    BY <2>1, <2>2 DEF NoneNew
<1>10. QED
  <2> HIDE DEF t, q, r, more
  <2>1. \A x \in Range(t.queue) : x \in Range(s.queue) \/ x.conn = s.socket
    BY <1>4, <1>5, <1>6
  <2>2. \A d \in Conns : t.reads[d] > 0 => s.reads[d] > 0 \/ d = s.socket
    BY <1>7
  <2>3. Quiet(s, t)
    BY <1>6, <1>9, <2>1, <2>2, HeldReadQuiet
  <2>4. QED
    BY <2>3 DEF t

\* Before the handler of a completion runs, the completion is popped.
LEMMA PoppedQuiet ==
    ASSUME srv \in ServerState, srv.queue # <<>>
    PROVE  Quiet(srv, Popped) /\ Head(srv.queue) \in Range(srv.queue)
<1>1. /\ Range(Tail(srv.queue)) \subseteq Range(srv.queue)
      /\ Head(srv.queue) \in Range(srv.queue)
  <2>1. srv.queue \in Seq(Completion)
    BY QueueType
  <2>2. QED
    BY <2>1, TailRange
<1>2. QED
  BY <1>1, PoppedFields, NoReadQuiet

-----------------------------------------------------------------------------
(* What the handlers do to it.                                             *)

\* The connection c is served, and the stream of the one before it is stopped.
LEMMA ServeShown ==
    ASSUME NEW s \in ServerState, NEW c \in Conns
    PROVE  LET t == serve(s, c)
           IN  /\ t \in ServerState /\ t.socket = c /\ t.process = s.process
               /\ Switched(s, t, FALSE) /\ ~t.temp_socket
               /\ Ended(s, t)
<1> DEFINE moved == [reset(s) EXCEPT !.socket = c, !.temp_socket = FALSE]
           watched == start_keepalive(moved)
<1>1. ASSUME NEW u \in ServerState
      PROVE  LET v == [u EXCEPT !.socket = c, !.temp_socket = FALSE]
             IN  /\ v \in ServerState /\ v.socket = c /\ ~v.temp_socket
                 /\ v.process = u.process /\ v.streaming = u.streaming
                 /\ v.calls = u.calls
  BY DEF ServerState
<1>2. /\ moved \in ServerState /\ moved.socket = c /\ ~moved.temp_socket
      /\ moved.process = s.process /\ Switched(s, moved, FALSE)
  BY <1>1, ResetType, ResetShown DEF Switched
<1>3. /\ watched \in ServerState /\ Same(moved, watched)
      /\ watched.temp_socket = moved.temp_socket
  <2> HIDE DEF moved
  <2>1. QED
    BY <1>2, StartKeepaliveType, StartKeepaliveSame
<1>4. watched.socket # NoConn
  BY <1>2, <1>3, ConnsAssumption DEF Same
<1>5. /\ start_read(watched) \in ServerState
      /\ Same(watched, start_read(watched))
      /\ start_read(watched).temp_socket = watched.temp_socket
  <2> HIDE DEF watched
  <2>1. QED
    BY <1>3, <1>4, StartReadType, StartReadShown
<1>6. serve(s, c) = start_read(watched)
  BY DEF serve
<1>7. Ended(s, moved)
  BY MovedEnded
<1>8. Quiet(moved, watched)
  <2> HIDE DEF moved
  <2>1. QED
    BY <1>2, StartKeepaliveQuiet
<1>9. Quiet(watched, start_read(watched))
  <2> HIDE DEF watched
  <2>1. QED
    BY <1>3, StartReadQuiet
<1>10. Ended(s, start_read(watched))
  <2> HIDE DEF moved, watched
  <2>1. Ended(s, watched)
    BY <1>7, <1>8, QuietTwice
  <2>2. QED
    BY <1>9, <2>1, QuietTwice
<1>11. QED
  <2> HIDE DEF moved, watched
  <2>1. QED
    BY <1>2, <1>3, <1>5, <1>6, <1>10 DEF Same, Switched

LEMMA AcceptHandlerShown ==
    ASSUME NEW s \in ServerState, NEW c \in Conns \cup {NoConn}
    PROVE  LET t == accept_handler(s, c)
           IN  /\ c = NoConn => Same(s, t) /\ Quiet(s, t)
               /\ c # NoConn => /\ t.socket = c /\ t.process = s.process
                                /\ Switched(s, t, FALSE) /\ Ended(s, t)
<1>1. CASE c = NoConn
  <2> DEFINE u == [s EXCEPT !.temp_socket = FALSE]
  <2>1. u \in ServerState /\ ~u.temp_socket /\ Same(s, u)
    BY DEF ServerState, Same
  <2>2. accept_handler(s, c) = start_async_accept(u)
    BY <1>1 DEF accept_handler
  <2>3. /\ u.socket = s.socket /\ u.status = s.status
        /\ u.reads = s.reads /\ u.inbox = s.inbox /\ u.queue = s.queue
    BY DEF ServerState
  <2>4. Quiet(s, u)
    <3> HIDE DEF u
    <3>1. QED
      BY <2>3, NoReadQuiet
  <2>5. Same(u, start_async_accept(u)) /\ Quiet(u, start_async_accept(u))
    <3> HIDE DEF u
    <3>1. QED
      BY <2>1, StartAsyncAcceptSame, StartAsyncAcceptQuiet
  <2>6. Quiet(s, start_async_accept(u))
    <3> HIDE DEF u
    <3>1. QED
      BY <2>4, <2>5, QuietTwice
  <2>7. QED
    <3> HIDE DEF u
    <3>1. QED
      BY <1>1, <2>1, <2>2, <2>5, <2>6 DEF Same
<1>2. CASE c # NoConn
  <2>1. c \in Conns /\ accept_handler(s, c) = start_async_accept(serve(s, c))
    BY <1>2 DEF accept_handler
  <2>2. /\ serve(s, c) \in ServerState /\ serve(s, c).socket = c
        /\ serve(s, c).process = s.process
        /\ Switched(s, serve(s, c), FALSE) /\ ~serve(s, c).temp_socket
        /\ Ended(s, serve(s, c))
    BY <2>1, ServeShown
  <2>3. /\ Same(serve(s, c), start_async_accept(serve(s, c)))
        /\ Quiet(serve(s, c), start_async_accept(serve(s, c)))
    BY <2>2, StartAsyncAcceptSame, StartAsyncAcceptQuiet
  <2>4. Ended(s, start_async_accept(serve(s, c)))
    BY <2>2, <2>3, QuietTwice
  <2>5. QED
    BY <1>2, <2>1, <2>2, <2>3, <2>4 DEF Same, Switched
<1>3. QED
  BY <1>1, <1>2

\* A command that finds no connection ends the process; one that finds it does
\* what it says; anything else drops the connection.
LEMMA ReadHandlerShown ==
    ASSUME NEW s \in ServerState, NEW r
    PROVE  LET t == read_handler(s, r)
           IN  \/ /\ s.socket # NoConn /\ t.socket = s.socket
                  /\ t.process = s.process /\ Quiet(s, t) /\ r \in Command
                  /\ \E on \in BOOLEAN : Switched(s, t, on)
               \/ s.socket # NoConn /\ Same(s, t) /\ Quiet(s, t)
               \/ /\ s.socket = NoConn /\ t.socket = s.socket
                  /\ t.process = "aborted" /\ Quiet(s, t)
               \/ /\ t.socket = NoConn /\ t.process = s.process
                  /\ Switched(s, t, FALSE) /\ Ended(s, t)
<1> DEFINE t == read_handler(s, r)
<1>1. ASSUME NEW on \in BOOLEAN, t = start_read(update_stream_status(s, on))
      PROVE  \/ /\ s.socket # NoConn /\ t.socket = s.socket
                /\ t.process = s.process /\ Switched(s, t, on) /\ Quiet(s, t)
             \/ /\ s.socket = NoConn /\ t.socket = s.socket
                /\ t.process = "aborted" /\ Quiet(s, t)
  <2> DEFINE u == update_stream_status(s, on)
  <2>1. /\ u \in ServerState /\ Switched(s, u, on) /\ Quiet(s, u)
        /\ u.socket = s.socket /\ u.process = s.process
    BY UpdateStreamStatusType, StatusSwitched, StatusQuiet
  <2>2. t = start_read(u)
    BY <1>1
  <2>3. Quiet(s, t)
    <3> HIDE DEF t, u
    <3>1. Quiet(u, t)
      BY <2>1, <2>2, StartReadQuiet
    <3>2. QED
      BY <2>1, <3>1, QuietTwice
  <2>4. QED
    <3> HIDE DEF t, u
    <3>1. QED
      BY <2>1, <2>2, <2>3, StartReadShown DEF Same, Switched
<1>2. ASSUME t = start_read(Cancel(s))
      PROVE  \/ s.socket # NoConn /\ Same(s, t) /\ Quiet(s, t)
             \/ /\ s.socket = NoConn /\ t.socket = s.socket
                /\ t.process = "aborted" /\ Quiet(s, t)
  <2>1. Cancel(s) \in ServerState /\ Same(s, Cancel(s)) /\ Quiet(s, Cancel(s))
    BY CancelType, CancelSame, CancelQuiet
  <2>2. Quiet(s, t)
    <3> HIDE DEF t
    <3>1. Quiet(Cancel(s), t)
      BY <1>2, <2>1, StartReadQuiet
    <3>2. QED
      BY <2>1, <3>1, QuietTwice
  <2>3. QED
    <3> HIDE DEF t
    <3>1. QED
      BY <1>2, <2>1, <2>2, StartReadShown DEF Same
<1>3. ASSUME t = reset(s)
      PROVE  /\ t.socket = NoConn /\ t.process = s.process
             /\ Switched(s, t, FALSE) /\ Ended(s, t)
  BY <1>3, ResetShown, ResetEnded
<1>4. \/ r \in Command /\ t = start_read(update_stream_status(s, TRUE))
      \/ r \in Command /\ t = start_read(update_stream_status(s, FALSE))
      \/ t = start_read(Cancel(s))
      \/ t = reset(s)
  BY DEF read_handler, Command
<1>5. QED
  <2> HIDE DEF t
  <2>1. QED
    BY <1>1, <1>2, <1>3, <1>4 DEF t

LEMMA WaitHandlerShown ==
    ASSUME NEW s \in ServerState, NEW r
    PROVE  LET t == wait_handler(s, r)
           IN  \/ Same(s, t) /\ Quiet(s, t)
               \/ /\ t.socket = NoConn /\ t.process = s.process
                  /\ Switched(s, t, FALSE) /\ Ended(s, t)
<1>1. Quiet(s, s)
  BY NoReadQuiet
<1>2. QED
  BY <1>1, StartKeepaliveSame, StartKeepaliveQuiet, ResetShown, ResetEnded
  DEF wait_handler, Same

-----------------------------------------------------------------------------
(* The steps of the server, as steps of the service.                       *)

LEMMA PoppedShown ==
    ASSUME srv \in ServerState
    PROVE  /\ Popped.socket = srv.socket /\ Popped.streaming = srv.streaming
           /\ Popped.process = srv.process /\ Popped.calls = <<>>
BY DEF Popped, ServerState

\* What a handler that ran in s can mean to the service. A command is one that a
\* connection sent which is held, or was.
Handled(s) ==
    \/ Same(s, srv') /\ Quiet(s, srv')
    \/ /\ srv'.socket \in Conns \cup {NoConn} /\ srv'.process = s.process
       /\ Switched(s, srv', FALSE) /\ Ended(s, srv')
    \/ /\ s.socket # NoConn /\ srv'.socket = s.socket /\ srv'.process = s.process
       /\ Quiet(s, srv')
       /\ \E on \in BOOLEAN : Switched(s, srv', on)
       /\ \E c \in Asking(srv) : c \in Closed(srv) \cup {srv.socket}
    \/ /\ srv'.socket = s.socket /\ srv'.process \in {"aborted", "terminated"}
       /\ Quiet(s, srv')

LEMMA HandledIsServiceStep ==
    ASSUME NEW s \in ServerState, srv.process = "running", Same(srv, s) \/ Same(Popped, s),
           srv \in ServerState, Quiet(srv, s), Handled(s)
    PROVE  [Service!Next]_Service!svars /\ (Own(srv) => Own(srv'))
<1>1. /\ s.socket = srv.socket /\ s.streaming = srv.streaming
      /\ s.process = "running"
  BY PoppedShown DEF Same
<1>2. Alive /\ (Alive' <=> srv'.process \in {"running", "blocked"})
  BY DEF Alive
<1>3. CASE Same(s, srv') /\ Quiet(s, srv')
  <2>1. srv'.socket = srv.socket /\ srv'.streaming = srv.streaming /\ Alive'
    BY <1>1, <1>2, <1>3 DEF Same
  <2>2. Quiet(srv, srv')
    BY <1>3, QuietTwice
  <2>3. Service!Forget
    BY <1>2, <2>1, <2>2 DEF Service!Forget, Service!NoneAsks, Quiet, Closed
  <2>4. QED
    BY <2>2, <2>3 DEF Service!Next, Quiet
<1>4. CASE /\ srv'.socket \in Conns \cup {NoConn} /\ srv'.process = s.process
           /\ Switched(s, srv', FALSE) /\ Ended(s, srv')
  <2>1. Ended(srv, srv')
    BY <1>1, <1>4 DEF Quiet, Ended
  <2>2. Service!EndService
    BY <1>1, <1>2, <1>4, <2>1
    DEF Service!EndService, Service!NoneAsks, Ended, Switched, Closed
  <2>3. Service!Drop \/ \E c \in Conns : Service!Admit(c)
    BY <1>4, <2>2 DEF Service!Drop, Service!Admit
  <2>4. QED
    BY <2>1, <2>3 DEF Service!Next, Ended
<1>5. ASSUME s.socket # NoConn, srv'.socket = s.socket, srv'.process = s.process,
             Quiet(s, srv'), NEW on \in BOOLEAN, Switched(s, srv', on),
             NEW c \in Asking(srv), c \in Closed(srv) \cup {srv.socket}
      PROVE  [Service!Next]_Service!svars /\ (Own(srv) => Own(srv'))
  <2>1. Quiet(srv, srv')
    BY <1>5, QuietTwice
  <2>2. Service!Command(c, on)
    BY <1>1, <1>2, <1>5, <2>1
    DEF Service!Command, Service!NoneAsks, Quiet, Switched, Closed
  <2>3. c \in Conns
    BY DEF Asking
  <2>4. QED
    BY <2>1, <2>2, <2>3 DEF Service!Next, Quiet
<1>6. CASE /\ srv'.socket = s.socket /\ srv'.process \in {"aborted", "terminated"}
           /\ Quiet(s, srv')
  <2>1. Quiet(srv, srv')
    BY <1>6, QuietTwice
  <2>2. Service!BreakDown
    BY <1>1, <1>2, <1>6, <2>1
    DEF Service!BreakDown, Service!NoneAsks, Quiet, Closed
  <2>3. QED
    BY <2>1, <2>2 DEF Service!Next, Quiet
<1>7. QED
  BY <1>3, <1>4, <1>5, <1>6 DEF Handled

\* The buffer only holds a command when the read that is handled received one.
LEMMA ContentsOfCommand ==
    ASSUME NEW s, NEW q, NEW r \in Contents(s, q), r \in Command
    PROVE  q \in Command
BY DEF Contents

\* The handler of a read that c's reads allow, run in s.
LEMMA ReadIsServiceStep ==
    ASSUME srv \in ServerState, srv.process = "running",
           NEW s \in ServerState, Same(Popped, s), Quiet(srv, s),
           NEW r, srv' = read_handler(s, r),
           NEW c \in Conns, r \in Command => c \in Asking(srv),
           c \in Closed(srv) \cup {srv.socket}
    PROVE  [Service!Next]_Service!svars /\ (Own(srv) => Own(srv'))
<1>1. \/ /\ s.socket # NoConn /\ srv'.socket = s.socket
         /\ srv'.process = s.process /\ Quiet(s, srv') /\ r \in Command
         /\ \E on \in BOOLEAN : Switched(s, srv', on)
      \/ s.socket # NoConn /\ Same(s, srv') /\ Quiet(s, srv')
      \/ /\ srv'.socket = s.socket /\ srv'.process = "aborted" /\ Quiet(s, srv')
      \/ /\ srv'.socket = NoConn /\ srv'.process = s.process
         /\ Switched(s, srv', FALSE) /\ Ended(s, srv')
  BY ReadHandlerShown
<1>2. Handled(s)
  BY <1>1 DEF Handled
<1>3. QED
  BY <1>2, HandledIsServiceStep

LEMMA DispatchReadIsServiceStep ==
    ASSUME srv \in ServerState, Own(srv), DispatchRead
    PROVE  [Service!Next]_Service!svars /\ Own(srv')
<1> DEFINE e == Head(srv.queue)
<1>1. srv.process = "running" /\ srv.queue # <<>> /\ e.op = "read"
  BY DEF DispatchRead, Dispatchable
<1>2. Popped \in ServerState /\ e.conn \in Conns
  BY <1>1, PoppedType
<1>3. Quiet(srv, Popped) /\ e \in Range(srv.queue)
  BY <1>1, PoppedQuiet
<1>4. e.conn \in Closed(srv) \cup {srv.socket}
  BY <1>1, <1>2, <1>3 DEF Own, OwnReads, Closed
<1>5. PICK r \in Contents(Popped, e.result) : srv' = read_handler(Popped, r)
  BY DEF DispatchRead
<1>6. r \in Command => e.conn \in Asking(srv)
  BY <1>1, <1>2, <1>3, <1>5, ContentsOfCommand DEF Asking
<1>7. Same(Popped, Popped)
  BY DEF Same
<1>8. QED
  <2> HIDE DEF e
  <2>1. QED
    BY <1>1, <1>2, <1>3, <1>4, <1>5, <1>6, <1>7, ReadIsServiceStep

LEMMA DispatchPollIsServiceStep ==
    ASSUME srv \in ServerState, Own(srv), DispatchPoll
    PROVE  [Service!Next]_Service!svars /\ Own(srv')
<1> DEFINE c == Head(srv.queue).conn
           n == Completable(Popped, c)
           s == Perform(Popped, c, n)
           m == Received(srv.inbox[c], 1)
<1>1. srv.process = "running" /\ srv.queue # <<>> /\ Head(srv.queue).op = "poll"
  BY DEF DispatchPoll, Dispatchable
<1>2. Popped \in ServerState /\ c \in Conns /\ Quiet(srv, Popped)
  BY <1>1, PoppedType, PoppedQuiet
<1>3. n \in 0..Popped.reads[c] /\ srv.reads[c] \in Nat
  BY <1>2, CompletableType, InboxType
<1>4. CASE n = 0
  <2>1. srv' = Popped
    BY <1>4 DEF DispatchPoll
  <2>2. Same(Popped, srv') /\ Quiet(Popped, srv')
    BY <2>1, NoReadQuiet DEF Same
  <2>3. Handled(Popped)
    BY <2>2 DEF Handled
  <2>4. Same(Popped, Popped)
    BY DEF Same
  <2>5. QED
    BY <1>1, <1>2, <2>3, <2>4, HandledIsServiceStep
<1>5. CASE n # 0
  <2>1. srv.reads[c] > 0
    <3>1. Popped.reads[c] = srv.reads[c]
      BY PoppedFields
    <3> HIDE DEF n, c
    <3>2. QED
      BY <1>3, <1>5, <3>1
  <2>2. c = srv.socket /\ c = Popped.socket
    BY <1>2, <2>1, PoppedFields DEF Own, OnlyHeldRead
  <2>3. s \in ServerState /\ Same(Popped, s) /\ Quiet(Popped, s)
    <3> HIDE DEF c, n
    <3>1. QED
      BY <1>2, <1>3, <2>2, PerformedType, PerformSame, PerformQuiet
  <2>4. Quiet(srv, s)
    <3> HIDE DEF s
    <3>1. QED
      BY <1>2, <2>3, QuietTwice
  <2>5. PICK r \in Contents(s, m) : srv' = read_handler(s, r)
    BY <1>5 DEF DispatchPoll
  <2>6. m \in Command => m \in Range(srv.inbox[c])
    <3>1. srv.inbox[c] \in Seq(Command \cup {"eof"}) /\ 1 \in Nat \ {0}
      BY <1>2, InboxType
    <3>2. QED
      BY <3>1, ReadFromInbox
  <2>7. r \in Command => c \in Asking(srv)
    <3> HIDE DEF s, m, c
    <3>1. QED
      BY <1>2, <2>5, <2>6, ContentsOfCommand DEF Asking
  <2>8. QED
    <3> HIDE DEF s, m, c
    <3>1. QED
      BY <1>1, <1>2, <2>2, <2>3, <2>4, <2>5, <2>7, ReadIsServiceStep
<1>6. QED
  BY <1>4, <1>5

LEMMA DispatchIsServiceStep ==
    ASSUME srv \in ServerState, Own(srv), Dispatch
    PROVE  [Service!Next]_Service!svars /\ Own(srv')
<1>1. srv.process = "running" /\ srv.queue # <<>>
  BY DEF Dispatch, DispatchAccept, DispatchRead, DispatchPoll, DispatchWait,
         DispatchFrame, DispatchStatus, Dispatchable
<1>2. /\ Popped \in ServerState /\ Popped.process = "running"
      /\ Popped.socket = srv.socket /\ Popped.streaming = srv.streaming
      /\ Head(srv.queue).conn \in Conns \cup {NoConn}
      /\ Quiet(srv, Popped) /\ Same(Popped, Popped)
  BY <1>1, PoppedType, PoppedShown, PoppedQuiet DEF Same
<1>3. ASSUME Handled(Popped)
      PROVE  [Service!Next]_Service!svars /\ Own(srv')
  BY <1>1, <1>2, <1>3, HandledIsServiceStep
<1>4. CASE DispatchAccept
  <2> DEFINE c == Head(srv.queue).conn
  <2>1. srv' = accept_handler(Popped, c)
    BY <1>4 DEF DispatchAccept
  <2>2. Handled(Popped)
    BY <1>2, <2>1, AcceptHandlerShown DEF Handled
  <2>3. QED
    BY <1>3, <2>2
<1>5. CASE DispatchRead
  BY <1>5, DispatchReadIsServiceStep
<1>6. CASE DispatchPoll
  BY <1>6, DispatchPollIsServiceStep
<1>7. CASE DispatchWait
  <2>1. srv' = wait_handler(Popped, Head(srv.queue).result)
    BY <1>7 DEF DispatchWait
  <2>2. Handled(Popped)
    BY <1>2, <2>1, WaitHandlerShown DEF Handled
  <2>3. QED
    BY <1>3, <2>2
<1>8. CASE DispatchFrame
  <2>1. PICK p \in {"running", "blocked", "terminated"} :
          srv' = [Popped EXCEPT !.process = p]
    BY <1>8 DEF DispatchFrame, send_frame, FrameOutcomes
  <2>2. /\ srv'.process = p /\ srv'.socket = Popped.socket
        /\ srv'.streaming = Popped.streaming
    BY <1>2, <2>1 DEF ServerState
  <2>3. Quiet(srv, srv')
    BY <1>2, <2>1, AbortQuiet, QuietTwice
  <2>4. CASE p = "terminated"
    <3>1. Service!BreakDown
      BY <1>1, <1>2, <2>2, <2>3, <2>4
      DEF Service!BreakDown, Service!NoneAsks, Quiet, Closed, Alive
    <3>2. QED
      BY <2>3, <3>1 DEF Service!Next, Quiet
  <2>5. CASE p # "terminated"
    <3>1. Service!Forget
      BY <1>1, <1>2, <2>2, <2>3, <2>5
      DEF Service!Forget, Service!NoneAsks, Quiet, Closed, Alive
    <3>2. QED
      BY <2>3, <3>1 DEF Service!Next, Quiet
  <2>6. QED
    BY <2>4, <2>5
<1>9. CASE DispatchStatus
  <2>1. srv' = update_stream_status(Popped, srv.streaming)
    BY <1>9 DEF DispatchStatus
  <2>2. srv.streaming \in BOOLEAN
    BY DEF ServerState
  <2>3. /\ srv'.socket = srv.socket /\ srv'.process = srv.process
        /\ srv'.streaming = srv.streaming
    BY <1>1, <1>2, <2>1, <2>2, StatusSwitched DEF Switched
  <2>4. Quiet(srv, srv')
    BY <1>2, <2>1, StatusQuiet, QuietTwice
  <2>5. Service!Forget
    BY <1>1, <2>3, <2>4 DEF Service!Forget, Service!NoneAsks, Quiet, Closed, Alive
  <2>6. QED
    BY <2>4, <2>5 DEF Service!Next, Quiet
<1>10. QED
  BY <1>4, <1>5, <1>6, <1>7, <1>8, <1>9 DEF Dispatch

\* The reactor and the clients leave the service as it was.
Unshown ==
    /\ srv'.socket = srv.socket /\ srv'.streaming = srv.streaming
    /\ srv'.process = srv.process /\ srv'.calls = <<>>

LEMMA EnqueueUnshown ==
    ASSUME NEW s \in ServerState, NEW e \in Completion
    PROVE  LET t == Enqueue(s, e)
           IN  /\ t \in ServerState /\ t.calls = <<>>
               /\ t.socket = s.socket /\ t.streaming = s.streaming
               /\ t.process = s.process
BY EnqueueType DEF Enqueue, ServerState

LEMMA ReactorUnshown ==
    ASSUME srv \in ServerState, Reactor
    PROVE  Unshown
<1>1. CASE AcceptFails
  <2>1. AcceptError \in Completion
    BY DEF AcceptError, Completion, Result, ReadError
  <2>2. ASSUME NEW t \in ServerState
        PROVE  Same(t, [t EXCEPT !.accepting = FALSE])
    BY DEF ServerState, Same
  <2>3. QED
    BY <1>1, <2>1, <2>2, EnqueueUnshown DEF AcceptFails, Unshown, Same
<1>2. CASE Elapse
  <2>1. ASSUME NEW f
        PROVE  LET t == [srv EXCEPT !.timer = "due", !.calls = f]
               IN  /\ t.socket = srv.socket /\ t.streaming = srv.streaming
                   /\ t.process = srv.process /\ t.calls = f
    BY DEF ServerState
  <2>2. QED
    BY <1>2, <2>1 DEF Elapse, Unshown
<1>3. CASE TimerExpires
  <2>1. WaitDone("ok") \in Completion
    BY WaitDoneType
  <2>2. ASSUME NEW t \in ServerState
        PROVE  Same(t, [t EXCEPT !.timer = "idle"])
    BY DEF ServerState, Same
  <2>3. QED
    BY <1>3, <2>1, <2>2, EnqueueUnshown DEF TimerExpires, Unshown, Same
<1>4. ASSUME NEW c \in Conns, AcceptReady(c)
      PROVE  Unshown
  <2>1. Accepted(c) \in Completion
    BY CompletionTypes DEF Result
  <2>2. ASSUME NEW t \in ServerState
        PROVE  Same(t, [t EXCEPT !.accepting = FALSE, !.status[c] = "open"])
    BY DEF ServerState, Same
  <2>3. QED
    BY <1>4, <2>1, <2>2, EnqueueUnshown DEF AcceptReady, Unshown, Same
<1>5. ASSUME NEW c \in Conns, ReadReady(c)
      PROVE  Unshown
  <2>1. Poll(c) \in Completion
    BY CompletionTypes DEF Result
  <2>2. QED
    BY <1>5, <2>1, EnqueueUnshown DEF ReadReady, Unshown
<1>6. QED
  BY <1>1, <1>2, <1>3, <1>4, <1>5 DEF Reactor

LEMMA ClientUnshown ==
    ASSUME srv \in ServerState, NEW c \in Conns, Client(c)
    PROVE  Unshown
<1>1. ASSUME NEW f, NEW v,
             \/ srv' = [srv EXCEPT !.status[c] = v, !.calls = f]
             \/ srv' = [srv EXCEPT !.inbox[c] = v, !.calls = f]
             \/ srv' = [srv EXCEPT !.calls = f]
      PROVE  /\ srv'.socket = srv.socket /\ srv'.streaming = srv.streaming
             /\ srv'.process = srv.process /\ srv'.calls = f
  BY <1>1 DEF ServerState
<1>2. CASE Connect(c)
  BY <1>1, <1>2 DEF Connect, Unshown
<1>3. CASE Disconnect(c)
  BY <1>1, <1>3 DEF Disconnect, Unshown
<1>4. CASE Vanish(c)
  BY <1>1, <1>4 DEF Vanish, Unshown
<1>5. ASSUME NEW m \in Messages, Send(c, m)
      PROVE  Unshown
  BY <1>1, <1>5 DEF Send, Unshown
<1>6. QED
  BY <1>2, <1>3, <1>4, <1>5 DEF Client

LEMMA OthersUnshown ==
    ASSUME srv \in ServerState, Reactor \/ \E c \in Conns : Client(c)
    PROVE  Unshown
BY ReactorUnshown, ClientUnshown

LEMMA UnblockShown ==
    ASSUME srv \in ServerState, Unblock
    PROVE  /\ srv.process = "blocked"
           /\ srv'.process \in {"running", "terminated"}
           /\ srv'.socket = srv.socket /\ srv'.streaming = srv.streaming
           /\ srv'.calls = <<>>
<1>1. ASSUME NEW p, NEW f
      PROVE  LET t == [srv EXCEPT !.calls = f, !.process = p]
             IN  /\ t.process = p /\ t.socket = srv.socket
                 /\ t.streaming = srv.streaming /\ t.calls = f
  BY DEF ServerState
<1>2. QED
  BY <1>1 DEF Unblock

\* A connection that is opened is none of those that were closed.
LEMMA OpenedQuiet ==
    ASSUME NEW s \in ServerState, NEW t, NEW c \in Conns, s.status[c] # "closed",
           t.socket = s.socket, t.reads = s.reads, t.inbox = s.inbox,
           t.status[c] # "closed",
           \A d \in Conns : d # c => t.status[d] = s.status[d],
           \A e \in Range(t.queue) : e \in Range(s.queue) \/ e.op # "read"
    PROVE  Quiet(s, t)
<1>1. NoneNew(s, t)
  BY DEF NoneNew
<1>2. Closed(t) = Closed(s)
  BY DEF Closed
<1>3. ASSUME Own(s), NEW e \in Range(t.queue), e.op = "read"
      PROVE  e.conn = t.socket \/ t.status[e.conn] = "closed"
  <2>1. e \in Range(s.queue)
    BY <1>3
  <2>2. e \in Completion
    <3>1. s.queue \in Seq(Completion)
      BY QueueType
    <3>2. QED
      BY <2>1, <3>1 DEF Range
  <2>3. e.conn \in Conns
    BY <1>3, <2>2 DEF Completion
  <2>4. QED
    BY <1>3, <2>1, <2>3 DEF Own, OwnReads
<1>4. Own(s) => Own(t)
  BY <1>3 DEF Own, OnlyHeldRead, OwnReads
<1>5. QED
  BY <1>1, <1>2, <1>4, NoneNewAsks DEF Quiet

\* What the reactor finds ready is no completed read.
LEMMA EnqueuedRange ==
    ASSUME NEW s \in ServerState, NEW e \in Completion, e.op # "read"
    PROVE  LET t == Enqueue(s, e)
           IN  /\ t.socket = s.socket /\ t.status = s.status
               /\ t.reads = s.reads /\ t.inbox = s.inbox
               /\ \A x \in Range(t.queue) : x \in Range(s.queue) \/ x.op # "read"
<1>1. Range(Append(s.queue, e)) = Range(s.queue) \cup {e}
  BY QueueType, AppendRange
<1>2. LET t == Enqueue(s, e)
      IN  /\ t.socket = s.socket /\ t.status = s.status
          /\ t.reads = s.reads /\ t.inbox = s.inbox
          /\ t.queue = Append(s.queue, e)
  BY DEF Enqueue, ServerState
<1>3. QED
  BY <1>1, <1>2

LEMMA EnqueueQuiet ==
    ASSUME NEW s \in ServerState, NEW e \in Completion, e.op # "read"
    PROVE  Quiet(s, Enqueue(s, e))
BY EnqueuedRange, NoReadQuiet

LEMMA ReactorQuiet ==
    ASSUME srv \in ServerState, Reactor
    PROVE  Quiet(srv, srv')
<1>1. CASE AcceptFails
  <2>1. AcceptError \in Completion /\ AcceptError.op # "read"
    BY DEF AcceptError, Completion, Result, ReadError
  <2> DEFINE t == Enqueue(srv, AcceptError)
  <2>2. t \in ServerState /\ srv' = [t EXCEPT !.accepting = FALSE]
    BY <1>1, <2>1, EnqueueType DEF AcceptFails
  <2>3. /\ srv'.socket = t.socket /\ srv'.status = t.status
        /\ srv'.reads = t.reads /\ srv'.inbox = t.inbox /\ srv'.queue = t.queue
    <3> HIDE DEF t
    <3>1. QED
      BY <2>2 DEF ServerState
  <2>4. Quiet(srv, t)
    BY <2>1, EnqueueQuiet
  <2>5. QED
    <3> HIDE DEF t
    <3>1. Quiet(t, srv')
      BY <2>3, NoReadQuiet
    <3>2. QED
      BY <2>4, <3>1, QuietTwice
<1>2. CASE Elapse
  <2>1. ASSUME NEW f
        PROVE  LET t == [srv EXCEPT !.timer = "due", !.calls = f]
               IN  /\ t.socket = srv.socket /\ t.status = srv.status
                   /\ t.reads = srv.reads /\ t.inbox = srv.inbox
                   /\ t.queue = srv.queue
    BY DEF ServerState
  <2>2. QED
    BY <1>2, <2>1, NoReadQuiet DEF Elapse
<1>3. CASE TimerExpires
  <2>1. WaitDone("ok") \in Completion /\ WaitDone("ok").op # "read"
    BY WaitDoneType DEF WaitDone
  <2> DEFINE t == Enqueue(srv, WaitDone("ok"))
  <2>2. t \in ServerState /\ srv' = [t EXCEPT !.timer = "idle"]
    BY <1>3, <2>1, EnqueueType DEF TimerExpires
  <2>3. /\ srv'.socket = t.socket /\ srv'.status = t.status
        /\ srv'.reads = t.reads /\ srv'.inbox = t.inbox /\ srv'.queue = t.queue
    <3> HIDE DEF t
    <3>1. QED
      BY <2>2 DEF ServerState
  <2>4. Quiet(srv, t)
    BY <2>1, EnqueueQuiet
  <2>5. QED
    <3> HIDE DEF t
    <3>1. Quiet(t, srv')
      BY <2>3, NoReadQuiet
    <3>2. QED
      BY <2>4, <3>1, QuietTwice
<1>4. ASSUME NEW c \in Conns, AcceptReady(c)
      PROVE  Quiet(srv, srv')
  <2>1. Accepted(c) \in Completion /\ Accepted(c).op # "read"
    BY CompletionTypes DEF Result, Accepted
  <2> DEFINE t == Enqueue(srv, Accepted(c))
  <2>2. t \in ServerState
    BY <2>1, EnqueueType
  <2>3. srv' = [t EXCEPT !.accepting = FALSE, !.status[c] = "open"]
    BY <1>4 DEF AcceptReady
  <2>4. /\ srv'.socket = t.socket /\ srv'.reads = t.reads
        /\ srv'.inbox = t.inbox /\ srv'.queue = t.queue
        /\ srv'.status[c] = "open"
        /\ \A d \in Conns : d # c => srv'.status[d] = t.status[d]
    <3> HIDE DEF t
    <3>1. QED
      BY <2>2, <2>3 DEF ServerState
  <2>5. /\ t.socket = srv.socket /\ t.status = srv.status
        /\ t.reads = srv.reads /\ t.inbox = srv.inbox
        /\ \A x \in Range(t.queue) : x \in Range(srv.queue) \/ x.op # "read"
    BY <2>1, EnqueuedRange
  <2>6. srv.status[c] = "backlog"
    BY <1>4 DEF AcceptReady
  <2>7. QED
    <3> HIDE DEF t
    <3>1. /\ srv'.socket = srv.socket /\ srv'.reads = srv.reads
          /\ srv'.inbox = srv.inbox /\ srv'.status[c] # "closed"
          /\ srv.status[c] # "closed"
          /\ \A d \in Conns : d # c => srv'.status[d] = srv.status[d]
          /\ \A x \in Range(srv'.queue) : x \in Range(srv.queue) \/ x.op # "read"
      BY <2>4, <2>5, <2>6
    <3>2. QED
      BY <3>1, OpenedQuiet
<1>5. ASSUME NEW c \in Conns, ReadReady(c)
      PROVE  Quiet(srv, srv')
  <2>1. Poll(c) \in Completion /\ Poll(c).op # "read"
    BY CompletionTypes DEF Result, Poll
  <2>2. QED
    BY <1>5, <2>1, EnqueueQuiet DEF ReadReady
<1>6. QED
  BY <1>1, <1>2, <1>3, <1>4, <1>5 DEF Reactor

\* A client that sends a command asks; nothing else that clients do is one.
LEMMA ClientAsks ==
    ASSUME srv \in ServerState, NEW c \in Conns, Client(c)
    PROVE  /\ Quiet(srv, srv') \/ (Asking(srv') = Asking(srv) \cup {c} /\ Reachable(c))
           /\ Closed(srv') = Closed(srv)
           /\ Own(srv) => Own(srv')
<1>1. CASE Connect(c)
  <2>1. ASSUME NEW f
        PROVE  LET t == [srv EXCEPT !.status[c] = "backlog", !.calls = f]
               IN  /\ t.socket = srv.socket /\ t.reads = srv.reads
                   /\ t.inbox = srv.inbox /\ t.queue = srv.queue
                   /\ t.status[c] # "closed"
                   /\ \A d \in Conns : d # c => t.status[d] = srv.status[d]
    BY DEF ServerState
  <2>2. srv.status[c] = "none"
    BY <1>1 DEF Connect
  <2>3. /\ srv'.socket = srv.socket /\ srv'.reads = srv.reads
        /\ srv'.inbox = srv.inbox /\ srv'.queue = srv.queue
        /\ srv'.status[c] # "closed"
        /\ \A d \in Conns : d # c => srv'.status[d] = srv.status[d]
    BY <1>1, <2>1 DEF Connect
  <2>4. Quiet(srv, srv')
    BY <2>2, <2>3, OpenedQuiet
  <2>5. QED
    BY <2>4 DEF Quiet
<1>2. ASSUME NEW m \in Command \cup {"eof"},
             srv' = [srv EXCEPT !.inbox[c] = Append(@, m), !.calls = <<>>]
      PROVE  /\ m \notin Command => Quiet(srv, srv')
             /\ m \in Command => Asking(srv') = Asking(srv) \cup {c}
             /\ Closed(srv') = Closed(srv)
             /\ Own(srv) => Own(srv')
  <2> DEFINE b == Append(srv.inbox[c], m)
  <2>1. ASSUME NEW p, NEW f
        PROVE  LET t == [srv EXCEPT !.inbox[c] = p, !.calls = f]
               IN  /\ t.socket = srv.socket /\ t.status = srv.status
                   /\ t.reads = srv.reads /\ t.queue = srv.queue
                   /\ t.inbox[c] = p
                   /\ \A d \in Conns : d # c => t.inbox[d] = srv.inbox[d]
    BY DEF ServerState
  <2>2. /\ srv'.socket = srv.socket /\ srv'.status = srv.status
        /\ srv'.reads = srv.reads /\ srv'.queue = srv.queue
        /\ srv'.inbox[c] = b
        /\ \A d \in Conns : d # c => srv'.inbox[d] = srv.inbox[d]
    <3>1. srv' = [srv EXCEPT !.inbox[c] = b, !.calls = <<>>]
      BY <1>2
    <3> HIDE DEF b
    <3>2. QED
      BY <2>1, <3>1
  <2>3. Range(b) = Range(srv.inbox[c]) \cup {m}
    BY <1>2, InboxType, AppendRange
  <2>4. Closed(srv') = Closed(srv) /\ (Own(srv) => Own(srv'))
    BY <2>2 DEF Closed, Own, OnlyHeldRead, OwnReads
  <2>5. ASSUME m \notin Command
        PROVE  Quiet(srv, srv')
    <3>1. NoneNew(srv, srv')
      <4> HIDE DEF b
      <4>1. QED
        BY <2>2, <2>3, <2>5 DEF NoneNew
    <3>2. QED
      BY <2>4, <3>1, NoneNewAsks DEF Quiet
  <2>6. ASSUME m \in Command
        PROVE  Asking(srv') = Asking(srv) \cup {c}
    <3> HIDE DEF b
    <3>1. Range(srv'.inbox[c]) \cap Command # {}
      BY <2>2, <2>3, <2>6
    <3>2. c \in Asking(srv')
      BY <3>1 DEF Asking
    <3>3. \A d \in Conns : d # c => (d \in Asking(srv') <=> d \in Asking(srv))
      BY <2>2 DEF Asking
    <3>4. Asking(srv') \subseteq Conns /\ Asking(srv) \subseteq Conns
      BY DEF Asking
    <3>5. QED
      BY <3>2, <3>3, <3>4
  <2>7. QED
    BY <2>4, <2>5, <2>6
<1>3. CASE Disconnect(c)
  <2>1. "eof" \in Command \cup {"eof"} /\ "eof" \notin Command
    BY DEF Command
  <2>2. srv' = [srv EXCEPT !.inbox[c] = Append(@, "eof"), !.calls = <<>>]
    BY <1>3 DEF Disconnect
  <2>3. QED
    BY <1>2, <2>1, <2>2
<1>4. CASE Vanish(c)
  <2>1. LET t == [srv EXCEPT !.calls = <<>>]
        IN  /\ t.socket = srv.socket /\ t.status = srv.status
            /\ t.reads = srv.reads /\ t.inbox = srv.inbox /\ t.queue = srv.queue
    BY DEF ServerState
  <2>2. Quiet(srv, srv')
    BY <1>4, <2>1, NoReadQuiet DEF Vanish
  <2>3. QED
    BY <2>2 DEF Quiet
<1>5. ASSUME NEW m \in Messages, Send(c, m)
      PROVE  /\ Asking(srv') = Asking(srv) \cup {c} /\ Reachable(c)
             /\ Closed(srv') = Closed(srv)
             /\ Own(srv) => Own(srv')
  <2>1. m \in Command
    BY BoundsAssumption
  <2>2. srv' = [srv EXCEPT !.inbox[c] = Append(@, m), !.calls = <<>>] /\ Reachable(c)
    BY <1>5 DEF Send
  <2>3. QED
    BY <1>2, <2>1, <2>2
<1>6. QED
  BY <1>1, <1>3, <1>4, <1>5 DEF Client

LEMMA OtherIsServiceStep ==
    ASSUME srv \in ServerState, Reactor \/ \E c \in Conns : Client(c)
    PROVE  [Service!Next]_Service!svars /\ (Own(srv) => Own(srv'))
<1>1. Unshown
  BY OthersUnshown
<1>2. Alive /\ Alive'
  <2>1. Alive
    BY DEF Reactor, AcceptFails, Elapse, TimerExpires, AcceptReady, ReadReady,
           Client, Connect, Disconnect, Vanish, Send, Reachable, Alive
  <2>2. QED
    BY <1>1, <2>1 DEF Unshown, Alive
<1>3. CASE Quiet(srv, srv')
  <2>1. Service!Forget
    BY <1>1, <1>2, <1>3 DEF Service!Forget, Service!NoneAsks, Quiet, Closed, Unshown
  <2>2. QED
    BY <1>3, <2>1 DEF Service!Next, Quiet
<1>4. ASSUME NEW c \in Conns, Asking(srv') = Asking(srv) \cup {c}, Reachable(c),
             Closed(srv') = Closed(srv)
      PROVE  Service!Next
  <2>1. c \notin Closed(srv)
    BY <1>4 DEF Reachable, Closed
  <2>2. Service!Ask(c)
    BY <1>1, <1>2, <1>4, <2>1 DEF Service!Ask, Closed, Unshown
  <2>3. QED
    BY <2>2 DEF Service!Next
<1>5. QED
  BY <1>3, <1>4, ReactorQuiet, ClientAsks DEF Quiet

LEMMA UnblockIsServiceStep ==
    ASSUME srv \in ServerState, Unblock
    PROVE  [Service!Next]_Service!svars /\ (Own(srv) => Own(srv'))
<1>1. /\ srv.process = "blocked" /\ srv'.process \in {"running", "terminated"}
      /\ srv'.socket = srv.socket /\ srv'.streaming = srv.streaming
  BY UnblockShown
<1>2. Quiet(srv, srv')
  <2>1. ASSUME NEW p, NEW f
        PROVE  LET t == [srv EXCEPT !.calls = f, !.process = p]
               IN  /\ t.socket = srv.socket /\ t.status = srv.status
                   /\ t.reads = srv.reads /\ t.inbox = srv.inbox
                   /\ t.queue = srv.queue
    BY DEF ServerState
  <2>2. /\ srv'.socket = srv.socket /\ srv'.status = srv.status
        /\ srv'.reads = srv.reads /\ srv'.inbox = srv.inbox
        /\ srv'.queue = srv.queue
    BY <2>1 DEF Unblock
  <2>3. QED
    BY <2>2, NoReadQuiet
<1>3. CASE srv'.process = "terminated"
  <2>1. Service!BreakDown
    BY <1>1, <1>2, <1>3 DEF Service!BreakDown, Service!NoneAsks, Quiet, Closed, Alive
  <2>2. QED
    BY <1>2, <2>1 DEF Service!Next, Quiet
<1>4. CASE srv'.process = "running"
  <2>1. Service!Forget
    BY <1>1, <1>2, <1>4 DEF Service!Forget, Service!NoneAsks, Quiet, Closed, Alive
  <2>2. QED
    BY <1>2, <2>1 DEF Service!Next, Quiet
<1>5. QED
  BY <1>1, <1>3, <1>4

LEMMA NextIsServiceStep ==
    ASSUME TypeOK, Own(srv), [ServerNext]_vars
    PROVE  [Service!Next]_Service!svars /\ Own(srv')
<1>1. srv \in ServerState
  BY DEF TypeOK
<1>2. CASE Dispatch
  BY <1>1, <1>2, DispatchIsServiceStep
<1>3. CASE Unblock
  BY <1>1, <1>3, UnblockIsServiceStep
<1>4. CASE Reactor \/ \E c \in Conns : Client(c)
  BY <1>1, <1>4, OtherIsServiceStep
<1>5. CASE UNCHANGED vars
  BY <1>5 DEF vars, Alive, Asking, Service!svars
<1>6. QED
  BY <1>2, <1>3, <1>4, <1>5 DEF ServerNext

LEMMA InitIsServiceInit == Init => Service!Init /\ Own(srv)
<1> SUFFICES ASSUME Init PROVE Service!Init /\ Own(srv)
  OBVIOUS
<1>1. /\ srv.socket = NoConn /\ srv.streaming = FALSE /\ srv.process = "running"
      /\ srv.queue = <<>> /\ \A c \in Conns : /\ srv.reads[c] = 0
                                              /\ srv.status[c] = "none"
                                              /\ srv.inbox[c] = <<>>
  BY DEF Init
<1>2. Range(<<>>) = {}
  BY DEF Range
<1>3. Own(srv)
  BY <1>1, <1>2 DEF Own, OnlyHeldRead, OwnReads
<1>4. Asking(srv) = {} /\ {c \in Conns : srv.status[c] = "closed"} = {}
  BY <1>1, <1>2 DEF Asking
<1>5. QED
  BY <1>1, <1>3, <1>4 DEF Service!Init, Alive

\* Every read that asio still has for the server is one of the connection that it
\* holds or of one that it closed, whatever was accepted since.
THEOREM ReadsAreOwn == Spec => []Own(srv)
<1>1. TypeOK /\ Own(srv) /\ [Next]_vars => Own(srv)'
  BY NextIsServiceStep, NextIsServerNext
<1>2. QED
  BY <1>1, InitIsServiceInit, TypeCorrect, PTL DEF Spec

\* Whatever the order of the handlers, and whatever asio still has queued for
\* earlier connections, every step of the server is a step of the service or
\* none: a new client never inherits the stream, the stream is only switched by a
\* command that the client that is served sent, or a client served before sent
\* while it was connected, and nothing happens after a break-down.
THEOREM ServiceImplemented == Spec => ImplementsService
<1>1. Init => Service!Init
  BY InitIsServiceInit
<1>2. TypeOK /\ Own(srv) /\ [Next]_vars => [Service!Next]_Service!svars
  BY NextIsServiceStep, NextIsServerNext
<1>3. QED
  BY <1>1, <1>2, TypeCorrect, ReadsAreOwn, PTL
  DEF Spec, ImplementsService, Service!Spec
=============================================================================
