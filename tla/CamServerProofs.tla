-------------------------- MODULE CamServerProofs --------------------------
(* Theorems about CamServer, for every set of connections and every bound. *)
EXTENDS CamServer, SequenceTheorems, TLAPS

-----------------------------------------------------------------------------
(* Every operation of asio and of Server leaves a state of the server.     *)

LEMMA CompletionTypes ==
    ASSUME NEW c \in Conns, NEW r \in Result
    PROVE  /\ Accepted(c) \in Completion /\ AcceptError \in Completion
           /\ Poll(c) \in Completion /\ ReadDone(c, r) \in Completion
           /\ Frame \in Completion /\ StatusRequest \in Completion
BY DEF Completion, Accepted, AcceptError, Poll, ReadDone, Frame,
       StatusRequest, Result, ReadError

LEMMA WaitDoneType ==
    ASSUME NEW r \in {"ok", "aborted"}
    PROVE  WaitDone(r) \in Completion
BY DEF Completion, WaitDone

LEMMA QueueType ==
    ASSUME NEW s \in ServerState
    PROVE  /\ s.queue \in Seq(Completion)
           /\ \A e \in Completion : Append(s.queue, e) \in Seq(Completion)
           /\ \A q \in Seq(Completion) : s.queue \o q \in Seq(Completion)
BY DEF ServerState

LEMMA InboxType ==
    ASSUME NEW s \in ServerState, NEW c \in Conns
    PROVE  s.inbox[c] \in Seq(Command \cup {"eof"}) /\ s.reads[c] \in Nat
BY DEF ServerState

LEMMA CopiesType ==
    ASSUME NEW n \in Nat, NEW e \in Completion
    PROVE  Copies(n, e) \in Seq(Completion)
BY DEF Copies

LEMMA CancelType ==
    ASSUME NEW s \in ServerState
    PROVE  Cancel(s) \in ServerState
<1>1. Append(s.queue, WaitDone("aborted")) \in Seq(Completion)
  BY QueueType, WaitDoneType
<1>2. [s EXCEPT !.timer = "idle", !.queue = Append(@, WaitDone("aborted"))]
        \in ServerState
  BY <1>1 DEF ServerState, TimerStatus
<1>3. QED
  BY <1>2 DEF Cancel

LEMMA CloseType ==
    ASSUME NEW s \in ServerState, NEW c \in Conns
    PROVE  Close(s, c) \in ServerState
<1>1. ASSUME NEW q \in Seq(Completion), NEW b \in Seq(Command \cup {"eof"})
      PROVE  [s EXCEPT !.status[c] = "closed", !.reads[c] = 0,
                       !.inbox[c] = b, !.queue = q] \in ServerState
  BY DEF ServerState, ConnStatus
<1>2. s.queue \o Copies(s.reads[c], ReadDone(c, "aborted")) \in Seq(Completion)
  BY QueueType, InboxType, CopiesType, CompletionTypes DEF Result, ReadError
<1>3. <<>> \in Seq(Command \cup {"eof"})
  OBVIOUS
<1>4. QED
  BY <1>1, <1>2, <1>3 DEF Close

LEMMA RemainingType ==
    ASSUME NEW b \in Seq(Command \cup {"eof"}), NEW n \in Nat
    PROVE  Remaining(b, n) \in Seq(Command \cup {"eof"})
<1>1. n < Len(b) => SubSeq(b, n + 1, Len(b)) \in Seq(Command \cup {"eof"})
  OBVIOUS
<1>2. <<"eof">> \in Seq(Command \cup {"eof"}) /\ <<>> \in Seq(Command \cup {"eof"})
  OBVIOUS
<1>3. QED
  BY <1>1, <1>2 DEF Remaining

LEMMA ReceivedType ==
    ASSUME NEW b \in Seq(Command \cup {"eof"}), NEW i \in Nat \ {0}
    PROVE  Received(b, i) \in Command \cup {"eof"}
BY DEF Received

LEMMA FirstReceivedType ==
    ASSUME NEW s \in ServerState, NEW c \in Conns
    PROVE  ReadDone(c, Received(s.inbox[c], 1)) \in Completion
<1>1. Received(s.inbox[c], 1) \in Command \cup {"eof"}
  <2>1. s.inbox[c] \in Seq(Command \cup {"eof"}) /\ 1 \in Nat \ {0}
    BY InboxType
  <2>2. QED
    BY <2>1, ReceivedType
<1>2. Received(s.inbox[c], 1) \in Result
  BY <1>1 DEF Result, ReadError
<1>3. QED
  BY <1>2, CompletionTypes

LEMMA AsyncReadType ==
    ASSUME NEW s \in ServerState, NEW c \in Conns
    PROVE  AsyncRead(s, c) \in ServerState
<1>1. ReadDone(c, Received(s.inbox[c], 1)) \in Completion
  BY FirstReceivedType
<1>2. Remaining(s.inbox[c], 1) \in Seq(Command \cup {"eof"})
  BY InboxType, RemainingType
<1>3. ASSUME NEW q \in Seq(Completion), NEW b \in Seq(Command \cup {"eof"})
      PROVE  [s EXCEPT !.queue = q, !.inbox[c] = b] \in ServerState
  BY DEF ServerState
<1>4. [s EXCEPT !.queue = Append(s.queue, ReadDone(c, Received(s.inbox[c], 1))),
                !.inbox[c] = Remaining(s.inbox[c], 1)] \in ServerState
  <2>1. Append(s.queue, ReadDone(c, Received(s.inbox[c], 1))) \in Seq(Completion)
    BY <1>1, QueueType
  <2>2. QED
    BY <2>1, <1>2, <1>3
<1>5. [s EXCEPT !.reads[c] = @ + 1] \in ServerState
  <2>1. ASSUME NEW n \in Nat
        PROVE  [s EXCEPT !.reads[c] = n] \in ServerState
    BY DEF ServerState
  <2>2. s.reads[c] + 1 \in Nat
    BY InboxType
  <2>3. QED
    BY <2>1, <2>2
<1>6. QED
  BY <1>4, <1>5 DEF AsyncRead

LEMMA UpdateStreamStatusType ==
    ASSUME NEW s \in ServerState, NEW on \in BOOLEAN
    PROVE  update_stream_status(s, on) \in ServerState
<1>1. Append(s.calls, on) \in Seq(BOOLEAN)
  BY DEF ServerState
<1>2. ASSUME NEW f \in Seq(BOOLEAN)
      PROVE  [s EXCEPT !.streaming = on, !.calls = f] \in ServerState
  BY DEF ServerState
<1>3. QED
  BY <1>1, <1>2 DEF update_stream_status

LEMMA ResetType ==
    ASSUME NEW s \in ServerState
    PROVE  reset(s) \in ServerState
<1>1. CASE s.socket = NoConn
  BY <1>1, UpdateStreamStatusType, CancelType DEF reset
<1>2. CASE s.socket # NoConn
  <2> DEFINE closed == [Close(s, s.socket) EXCEPT !.socket = NoConn]
  <2>1. s.socket \in Conns
    BY <1>2 DEF ServerState
  <2>2. ASSUME NEW t \in ServerState
        PROVE  [t EXCEPT !.socket = NoConn] \in ServerState
    BY DEF ServerState
  <2>3. closed \in ServerState
    BY <2>1, <2>2, CloseType
  <2>4. QED
    BY <1>2, <2>3, UpdateStreamStatusType, CancelType DEF reset
<1>3. QED
  BY <1>1, <1>2

LEMMA StartKeepaliveType ==
    ASSUME NEW s \in ServerState
    PROVE  start_keepalive(s) \in ServerState
<1>1. ASSUME NEW t \in ServerState
      PROVE  [t EXCEPT !.timer = "armed"] \in ServerState
  BY DEF ServerState, TimerStatus
<1>2. QED
  BY <1>1, CancelType DEF start_keepalive

LEMMA ProcessType ==
    ASSUME NEW s \in ServerState, NEW p \in Process
    PROVE  [s EXCEPT !.process = p] \in ServerState
BY DEF ServerState

LEMMA StartReadType ==
    ASSUME NEW s \in ServerState
    PROVE  start_read(s) \in ServerState
<1>1. s.socket \in Conns \cup {NoConn}
  BY DEF ServerState
<1>2. "aborted" \in Process
  BY DEF Process
<1>3. QED
  BY <1>1, <1>2, AsyncReadType, ProcessType DEF start_read

LEMMA StartAsyncAcceptType ==
    ASSUME NEW s \in ServerState
    PROVE  start_async_accept(s) \in ServerState
<1>1. [s EXCEPT !.temp_socket = TRUE, !.accepting = TRUE] \in ServerState
  BY DEF ServerState
<1>2. "aborted" \in Process
  BY DEF Process
<1>3. QED
  BY <1>1, <1>2, ProcessType DEF start_async_accept

LEMMA AcceptHandlerType ==
    ASSUME NEW s \in ServerState, NEW c \in Conns \cup {NoConn}
    PROVE  accept_handler(s, c) \in ServerState
<1>1. ASSUME NEW t \in ServerState
      PROVE  /\ [t EXCEPT !.temp_socket = FALSE] \in ServerState
             /\ [t EXCEPT !.socket = c, !.temp_socket = FALSE] \in ServerState
  BY DEF ServerState
<1>2. QED
  BY <1>1, ResetType, StartKeepaliveType, StartReadType, StartAsyncAcceptType
  DEF accept_handler, serve

LEMMA ReadHandlerType ==
    ASSUME NEW s \in ServerState, NEW r
    PROVE  read_handler(s, r) \in ServerState
BY UpdateStreamStatusType, StartReadType, CancelType, ResetType DEF read_handler

LEMMA WaitHandlerType ==
    ASSUME NEW s \in ServerState, NEW r
    PROVE  wait_handler(s, r) \in ServerState
BY StartKeepaliveType, ResetType DEF wait_handler

-----------------------------------------------------------------------------
(* Type correctness.                                                       *)

LEMMA EnqueueType ==
    ASSUME NEW s \in ServerState, NEW e \in Completion
    PROVE  Enqueue(s, e) \in ServerState
<1>1. ASSUME NEW q \in Seq(Completion), NEW f \in Seq(BOOLEAN)
      PROVE  [s EXCEPT !.queue = q, !.calls = f] \in ServerState
  BY DEF ServerState
<1>2. Append(s.queue, e) \in Seq(Completion)
  BY QueueType
<1>3. <<>> \in Seq(BOOLEAN)
  OBVIOUS
<1>4. QED
  BY <1>1, <1>2, <1>3 DEF Enqueue

LEMMA CallsType ==
    ASSUME NEW s \in ServerState
    PROVE  [s EXCEPT !.calls = <<>>] \in ServerState
<1>1. ASSUME NEW f \in Seq(BOOLEAN)
      PROVE  [s EXCEPT !.calls = f] \in ServerState
  BY DEF ServerState
<1>2. <<>> \in Seq(BOOLEAN)
  OBVIOUS
<1>3. QED
  BY <1>1, <1>2

LEMMA PoppedType ==
    ASSUME srv \in ServerState, srv.queue # <<>>
    PROVE  /\ Popped \in ServerState
           /\ Head(srv.queue) \in Completion
           /\ Head(srv.queue).conn \in Conns \cup {NoConn}
           /\ Head(srv.queue).op \in {"poll", "read"} => Head(srv.queue).conn \in Conns
<1>1. ASSUME NEW q \in Seq(Completion), NEW f \in Seq(BOOLEAN)
      PROVE  [srv EXCEPT !.queue = q, !.calls = f] \in ServerState
  BY DEF ServerState
<1>2. Tail(srv.queue) \in Seq(Completion) /\ Head(srv.queue) \in Completion
  BY QueueType
<1>3. <<>> \in Seq(BOOLEAN)
  OBVIOUS
<1>4. Popped \in ServerState
  BY <1>1, <1>2, <1>3 DEF Popped
<1>5. QED
  BY <1>2, <1>4 DEF Completion

AcceptsIn(q) == {i \in DOMAIN q : q[i].op = "accept"}

\* What the operations do to the queue: they add to it, but never an accept.
Grown(q, r) == Range(q) \subseteq Range(r) /\ AcceptsIn(r) = AcceptsIn(q)

LEMMA GrownByAppend ==
    ASSUME NEW q \in Seq(Completion), NEW e \in Completion, e.op # "accept"
    PROVE  Grown(q, Append(q, e)) /\ e \in Range(Append(q, e))
<1>1. /\ DOMAIN q = 1..Len(q) /\ Len(q) \in Nat
      /\ DOMAIN Append(q, e) = 1..(Len(q) + 1)
      /\ \A i \in 1..Len(q) : Append(q, e)[i] = q[i]
      /\ Append(q, e)[Len(q) + 1] = e
  OBVIOUS
<1>2. Range(q) \subseteq Range(Append(q, e)) /\ e \in Range(Append(q, e))
  BY <1>1 DEF Range
<1>3. AcceptsIn(Append(q, e)) = AcceptsIn(q)
  BY <1>1 DEF AcceptsIn
<1>4. QED
  BY <1>2, <1>3 DEF Grown

LEMMA GrownByConcat ==
    ASSUME NEW q \in Seq(Completion), NEW r \in Seq(Completion),
           \A i \in DOMAIN r : r[i].op # "accept"
    PROVE  Grown(q, q \o r)
<1>1. /\ DOMAIN q = 1..Len(q) /\ Len(q) \in Nat
      /\ DOMAIN r = 1..Len(r) /\ Len(r) \in Nat
      /\ DOMAIN (q \o r) = 1..(Len(q) + Len(r))
      /\ \A i \in 1..Len(q) : (q \o r)[i] = q[i]
      /\ \A i \in (Len(q) + 1)..(Len(q) + Len(r)) : (q \o r)[i] = r[i - Len(q)]
  OBVIOUS
<1>2. Range(q) \subseteq Range(q \o r)
  BY <1>1 DEF Range
<1>3. ASSUME NEW i \in (Len(q) + 1)..(Len(q) + Len(r))
      PROVE  (q \o r)[i].op # "accept"
  <2>1. i - Len(q) \in DOMAIN r
    BY <1>1
  <2>2. QED
    BY <1>1, <2>1
<1>4. AcceptsIn(q \o r) = AcceptsIn(q)
  BY <1>1, <1>3 DEF AcceptsIn
<1>5. QED
  BY <1>2, <1>4 DEF Grown

LEMMA GrownTwice ==
    ASSUME NEW p, NEW q, NEW r, Grown(p, q), Grown(q, r)
    PROVE  Grown(p, r)
BY DEF Grown

LEMMA PerformedType ==
    ASSUME NEW s \in ServerState, NEW c \in Conns, NEW n \in 0..s.reads[c]
    PROVE  /\ Perform(s, c, n) \in ServerState
           /\ Perform(s, c, n).socket = s.socket
           /\ Perform(s, c, n).timer = s.timer
           /\ Perform(s, c, n).status = s.status
           /\ Perform(s, c, n).temp_socket = s.temp_socket
           /\ Perform(s, c, n).accepting = s.accepting
           /\ Grown(s.queue, Perform(s, c, n).queue)
<1> DEFINE b == s.inbox[c]
           more == [i \in 1..(n - 1) |-> ReadDone(c, Received(b, i + 1))]
<1>1. ASSUME NEW k \in Nat, NEW r \in Seq(Command \cup {"eof"}),
             NEW q \in Seq(Completion)
      PROVE  LET v == [s EXCEPT !.reads[c] = k, !.inbox[c] = r, !.queue = q]
             IN  /\ v \in ServerState
                 /\ v.socket = s.socket /\ v.timer = s.timer
                 /\ v.status = s.status /\ v.temp_socket = s.temp_socket
                 /\ v.accepting = s.accepting /\ v.queue = q
  BY DEF ServerState
<1>2. s.reads[c] - n \in Nat /\ n \in Nat
  BY InboxType
<1>3. Remaining(s.inbox[c], n) \in Seq(Command \cup {"eof"})
  BY <1>2, InboxType, RemainingType
<1>4. ASSUME NEW i \in 1..(n - 1)
      PROVE  more[i] \in Completion /\ more[i].op # "accept"
  <2>1. i + 1 \in Nat \ {0}
    BY <1>2
  <2>2. Received(b, i + 1) \in Result
    BY <2>1, InboxType, ReceivedType DEF Result, ReadError
  <2>3. ReadDone(c, Received(b, i + 1)) \in Completion
    BY <2>2, CompletionTypes
  <2>4. ReadDone(c, Received(b, i + 1)).op = "read"
    BY DEF ReadDone
  <2>5. QED
    BY <2>3, <2>4
<1>5. more \in Seq(Completion) /\ DOMAIN more = 1..(n - 1)
  <2>1. CASE n = 0
    <3>1. more = <<>> /\ DOMAIN more = {}
      BY <2>1
    <3>2. QED
      BY <2>1, <3>1
  <2>2. CASE n > 0
    <3>1. n - 1 \in Nat
      BY <1>2, <2>2
    <3>2. DOMAIN more = 1..(n - 1)
      OBVIOUS
    <3>3. \A i \in 1..(n - 1) : ReadDone(c, Received(b, i + 1)) \in Completion
      BY <1>4
    <3>4. QED
      BY <3>1, <3>2, <3>3
  <2>3. QED
    BY <1>2, <2>1, <2>2
<1>6. s.queue \o more \in Seq(Completion) /\ Grown(s.queue, s.queue \o more)
  <2> HIDE DEF more
  <2>1. QED
    BY <1>4, <1>5, QueueType, GrownByConcat
<1> DEFINE k == s.reads[c] - n
           r == Remaining(s.inbox[c], n)
           q == s.queue \o more
<1>7. Perform(s, c, n) = [s EXCEPT !.reads[c] = k, !.inbox[c] = r, !.queue = q]
  BY DEF Perform, ServerState
<1>8. k \in Nat /\ r \in Seq(Command \cup {"eof"}) /\ q \in Seq(Completion)
  BY <1>2, <1>3, <1>6
<1>9. QED
  <2>1. Grown(s.queue, q)
    BY <1>6
  <2> HIDE DEF k, r, q
  <2>2. LET v == [s EXCEPT !.reads[c] = k, !.inbox[c] = r, !.queue = q]
        IN  /\ v \in ServerState
            /\ v.socket = s.socket /\ v.timer = s.timer
            /\ v.status = s.status /\ v.temp_socket = s.temp_socket
            /\ v.accepting = s.accepting /\ v.queue = q
    BY <1>1, <1>8
  <2>3. QED
    BY <1>7, <2>1, <2>2, Zenon

LEMMA CompletableType ==
    ASSUME NEW s \in ServerState, NEW c \in Conns
    PROVE  Completable(s, c) \in 0..s.reads[c]
<1>1. Len(s.inbox[c]) \in Nat /\ s.reads[c] \in Nat
  BY InboxType
<1>2. QED
  BY <1>1 DEF Completable, Answered

LEMMA InitType == Init => TypeOK
<1> SUFFICES ASSUME Init PROVE TypeOK
  OBVIOUS
<1>1. peer \in [Conns -> PeerStatus]
  BY DEF Init, PeerStatus
<1>2. ASSUME NEW f \in Seq(BOOLEAN), NEW q \in Seq(Completion),
             NEW b \in [Conns -> Seq(Command \cup {"eof"})]
      PROVE  [socket |-> NoConn, temp_socket |-> TRUE, streaming |-> FALSE,
              calls |-> f, process |-> "running", queue |-> q,
              accepting |-> TRUE, reads |-> [c \in Conns |-> 0],
              timer |-> "idle", status |-> [c \in Conns |-> "none"],
              inbox |-> b] \in ServerState
  BY DEF ServerState, Process, TimerStatus, ConnStatus
<1>3. <<>> \in Seq(BOOLEAN) /\ <<>> \in Seq(Completion)
  OBVIOUS
<1>4. [c \in Conns |-> <<>>] \in [Conns -> Seq(Command \cup {"eof"})]
  <2>1. <<>> \in Seq(Command \cup {"eof"})
    OBVIOUS
  <2>2. QED
    BY <2>1
<1>5. srv \in ServerState
  BY <1>2, <1>3, <1>4 DEF Init
<1>6. QED
  BY <1>1, <1>5 DEF TypeOK

LEMMA DispatchType ==
    ASSUME TypeOK, Dispatch
    PROVE  TypeOK'
<1>1. srv \in ServerState /\ peer \in [Conns -> PeerStatus]
  BY DEF TypeOK
<1>2. srv.queue # <<>>
  BY DEF Dispatch, DispatchAccept, DispatchRead, DispatchPoll, DispatchWait,
         DispatchFrame, DispatchStatus, Dispatchable
<1>3. /\ Popped \in ServerState
      /\ Head(srv.queue).conn \in Conns \cup {NoConn}
      /\ Head(srv.queue).op \in {"poll", "read"} => Head(srv.queue).conn \in Conns
  BY <1>1, <1>2, PoppedType
<1>4. CASE DispatchAccept
  BY <1>1, <1>3, <1>4, AcceptHandlerType DEF DispatchAccept, TypeOK
<1>5. CASE DispatchRead
  BY <1>1, <1>3, <1>5, ReadHandlerType DEF DispatchRead, TypeOK
<1>6. CASE DispatchPoll
  <2> DEFINE c == Head(srv.queue).conn
             n == Completable(Popped, c)
  <2>1. c \in Conns
    BY <1>3, <1>6 DEF DispatchPoll, Dispatchable
  <2>2. n \in 0..Popped.reads[c]
    BY <1>3, <2>1, CompletableType
  <2>3. Perform(Popped, c, n) \in ServerState
    <3> HIDE DEF c, n
    <3>1. QED
      BY <1>3, <2>1, <2>2, PerformedType
  <2>4. srv' = Popped \/ \E r : srv' = read_handler(Perform(Popped, c, n), r)
    BY <1>6 DEF DispatchPoll
  <2>5. srv' \in ServerState
    BY <1>3, <2>3, <2>4, ReadHandlerType
  <2>6. QED
    BY <1>1, <1>6, <2>5 DEF DispatchPoll, TypeOK
<1>7. CASE DispatchWait
  BY <1>1, <1>3, <1>7, WaitHandlerType DEF DispatchWait, TypeOK
<1>8. CASE DispatchFrame
  <2>1. \A outcome \in FrameOutcomes(srv) : outcome \in Process
    BY DEF FrameOutcomes, Process
  <2>2. QED
    BY <1>1, <1>3, <1>8, <2>1, ProcessType DEF DispatchFrame, send_frame, TypeOK
<1>9. CASE DispatchStatus
  <2>1. srv.streaming \in BOOLEAN
    BY <1>1 DEF ServerState
  <2>2. QED
    BY <1>1, <1>3, <1>9, <2>1, UpdateStreamStatusType DEF DispatchStatus, TypeOK
<1>10. QED
  BY <1>4, <1>5, <1>6, <1>7, <1>8, <1>9 DEF Dispatch

LEMMA ReactorType ==
    ASSUME TypeOK, Reactor
    PROVE  TypeOK'
<1>1. srv \in ServerState /\ peer \in [Conns -> PeerStatus]
  BY DEF TypeOK
<1>2. CASE AcceptFails
  <2>1. ASSUME NEW t \in ServerState
        PROVE  [t EXCEPT !.accepting = FALSE] \in ServerState
    BY DEF ServerState
  <2>2. AcceptError \in Completion
    BY DEF AcceptError, Completion, Result, ReadError
  <2>3. QED
    BY <1>1, <1>2, <2>1, <2>2, EnqueueType DEF AcceptFails, TypeOK
<1>3. CASE Elapse
  <2>1. ASSUME NEW f \in Seq(BOOLEAN)
        PROVE  [srv EXCEPT !.timer = "due", !.calls = f] \in ServerState
    BY <1>1 DEF ServerState, TimerStatus
  <2>2. <<>> \in Seq(BOOLEAN)
    OBVIOUS
  <2>3. QED
    BY <1>1, <1>3, <2>1, <2>2 DEF Elapse, TypeOK
<1>4. CASE TimerExpires
  <2>1. ASSUME NEW t \in ServerState
        PROVE  [t EXCEPT !.timer = "idle"] \in ServerState
    BY DEF ServerState, TimerStatus
  <2>2. WaitDone("ok") \in Completion
    BY WaitDoneType
  <2>3. QED
    BY <1>1, <1>4, <2>1, <2>2, EnqueueType DEF TimerExpires, TypeOK
<1>5. ASSUME NEW c \in Conns, AcceptReady(c)
      PROVE  TypeOK'
  <2>1. ASSUME NEW t \in ServerState
        PROVE  [t EXCEPT !.accepting = FALSE, !.status[c] = "open"] \in ServerState
    BY DEF ServerState, ConnStatus
  <2>2. Accepted(c) \in Completion
    BY CompletionTypes DEF Result
  <2>3. QED
    BY <1>1, <1>5, <2>1, <2>2, EnqueueType DEF AcceptReady, TypeOK
<1>6. ASSUME NEW c \in Conns, ReadReady(c)
      PROVE  TypeOK'
  <2>1. Poll(c) \in Completion
    BY CompletionTypes DEF Result
  <2>2. QED
    BY <1>1, <1>6, <2>1, EnqueueType DEF ReadReady, TypeOK
<1>7. QED
  BY <1>2, <1>3, <1>4, <1>5, <1>6 DEF Reactor

LEMMA ClientType ==
    ASSUME TypeOK, NEW c \in Conns, Client(c)
    PROVE  TypeOK'
<1>1. srv \in ServerState /\ peer \in [Conns -> PeerStatus]
  BY DEF TypeOK
<1>2. ASSUME NEW f \in Seq(BOOLEAN)
      PROVE  [srv EXCEPT !.status[c] = "backlog", !.calls = f] \in ServerState
  BY <1>1 DEF ServerState, ConnStatus
<1>3. ASSUME NEW f \in Seq(BOOLEAN), NEW b \in Seq(Command \cup {"eof"})
      PROVE  [srv EXCEPT !.inbox[c] = b, !.calls = f] \in ServerState
  BY <1>1 DEF ServerState
<1>4. <<>> \in Seq(BOOLEAN)
  OBVIOUS
<1>5. ASSUME NEW m \in Command \cup {"eof"}
      PROVE  Append(srv.inbox[c], m) \in Seq(Command \cup {"eof"})
  BY <1>1, InboxType
<1>6. CASE Connect(c)
  BY <1>1, <1>2, <1>4, <1>6 DEF Connect, TypeOK, PeerStatus
<1>7. CASE Disconnect(c)
  BY <1>1, <1>3, <1>4, <1>5, <1>7 DEF Disconnect, TypeOK, PeerStatus
<1>8. CASE Vanish(c)
  BY <1>1, <1>8, CallsType DEF Vanish, TypeOK, PeerStatus
<1>9. ASSUME NEW m \in Messages, Send(c, m)
      PROVE  TypeOK'
  <2>1. m \in Command
    BY BoundsAssumption
  <2>2. QED
    BY <1>1, <1>3, <1>4, <1>5, <1>9, <2>1 DEF Send, TypeOK
<1>10. QED
  BY <1>6, <1>7, <1>8, <1>9 DEF Client

LEMMA NextIsServerNext == Next => ServerNext
  BY DEF Next, ServerNext, Dispatch

LEMMA NextType == TypeOK /\ [ServerNext]_vars => TypeOK'
<1> SUFFICES ASSUME TypeOK, [ServerNext]_vars PROVE TypeOK'
  OBVIOUS
<1>1. srv \in ServerState /\ peer \in [Conns -> PeerStatus]
  BY DEF TypeOK
<1>2. CASE Dispatch
  BY <1>2, DispatchType
<1>3. CASE Unblock
  <2>1. ASSUME NEW f \in Seq(BOOLEAN), NEW p \in Process
        PROVE  [srv EXCEPT !.calls = f, !.process = p] \in ServerState
    BY <1>1 DEF ServerState
  <2>2. <<>> \in Seq(BOOLEAN)
    OBVIOUS
  <2>3. (IF peer[srv.socket] = "up" THEN "running" ELSE "terminated") \in Process
    BY DEF Process
  <2>4. QED
    BY <1>1, <1>3, <2>1, <2>2, <2>3 DEF Unblock, TypeOK
<1>4. CASE Reactor
  BY <1>4, ReactorType
<1>5. ASSUME NEW c \in Conns, Client(c)
      PROVE  TypeOK'
  BY <1>5, ClientType
<1>6. CASE UNCHANGED vars
  BY <1>1, <1>6 DEF vars, TypeOK
<1>7. QED
  BY <1>2, <1>3, <1>4, <1>5, <1>6 DEF ServerNext

\* In every state the objects of the server, the completions in its queue and
\* what its kernel has received are of their types: in particular a descriptor
\* event or a read completion always names a connection.
THEOREM TypeCorrect == Spec => []TypeOK
<1>1. QED
  BY InitType, NextType, NextIsServerNext, PTL DEF Spec

-----------------------------------------------------------------------------
(* The safety invariants. What they say of the state s of the server:      *)

Streams(s) == s.process \in {"running", "blocked"} /\ s.streaming => s.socket # NoConn
Heard(s) ==
    s.socket # NoConn =>
        \/ s.reads[s.socket] > 0
        \/ \E e \in Range(s.queue) : e.op = "read" /\ e.conn = s.socket
Watched(s) ==
    s.socket # NoConn => s.timer # "idle" \/ \E e \in Range(s.queue) : e.op = "wait"
NoLeak(s) ==
    \A c \in Conns : s.status[c] = "open" =>
                         c = s.socket \/ Accepted(c) \in Range(s.queue)
Armed(s) ==
    /\ s.temp_socket
    /\ s.accepting <=> AcceptsIn(s.queue) = {}
    /\ \A i, j \in AcceptsIn(s.queue) : i = j

\* What holds of the state a handler starts from, its completion being popped.
Settled(s) == Streams(s) /\ NoLeak(s) /\ Armed(s)
Safe(s) == Settled(s) /\ Heard(s) /\ Watched(s)

LEMMA CancelEffect ==
    ASSUME NEW s \in ServerState
    PROVE  /\ Cancel(s).socket = s.socket /\ Cancel(s).process = s.process
           /\ Cancel(s).streaming = s.streaming /\ Cancel(s).status = s.status
           /\ Cancel(s).temp_socket = s.temp_socket
           /\ Cancel(s).accepting = s.accepting /\ Cancel(s).reads = s.reads
           /\ Grown(s.queue, Cancel(s).queue)
           /\ Watched(s) => Watched(Cancel(s))
<1>1. WaitDone("aborted") \in Completion /\ WaitDone("aborted").op = "wait"
  BY WaitDoneType DEF WaitDone
<1>2. s.queue \in Seq(Completion)
  BY QueueType
<1>3. CASE s.timer = "idle"
  BY <1>3 DEF Cancel, Grown
<1>4. CASE s.timer # "idle"
  <2>1. Cancel(s) = [s EXCEPT !.timer = "idle",
                              !.queue = Append(s.queue, WaitDone("aborted"))]
    BY <1>4 DEF Cancel
  <2>2. Cancel(s).queue = Append(s.queue, WaitDone("aborted"))
    BY <2>1 DEF ServerState
  <2>3. /\ Grown(s.queue, Cancel(s).queue)
        /\ WaitDone("aborted") \in Range(Cancel(s).queue)
    BY <1>1, <1>2, <2>2, GrownByAppend
  <2>4. Watched(Cancel(s))
    BY <1>1, <2>3 DEF Watched
  <2>5. QED
    BY <2>1, <2>3, <2>4 DEF ServerState
<1>5. QED
  BY <1>3, <1>4

LEMMA CloseEffect ==
    ASSUME NEW s \in ServerState, NEW c \in Conns
    PROVE  /\ Close(s, c).process = s.process
           /\ Close(s, c).temp_socket = s.temp_socket
           /\ Close(s, c).accepting = s.accepting
           /\ Close(s, c).status = [s.status EXCEPT ![c] = "closed"]
           /\ Grown(s.queue, Close(s, c).queue)
<1> DEFINE r == Copies(s.reads[c], ReadDone(c, "aborted"))
<1>1. r \in Seq(Completion) /\ s.queue \in Seq(Completion)
  BY QueueType, InboxType, CopiesType, CompletionTypes DEF Result, ReadError
<1>2. \A i \in DOMAIN r : r[i].op # "accept"
  BY DEF Copies, ReadDone
<1>3. Grown(s.queue, s.queue \o r)
  <2> HIDE DEF r
  <2>1. QED
    BY <1>1, <1>2, GrownByConcat
<1>4. QED
  BY <1>3 DEF Close, ServerState

LEMMA StatusEffect ==
    ASSUME NEW s \in ServerState, NEW on \in BOOLEAN
    PROVE  LET t == update_stream_status(s, on) IN
           /\ t.streaming = on /\ t.socket = s.socket /\ t.process = s.process
           /\ t.temp_socket = s.temp_socket /\ t.accepting = s.accepting
           /\ t.status = s.status /\ t.queue = s.queue /\ t.reads = s.reads
           /\ t.timer = s.timer
BY DEF update_stream_status, ServerState

\* reset leaves no connection, no stream, and nothing to hear or to watch.
LEMMA ResetEffect ==
    ASSUME NEW s \in ServerState
    PROVE  /\ reset(s).socket = NoConn /\ reset(s).streaming = FALSE
           /\ reset(s).temp_socket = s.temp_socket
           /\ reset(s).accepting = s.accepting
           /\ Grown(s.queue, reset(s).queue)
           /\ \A c \in Conns : reset(s).status[c] = "open" =>
                                s.status[c] = "open" /\ c # s.socket
<1> DEFINE closed == IF s.socket = NoConn THEN s
                     ELSE [Close(s, s.socket) EXCEPT !.socket = NoConn]
           off == update_stream_status(closed, FALSE)
<1>1. /\ closed \in ServerState
      /\ closed.socket = NoConn
      /\ closed.temp_socket = s.temp_socket
      /\ closed.accepting = s.accepting
      /\ Grown(s.queue, closed.queue)
      /\ \A c \in Conns : closed.status[c] = "open" =>
                           s.status[c] = "open" /\ c # s.socket
  <2>1. CASE s.socket = NoConn
    BY <2>1, ConnsAssumption DEF Grown
  <2>2. CASE s.socket # NoConn
    <3>1. s.socket \in Conns
      BY <2>2 DEF ServerState
    <3>2. Close(s, s.socket) \in ServerState
      BY <3>1, CloseType
    <3>3. ASSUME NEW t \in ServerState
          PROVE  /\ [t EXCEPT !.socket = NoConn] \in ServerState
                 /\ [t EXCEPT !.socket = NoConn].socket = NoConn
                 /\ [t EXCEPT !.socket = NoConn].temp_socket = t.temp_socket
                 /\ [t EXCEPT !.socket = NoConn].accepting = t.accepting
                 /\ [t EXCEPT !.socket = NoConn].queue = t.queue
                 /\ [t EXCEPT !.socket = NoConn].status = t.status
      BY DEF ServerState
    <3>4. s.status \in [Conns -> ConnStatus]
      BY DEF ServerState
    <3>5. closed = [Close(s, s.socket) EXCEPT !.socket = NoConn]
      BY <2>2
    <3>6. closed.status = [s.status EXCEPT ![s.socket] = "closed"]
      BY <3>1, <3>2, <3>3, <3>5, CloseEffect
    <3>7. \A c \in Conns : closed.status[c] = "open" =>
                            s.status[c] = "open" /\ c # s.socket
      BY <3>4, <3>6
    <3>8. /\ closed \in ServerState /\ closed.socket = NoConn
          /\ closed.temp_socket = Close(s, s.socket).temp_socket
          /\ closed.accepting = Close(s, s.socket).accepting
          /\ closed.queue = Close(s, s.socket).queue
      BY <3>2, <3>3, <3>5
    <3>9. QED
      <4> HIDE DEF closed
      <4>1. QED
        BY <3>1, <3>7, <3>8, CloseEffect
  <2>3. QED
    BY <2>1, <2>2
<1>2. off \in ServerState /\ reset(s) = Cancel(off)
  <2>1. closed \in ServerState
    BY <1>1
  <2>2. off \in ServerState
    <3> HIDE DEF closed
    <3>1. QED
      BY <2>1, UpdateStreamStatusType
  <2>3. QED
    BY <2>2 DEF reset
<1>3. /\ off.socket = closed.socket /\ off.streaming = FALSE
      /\ off.temp_socket = closed.temp_socket /\ off.accepting = closed.accepting
      /\ off.queue = closed.queue /\ off.status = closed.status
  <2> HIDE DEF closed
  <2>1. QED
    BY <1>1, StatusEffect
<1>4. QED
  <2> HIDE DEF closed, off
  <2>1. QED
    BY <1>1, <1>2, <1>3, CancelEffect, GrownTwice

LEMMA ResetSafe ==
    ASSUME NEW s \in ServerState, NoLeak(s), Armed(s)
    PROVE  Safe(reset(s))
<1>1. Streams(reset(s)) /\ Heard(reset(s)) /\ Watched(reset(s))
  BY ResetEffect DEF Streams, Heard, Watched
<1>2. NoLeak(reset(s))
  BY ResetEffect DEF NoLeak, Grown
<1>3. Armed(reset(s))
  BY ResetEffect DEF Armed, Grown
<1>4. QED
  BY <1>1, <1>2, <1>3 DEF Safe, Settled

LEMMA AsyncReadEffect ==
    ASSUME NEW s \in ServerState, NEW c \in Conns, c = s.socket
    PROVE  /\ AsyncRead(s, c).socket = s.socket /\ AsyncRead(s, c).timer = s.timer
           /\ AsyncRead(s, c).streaming = s.streaming
           /\ AsyncRead(s, c).status = s.status /\ AsyncRead(s, c).process = s.process
           /\ AsyncRead(s, c).temp_socket = s.temp_socket
           /\ AsyncRead(s, c).accepting = s.accepting
           /\ Grown(s.queue, AsyncRead(s, c).queue)
           /\ Heard(AsyncRead(s, c))
<1> DEFINE e == ReadDone(c, Received(s.inbox[c], 1))
           t == AsyncRead(s, c)
<1>1. e \in Completion /\ s.queue \in Seq(Completion) /\ s.reads[c] \in Nat
  BY FirstReceivedType, QueueType, InboxType
<1>2. CASE s.reads[c] = 0 /\ s.inbox[c] # <<>>
  <2>1. t = [s EXCEPT !.queue = Append(@, e), !.inbox[c] = Remaining(@, 1)]
    BY <1>2 DEF AsyncRead
  <2>2. t.queue = Append(s.queue, e)
    BY <2>1 DEF ServerState
  <2>3. e.op = "read" /\ e.conn = c
    BY DEF ReadDone
  <2>4. Grown(s.queue, t.queue) /\ e \in Range(t.queue)
    <3> HIDE DEF e, t
    <3>1. QED
      BY <1>1, <2>2, <2>3, GrownByAppend
  <2>5. t.socket = s.socket
    BY <2>1 DEF ServerState
  <2>6. Heard(t)
    <3> HIDE DEF e, t
    <3>1. QED
      BY <2>3, <2>4, <2>5 DEF Heard
  <2>7. QED
    BY <2>1, <2>4, <2>6 DEF ServerState
<1>3. CASE ~(s.reads[c] = 0 /\ s.inbox[c] # <<>>)
  <2>1. t = [s EXCEPT !.reads[c] = @ + 1]
    BY <1>3 DEF AsyncRead
  <2>2. t.socket = c /\ t.reads[c] = s.reads[c] + 1 /\ t.queue = s.queue
    BY <2>1 DEF ServerState
  <2>3. t.reads[c] > 0
    BY <1>1, <2>2
  <2>4. Heard(t)
    <3> HIDE DEF t
    <3>1. QED
      BY <2>2, <2>3 DEF Heard
  <2>5. QED
    BY <2>1, <2>2, <2>4 DEF ServerState, Grown
<1>4. QED
  BY <1>2, <1>3

LEMMA StartKeepaliveSafe ==
    ASSUME NEW s \in ServerState, Settled(s)
    PROVE  /\ Settled(start_keepalive(s)) /\ Watched(start_keepalive(s))
           /\ Heard(s) => Heard(start_keepalive(s))
           /\ start_keepalive(s).socket = s.socket
<1> DEFINE t == start_keepalive(s)
<1>1. ASSUME NEW u \in ServerState
      PROVE  /\ [u EXCEPT !.timer = "armed"].socket = u.socket
             /\ [u EXCEPT !.timer = "armed"].timer = "armed"
             /\ [u EXCEPT !.timer = "armed"].process = u.process
             /\ [u EXCEPT !.timer = "armed"].streaming = u.streaming
             /\ [u EXCEPT !.timer = "armed"].status = u.status
             /\ [u EXCEPT !.timer = "armed"].temp_socket = u.temp_socket
             /\ [u EXCEPT !.timer = "armed"].accepting = u.accepting
             /\ [u EXCEPT !.timer = "armed"].reads = u.reads
             /\ [u EXCEPT !.timer = "armed"].queue = u.queue
  BY DEF ServerState
<1>2. /\ t.socket = s.socket /\ t.timer = "armed" /\ t.process = s.process
      /\ t.streaming = s.streaming /\ t.status = s.status
      /\ t.temp_socket = s.temp_socket /\ t.accepting = s.accepting
      /\ t.reads = s.reads /\ Grown(s.queue, t.queue)
  BY <1>1, CancelType, CancelEffect DEF start_keepalive
<1>3. Streams(t) /\ Watched(t) /\ (Heard(s) => Heard(t))
  <2> HIDE DEF t
  <2>1. QED
    BY <1>2 DEF Settled, Streams, Watched, Heard, Grown
<1>4. NoLeak(t)
  <2> HIDE DEF t
  <2>1. QED
    BY <1>2 DEF Settled, NoLeak, Grown
<1>5. Armed(t)
  <2> HIDE DEF t
  <2>1. QED
    BY <1>2 DEF Settled, Armed, Grown
<1>6. QED
  BY <1>2, <1>3, <1>4, <1>5 DEF Settled

\* Whatever was settled, start_read makes the connection heard; without one it
\* aborts the process.
LEMMA StartReadSafe ==
    ASSUME NEW s \in ServerState, NoLeak(s), Armed(s), Watched(s)
    PROVE  Safe(start_read(s))
<1> DEFINE t == start_read(s)
<1>1. CASE s.socket = NoConn
  <2>1. t = [s EXCEPT !.process = "aborted"]
    BY <1>1 DEF start_read
  <2>2. /\ t.socket = NoConn /\ t.process = "aborted" /\ t.status = s.status
        /\ t.temp_socket = s.temp_socket /\ t.accepting = s.accepting
        /\ t.queue = s.queue
    BY <1>1, <2>1 DEF ServerState
  <2>3. Safe(t)
    <3> HIDE DEF t
    <3>1. Streams(t) /\ Heard(t) /\ Watched(t)
      BY <2>2 DEF Streams, Heard, Watched
    <3>2. NoLeak(t)
      BY <1>1, <2>2 DEF NoLeak
    <3>3. Armed(t)
      BY <2>2 DEF Armed
    <3>4. QED
      BY <3>1, <3>2, <3>3 DEF Safe, Settled
  <2>4. QED
    BY <2>3
<1>2. CASE s.socket # NoConn
  <2>1. s.socket \in Conns /\ t = AsyncRead(s, s.socket)
    BY <1>2 DEF ServerState, start_read
  <2>2. /\ t.socket = s.socket /\ t.timer = s.timer /\ t.status = s.status
        /\ t.temp_socket = s.temp_socket /\ t.accepting = s.accepting
        /\ Grown(s.queue, t.queue) /\ Heard(t)
    BY <2>1, AsyncReadEffect
  <2>3. Streams(t) /\ Watched(t)
    <3> HIDE DEF t
    <3>1. QED
      BY <1>2, <2>2 DEF Streams, Watched, Grown
  <2>4. NoLeak(t) /\ Armed(t)
    <3> HIDE DEF t
    <3>1. QED
      BY <2>2 DEF NoLeak, Armed, Grown
  <2>5. QED
    BY <2>2, <2>3, <2>4 DEF Safe, Settled
<1>3. QED
  BY <1>1, <1>2

\* The handler of a read, started from a state in which the connection may no
\* longer be heard.
LEMMA ReadHandlerSafe ==
    ASSUME NEW s \in ServerState, NoLeak(s), Armed(s), Watched(s), NEW r
    PROVE  Safe(read_handler(s, r))
<1>1. ASSUME NEW on \in BOOLEAN
      PROVE  Safe(start_read(update_stream_status(s, on)))
  <2> DEFINE t == update_stream_status(s, on)
  <2>1. /\ t.socket = s.socket /\ t.timer = s.timer /\ t.status = s.status
        /\ t.temp_socket = s.temp_socket /\ t.accepting = s.accepting
        /\ t.queue = s.queue
    BY StatusEffect
  <2>2. t \in ServerState
    BY UpdateStreamStatusType
  <2>3. NoLeak(t) /\ Armed(t) /\ Watched(t)
    <3> HIDE DEF t
    <3>1. QED
      BY <2>1 DEF NoLeak, Armed, Watched
  <2>4. QED
    BY <2>2, <2>3, StartReadSafe
<1>2. Safe(start_read(Cancel(s)))
  <2>1. NoLeak(Cancel(s)) /\ Armed(Cancel(s)) /\ Watched(Cancel(s))
    BY CancelEffect DEF NoLeak, Armed, Grown
  <2>2. QED
    BY <2>1, CancelType, StartReadSafe
<1>3. Safe(reset(s))
  BY ResetSafe
<1>4. QED
  BY <1>1, <1>2, <1>3 DEF read_handler

LEMMA WaitHandlerSafe ==
    ASSUME NEW s \in ServerState, Settled(s), Heard(s), NEW r \in {"ok", "aborted"}
    PROVE  Safe(wait_handler(s, r))
<1>1. CASE r = "aborted" /\ s.socket # NoConn
  BY <1>1, StartKeepaliveSafe DEF wait_handler, Safe
<1>2. CASE r = "ok"
  BY <1>2, ResetSafe DEF wait_handler, Settled
<1>3. CASE r = "aborted" /\ s.socket = NoConn
  BY <1>3 DEF wait_handler, Safe, Watched
<1>4. QED
  BY <1>1, <1>2, <1>3

\* The accept handler starts when its completion, the only accept, is popped.
LEMMA StartAsyncAcceptSafe ==
    ASSUME NEW s \in ServerState, Streams(s), NoLeak(s), Heard(s), Watched(s),
           ~s.temp_socket, AcceptsIn(s.queue) = {}
    PROVE  Safe(start_async_accept(s))
<1> DEFINE t == start_async_accept(s)
<1>1. t = [s EXCEPT !.temp_socket = TRUE, !.accepting = TRUE]
  BY DEF start_async_accept
<1>2. /\ t.temp_socket = TRUE /\ t.accepting = TRUE
      /\ t.socket = s.socket /\ t.timer = s.timer /\ t.process = s.process
      /\ t.streaming = s.streaming /\ t.status = s.status /\ t.reads = s.reads
      /\ t.queue = s.queue
  BY <1>1 DEF ServerState
<1>3. Armed(t)
  <2> HIDE DEF t
  <2>1. QED
    BY <1>2 DEF Armed
<1>4. Streams(t) /\ NoLeak(t)
  <2> HIDE DEF t
  <2>1. QED
    BY <1>2 DEF Streams, NoLeak
<1>5. Heard(t) /\ Watched(t)
  <2> HIDE DEF t
  <2>1. QED
    BY <1>2 DEF Heard, Watched
<1>6. QED
  BY <1>3, <1>4, <1>5 DEF Safe, Settled

LEMMA AcceptedSafe ==
    ASSUME NEW s \in ServerState, NEW c \in Conns, AcceptsIn(s.queue) = {},
           \A d \in Conns : s.status[d] = "open" => d = s.socket \/ d = c
    PROVE  Safe(accept_handler(s, c))
<1> DEFINE moved == [reset(s) EXCEPT !.socket = c, !.temp_socket = FALSE]
           watched == start_keepalive(moved)
           t == start_read(watched)
<1>1. moved \in ServerState
  <2>1. ASSUME NEW u \in ServerState
        PROVE  [u EXCEPT !.socket = c, !.temp_socket = FALSE] \in ServerState
    BY DEF ServerState
  <2>2. QED
    BY <2>1, ResetType
<1>2. /\ moved.socket = c /\ moved.temp_socket = FALSE
      /\ moved.status = reset(s).status /\ moved.queue = reset(s).queue
  <2>1. ASSUME NEW u \in ServerState
        PROVE  LET v == [u EXCEPT !.socket = c, !.temp_socket = FALSE]
               IN  /\ v.socket = c /\ v.temp_socket = FALSE
                   /\ v.status = u.status /\ v.queue = u.queue
    BY DEF ServerState
  <2>2. QED
    BY <2>1, ResetType
<1>3. c # NoConn
  BY ConnsAssumption
<1>4. AcceptsIn(moved.queue) = {}
  BY <1>2, ResetEffect DEF Grown
<1>5. NoLeak(moved) /\ Streams(moved)
  <2>1. ASSUME NEW d \in Conns, moved.status[d] = "open"
        PROVE  d = c
    <3>1. reset(s).status[d] = "open"
      <4> HIDE DEF moved
      <4>1. QED
        BY <1>2, <2>1
    <3>2. s.status[d] = "open" /\ d # s.socket
      BY <3>1, ResetEffect
    <3>3. QED
      BY <3>2
  <2>2. QED
    <3> HIDE DEF moved
    <3>1. QED
      BY <1>2, <1>3, <2>1 DEF NoLeak, Streams
<1>6. /\ watched \in ServerState /\ watched.socket = c /\ Watched(watched)
      /\ watched.temp_socket = FALSE /\ AcceptsIn(watched.queue) = {}
      /\ NoLeak(watched)
  <2>1. ASSUME NEW u \in ServerState
        PROVE  LET v == [u EXCEPT !.timer = "armed"]
               IN  /\ v.socket = u.socket /\ v.temp_socket = u.temp_socket
                   /\ v.status = u.status /\ v.queue = u.queue
                   /\ v.timer = "armed"
    BY DEF ServerState
  <2>2. /\ watched.socket = moved.socket
        /\ watched.temp_socket = moved.temp_socket
        /\ watched.status = moved.status
        /\ Grown(moved.queue, watched.queue)
        /\ watched.timer = "armed"
    <3> HIDE DEF moved
    <3>1. QED
      BY <1>1, <2>1, CancelType, CancelEffect DEF start_keepalive
  <2>3. watched \in ServerState
    BY <1>1, StartKeepaliveType
  <2>4. QED
    <3> HIDE DEF moved, watched
    <3>1. QED
      BY <1>2, <1>4, <1>5, <2>2, <2>3 DEF Watched, NoLeak, Grown
<1>7. /\ t \in ServerState /\ ~t.temp_socket /\ AcceptsIn(t.queue) = {}
      /\ Streams(t) /\ NoLeak(t) /\ Heard(t) /\ Watched(t)
  <2>1. t = AsyncRead(watched, c)
    BY <1>3, <1>6 DEF start_read
  <2>2. /\ t.socket = c /\ t.timer = watched.timer /\ t.status = watched.status
        /\ t.temp_socket = watched.temp_socket /\ Grown(watched.queue, t.queue)
        /\ Heard(t)
    <3> HIDE DEF watched, t
    <3>1. QED
      BY <1>6, <2>1, AsyncReadEffect
  <2>3. t \in ServerState
    BY <1>6, StartReadType
  <2>4. QED
    <3> HIDE DEF watched, t
    <3>1. QED
      BY <1>3, <1>6, <2>2, <2>3 DEF Streams, NoLeak, Watched, Grown
<1>8. Safe(start_async_accept(t))
  <2> HIDE DEF t
  <2>1. QED
    BY <1>7, StartAsyncAcceptSafe
<1>9. QED
  BY <1>3, <1>8 DEF accept_handler, serve

-----------------------------------------------------------------------------
(* Every step keeps the state safe.                                        *)

\* Popping a completion that is no accept hides no accept; popping the accept
\* leaves none, for there is one at most.
LEMMA PoppedAccepts ==
    ASSUME NEW q \in Seq(Completion), q # <<>>
    PROVE  /\ Head(q).op # "accept" =>
                /\ AcceptsIn(Tail(q)) = {} <=> AcceptsIn(q) = {}
                /\ (\A i, j \in AcceptsIn(q) : i = j) =>
                      \A i, j \in AcceptsIn(Tail(q)) : i = j
           /\ Head(q).op = "accept" =>
                /\ AcceptsIn(q) # {}
                /\ (\A i, j \in AcceptsIn(q) : i = j) => AcceptsIn(Tail(q)) = {}
           /\ Range(q) = Range(Tail(q)) \cup {Head(q)}
<1>1. /\ Len(q) \in Nat \ {0} /\ DOMAIN q = 1..Len(q)
      /\ DOMAIN Tail(q) = 1..(Len(q) - 1)
      /\ \A i \in 1..(Len(q) - 1) : Tail(q)[i] = q[i + 1]
      /\ Head(q) = q[1]
  OBVIOUS
<1>2. \A i \in Nat : i \in AcceptsIn(Tail(q)) <=> i >= 1 /\ i + 1 \in AcceptsIn(q)
  BY <1>1 DEF AcceptsIn
<1>3. AcceptsIn(q) \subseteq 1..Len(q) /\ AcceptsIn(Tail(q)) \subseteq Nat
  BY <1>1 DEF AcceptsIn
<1>4. 1 \in AcceptsIn(q) <=> Head(q).op = "accept"
  BY <1>1 DEF AcceptsIn
<1>5. ASSUME NEW i \in AcceptsIn(q), i # 1
      PROVE  i - 1 \in AcceptsIn(Tail(q))
  BY <1>1, <1>2, <1>3, <1>5
<1>6. Range(q) = Range(Tail(q)) \cup {Head(q)}
  <2>1. ASSUME NEW i \in 1..Len(q)
        PROVE  q[i] \in Range(Tail(q)) \cup {Head(q)}
    <3>1. CASE i = 1
      BY <1>1, <3>1
    <3>2. CASE i # 1
      <4>1. i - 1 \in 1..(Len(q) - 1) /\ (i - 1) + 1 = i
        BY <1>1, <3>2
      <4>2. q[i] = Tail(q)[i - 1]
        BY <1>1, <4>1
      <4>3. QED
        BY <1>1, <4>1, <4>2 DEF Range
    <3>3. QED
      BY <3>1, <3>2
  <2>2. ASSUME NEW i \in 1..(Len(q) - 1)
        PROVE  Tail(q)[i] \in Range(q)
    <3>1. i + 1 \in 1..Len(q) /\ Tail(q)[i] = q[i + 1]
      BY <1>1
    <3>2. QED
      BY <1>1, <3>1 DEF Range
  <2>3. Head(q) \in Range(q)
    BY <1>1 DEF Range
  <2>4. QED
    BY <1>1, <2>1, <2>2, <2>3 DEF Range
<1>7. ASSUME Head(q).op # "accept"
      PROVE  /\ AcceptsIn(Tail(q)) = {} <=> AcceptsIn(q) = {}
             /\ (\A i, j \in AcceptsIn(q) : i = j) =>
                   \A i, j \in AcceptsIn(Tail(q)) : i = j
  <2>1. AcceptsIn(Tail(q)) = {} <=> AcceptsIn(q) = {}
    BY <1>2, <1>3, <1>4, <1>5, <1>7
  <2>2. ASSUME \A i, j \in AcceptsIn(q) : i = j,
               NEW i \in AcceptsIn(Tail(q)), NEW j \in AcceptsIn(Tail(q))
        PROVE  i = j
    <3>1. i \in Nat /\ j \in Nat
      BY <1>3
    <3>2. i + 1 = j + 1
      BY <1>2, <2>2, <3>1
    <3>3. QED
      BY <3>1, <3>2
  <2>3. QED
    BY <2>1, <2>2
<1>8. ASSUME Head(q).op = "accept", \A i, j \in AcceptsIn(q) : i = j
      PROVE  AcceptsIn(Tail(q)) = {}
  <2>1. ASSUME NEW i \in AcceptsIn(Tail(q))
        PROVE  FALSE
    <3>1. i \in Nat /\ i >= 1 /\ i + 1 \in AcceptsIn(q)
      BY <1>2, <1>3
    <3>2. i + 1 = 1
      BY <1>4, <1>8, <3>1
    <3>3. QED
      BY <3>1, <3>2
  <2>2. QED
    BY <2>1
<1>9. QED
  BY <1>4, <1>6, <1>7, <1>8

LEMMA PoppedFields ==
    ASSUME srv \in ServerState
    PROVE  /\ Popped.socket = srv.socket /\ Popped.temp_socket = srv.temp_socket
           /\ Popped.streaming = srv.streaming /\ Popped.process = srv.process
           /\ Popped.accepting = srv.accepting /\ Popped.reads = srv.reads
           /\ Popped.timer = srv.timer /\ Popped.status = srv.status
           /\ Popped.inbox = srv.inbox /\ Popped.queue = Tail(srv.queue)
BY DEF Popped, ServerState

\* What popping a completion that is no accept leaves of safety.
LEMMA PoppedSafe ==
    ASSUME srv \in ServerState, Safe(srv), srv.queue # <<>>,
           Head(srv.queue).op # "accept"
    PROVE  /\ Settled(Popped)
           /\ Head(srv.queue).op # "read" => Heard(Popped)
           /\ Head(srv.queue).op # "wait" => Watched(Popped)
<1>1. srv.queue \in Seq(Completion)
  BY QueueType
<1>2. Range(srv.queue) = Range(Popped.queue) \cup {Head(srv.queue)}
  BY <1>1, PoppedAccepts, PoppedFields
<1>3. Streams(Popped)
  BY PoppedFields DEF Streams, Safe, Settled
<1>4. NoLeak(Popped)
  <2>1. ASSUME NEW c \in Conns PROVE Accepted(c) # Head(srv.queue)
    BY DEF Accepted
  <2>2. QED
    BY <1>2, <2>1, PoppedFields DEF NoLeak, Safe, Settled
<1>5. Armed(Popped)
  <2>1. Armed(srv)
    BY DEF Safe, Settled
  <2>2. /\ AcceptsIn(Tail(srv.queue)) = {} <=> AcceptsIn(srv.queue) = {}
        /\ \A i, j \in AcceptsIn(Tail(srv.queue)) : i = j
    BY <1>1, <2>1, PoppedAccepts DEF Armed
  <2>3. QED
    BY <2>1, <2>2, PoppedFields DEF Armed
<1>6. Head(srv.queue).op # "read" => Heard(Popped)
  BY <1>2, PoppedFields DEF Heard, Safe
<1>7. Head(srv.queue).op # "wait" => Watched(Popped)
  BY <1>2, PoppedFields DEF Watched, Safe
<1>8. QED
  BY <1>3, <1>4, <1>5, <1>6, <1>7 DEF Settled

LEMMA DispatchAcceptSafe ==
    ASSUME srv \in ServerState, Safe(srv), DispatchAccept
    PROVE  Safe(srv')
<1> DEFINE c == Head(srv.queue).conn
<1>1. /\ srv.queue \in Seq(Completion) /\ srv.queue # <<>>
      /\ Head(srv.queue).op = "accept" /\ srv' = accept_handler(Popped, c)
  BY QueueType DEF DispatchAccept, Dispatchable
<1>2. Popped \in ServerState /\ c \in Conns \cup {NoConn}
  BY <1>1, PoppedType
<1>3. /\ AcceptsIn(Popped.queue) = {} /\ ~srv.accepting /\ srv.temp_socket
      /\ Range(srv.queue) = Range(Popped.queue) \cup {Head(srv.queue)}
  BY <1>1, PoppedAccepts, PoppedFields DEF Safe, Settled, Armed
<1>4. \A d \in Conns : Accepted(d) \notin Range(Popped.queue)
  <2>1. ASSUME NEW d \in Conns, Accepted(d) \in Range(Popped.queue)
        PROVE  FALSE
    <3>1. PICK i \in DOMAIN Popped.queue : Popped.queue[i] = Accepted(d)
      BY <2>1 DEF Range
    <3>2. i \in AcceptsIn(Popped.queue)
      BY <3>1 DEF AcceptsIn, Accepted
    <3>3. QED
      BY <1>3, <3>2
  <2>2. QED
    BY <2>1
<1>5. CASE c \in Conns
  <2>1. ASSUME NEW d \in Conns, Popped.status[d] = "open"
        PROVE  d = Popped.socket \/ d = c
    <3>1. d = srv.socket \/ Accepted(d) \in Range(srv.queue)
      BY <2>1, PoppedFields DEF Safe, Settled, NoLeak
    <3>2. CASE Accepted(d) \in Range(srv.queue)
      BY <1>3, <1>4, <3>2 DEF Accepted
    <3>3. QED
      BY <3>1, <3>2, PoppedFields
  <2>2. QED
    BY <1>1, <1>2, <1>3, <1>5, <2>1, AcceptedSafe
<1>6. CASE c = NoConn
  <2> DEFINE s == [Popped EXCEPT !.temp_socket = FALSE]
  <2>1. s \in ServerState
    BY <1>2 DEF ServerState
  <2>2. /\ ~s.temp_socket /\ s.socket = srv.socket /\ s.process = srv.process
        /\ s.streaming = srv.streaming /\ s.status = srv.status
        /\ s.timer = srv.timer /\ s.reads = srv.reads /\ s.queue = Popped.queue
    BY <1>2, PoppedFields DEF ServerState
  <2>3. \A d \in Conns : Accepted(d) # Head(srv.queue)
    BY <1>6, ConnsAssumption DEF Accepted
  <2>4. Streams(s) /\ NoLeak(s)
    <3> HIDE DEF s
    <3>1. QED
      BY <1>3, <2>2, <2>3 DEF Streams, NoLeak, Safe, Settled
  <2>5. Heard(s) /\ Watched(s)
    <3> HIDE DEF s
    <3>1. QED
      BY <1>1, <1>3, <2>2 DEF Heard, Watched, Safe
  <2>6. Safe(start_async_accept(s))
    <3> HIDE DEF s
    <3>1. QED
      BY <1>3, <2>1, <2>2, <2>4, <2>5, StartAsyncAcceptSafe
  <2>7. QED
    BY <1>1, <1>6, <2>6 DEF accept_handler, serve
<1>7. QED
  BY <1>2, <1>5, <1>6

LEMMA DispatchPollSafe ==
    ASSUME srv \in ServerState, Safe(srv), DispatchPoll
    PROVE  Safe(srv')
<1> DEFINE c == Head(srv.queue).conn
           n == Completable(Popped, c)
           performed == Perform(Popped, c, n)
<1>1. srv.queue # <<>> /\ Head(srv.queue).op = "poll"
  BY DEF DispatchPoll, Dispatchable
<1>2. Popped \in ServerState /\ c \in Conns
  BY <1>1, PoppedType
<1>3. Settled(Popped) /\ Heard(Popped) /\ Watched(Popped)
  BY <1>1, PoppedSafe
<1>4. n \in 0..Popped.reads[c]
  BY <1>2, CompletableType
<1>5. /\ performed \in ServerState
      /\ performed.socket = Popped.socket /\ performed.timer = Popped.timer
      /\ performed.status = Popped.status
      /\ performed.temp_socket = Popped.temp_socket
      /\ performed.accepting = Popped.accepting
      /\ Grown(Popped.queue, performed.queue)
  <2> HIDE DEF c, n
  <2>1. QED
    BY <1>2, <1>4, PerformedType
<1>6. NoLeak(performed) /\ Armed(performed) /\ Watched(performed)
  <2> HIDE DEF performed
  <2>1. QED
    BY <1>3, <1>5 DEF Settled, NoLeak, Armed, Watched, Grown
<1>7. srv' = Popped \/ \E r : srv' = read_handler(performed, r)
  BY DEF DispatchPoll
<1>8. QED
  <2> HIDE DEF performed
  <2>1. QED
    BY <1>3, <1>5, <1>6, <1>7, ReadHandlerSafe DEF Safe

LEMMA DispatchSafe ==
    ASSUME srv \in ServerState, Safe(srv), Dispatch
    PROVE  Safe(srv')
<1>1. CASE DispatchAccept
  BY <1>1, DispatchAcceptSafe
<1>2. CASE DispatchRead
  <2>1. srv.queue # <<>> /\ Head(srv.queue).op = "read"
    BY <1>2 DEF DispatchRead, Dispatchable
  <2>2. Popped \in ServerState
    BY <2>1, PoppedType
  <2>3. NoLeak(Popped) /\ Armed(Popped) /\ Watched(Popped)
    BY <2>1, PoppedSafe DEF Settled
  <2>4. PICK r : srv' = read_handler(Popped, r)
    BY <1>2 DEF DispatchRead
  <2>5. QED
    BY <2>2, <2>3, <2>4, ReadHandlerSafe
<1>3. CASE DispatchPoll
  BY <1>3, DispatchPollSafe
<1>4. CASE DispatchWait
  <2>1. srv.queue # <<>> /\ Head(srv.queue).op = "wait"
    BY <1>4 DEF DispatchWait, Dispatchable
  <2>2. Popped \in ServerState /\ Head(srv.queue) \in Completion
    BY <2>1, PoppedType
  <2>3. Head(srv.queue).result \in {"ok", "aborted"}
    BY <2>1, <2>2 DEF Completion
  <2>4. Settled(Popped) /\ Heard(Popped)
    BY <2>1, PoppedSafe
  <2>5. QED
    BY <1>4, <2>2, <2>3, <2>4, WaitHandlerSafe DEF DispatchWait
<1>5. CASE DispatchFrame
  <2>1. srv.queue # <<>> /\ Head(srv.queue).op = "frame" /\ srv.process = "running"
    BY <1>5 DEF DispatchFrame, Dispatchable
  <2>2. Popped \in ServerState
    BY <2>1, PoppedType
  <2>3. Safe(Popped)
    BY <2>1, PoppedSafe DEF Safe
  <2>4. PICK p : srv' = [Popped EXCEPT !.process = p]
    BY <1>5 DEF DispatchFrame, send_frame
  <2>5. /\ srv'.socket = Popped.socket /\ srv'.temp_socket = Popped.temp_socket
        /\ srv'.streaming = Popped.streaming /\ srv'.queue = Popped.queue
        /\ srv'.accepting = Popped.accepting /\ srv'.reads = Popped.reads
        /\ srv'.timer = Popped.timer /\ srv'.status = Popped.status
    BY <2>2, <2>4 DEF ServerState
  <2>6. Streams(srv')
    BY <2>1, <2>3, <2>5, PoppedFields DEF Streams, Safe, Settled
  <2>7. NoLeak(srv') /\ Armed(srv')
    BY <2>3, <2>5 DEF NoLeak, Armed, Safe, Settled
  <2>8. Heard(srv') /\ Watched(srv')
    BY <2>3, <2>5 DEF Heard, Watched, Safe
  <2>9. QED
    BY <2>6, <2>7, <2>8 DEF Safe, Settled
<1>6. CASE DispatchStatus
  <2>1. srv.queue # <<>> /\ Head(srv.queue).op = "status" /\ srv.process = "running"
    BY <1>6 DEF DispatchStatus, Dispatchable
  <2>2. Popped \in ServerState /\ srv.streaming \in BOOLEAN
    BY <2>1, PoppedType DEF ServerState
  <2>3. Safe(Popped)
    BY <2>1, PoppedSafe DEF Safe
  <2>4. /\ srv'.socket = Popped.socket /\ srv'.temp_socket = Popped.temp_socket
        /\ srv'.streaming = srv.streaming /\ srv'.queue = Popped.queue
        /\ srv'.accepting = Popped.accepting /\ srv'.reads = Popped.reads
        /\ srv'.timer = Popped.timer /\ srv'.status = Popped.status
        /\ srv'.process = Popped.process
    BY <1>6, <2>2, StatusEffect DEF DispatchStatus
  <2>5. Streams(srv') /\ NoLeak(srv') /\ Armed(srv')
    BY <2>3, <2>4, PoppedFields DEF Streams, NoLeak, Armed, Safe, Settled
  <2>6. Heard(srv') /\ Watched(srv')
    BY <2>3, <2>4 DEF Heard, Watched, Safe
  <2>7. QED
    BY <2>5, <2>6 DEF Safe, Settled
<1>7. QED
  BY <1>1, <1>2, <1>3, <1>4, <1>5, <1>6 DEF Dispatch

\* A step that keeps what the server holds, and adds no accept to the queue,
\* keeps it safe.
LEMMA GrownSafe ==
    ASSUME NEW s, NEW t, Safe(s),
           t.socket = s.socket, t.streaming = s.streaming,
           t.temp_socket = s.temp_socket, t.accepting = s.accepting,
           t.reads = s.reads, Grown(s.queue, t.queue),
           t.process = s.process \/ s.process \in {"running", "blocked"},
           t.timer = s.timer \/ Watched(t),
           \A c \in Conns : t.status[c] = "open" => s.status[c] = "open"
    PROVE  Safe(t)
<1>1. Streams(t)
  BY DEF Streams, Safe, Settled
<1>2. NoLeak(t) /\ Armed(t)
  BY DEF NoLeak, Armed, Safe, Settled, Grown
<1>3. Heard(t) /\ Watched(t)
  BY DEF Heard, Watched, Safe, Grown
<1>4. QED
  BY <1>1, <1>2, <1>3 DEF Safe, Settled

LEMMA EnqueueEffect ==
    ASSUME NEW s \in ServerState, NEW e \in Completion
    PROVE  LET t == Enqueue(s, e)
           IN  /\ t.socket = s.socket /\ t.streaming = s.streaming
               /\ t.temp_socket = s.temp_socket /\ t.accepting = s.accepting
               /\ t.reads = s.reads /\ t.process = s.process
               /\ t.timer = s.timer /\ t.status = s.status
               /\ t.queue = Append(s.queue, e)
BY DEF Enqueue, ServerState

LEMMA EnqueueSafe ==
    ASSUME NEW s \in ServerState, NEW e \in Completion, Safe(s), e.op # "accept"
    PROVE  Safe(Enqueue(s, e)) /\ e \in Range(Enqueue(s, e).queue)
<1> DEFINE t == Enqueue(s, e)
<1>1. /\ t.socket = s.socket /\ t.streaming = s.streaming
      /\ t.temp_socket = s.temp_socket /\ t.accepting = s.accepting
      /\ t.reads = s.reads /\ t.process = s.process
      /\ t.timer = s.timer /\ t.status = s.status
      /\ t.queue = Append(s.queue, e)
  BY EnqueueEffect
<1>2. Grown(s.queue, t.queue) /\ e \in Range(t.queue)
  <2>1. s.queue \in Seq(Completion)
    BY QueueType
  <2>2. QED
    <3> HIDE DEF t
    <3>1. QED
      BY <1>1, <2>1, GrownByAppend
<1>3. Safe(t)
  <2> HIDE DEF t
  <2>1. QED
    BY <1>1, <1>2, GrownSafe
<1>4. QED
  BY <1>2, <1>3

\* The queue of a server that waits for an accept holds none; the one that
\* answers it is then the only one.
LEMMA AcceptQueued ==
    ASSUME NEW q \in Seq(Completion), NEW e \in Completion, e.op = "accept",
           AcceptsIn(q) = {}
    PROVE  /\ AcceptsIn(Append(q, e)) # {}
           /\ \A i, j \in AcceptsIn(Append(q, e)) : i = j
           /\ Range(q) \subseteq Range(Append(q, e))
           /\ e \in Range(Append(q, e))
<1>1. /\ DOMAIN q = 1..Len(q) /\ Len(q) \in Nat
      /\ DOMAIN Append(q, e) = 1..(Len(q) + 1)
      /\ \A i \in 1..Len(q) : Append(q, e)[i] = q[i]
      /\ Append(q, e)[Len(q) + 1] = e
  OBVIOUS
<1>2. Range(q) \subseteq Range(Append(q, e)) /\ e \in Range(Append(q, e))
  BY <1>1 DEF Range
<1>3. AcceptsIn(Append(q, e)) = {Len(q) + 1}
  BY <1>1 DEF AcceptsIn
<1>4. QED
  BY <1>2, <1>3

\* The server that waited for an accept when the completion e answers it.
LEMMA AnsweredSafe ==
    ASSUME NEW s \in ServerState, Safe(s), s.accepting,
           NEW e \in Completion, e.op = "accept",
           NEW t, t.socket = s.socket, t.streaming = s.streaming,
           t.temp_socket = s.temp_socket, t.accepting = FALSE,
           t.reads = s.reads, t.process = s.process, t.timer = s.timer,
           t.queue = Append(s.queue, e),
           \A c \in Conns : t.status[c] = "open" =>
                               s.status[c] = "open" \/ e = Accepted(c)
    PROVE  Safe(t)
<1>1. s.queue \in Seq(Completion) /\ AcceptsIn(s.queue) = {} /\ s.temp_socket
  BY QueueType DEF Safe, Settled, Armed
<1>2. /\ AcceptsIn(t.queue) # {} /\ \A i, j \in AcceptsIn(t.queue) : i = j
      /\ Range(s.queue) \subseteq Range(t.queue) /\ e \in Range(t.queue)
  BY <1>1, AcceptQueued
<1>3. Armed(t)
  BY <1>1, <1>2 DEF Armed
<1>4. Streams(t) /\ NoLeak(t)
  BY <1>2 DEF Streams, NoLeak, Safe, Settled
<1>5. Heard(t) /\ Watched(t)
  BY <1>2 DEF Heard, Watched, Safe
<1>6. QED
  BY <1>3, <1>4, <1>5 DEF Safe, Settled

LEMMA ReactorSafe ==
    ASSUME srv \in ServerState, Safe(srv), Reactor
    PROVE  Safe(srv')
<1>1. CASE AcceptFails
  <2>1. AcceptError \in Completion /\ AcceptError.op = "accept"
    BY DEF AcceptError, Completion, Result, ReadError
  <2> DEFINE t == Enqueue(srv, AcceptError)
  <2>2. t \in ServerState
    BY <2>1, EnqueueType
  <2>3. srv' = [t EXCEPT !.accepting = FALSE]
    BY <1>1 DEF AcceptFails
  <2>4. /\ srv'.socket = t.socket /\ srv'.streaming = t.streaming
        /\ srv'.temp_socket = t.temp_socket /\ srv'.accepting = FALSE
        /\ srv'.reads = t.reads /\ srv'.process = t.process
        /\ srv'.timer = t.timer /\ srv'.status = t.status
        /\ srv'.queue = t.queue
    <3> HIDE DEF t
    <3>1. QED
      BY <2>2, <2>3 DEF ServerState
  <2>5. /\ t.socket = srv.socket /\ t.streaming = srv.streaming
        /\ t.temp_socket = srv.temp_socket /\ t.reads = srv.reads
        /\ t.process = srv.process /\ t.timer = srv.timer
        /\ t.status = srv.status /\ t.queue = Append(srv.queue, AcceptError)
    BY <2>1, EnqueueEffect
  <2>6. \A d \in Conns : srv'.status[d] = "open" =>
                           srv.status[d] = "open" \/ AcceptError = Accepted(d)
    BY <2>4, <2>5
  <2>7. srv.accepting
    BY <1>1 DEF AcceptFails
  <2>8. QED
    <3> HIDE DEF t
    <3>1. QED
      BY <2>1, <2>4, <2>5, <2>6, <2>7, AnsweredSafe
<1>2. CASE Elapse
  <2>1. /\ srv'.socket = srv.socket /\ srv'.streaming = srv.streaming
        /\ srv'.temp_socket = srv.temp_socket /\ srv'.accepting = srv.accepting
        /\ srv'.reads = srv.reads /\ srv'.process = srv.process
        /\ srv'.timer = "due" /\ srv'.status = srv.status
        /\ srv'.queue = srv.queue
    <3>1. ASSUME NEW f
          PROVE  LET v == [srv EXCEPT !.timer = "due", !.calls = f]
                 IN  /\ v.socket = srv.socket /\ v.streaming = srv.streaming
                     /\ v.temp_socket = srv.temp_socket
                     /\ v.accepting = srv.accepting
                     /\ v.reads = srv.reads /\ v.process = srv.process
                     /\ v.timer = "due" /\ v.status = srv.status
                     /\ v.queue = srv.queue
      BY DEF ServerState
    <3>2. QED
      BY <1>2, <3>1 DEF Elapse
  <2>2. Watched(srv') /\ Grown(srv.queue, srv'.queue)
    BY <2>1 DEF Watched, Grown
  <2>3. QED
    BY <2>1, <2>2, GrownSafe
<1>3. CASE TimerExpires
  <2>1. WaitDone("ok") \in Completion /\ WaitDone("ok").op = "wait"
    BY WaitDoneType DEF WaitDone
  <2> DEFINE t == Enqueue(srv, WaitDone("ok"))
  <2>2. t \in ServerState /\ Safe(t) /\ WaitDone("ok") \in Range(t.queue)
    BY <2>1, EnqueueType, EnqueueSafe
  <2>3. srv' = [t EXCEPT !.timer = "idle"]
    BY <1>3 DEF TimerExpires
  <2>4. /\ srv'.socket = t.socket /\ srv'.streaming = t.streaming
        /\ srv'.temp_socket = t.temp_socket /\ srv'.accepting = t.accepting
        /\ srv'.reads = t.reads /\ srv'.process = t.process
        /\ srv'.status = t.status /\ srv'.queue = t.queue
    <3> HIDE DEF t
    <3>1. QED
      BY <2>2, <2>3 DEF ServerState
  <2>5. Watched(srv') /\ Grown(t.queue, srv'.queue)
    <3> HIDE DEF t
    <3>1. QED
      BY <2>1, <2>2, <2>4 DEF Watched, Grown
  <2>6. QED
    <3> HIDE DEF t
    <3>1. QED
      BY <2>2, <2>4, <2>5, GrownSafe
<1>4. ASSUME NEW c \in Conns, AcceptReady(c)
      PROVE  Safe(srv')
  <2>1. Accepted(c) \in Completion /\ Accepted(c).op = "accept"
    BY CompletionTypes DEF Result, Accepted
  <2> DEFINE t == Enqueue(srv, Accepted(c))
  <2>2. t \in ServerState
    BY <2>1, EnqueueType
  <2>3. srv' = [t EXCEPT !.accepting = FALSE, !.status[c] = "open"]
    BY <1>4 DEF AcceptReady
  <2>4. /\ srv'.socket = t.socket /\ srv'.streaming = t.streaming
        /\ srv'.temp_socket = t.temp_socket /\ srv'.accepting = FALSE
        /\ srv'.reads = t.reads /\ srv'.process = t.process
        /\ srv'.timer = t.timer /\ srv'.queue = t.queue
        /\ \A d \in Conns : d # c => srv'.status[d] = t.status[d]
    <3> HIDE DEF t
    <3>1. QED
      BY <2>2, <2>3 DEF ServerState
  <2>5. /\ t.socket = srv.socket /\ t.streaming = srv.streaming
        /\ t.temp_socket = srv.temp_socket /\ t.reads = srv.reads
        /\ t.process = srv.process /\ t.timer = srv.timer
        /\ t.status = srv.status /\ t.queue = Append(srv.queue, Accepted(c))
    BY <2>1, EnqueueEffect
  <2>6. \A d \in Conns : srv'.status[d] = "open" =>
                           srv.status[d] = "open" \/ Accepted(c) = Accepted(d)
    BY <2>4, <2>5
  <2>7. srv.accepting
    BY <1>4 DEF AcceptReady
  <2>8. /\ srv'.socket = srv.socket /\ srv'.streaming = srv.streaming
        /\ srv'.temp_socket = srv.temp_socket /\ srv'.accepting = FALSE
        /\ srv'.reads = srv.reads /\ srv'.process = srv.process
        /\ srv'.timer = srv.timer
        /\ srv'.queue = Append(srv.queue, Accepted(c))
    BY <2>4, <2>5
  <2>9. QED
    BY <2>1, <2>6, <2>7, <2>8, AnsweredSafe
<1>5. ASSUME NEW c \in Conns, ReadReady(c)
      PROVE  Safe(srv')
  <2>1. Poll(c) \in Completion /\ Poll(c).op # "accept"
    BY CompletionTypes DEF Result, Poll
  <2>2. QED
    BY <1>5, <2>1, EnqueueSafe DEF ReadReady
<1>6. QED
  BY <1>1, <1>2, <1>3, <1>4, <1>5 DEF Reactor

LEMMA ClientSafe ==
    ASSUME srv \in ServerState, Safe(srv), NEW c \in Conns, Client(c)
    PROVE  Safe(srv')
<1>1. ASSUME NEW b, NEW f,
             \/ srv' = [srv EXCEPT !.status[c] = "backlog", !.calls = f]
             \/ srv' = [srv EXCEPT !.inbox[c] = b, !.calls = f]
             \/ srv' = [srv EXCEPT !.calls = f]
      PROVE  Safe(srv')
  <2>1. /\ srv'.socket = srv.socket /\ srv'.streaming = srv.streaming
        /\ srv'.temp_socket = srv.temp_socket
        /\ srv'.accepting = srv.accepting
        /\ srv'.reads = srv.reads /\ srv'.process = srv.process
        /\ srv'.timer = srv.timer /\ srv'.queue = srv.queue
    BY <1>1 DEF ServerState
  <2>2. \A d \in Conns : srv'.status[d] = srv.status[d] \/ srv'.status[d] = "backlog"
    BY <1>1 DEF ServerState
  <2>3. QED
    BY <2>1, <2>2, GrownSafe DEF Grown
<1>2. CASE Connect(c)
  BY <1>1, <1>2 DEF Connect
<1>3. CASE Disconnect(c)
  BY <1>1, <1>3 DEF Disconnect
<1>4. CASE Vanish(c)
  BY <1>1, <1>4 DEF Vanish
<1>5. ASSUME NEW m \in Messages, Send(c, m)
      PROVE  Safe(srv')
  BY <1>1, <1>5 DEF Send
<1>6. QED
  BY <1>2, <1>3, <1>4, <1>5 DEF Client

LEMMA InitSafe == Init => Safe(srv)
<1> SUFFICES ASSUME Init PROVE Safe(srv)
  OBVIOUS
<1>1. /\ srv.socket = NoConn /\ srv.temp_socket = TRUE /\ srv.accepting = TRUE
      /\ srv.streaming = FALSE /\ srv.queue = <<>>
      /\ srv.status = [c \in Conns |-> "none"]
  BY DEF Init
<1>2. Streams(srv)
  BY <1>1 DEF Streams
<1>3. NoLeak(srv)
  BY <1>1 DEF NoLeak
<1>4. AcceptsIn(srv.queue) = {}
  BY <1>1 DEF AcceptsIn
<1>5. Armed(srv)
  BY <1>1, <1>4 DEF Armed
<1>6. Heard(srv) /\ Watched(srv)
  BY <1>1 DEF Heard, Watched
<1>7. QED
  BY <1>2, <1>3, <1>5, <1>6 DEF Safe, Settled

LEMMA NextSafe == TypeOK /\ Safe(srv) /\ [ServerNext]_vars => Safe(srv)'
<1> SUFFICES ASSUME srv \in ServerState, Safe(srv), [ServerNext]_vars PROVE Safe(srv')
  BY DEF TypeOK
<1>1. CASE Dispatch
  BY <1>1, DispatchSafe
<1>2. CASE Unblock
  <2>1. ASSUME NEW f, NEW p, srv' = [srv EXCEPT !.calls = f, !.process = p]
        PROVE  /\ srv'.socket = srv.socket /\ srv'.streaming = srv.streaming
               /\ srv'.temp_socket = srv.temp_socket
               /\ srv'.accepting = srv.accepting /\ srv'.reads = srv.reads
               /\ srv'.timer = srv.timer /\ srv'.queue = srv.queue
               /\ srv'.status = srv.status
    BY <2>1 DEF ServerState
  <2>2. srv.process = "blocked" /\ \E f, p : srv' = [srv EXCEPT !.calls = f, !.process = p]
    BY <1>2 DEF Unblock
  <2>3. QED
    BY <2>1, <2>2, GrownSafe DEF Grown
<1>3. CASE Reactor
  BY <1>3, ReactorSafe
<1>4. ASSUME NEW c \in Conns, Client(c)
      PROVE  Safe(srv')
  BY <1>4, ClientSafe
<1>5. CASE UNCHANGED vars
  BY <1>5 DEF vars
<1>6. QED
  BY <1>1, <1>2, <1>3, <1>4, <1>5 DEF ServerNext

\* The conjunction of the safety invariants is inductive on top of the type
\* invariant: this is the strengthening that each of them needs of the others.
THEOREM ServerSafe == Spec => [](TypeOK /\ Safe(srv))
<1>1. Init => TypeOK /\ Safe(srv)
  BY InitType, InitSafe
<1>2. TypeOK /\ Safe(srv) /\ [Next]_vars => (TypeOK /\ Safe(srv))'
  BY NextType, NextSafe, NextIsServerNext
<1>3. QED
  BY <1>1, <1>2, PTL DEF Spec

\* Whatever ends the service of a client (an error, an unknown command, the
\* keep-alive or a newer client) also stops the stream.
THEOREM NoStreamWithoutClient == Spec => []StreamingNeedsClient
<1>1. Safe(srv) => StreamingNeedsClient
  BY DEF Safe, Settled, Streams, StreamingNeedsClient, Alive
<1>2. QED
  BY <1>1, ServerSafe, PTL

\* No order of commands, errors, time-outs and newer clients leaves the
\* connection the server holds without a read on it.
THEOREM NeverDeaf == Spec => []ConnectionHeard
<1>1. Safe(srv) => ConnectionHeard
  BY DEF Safe, Heard, ConnectionHeard, Queued
<1>2. QED
  BY <1>1, ServerSafe, PTL

\* No order of cancellations and expiries leaves the connection the server
\* holds without a wait on the keep-alive timer.
THEOREM NeverUnwatched == Spec => []ConnectionWatched
<1>1. Safe(srv) => ConnectionWatched
  BY DEF Safe, Watched, ConnectionWatched, Queued
<1>2. QED
  BY <1>1, ServerSafe, PTL

\* No connection the server has accepted is left open and forgotten.
THEOREM NothingLeaked == Spec => []NoLeakedConnection
<1>1. Safe(srv) => NoLeakedConnection
  BY DEF Safe, Settled, NoLeak, NoLeakedConnection, Queued
<1>2. QED
  BY <1>1, ServerSafe, PTL

\* Exactly one accept is outstanding in every state, so the assertion of
\* start_async_accept cannot fail.
THEOREM AlwaysAccepting == Spec => []AcceptorArmed
<1>1. Safe(srv) => AcceptorArmed
  BY DEF Safe, Settled, Armed, AcceptsIn, AcceptorArmed, QueuedAccepts
<1>2. QED
  BY <1>1, ServerSafe, PTL
=============================================================================
