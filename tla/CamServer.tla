----------------------------- MODULE CamServer -----------------------------
(***************************************************************************)
(* The camera server of src/servers/camsrv: the class Server and the       *)
(* io_service of the main thread on which all its handlers run.            *)
(*                                                                         *)
(* An io_service with one thread is a FIFO queue of ready completions; the *)
(* handler of the one at the head runs to its end before the next starts.  *)
(* A function of Server is an operator from the state of the server to the *)
(* state it leaves, composed as the code composes its calls, so that one   *)
(* step of the specification is one whole handler. Two functions of Server *)
(* are called from the camera thread (send_frame and                       *)
(* request_stream_status_update): CamStream has the thread that posts them *)
(* and here, where there is no camera, none is ever queued.                *)
(*                                                                         *)
(* What asio promises and the hazards turn on is kept:                     *)
(*  - close() and cancel() do not run a handler: they queue its completion *)
(*    with operation_aborted, behind whatever is queued already;           *)
(*  - a completion that is queued can no longer be cancelled;              *)
(*  - a read started while bytes are waiting completes at once, and its    *)
(*    completion is queued; otherwise the reactor queues an event for the  *)
(*    descriptor and the bytes are received when the event is dispatched.  *)
(***************************************************************************)
EXTENDS Naturals, Sequences, FiniteSets, Functions, Recv

CONSTANTS
    Conns,      \* the TCP connections clients ever open to the server
    NoConn,     \* a null socket
    Messages,   \* bound: the commands the clients send
    MaxInbox    \* bound: messages a client has sent and the server not read

ASSUME ConnsAssumption == NoConn \notin Conns

VARIABLES
    srv,    \* the server process: its objects, its io_service, its kernel side
    peer    \* [Conns -> PeerStatus], the client's end of each connection

vars == <<srv, peer>>

Command == {"IMAGE", "KEEP_ALIVE", "STREAM_ON", "STREAM_OFF"}
ASSUME BoundsAssumption ==
    Messages \subseteq Command /\ MaxInbox \in Nat

ReadError == {"eof", "aborted"}
Result == Command \cup ReadError \cup {"ok"}
PeerStatus == {"absent", "up", "closed", "gone"}
ConnStatus == {"none", "backlog", "open", "closed"}
TimerStatus == {"idle", "armed", "due"}
Process == {"running", "blocked", "aborted", "terminated"}

Completion ==
         [op : {"accept"}, conn : Conns \cup {NoConn}, result : Result]
    \cup [op : {"poll", "read"}, conn : Conns, result : Result]
    \cup [op : {"wait"}, conn : {NoConn}, result : {"ok", "aborted"}]
    \cup [op : {"frame", "status"}, conn : {NoConn}, result : Result]

Accepted(c)   == [op |-> "accept", conn |-> c, result |-> "ok"]
AcceptError   == [op |-> "accept", conn |-> NoConn, result |-> "aborted"]
Poll(c)       == [op |-> "poll", conn |-> c, result |-> "ok"]
ReadDone(c, r) == [op |-> "read", conn |-> c, result |-> r]
WaitDone(r)   == [op |-> "wait", conn |-> NoConn, result |-> r]
Frame         == [op |-> "frame", conn |-> NoConn, result |-> "ok"]
StatusRequest == [op |-> "status", conn |-> NoConn, result |-> "ok"]

ServerState ==
    [socket      : Conns \cup {NoConn},   \* Server::socket
     temp_socket : BOOLEAN,               \* Server::temp_socket is not null
     streaming   : BOOLEAN,               \* Server::streaming
     calls       : Seq(BOOLEAN),          \* calls of stream_callback in the last step
     process     : Process,
     queue       : Seq(Completion),       \* completions ready to be dispatched
     accepting   : BOOLEAN,               \* async_accept is pending
     reads       : [Conns -> Nat],        \* async_reads pending on a connection
     timer       : TimerStatus,           \* of the async_wait pending on it
     status      : [Conns -> ConnStatus], \* the server's end of a connection
     inbox       : [Conns -> Seq(Command \cup {"eof"})]]  \* received, not read

-----------------------------------------------------------------------------
(* The operations of asio that the handlers call.                          *)

Copies(n, e) == [i \in 1..n |-> e]

\* socket.close(): the pending reads are aborted.
Close(s, c) ==
    [s EXCEPT !.status[c] = "closed",
              !.reads[c] = 0,
              !.inbox[c] = <<>>,
              !.queue = @ \o Copies(s.reads[c], ReadDone(c, "aborted"))]

\* timer.cancel(), also the first effect of timer.expires_after().
Cancel(s) ==
    IF s.timer = "idle" THEN s
    ELSE [s EXCEPT !.timer = "idle", !.queue = Append(@, WaitDone("aborted"))]

\* The number of pending reads on c that can be completed now.
Completable(s, c) == Answered(s.inbox[c], s.reads[c])

\* n pending reads on c are performed, and all but the first one queued.
Perform(s, c, n) ==
    [s EXCEPT !.reads[c] = @ - n,
              !.inbox[c] = Remaining(@, n),
              !.queue = @ \o [i \in 1..(n - 1) |->
                                ReadDone(c, Received(s.inbox[c], i + 1))]]

\* async_read on c: tried at once, unless an earlier read is still pending.
AsyncRead(s, c) ==
    IF s.reads[c] = 0 /\ s.inbox[c] # <<>>
    THEN [s EXCEPT !.queue = Append(@, ReadDone(c, Received(s.inbox[c], 1))),
                   !.inbox[c] = Remaining(@, 1)]
    ELSE [s EXCEPT !.reads[c] = @ + 1]

\* The command a completed read finds in message_buffer. Two reads that are
\* outstanding share the buffer, and then it holds any bytes.
ReadOutstanding(s) ==
    \/ \E c \in Conns : s.reads[c] > 0
    \/ \E e \in Range(s.queue) : e.op = "read" /\ e.result \in Command

Contents(s, r) ==
    IF r \in Command /\ ReadOutstanding(s) THEN Command ELSE {r}

-----------------------------------------------------------------------------
(* The functions of Server.                                                *)

update_stream_status(s, on) ==
    [s EXCEPT !.streaming = on,
              !.calls = Append(@, on)]

\* MUTANT of reset: the stream is not stopped.
resetKeepsStream(s) ==
    LET closed == IF s.socket = NoConn THEN s
                  ELSE [Close(s, s.socket) EXCEPT !.socket = NoConn]
    IN  Cancel(closed)

reset(s) ==
    LET closed == IF s.socket = NoConn THEN s
                  ELSE [Close(s, s.socket) EXCEPT !.socket = NoConn]
    IN  Cancel(update_stream_status(closed, FALSE))

start_keepalive(s) == [Cancel(s) EXCEPT !.timer = "armed"]

start_read(s) ==
    IF s.socket = NoConn THEN [s EXCEPT !.process = "aborted"]
    ELSE AsyncRead(s, s.socket)

start_async_accept(s) ==
    IF s.temp_socket THEN [s EXCEPT !.process = "aborted"]
    ELSE [s EXCEPT !.temp_socket = TRUE, !.accepting = TRUE]

\* The connection c takes the place of the one the server holds.
serve(s, c) ==
    start_read(start_keepalive([reset(s) EXCEPT !.socket = c, !.temp_socket = FALSE]))

\* MUTANT of accept_handler: the old connection is not reset first.
acceptWithoutReset(s, c) ==
    start_async_accept(
        IF c = NoConn THEN [s EXCEPT !.temp_socket = FALSE]
        ELSE start_read(start_keepalive([s EXCEPT !.socket = c, !.temp_socket = FALSE])))

\* MUTANT of accept_handler: temp_socket is not released after an error.
acceptKeepsTempSocket(s, c) ==
    start_async_accept(IF c = NoConn THEN s ELSE serve(s, c))

\* MUTANT of accept_handler: it returns after an error and accepts no more.
acceptGivesUp(s, c) ==
    IF c = NoConn THEN [s EXCEPT !.temp_socket = FALSE]
    ELSE start_async_accept(serve(s, c))

accept_handler(s, c) ==
    start_async_accept(IF c = NoConn THEN [s EXCEPT !.temp_socket = FALSE]
                       ELSE serve(s, c))

\* MUTANT of read_handler: the KEEP_ALIVE case returns before start_read.
readStopsAtKeepAlive(s, r) ==
    CASE r = "STREAM_ON"  -> start_read(update_stream_status(s, TRUE))
      [] r = "STREAM_OFF" -> start_read(update_stream_status(s, FALSE))
      [] r = "KEEP_ALIVE" -> Cancel(s)
      [] OTHER            -> reset(s)

\* MUTANT of read_handler: after an error it reads again.
readRetriesOnError(s, r) ==
    CASE r = "STREAM_ON"  -> start_read(update_stream_status(s, TRUE))
      [] r = "STREAM_OFF" -> start_read(update_stream_status(s, FALSE))
      [] r = "KEEP_ALIVE" -> start_read(Cancel(s))
      [] r = "IMAGE"      -> reset(s)
      [] OTHER            -> start_read(s)

read_handler(s, r) ==
    CASE r = "STREAM_ON"  -> start_read(update_stream_status(s, TRUE))
      [] r = "STREAM_OFF" -> start_read(update_stream_status(s, FALSE))
      [] r = "KEEP_ALIVE" -> start_read(Cancel(s))
      [] OTHER            -> reset(s)

\* MUTANT of wait_handler: a cancelled wait is not started again.
waitNotRestarted(s, r) == IF r = "ok" THEN reset(s) ELSE s

wait_handler(s, r) ==
    IF r = "aborted" /\ s.socket # NoConn THEN start_keepalive(s)
    ELSE IF r = "ok" THEN reset(s)
    ELSE s

send_frame(s, outcome) == [s EXCEPT !.process = outcome]

\* To decode and encode the image may throw, and nothing catches it. The two writes
\* go through, or throw when the client has closed and block when it has not.
FrameOutcomes(s) ==
    IF s.socket = NoConn THEN {"running"}
    ELSE IF peer[s.socket] = "closed" THEN {"running", "terminated"}
    ELSE {"running", "terminated", "blocked"}

-----------------------------------------------------------------------------
(* The main thread: one dispatch runs one handler.                         *)

Init ==
    /\ srv = [socket |-> NoConn, temp_socket |-> TRUE, streaming |-> FALSE,
              calls |-> <<>>, process |-> "running", queue |-> <<>>, accepting |-> TRUE,
              reads |-> [c \in Conns |-> 0], timer |-> "idle",
              status |-> [c \in Conns |-> "none"],
              inbox |-> [c \in Conns |-> <<>>]]
    /\ peer = [c \in Conns |-> "absent"]

Dispatchable(op) ==
    /\ srv.process = "running"
    /\ srv.queue # <<>>
    /\ Head(srv.queue).op = op

Popped == [srv EXCEPT !.queue = Tail(@), !.calls = <<>>]

DispatchAccept ==
    /\ Dispatchable("accept")
    /\ srv' = accept_handler(Popped, Head(srv.queue).conn)
    /\ UNCHANGED peer

DispatchRead ==
    /\ Dispatchable("read")
    /\ \E r \in Contents(Popped, Head(srv.queue).result) :
          srv' = read_handler(Popped, r)
    /\ UNCHANGED peer

\* The descriptor of c is ready: every read that can complete does, the first
\* one's handler runs in this step.
DispatchPoll ==
    /\ Dispatchable("poll")
    /\ LET c == Head(srv.queue).conn
           n == Completable(Popped, c)
       IN  IF n = 0 THEN srv' = Popped
           ELSE \E r \in Contents(Perform(Popped, c, n), Received(srv.inbox[c], 1)) :
                   srv' = read_handler(Perform(Popped, c, n), r)
    /\ UNCHANGED peer

DispatchWait ==
    /\ Dispatchable("wait")
    /\ srv' = wait_handler(Popped, Head(srv.queue).result)
    /\ UNCHANGED peer

DispatchFrame ==
    /\ Dispatchable("frame")
    /\ \E outcome \in FrameOutcomes(srv) : srv' = send_frame(Popped, outcome)
    /\ UNCHANGED peer

\* request_stream_status_update.
DispatchStatus ==
    /\ Dispatchable("status")
    /\ srv' = update_stream_status(Popped, srv.streaming)
    /\ UNCHANGED peer

\* A blocked write ends when the client reads; it throws when the client has
\* closed or TCP gives the connection up.
Unblock ==
    /\ srv.process = "blocked"
    /\ srv' = [srv EXCEPT !.calls = <<>>,
                          !.process = IF peer[srv.socket] = "up" THEN "running"
                                      ELSE "terminated"]
    /\ UNCHANGED peer

Dispatch ==
    \/ DispatchAccept \/ DispatchRead \/ DispatchPoll
    \/ DispatchWait \/ DispatchFrame \/ DispatchStatus

-----------------------------------------------------------------------------
PostOp == {"frame", "status"}   \* the calls that come from the camera thread
Alive == srv.process \in {"running", "blocked"}

(* The reactor: what it finds ready goes to the back of the queue.         *)

Enqueue(s, e) == [s EXCEPT !.queue = Append(@, e), !.calls = <<>>]

AcceptReady(c) ==
    /\ srv.process = "running"
    /\ srv.accepting
    /\ srv.status[c] = "backlog"
    /\ srv' = [Enqueue(srv, Accepted(c)) EXCEPT !.accepting = FALSE,
                                                !.status[c] = "open"]
    /\ UNCHANGED peer

AcceptFails ==
    /\ srv.process = "running"
    /\ srv.accepting
    /\ srv' = [Enqueue(srv, AcceptError) EXCEPT !.accepting = FALSE]
    /\ UNCHANGED peer

ReadReady(c) ==
    /\ srv.process = "running"
    /\ srv.reads[c] > 0
    /\ srv.inbox[c] # <<>>
    /\ Poll(c) \notin Range(srv.queue)
    /\ srv' = Enqueue(srv, Poll(c))
    /\ UNCHANGED peer

\* Fifteen seconds are long: they pass while the thread rests, is stuck in a
\* write, or works for the camera thread, never between two handlers that
\* merely follow each other.
Elapse ==
    /\ Alive
    /\ srv.timer = "armed"
    /\ srv.process = "running" /\ srv.queue # <<>> => Head(srv.queue).op \in PostOp
    /\ srv' = [srv EXCEPT !.timer = "due", !.calls = <<>>]
    /\ UNCHANGED peer

TimerExpires ==
    /\ srv.process = "running"
    /\ srv.timer = "due"
    /\ srv' = [Enqueue(srv, WaitDone("ok")) EXCEPT !.timer = "idle"]
    /\ UNCHANGED peer

-----------------------------------------------------------------------------
(* The clients.                                                            *)

Connect(c) ==
    /\ Alive
    /\ peer[c] = "absent" /\ srv.status[c] = "none"
    /\ peer' = [peer EXCEPT ![c] = "up"]
    /\ srv' = [srv EXCEPT !.status[c] = "backlog", !.calls = <<>>]

Reachable(c) == Alive /\ peer[c] = "up" /\ srv.status[c] # "closed"

Send(c, m) ==
    /\ Reachable(c)
    /\ Len(srv.inbox[c]) < MaxInbox
    /\ srv' = [srv EXCEPT !.inbox[c] = Append(@, m), !.calls = <<>>]
    /\ UNCHANGED peer

Disconnect(c) ==
    /\ Reachable(c)
    /\ peer' = [peer EXCEPT ![c] = "closed"]
    /\ srv' = [srv EXCEPT !.inbox[c] = Append(@, "eof"), !.calls = <<>>]

\* The client's machine is gone and no FIN was sent.
Vanish(c) ==
    /\ Reachable(c)
    /\ peer' = [peer EXCEPT ![c] = "gone"]
    /\ srv' = [srv EXCEPT !.calls = <<>>]

-----------------------------------------------------------------------------
Reactor == AcceptFails \/ Elapse \/ TimerExpires \/ \E c \in Conns : AcceptReady(c) \/ ReadReady(c)

Client(c) ==
    \/ Connect(c) \/ Disconnect(c) \/ Vanish(c)
    \/ \E m \in Messages : Send(c, m)

\* A step of the server, its asio and its clients, whatever else is posted to it.
ServerNext == Dispatch \/ Unblock \/ Reactor \/ \E c \in Conns : Client(c)

\* Without a camera no frame and no status request is posted, and no write blocks.
Next ==
    \/ DispatchAccept \/ DispatchRead \/ DispatchPoll \/ DispatchWait
    \/ Reactor \/ \E c \in Conns : Client(c)

Spec == Init /\ [][Next]_vars

\* The main thread never stops running handlers, the reactor reports what stays
\* ready (and accepts, as long as accepting does not fail for ever), TCP gives
\* up a write to a client that is gone, and fifteen seconds pass unless the
\* timer is set anew again and again.
Rearm ==
    /\ srv'.timer = "armed"
    /\ DispatchWait \/ (DispatchAccept /\ Head(srv.queue).conn # NoConn)

Fairness ==
    /\ WF_vars(Dispatch)
    /\ WF_vars(Unblock /\ peer[srv.socket] # "up")
    /\ WF_vars(TimerExpires)
    /\ SF_vars(Elapse) \/ []<><<Rearm>>_vars
    /\ \A c \in Conns : WF_vars(ReadReady(c)) /\ SF_vars(AcceptReady(c))

FairSpec == Spec /\ Fairness

-----------------------------------------------------------------------------
(* What must hold of every state.                                          *)

TypeOK == srv \in ServerState /\ peer \in [Conns -> PeerStatus]

Queued == Range(srv.queue)

\* Without a client the server never streams: whatever takes the client away
\* (an error, an unknown command, the keep-alive, a newer client) also stops
\* the stream. (reset, read_handler)
StreamingNeedsClient == Alive /\ srv.streaming => srv.socket # NoConn

\* As long as the server holds a connection, a read on it is outstanding, so a
\* command or the end of the connection can still reach the server: no order
\* of handlers leaves a connection deaf. (start_read after every command)
ConnectionHeard ==
    srv.socket # NoConn =>
        \/ srv.reads[srv.socket] > 0
        \/ \E e \in Queued : e.op = "read" /\ e.conn = srv.socket

\* As long as the server holds a connection, a wait on the keep-alive timer is
\* outstanding: cancelling it, by a KEEP_ALIVE or by the handler of another
\* wait, never leaves the connection unwatched. (start_keepalive)
ConnectionWatched ==
    srv.socket # NoConn => srv.timer # "idle" \/ \E e \in Queued : e.op = "wait"

\* Every connection the server has accepted and not closed is the one it
\* holds, or is on its way to the accept handler: none is leaked by a newer
\* one ("a one connection allowed server", server.hpp).
NoLeakedConnection ==
    \A c \in Conns : srv.status[c] = "open" =>
                         c = srv.socket \/ Accepted(c) \in Queued

\* There is always exactly one accept outstanding, and temp_socket is its
\* socket: the assert(!temp_socket) of start_async_accept cannot fail and the
\* server never stops accepting. (start_async_accept)
QueuedAccepts == {i \in DOMAIN srv.queue : srv.queue[i].op = "accept"}

AcceptorArmed ==
    /\ srv.temp_socket
    /\ srv.accepting <=> QueuedAccepts = {}
    /\ \A i, j \in QueuedAccepts : i = j

-----------------------------------------------------------------------------
(* What a step may do, and what must happen.                               *)

\* The connections of which a command has been sent and not been obeyed yet: it is
\* to be read or, with the read done, in the queue.
Asking(s) ==
    {c \in Conns :
        \/ Range(s.inbox[c]) \cap Command # {}
        \/ \E e \in Range(s.queue) : e.op = "read" /\ e.conn = c /\ e.result \in Command}

\* The server implements the service it promises: every handler admits one
\* client, drops the client, obeys one command or leaves the service as it was,
\* whatever asio still has queued for the clients before. Only so much is promised
\* of those: that a command of theirs was sent while they were connected, for the
\* read handler does not ask whose read it was. (server.cpp:30, 50)
Service == INSTANCE StreamService WITH Clients <- Conns, Nobody <- NoConn,
               holder <- srv.socket,
               former <- {c \in Conns : srv.status[c] = "closed"},
               asking <- Asking(srv),
               streaming <- srv.streaming, running <- Alive

ImplementsService == Service!Spec

\* The assert(socket) of start_read ("sanity check", server.cpp:47): a command
\* is only ever handled while the server holds a connection.
SocketAssertHolds == srv.process # "aborted"

\* A connection is not closed on account of a read of another one. "If a new
\* connection kicks old connection off, so be it" (server.hpp:40): the new
\* connection stays when the old one's read comes back aborted.
KickSparesNewcomer ==
    [][\A c \in Conns :
         srv.socket = c /\ srv'.socket # c /\ Head(srv.queue).op = "read"
            => Head(srv.queue).conn = c]_vars

\* The server notices when the client it serves disconnects.
DisconnectNoticed ==
    \A c \in Conns :
        srv.socket = c /\ peer[c] = "closed"
          ~> srv.socket # c \/ srv.process # "running"

\* The server drops a client that is gone without a FIN, for it gets no
\* KEEP_ALIVE from it within the time-out. (start_keepalive)
DeadPeerDropped ==
    \A c \in Conns :
        srv.socket = c /\ peer[c] = "gone"
          ~> srv.socket # c \/ srv.process # "running"

\* "we want to keep accepting tcp connections" (server.hpp:37): a client that
\* connects is accepted, whatever the client before it does, as long as the
\* process runs.
NewConnectionAccepted ==
    \A c \in Conns :
        srv.status[c] = "backlog" ~> srv.status[c] # "backlog" \/ ~Alive
=============================================================================
