----------------------------- MODULE CamClient -----------------------------
(***************************************************************************)
(* The camera client of src/servers/camsrv/cam_client: Cam_Client on the   *)
(* io_service thread of the backend library, and the connect button of the *)
(* Flutter application on the thread of the user interface. The button     *)
(* posts set_connection to the io_service; the library sends each change   *)
(* of the connection status to a Dart port.                                *)
(*                                                                         *)
(* The io_service is that of CamServer: a FIFO queue of completions. An    *)
(* event of a descriptor that was closed does nothing, so here closing     *)
(* takes it, the only one there can be, out of the queue.                  *)
(***************************************************************************)
EXTENDS Naturals, Sequences, FiniteSets, Functions, SequencesExt, Recv

CONSTANTS
    MaxInbox,   \* bound: parts of images received and not read
    MaxBacklog, \* bound: completions in the queue when the button is clicked
    MaxPort     \* bound: changes the user interface has not heard of at a click

ASSUME ClientBounds == MaxInbox \in Nat /\ MaxBacklog \in Nat /\ MaxPort \in Nat

VARIABLES
    cli,        \* the io_service thread, Cam_Client and its socket
    connected   \* what the user interface shows

vars == <<cli, connected>>

\* "refused" is a socket that is open after its connect has failed.
SocketStatus == {"closed", "connecting", "refused", "established"}
\* "sending" is a server that has sent a header and not the image, "gone" one
\* whose machine is gone, "unanswered" when it has not acknowledged a write.
ServerStatus == {"up", "sending", "closed", "gone", "unanswered"}
Item == {"image", "payload", "eof"}     \* a header, what follows it, the end
ReadKind == {"header", "data"}
ReadResult == Item \cup {"error"}

Completion ==
         [op : {"connect"}, arg : {"error"}]
    \cup [op : {"wait"}, arg : {"ok", "error"}]
    \cup [op : ReadKind, arg : ReadResult]
    \cup [op : {"set_connection"}, arg : BOOLEAN]
    \cup [op : {"event", "start_keepalive"}, arg : {"ok"}]

Done(op, arg) == [op |-> op, arg |-> arg]
Event == Done("event", "ok")

ClientState ==
    [socket            : SocketStatus,
     connecting        : BOOLEAN,           \* async_connect is pending
     connection_status : BOOLEAN,           \* Cam_Client::connection_status
     timer             : {"idle", "armed", "due"},
     reads             : Seq(ReadKind),     \* pending reads, in their order
     inbox             : Seq(Item),
     server            : ServerStatus,      \* the far end, once established
     queue             : Seq(Completion),
     port              : Seq(BOOLEAN)]      \* connection_callback to the Dart port

-----------------------------------------------------------------------------
(* The operations of asio that the handlers call.                          *)

Close(s) ==
    [s EXCEPT !.socket = "closed",
              !.connecting = FALSE,
              !.reads = <<>>,
              !.inbox = <<>>,
              !.server = "up",
              !.queue = RemoveFirst(@, Event)
                        \o [i \in DOMAIN s.reads |-> Done(s.reads[i], "error")]
                        \o IF s.connecting THEN <<Done("connect", "error")>> ELSE <<>>]

Cancel(s) ==
    IF s.timer = "idle" THEN s
    ELSE [s EXCEPT !.timer = "idle", !.queue = Append(@, Done("wait", "error"))]

\* The reads that an event of the descriptor completes, in their order.
Completable(s) == Answered(s.inbox, Len(s.reads))

ReadsDone(s) ==
    [i \in 1..Completable(s) |-> Done(s.reads[i], Received(s.inbox, i))]

AsyncRead(s, kind) ==
    IF s.socket \in {"closed", "refused"}
    THEN [s EXCEPT !.queue = Append(@, Done(kind, "error"))]
    ELSE IF s.reads = <<>> /\ s.inbox # <<>>
    THEN [s EXCEPT !.queue = Append(@, Done(kind, Head(s.inbox))),
                   !.inbox = Remaining(@, 1)]
    ELSE [s EXCEPT !.reads = Append(@, kind)]

\* A command is written at once or waits for the connection that is being made;
\* it fails on any other socket, and perhaps when the server is not there.
WriteOutcomes(s) ==
    CASE s.socket \in {"closed", "refused"} -> {FALSE}
      [] s.socket = "connecting"            -> BOOLEAN
      [] s.socket = "established"           -> IF s.server = "closed" THEN BOOLEAN ELSE {TRUE}

Written(s) ==
    [s EXCEPT !.socket = "established",
              !.server = IF @ = "gone" THEN "unanswered" ELSE @]

\* Two reads that are outstanding share the buffers, and a read may find what
\* was sent for another one: then it can hold anything.
ReadOutstanding(s) ==
    s.reads # <<>> \/ \E e \in Range(s.queue) : e.op \in ReadKind /\ e.arg # "error"

Contents(s, r) ==
    CASE r.arg \in {"eof", "error"}                            -> {"error"}
      [] r.op = "header" /\ r.arg = "image" /\ ~ReadOutstanding(s) -> {"image"}
      [] r.op = "data" /\ ~ReadOutstanding(s)                  -> {"image"}
      [] OTHER                                                 -> {"image", "invalid"}

-----------------------------------------------------------------------------
(* The functions of Cam_Client.                                            *)

\* MUTANT of updated_connection_status: only a new connection is told.
statusToldOnce(s, status) ==
    IF status = s.connection_status THEN s
    ELSE [s EXCEPT !.connection_status = status,
                   !.port = IF status THEN Append(@, status) ELSE @]

updated_connection_status(s, status) ==
    IF status = s.connection_status THEN s
    ELSE [s EXCEPT !.connection_status = status, !.port = Append(@, status)]

\* MUTANT of reset: the change of the connection status is not told.
resetSilently(s) == Cancel(Close(s))

\* MUTANT of reset: the pending operations are left as they are.
resetLeavesPending(s) ==
    updated_connection_status(Cancel([s EXCEPT !.socket = "closed"]), FALSE)

\* To close a socket is taken not to fail. (If it did, a second reset would be posted,
\* l.151, which by the time it runs might close the next connection.)
reset(s) == updated_connection_status(Cancel(Close(s)), FALSE)

start_keepalive(s) == [Cancel(s) EXCEPT !.timer = "armed"]

start_read(s) == AsyncRead(s, "header")

start_async_connect(s) == [s EXCEPT !.socket = "connecting", !.connecting = TRUE]

set_connection(s, status) ==
    IF s.socket = "closed" /\ status THEN start_async_connect(s)
    ELSE IF s.socket # "closed" /\ ~status THEN reset(s)
    ELSE s

connect_handler(s, result, sent) ==
    IF result # "ok" THEN s
    ELSE LET t == start_read(start_keepalive(updated_connection_status(s, TRUE)))
         IN  IF sent THEN Written(t) ELSE reset(t)

\* MUTANT of wait_handler: one KEEP_ALIVE is sent and no more.
waitSendsOnce(s, result, sent) ==
    IF result # "ok" THEN s ELSE IF sent THEN Written(s) ELSE reset(s)

wait_handler(s, result, sent) ==
    IF result # "ok" THEN s
    ELSE IF sent THEN [Written(s) EXCEPT !.queue = Append(@, Done("start_keepalive", "ok"))]
    ELSE reset(s)

\* What a completed header read and a completed image read do.
\* MUTANT of header_handler: an error is not followed by reset.
headerRetries(s, content) ==
    IF content = "image" /\ s.socket # "closed" THEN AsyncRead(s, "data")
    ELSE IF s.socket # "closed" THEN start_read(s) ELSE s

header_handler(s, content) ==
    IF content = "image" /\ s.socket # "closed" THEN AsyncRead(s, "data")
    ELSE reset(s)

\* MUTANT of data_handler: no read is started after an image.
dataReadsOnce(s, content) == IF content = "image" THEN s ELSE reset(s)

data_handler(s, content) ==
    IF content = "image" THEN start_read(s) ELSE reset(s)

read_handler(s, kind, content) ==
    IF kind = "header" THEN header_handler(s, content) ELSE data_handler(s, content)

-----------------------------------------------------------------------------
(* The io_service thread.                                                  *)

Init ==
    /\ cli = [socket |-> "closed", connecting |-> FALSE, connection_status |-> FALSE,
              timer |-> "idle", reads |-> <<>>, inbox |-> <<>>, server |-> "up",
              queue |-> <<>>, port |-> <<>>]
    /\ connected = FALSE

Dispatchable(ops) == cli.queue # <<>> /\ Head(cli.queue).op \in ops

Popped == [cli EXCEPT !.queue = Tail(@)]

DispatchSetConnection ==
    /\ Dispatchable({"set_connection"})
    /\ cli' = set_connection(Popped, Head(cli.queue).arg)
    /\ UNCHANGED connected

\* The connect was cancelled: one that was not is handled in DispatchEvent.
DispatchConnect ==
    /\ Dispatchable({"connect"})
    /\ cli' = connect_handler(Popped, Head(cli.queue).arg, FALSE)
    /\ UNCHANGED connected

DispatchRead ==
    /\ Dispatchable(ReadKind)
    /\ \E content \in Contents(Popped, Head(cli.queue)) :
          cli' = read_handler(Popped, Head(cli.queue).op, content)
    /\ UNCHANGED connected

DispatchWait ==
    /\ Dispatchable({"wait"})
    /\ \E sent \in WriteOutcomes(cli) :
          cli' = wait_handler(Popped, Head(cli.queue).arg, sent)
    /\ UNCHANGED connected

DispatchKeepalive ==
    /\ Dispatchable({"start_keepalive"})
    /\ cli' = start_keepalive(Popped)
    /\ UNCHANGED connected

\* The descriptor has an event: the connect and the reads that can complete do,
\* the handler of the first one runs in this step, the others are queued.
ConnectDecided(s) == s.connecting /\ s.socket # "connecting"

Completed(s) ==
    IF ConnectDecided(s)
    THEN <<Done("connect", IF s.socket = "established" THEN "ok" ELSE "error")>> \o ReadsDone(s)
    ELSE ReadsDone(s)

Performed(s) ==
    [s EXCEPT !.connecting = @ /\ ~ConnectDecided(s),
              !.reads = SubSeq(@, Completable(s) + 1, Len(@)),
              !.inbox = Remaining(@, Len(s.reads)),
              !.queue = @ \o Tail(Completed(s))]

DispatchEvent ==
    /\ Dispatchable({"event"})
    /\ LET s == Performed(Popped)
           done == Completed(Popped)
       IN  IF Head(done).op = "connect"
           THEN \E sent \in WriteOutcomes(cli) :
                   cli' = connect_handler(s, Head(done).arg, sent)
           ELSE \E content \in Contents(s, Head(done)) :
                   cli' = read_handler(s, Head(done).op, content)
    /\ UNCHANGED connected

Dispatch ==
    \/ DispatchSetConnection \/ DispatchConnect \/ DispatchRead
    \/ DispatchWait \/ DispatchKeepalive \/ DispatchEvent

-----------------------------------------------------------------------------
(* The reactor and the server.                                             *)

Ready ==
    /\ ConnectDecided(cli) \/ (cli.reads # <<>> /\ cli.inbox # <<>>)
    /\ Event \notin Range(cli.queue)
    /\ cli' = [cli EXCEPT !.queue = Append(@, Event)]
    /\ UNCHANGED connected

Elapse ==
    /\ cli.timer = "armed"
    /\ cli' = [cli EXCEPT !.timer = "due"]
    /\ UNCHANGED connected

TimerExpires ==
    /\ cli.timer = "due"
    /\ cli' = [cli EXCEPT !.timer = "idle", !.queue = Append(@, Done("wait", "ok"))]
    /\ UNCHANGED connected

Established ==
    /\ cli.socket = "connecting"
    /\ cli' = [cli EXCEPT !.socket = "established"]
    /\ UNCHANGED connected

Refused ==
    /\ cli.socket = "connecting"
    /\ cli' = [cli EXCEPT !.socket = "refused", !.inbox = <<"eof">>]
    /\ UNCHANGED connected

\* The server sends the header of an image and then the image.
ServerSends ==
    /\ cli.socket = "established" /\ cli.server \in {"up", "sending"}
    /\ Len(cli.inbox) < MaxInbox
    /\ cli' = IF cli.server = "up"
              THEN [cli EXCEPT !.server = "sending", !.inbox = Append(@, "image")]
              ELSE [cli EXCEPT !.server = "up", !.inbox = Append(@, "payload")]
    /\ UNCHANGED connected

\* The server closes the connection, or TCP does when a write stays unanswered.
ServerCloses ==
    /\ cli.socket = "established" /\ cli.server \in {"up", "sending", "unanswered"}
    /\ cli' = [cli EXCEPT !.server = "closed", !.inbox = Append(@, "eof")]
    /\ UNCHANGED connected

ServerVanishes ==
    /\ cli.socket = "established" /\ cli.server \in {"up", "sending"}
    /\ cli' = [cli EXCEPT !.server = "gone"]
    /\ UNCHANGED connected

-----------------------------------------------------------------------------
(* The user interface.                                                     *)

\* The C function set_connection, called by the button.
PostSetConnection(status) ==
    cli' = [cli EXCEPT !.queue = Append(@, Done("set_connection", status))]

\* The button asks for the opposite of what it shows.
Click ==
    /\ Len(cli.queue) < MaxBacklog
    /\ Len(cli.port) < MaxPort
    /\ PostSetConnection(~connected)
    /\ UNCHANGED connected

StatusHeard ==
    /\ cli.port # <<>>
    /\ connected' = Head(cli.port)
    /\ cli' = [cli EXCEPT !.port = Tail(@)]

-----------------------------------------------------------------------------
Reactor == Ready \/ Elapse \/ TimerExpires \/ Established \/ Refused

Server == ServerSends \/ ServerCloses \/ ServerVanishes

Next == Dispatch \/ Reactor \/ Server \/ Click \/ StatusHeard

Spec == Init /\ [][Next]_vars

\* Both threads go on, two seconds pass, and TCP gives up an unanswered write.
FairSpec ==
    /\ Spec
    /\ WF_vars(Dispatch)
    /\ WF_vars(Ready)
    /\ WF_vars(Elapse)
    /\ WF_vars(TimerExpires)
    /\ WF_vars(StatusHeard)
    /\ WF_vars(ServerCloses /\ cli.server = "unanswered")

-----------------------------------------------------------------------------
\* What is pending or received belongs to a socket that is open.
ClientTypeOK ==
    /\ cli \in ClientState
    /\ connected \in BOOLEAN
    /\ cli.socket = "closed" => cli.reads = <<>> /\ cli.inbox = <<>> /\ ~cli.connecting

\* The status the callback has reported is that of the socket: no order of
\* clicks, failed writes and aborted reads leaves it saying something else.
\* (reset, updated_connection_status)
StatusTrue ==
    cli.connection_status <=> cli.socket = "established" /\ ~cli.connecting

\* A connected client has a read outstanding, and always hears the end of the
\* connection. (start_read after every image)
ClientHears ==
    cli.connection_status =>
        cli.reads # <<>> \/ \E e \in Range(cli.queue) : e.op \in ReadKind

\* A connected client goes on sending KEEP_ALIVE, without which the server closes
\* the connection: whatever waits of earlier connections are still queued, the
\* timer runs or its next start is on the way. (start_keepalive)
KeepsAlive ==
    cli.connection_status =>
        \/ cli.timer # "idle"
        \/ Done("wait", "ok") \in Range(cli.queue)
        \/ Done("start_keepalive", "ok") \in Range(cli.queue)

\* The user interface is told every change and nothing else ("only want to update
\* when there is a change", cam_client.cpp:165): what it shows and the messages on
\* their way alternate and end in the status of the client, also when a status
\* is taken back in the handler that set it.
StatusTold ==
    LET shown == <<connected>> \o cli.port
    IN  /\ Last(shown) = cli.connection_status
        /\ \A i \in DOMAIN cli.port : shown[i] # shown[i + 1]

\* The client notices that the server closed the connection, and also that its
\* machine is gone without a FIN, because a KEEP_ALIVE stays unanswered.
ServerLossNoticed ==
    cli.connection_status /\ cli.server \in {"closed", "gone"}
        ~> ~cli.connection_status

\* The button of a client that is not connected is labelled "Connect"
\* (main.dart:58): handling such a click leaves a connect under way.
ConnectButtonConnects ==
    [][DispatchSetConnection /\ Head(cli.queue).arg /\ ~cli.connection_status
          => cli'.connecting]_vars
=============================================================================
