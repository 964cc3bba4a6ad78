# TLA+ models and proofs of sisrover

sisrover has two TCP servers in C++ on Boost.Asio, a camera server (`camsrv`)
and a data acquisition server (`daqsrv`), a wrapper over a vendor's USB library
(`sis_quick_usb`), a camera client (`cam_client`: a C++ backend and a Flutter
front end) and the skeleton of a second Flutter application (`sisrover_gui`).
There are no tests of the C++ code. This directory models the camera side (the
server, its web camera, its RTSP camera, the client) and the two threads of the
data acquisition server with the board they set up, checks the models with TLC and
proves with TLAPS every invariant that the passing runs check, their three action
properties, and that the server implements its abstract service.

Paths below are relative to `src/servers` unless they begin with `src/`.

## 1. Inventory

| Component | State | Operations | Talks to |
|---|---|---|---|
| **Server** `camsrv/server.cpp` | `socket`, `temp_socket`, `acceptor`, keep-alive `timer`, `message_buffer`, `streaming` | accept handler, read handler, wait handler, `reset`, `send_frame`, `request_stream_status_update` | clients over TCP; `stream_callback` to Controller; posts from the camera thread |
| **Controller** `camsrv/controller.cpp` | `camera` pointer, `camera_service`, camera thread | callback, `worker_thread`, destructor | Server (callback), Camera (posts) |
| **WebCamera** `camsrv/webcamera.cpp` | V4L2 device, `streaming`, `timer` | constructor, `set_stream`, `read_frame` | Server (posts `send_frame`) |
| **IPCamera** `camsrv/ipcamera.cpp` | live555 session, `rtsp_client_count` | DESCRIBE, SETUP of each subsession, PLAY, BYE, timer, TEARDOWN | Server (posts `send_frame`) |
| **camsrv main** `camsrv/main.cpp` | options | checks, `io_service.run()` | Controller |
| **Cam_Client** `camsrv/cam_client/cam_client_backend` | `socket`, `timer`, `header_buffer`, `data_buffer`, `connection_status` | `set_connection`, connect, read, image and wait handlers, `reset` | the server over TCP; two callbacks to Dart ports |
| **Flutter client** `camsrv/cam_client/lib` | `connected`, `image` | connect button, port listeners | Cam_Client through C functions |
| **daqsrv Server** `daqsrv/server.cpp` | as Server without keep-alive, `data_started` | accept, header and settings handlers | DAQ (callback) |
| **DAQ, Controller** `daqsrv/daq.cpp`, `daqsrv/controller.cpp` | settings, board registers, scan `timer` | `update_settings`, `setup_daq`, `start_scanning`, command encoders | squsb |
| **daqsrv main** `daqsrv/main.cpp` | options | checks, `io_service.run()` | DAQ |
| **squsb** `sis_quick_usb/sis_quick_usb.cpp` | `dev_handle`, serial, timeout | connect, disconnect, register reads and writes | vendor library |
| **sisrover_gui** `src/sisrover_gui` | a counter | the Flutter template | - |

The rest is not the program's own: the Dart SDK headers, generated Flutter
runners, the Dart example library `hello_library` and the vendor's archive.

**How they interact.** In `camsrv` two threads run one `io_service` each. All
handlers of Server run on the main thread. The camera thread makes the camera,
assigns `Controller::camera` and posts `request_stream_status_update` to the
main thread; from then on the callback of Server posts `set_stream` to the
camera thread and each frame is posted back as a `send_frame`. The client is a
mirror image: Cam_Client runs on a detached `io_service` thread, the button of
the user interface posts to it, and it sends status and images to Dart ports.
`daqsrv` repeats the pattern of `camsrv` with a board in place of the camera.

**What is hard here.** Not the code of a handler, but which handler finds which
state. Asio does not cancel a completion that is already queued, `close()` and
`cancel()` only queue completions with `operation_aborted`, and no handler knows
to which socket or which wait it belongs: each acts on whatever `socket` and
`timer` are when it runs. Everything interesting is an order of handlers nobody
can easily provoke in a test: a time-out behind a read, an aborted read behind
an accept, a stale read ahead of the next connection. The hazards are listed, each
at its line, in `PROJECT.json`.

**What makes each component correct.**
- Server: serves one client at a time; never streams without one; never
  leaves the client it holds unheard or unwatched; leaks no connection; always
  accepts; drops the client that is gone; a newer client takes the place of the
  old one and stays; the assertions hold.
- Controller and WebCamera: after the hand-over the camera does what the server
  last wanted; a streaming camera has a live chain of `read_frame`; frames cease
  when the stream is off.
- Cam_Client: the status it reports is that of its socket and reaches the user
  interface; a connected client reads and sends KEEP_ALIVE; a lost server is
  noticed; the button connects.
- IPCamera: PLAY follows the SETUP of every subsession; a session that plays
  goes on until BYE, timer or error; every end of it tears down what was set up.
- daqsrv: the last settings are those in use; the board has what they mean, in its
  registers or by the commands it got; one scan timer at a time; the end of the
  program comes to an end.
- squsb: the handle is used only between a successful open and its close.

## 2. Modules

| Module | What it is |
|---|---|
| `Recv` | What reads of a TCP stream return; shared by both ends. |
| `CamServer` | Server, the `io_service` of the main thread, the kernel's side of its connections, the clients. |
| `StreamService` | The abstract service: who is served and was served, of whom commands are on their way, whether frames are wanted. |
| `CamStream` | Extends `CamServer` with Controller and WebCamera on the camera thread. |
| `CamClient` | Cam_Client, its `io_service` thread and the connect button, with the server as environment. |
| `IPCamera` | The RTSP session of IPCamera on the camera thread, with the RTSP server as environment. |
| `DaqCommands` | The command encoders and register values of `daqsrv`, and what a board makes of them. |
| `Daq` | DAQ and Controller of `daqsrv` on their two threads, with the board. |
| `MCCamStream`, `MCCamClient`, `MCDaq` | Bounds and inputs for TLC. |
| `CamServerProofs`, `CamServerRefinement` | The theorems about `CamServer`, with their proofs: its invariants, and that it implements `StreamService`. |
| `CamStreamProofs`, `CamClientProofs`, `IPCameraProofs` | The theorems about `CamStream`, `CamClient` and `IPCamera`. |
| `DaqProofs`, `DaqCommandProofs`, `DaqBoardProofs` | The theorems about `Daq`: the settings and the scans on two threads; the encoders of `DaqCommands`; the board, from both. |

### CamServer and the code

A function of Server is an operator from a state to a state with the name it has
in the code (`reset`, `start_keepalive`, `start_read`, `update_stream_status`,
...), and an operator calls what the function calls, in its order. `DispatchX`
is the whole handler: take the completion at the head of the queue, run the
function, end. So nothing comes between two statements of a handler, as nothing
does in the program, where one thread runs them all.

`srv` is the server process. `socket`, `temp_socket`, `streaming` are the members
of the same names; `queue` holds the completions that are ready; `accepting`,
`reads[c]` and `timer` are the operations that are pending; `status[c]` and
`inbox[c]` are what the kernel knows of connection `c`; `process` says whether
the thread runs, is blocked in a write, or the process has ended (an assertion,
an exception nobody catches, an exit). `calls` are the calls of `stream_callback`
in the last step: `CamStream` passes them on. `peer[c]` is the client: up,
closed with a FIN, or gone without one.

What asio does is external and modelled from what it promises:
- `Close` queues every pending read with `aborted`; `Cancel` the pending wait.
  A completion that is queued already stays as it is.
- `AsyncRead` on a socket with bytes waiting completes at once and is queued.
  Otherwise the reactor queues an event of the descriptor (`ReadReady`), and the
  bytes are received when the event is dispatched (`DispatchPoll`): a `close`
  before that still aborts the read.
- `Contents`: two reads that are outstanding (of the old and the new connection)
  share `message_buffer`, and then the handler may find any command in it.
- `send_frame` is synchronous. Decoding and encoding may throw, and so may a write
  to a closed peer; nothing catches it and the process ends. With a live peer a write
  goes through or blocks the thread.

Frames and status requests come from the camera thread, and there is none in
`CamServer`: `DispatchFrame`, `DispatchStatus` and `Unblock` are defined there, for
Server's functions are, and are steps of `CamStream`, where a frame is posted only
by a camera that streams, as in `webcamera.cpp`. `ServerNext` has all the steps of the
server, `Next` those of a server without a camera.

`temp_socket.release()` and `socket.release()` drop the pointer, so the model
sets the member to null; memory is not modelled. The message of a command is one
value and arrives as a whole: a read of it that is half done is not told from
one that is pending. Image data is left out.

### CamStream and the code

`cam.phase` is where `worker_thread` is: `constructing` the camera, `assigned`,
`running` `camera_service`. `CameraSeen` is the unsynchronised `if (camera)`
of `controller.cpp:9`: between the assignment and the post either value may be
read; a handler that is dispatched after the post has gone through the lock of
the queue and sees the pointer. `ServerHandles` is any handler of `CamServer`
with the callback as part of the same step. `cam.queue` holds the tasks of
`camera_service`; `cam.waits` the pending waits of `read_frame`. The timer of
WebCamera has no expiry set, so a wait is due at once (`WaitsExpire`), but one
that `set_stream(false)` cancels first comes back aborted. The V4L2 set-up in
the constructor is one step that works or exits (`DeviceFails`), like every
other `ioctl` on the device.

### CamClient and the code

Same style: `cli.socket` is closed, connecting, established, or `refused`, which
is an open socket whose connect has failed (`async_connect` opens it and nobody
closes it). `cli.reads` are the pending reads on it in their order, `header` or
`data`; `DispatchEvent` performs the connect and every read an event allows, runs
the handler of the first and queues the rest. A read on a closed or refused
socket fails at once; one on a connecting socket stays pending; a write on a
connecting socket waits for the outcome. `cli.port` are the messages on their
way to the Dart port, `connected` what the user interface shows, and `Click` is the
button: it asks for the opposite of what it shows. A write that blocks because
the send buffer is full of KEEP_ALIVEs nobody read is left out, and so is the catch
in `reset` around `socket.close()` (`cam_client.cpp:149`), which posts another
`reset`: what `close` may fail with is not modelled.

### IPCamera and the code

The event loop of live555 runs one handler after the other, so an action is a whole
handler, and `shutdown_stream`, `setup_next_subsession` and
`subsession_after_playing` are the functions a handler ends with. The camera
thread is in the constructor as long as it lives (`ipcamera.cpp:203`): `process`
is `starting`, in its `loop`, `idle` (the URL made no client, so the loop has
nothing to do), `exited` or `crashed`.

`open_url` makes its client with the `createNew` of live555's own class, and the
handlers cast it to `ourRTSPClient`. So `stream_client_state` is memory behind the
object. Two outcomes are modelled of this undefined behaviour: a write to it
overruns the heap (`overrun`), after which the process may crash at any time
(`HeapCrash`); and a session pointer that is read before it is written (`Unset`)
may be null or be followed into a crash.

The RTSP server answers a request once, with success or an error, which
stands for a network that fails too. Ends of streams travel apart from the
answers (`ending`): the BYE of a subsession may arrive before PLAY is answered,
without a handler for it, and its source may close before or after that. Frames
are left out: since `camera` is never assigned, no STREAM_ON reaches the
camera, `streaming` stays off and `get_frame` sends none.

### Daq and the code

`DaqCommands` are pure operators. The encoders compute with `%` and `\div` what
the code does with masks and shifts; `Understood` is what a board must do to
read the digits again, which is external, and `Meant` the byte for each register.
The counts of a message are 32 bits wide and become chars (`Byte`) in the members; 32
bits are the natural numbers here (`UInt32`), for nothing is computed of more than
their low end. The logarithm of a sample time of 0 is the least integer on x86, of
which one octal digit is used.

In `Daq` each of the two threads has a list of the accesses it has yet to make in
a set-up (`steps`), with the local variable that is compared after a read back
(`value`). The threads interleave at each access to the FPGA, for nothing in
`update_settings` takes a lock; the six accesses of `set_default_quickusb_settings`,
to nothing that is modelled, are one step. The commands of version 1 are built by four
reads of members in one array of the Controller, without a lock either:
`daqv1_start_commanding` is the start of a build and `initialize_daq_version_1` its
end. `mixed` are the threads whose build was disturbed in between, by members that
changed (`update_settings`) or by a build of the other thread, and what such a one
sends may be anything in `Mixed`. The operations of the timer and the copying of
the settings are taken as atomic, though they race as well. `tasks` is the queue of
`controller_service` with asio's own entry in it (`Reactor`): a wait that has ended
becomes a task when that entry is dispatched, which is why a cancel can come
too late for it.

A set-up follows the code in what it really does. `write_fpga` assigns to `dat[1]`
of an array of one and sends `dat[0]`, so any byte of `Junk` may reach a register.
ASICNUM is only compared with 0. MSBUFF is compared with the member, which the
other thread may have changed by then, as a signed char. A check that fails ends
the process (`verify_truth`). A compiler may keep the loop of `controller.cpp:265`,
which never ends, or remove it, as the standard allows (`setting.loops`). A scan reads
into an array on the stack; one for which the stack has no room (`StackRoom`)
ends the process (`overflow_stack`).

What cannot happen in the program as it stands is kept apart in `setting`.
`listens` says whether a Server listens, `open` whether the device is open: both
are constant, and Init leaves them open. As the program stands both are FALSE,
because nothing calls `Server::start_async_accept` or `Controller::connect_to_daq`;
what follows from that is the run `destructor`. With `listens` or `open` the model
says what the code of `update_settings`, `setup_daq` and `start_scanning` does for
the callers it is written for. It is the part of `daqsrv` that two threads
share, and the comment at `daq.hpp:36` is about just that.

## 3. Runs

Every run takes `-workers 2`. `CHECK_DEADLOCK FALSE` stands in the runs of
`CamServer` and `CamStream`, because the process may end and the clients are
finitely many; in those of `IPCamera` and `Daq`, because they end in an exit or a crash,
or with everyone waiting (`idle`, `join`). `client` is checked for deadlock.

| Run | Config | Shows |
|---|---|---|
| `server` | `CamServer` | two clients with STREAM_ON, KEEP_ALIVE and a command the server does not know, that connect, send, stay silent, disconnect or vanish: `StreamingNeedsClient`, `ConnectionHeard`, `ConnectionWatched`, `NoLeakedConnection`, `AcceptorArmed`, `ImplementsService`, `NewConnectionAccepted` |
| `stream` | `CamStream` | server and camera, one client with STREAM_ON, STREAM_OFF and KEEP_ALIVE, frames included: `StreamTypeOK`, `CameraToldLast`, `ChainsMatchStreaming`, `CameraObeys`, `FramesCease`, `DisconnectNoticed`, `DeadPeerDropped` |
| `client` | `CamClientFair` | `ClientTypeOK`, `StatusTrue`, `ClientHears`, `KeepsAlive`, `StatusTold`, `ServerLossNoticed` |
| `ipcamera` | `IPCameraSession` | sessions of up to three subsessions: `TypeOK`, `ServerToldOfEnd`, `NoSessionWithoutSinks`, `SetupLeadsToPlay` |
| `daq` | `Daq` | both boards, two messages out of four: `DaqTypeOK`, `LastSettingsApplied`, `BoardConfigured`, `OneScanChain`, `CommandsUnderstood`, `ScansGoOn` |
| `kick_off` | `CamServerKick` | violation of `KickSparesNewcomer` |
| `read_assert` | `CamServerAssert` | violation of `SocketAssertHolds` |
| `dead_peer_livelock` | `CamServerLivelock` | violation of `DeadPeerDropped` |
| `stuck_write` | `CamStreamStuckWrite` | violation of `NewConnectionAccepted` |
| `connect_button` | `CamClientConnect` | violation of `ConnectButtonConnects` |
| `play` | `IPCameraPlay` | violation of `PlayedSessionGoesOn` |
| `destructor` | `DaqDestructor` | violation of `DestructorReturns` |

**Refinement.** `ImplementsService` is `StreamService!Spec` under the mapping
holder = `socket`, former = the closed connections, asking = the connections of which a
command is received and not handled, streaming = `streaming`, running = the process is
alive. Every step of the server must be an admission or a drop (which switch the stream
off), a command that is sent, one that is obeyed or lost, a break-down, or nothing. It
says that a handler never does half of one of these, and that what switches the
stream is a command that a client sent while it was connected, and that has been
served. It does not say that this client is the one served now, and the code does not
see to it: see section 4.

**Bounds, and why they are enough.** Two connections are the least at which a
newer client can do anything to an older one, and a handler tells only the held
connection from any other; that the safety properties hold for any number of them is
what the theorems of section 5 add. `NewConnectionAccepted` is shown for two. One
message of a client unread (`MaxInbox`) lets a read be done and queued and another message wait
behind it; `read_assert` takes two. The commands of `server` are one of each branch
of the read handler but STREAM_OFF, which is in `stream`. `MaxPosts` bounds the calls of
the camera thread in the queue of the server; one is enough for a `send_frame` to
meet any state of `socket`, and frames beyond it are not followed. `MaxTasks` bounds the
`set_stream` calls in the camera's queue (the main thread is held back, so no call is
lost), `MaxChains` the chains of `read_frame` told apart: two are the least at which
a second chain can outlive the first. `stream` has one client, since `CamStream` adds to
`CamServer` only the camera, which knows of no client; for any number of them its
invariants are theorems.

`stuck_write` is a search, and takes a `CONSTRAINT`: in `Undisturbed` no client
leaves, no accept fails and the device works. It cuts off behaviours, which a run that
must pass could not do; the one that TLC reports lies within it.

In `CamClient`, `MaxInbox` bounds the parts of
images unread, `MaxPort` the status changes the user has not seen when clicking
again, and `MaxBacklog` the completions in the queue at a click: with 2 a
click on Connect can wait behind the event that ends the connection. Without it
the queue is unbounded, for a click is allowed at any time and each connect
can leave a stale read behind.

In `IPCamera`, `MaxSubs` is three: one subsession that is passed over, one that is
set up and one that is still to come can be told apart, and each can end
while another is being set up. In `Daq`, `MaxUpdates` is two, the least at which an
older message can meet a newer one on the other thread; `MaxTasks` holds a
message back while the worker has more than three tasks, so that an update can be
behind the reactor, a scan and an aborted wait. The four settings are one that any
board takes and one for each limit of the code: 1 ASIC (whose register is 0) with
an `ms_buff` wider than a char, an `ms_buff` that is a negative char with a buffer larger
than a stack, a sample time of 0, which has neither a PAREG nor a logarithm. `Junk` is one
byte that is neither 0 nor meant, and `Mixed` the commands of any of the settings, one
string that lost a byte and one that has all of them twice.

**Fairness, and why the code justifies it.** `io_service.run()` never stops
dispatching (`WF` of `Dispatch`); the reactor reports what stays ready (`WF` of
`ReadReady`, `TimerExpires`, `Ready`). `AcceptReady` is `SF`: an accept may fail
any finite number of times and be armed again. A write to a client that has closed
or is gone ends, because TCP gives it up; a write to a client that is up and does
not read need not end. Fifteen seconds are long against handlers, so `Elapse`
happens while the thread rests, is stuck in a write or works for the camera
thread, never between two handlers that just follow each other; and it is `SF`
unless the timer is set anew infinitely often. Nothing is assumed of clients.
In the client, TCP gives up a connection only after a write has stayed
unanswered, so that `ServerLossNoticed` rests on the KEEP_ALIVE and not on the
network. In `stream` the fairness of the server is part of that of the
whole. The event loop of `IPCamera` handles the answers that have come, and a request
is answered in the end, by the server or by the error that live555 reports when it
is gone; but no server need end a stream. In `Daq` both threads go on (`WF` of
`Worker`, of `Main`), since each always has its next statement or its wait for
the queue; an access to the board returns, and a wait of a second ends. No
message need ever come.

## 4. What the runs found

Each finding quotes the line it disagrees with, in `PROJECT.json`.
- **A kick-off kicks the newcomer** (`server.cpp:90`). The aborted read of the old
  connection is dispatched when `socket` is the new one, and its error branch
  resets that. Every client that replaces another one is dropped.
- **`assert(socket)`** (`server.cpp:47`) fails when a command was received before
  a time-out and is handled after it.
- **Two waits of the keep-alive timer cancel each other for ever**
  (`server.cpp:114`), and the time-out never comes. In the trace a connection has
  closed before it is accepted; the next one is accepted by the kernel, and its handler
  queued, when the read of the first comes back with eof and resets. The wait this
  cancels is handled when the next connection is served, whose wait it cancels, and
  so on. The last states repeat one state: the handler leaves the queue as it found it.
- **A client that does not read stops the server** (`server.cpp:141`): it asks for the
  stream, and the write of a frame is synchronous on the only thread, keep-alive and
  accept included.
- **A refused connect can never be repeated** (`cam_client.cpp:73`): the socket stays
  open and `set_connection(true)` is ignored while it is.
- **A session that plays is shut down** (`ipcamera.cpp:421`): the test for a failed PLAY
  looks at the client and not at the result, and the shutdown exits.
- **`~DAQ` waits for ever** (`daq.cpp:17`): it joins a thread that only its next line
  would stop, and `main` gets there at once, since no Server listens and nothing is
  pending on its `io_service`.

Because of these, `DeadPeerDropped` passes only with one client and
`NewConnectionAccepted` only without frames, and the runs that fail differ from the
passing ones in just that.

**A late command.** The strict form of `ImplementsService`, in which only the client that is
served switches the stream (`c = holder` in `Command`), does not hold, and TLC finds why:
c1 is served and has sent STREAM_ON, and sends it again; the second read is done and
queued behind the accept of c2, which was ready first; c2 is admitted with the stream
off, and then the handler of the read of c1, which does not ask whose it is
(`server.cpp:50`), switches it on and starts a second read on c2. Frames go to a client
that has asked for nothing. No text of the repository says that a command must be of the client
that is served, so this is a hazard and `StreamService` promises only what the code
keeps: the command was sent while its client was connected.

**Mixed commands.** The set-up of a version 1 board by the main thread may change the
members, or set `mi_data_len` back, while the worker builds its commands from them
(`daqsrv/controller.cpp:115`). `CommandsUnderstood` without the condition on `mixed` is
violated by just that: the worker begins its commands, the main thread runs the function posted to
it, and what the board gets is of neither settings. The repository does not speak of the two
threads there; `daq.hpp:36`, which does, is about which settings come last, and that
holds (`LastSettingsApplied`). The comment at `controller.cpp:110` speaks of a
string of 13 bytes, and `CommandData` has 14, as `CommandBytes` proves: two for the
number of ASICs, four for the masks, six for the buffer size, the timing and the reset.
What the board expects is not in the repository, so the properties take the code's word.

**ASICNUM.** `daqsrv/controller.cpp:141` reads the register "to make sure it got set
correctly", but the check at line 144 lets any byte but 0 pass, and 0 is what one ASIC
means. So `BoardConfigured` leaves this register out, for it does not hold of it. Of the
others it holds even though `write_fpga` may send any byte, because each
set-up compares what it reads and ends the process otherwise.

Two more things were seen on the camera side that no text of the repository speaks against, so they are
hazards and not findings: a frame that was posted for one client can be sent to
the next, who has not asked for it; and in the client, a read of the old
connection that comes back after a new connect was begun closes the new socket.

## 5. Proofs

`CamServerProofs` proves, for any set of connections and any bounds, under the
assumptions `ConnsAssumption` (the null socket is no connection) and
`BoundsAssumption` (the messages are commands, the bound a natural number):

| Theorem | Statement |
|---|---|
| `TypeCorrect` | `Spec => []TypeOK` |
| `ServerSafe` | `Spec => [](TypeOK /\ Safe(srv))` |
| `NoStreamWithoutClient` | `Spec => []StreamingNeedsClient` |
| `NeverDeaf` | `Spec => []ConnectionHeard` |
| `NeverUnwatched` | `Spec => []ConnectionWatched` |
| `NothingLeaked` | `Spec => []NoLeakedConnection` |
| `AlwaysAccepting` | `Spec => []AcceptorArmed` |

The inductive invariant is `TypeOK /\ Safe(srv)`. `Safe(s)` is the conjunction of
the safety invariants, as an operator on a state of the server rather than on the
variable, because a handler is a composition of functions and the proof follows
the composition. The parts need each other: that no connection leaks needs the
single outstanding accept, which is what connects an accepted connection to the
handler that will take it; and the parts about the held connection need the
types, for the completions of a read are told by their fields.

The argument has three layers. First, for each asio operation and each function
of Server, a lemma says which fields it may change and what it adds to the
queue (`CancelEffect`, `CloseEffect`, `ResetEffect`, `AsyncReadEffect`, ...).
Second, for each handler, that it restores `Safe` from the state in which its own
completion has been taken off the queue (`PoppedSafe`, then `ReadHandlerSafe`,
`WaitHandlerSafe`, `AcceptedSafe`): taking a completion off breaks what it stood
for - a read that no longer counts as outstanding, an accept that is no longer
armed - and each handler must put it back by a new operation or by closing the
socket. Third, one lemma for each group of actions of `ServerNext` (so that they
hold with a camera too), and the usual combination by temporal logic.

`IPCameraProofs` proves, for any number of subsessions (`MaxSubsAssumption`):

| Theorem | Statement |
|---|---|
| `SessionInOrder` | `Spec => []IInv` |
| `TypeCorrect` | `Spec => []TypeOK` |
| `NoneLeftStreaming` | `Spec => ServerToldOfEnd` |
| `NoneWithoutSinks` | `Spec => NoSessionWithoutSinks` |

`IInv` adds to the types that the iterator walks through the session in its
order (`InOrder`), that nothing is set up before the first SETUP
(`NothingSetUp`), and what both sides know of a subsession (`BothSides`): a sink is of
a subsession the iterator has passed, and a subsession that the server streams and
the iterator has passed has a sink. The last is what a shutdown needs to know: without
a sink it sends no TEARDOWN, and then only the subsession whose SETUP has just
been granted may be streaming. The two action properties follow from `IInv` and the
effects of the three functions (`ShutdownEffect`, `SetupEffect`,
`AfterPlayingEffect`).

`DaqProofs` proves, for any settings, junk and bounds (`DaqAssumption`):

| Theorem | Statement |
|---|---|
| `SettingsOnTheirWay` | `Spec => []IInv` |
| `LastSettings` | `Spec => []LastSettingsApplied` |
| `OneChain` | `Spec => []OneScanChain` |

That the last settings are in use at rest is not inductive. `Applied` says where they
are on the way: last among the updates in the queue, or, with no update in
the queue, in use, or still to be applied by the main thread. This needs `Told`:
the worker is told of nothing before `controller` is set, and the main thread has
applied what came before only after the worker posted to it. For the scans, `Ordered`
says that the reactor is in the queue once and a scan only ahead of it: so
the reactor collects a wait only when the scan before it has run. Lemmas about
`Tail` and `Append` say what each keeps of the order (`TakeOrdered`, `AddOrdered`,
`TurnOrdered`) and of the updates (`TakeCarries`, `AddCarries`, `TakeUpdate`,
`AddUpdate`); then there is one lemma for each group of actions, most of them by
`FollowsKeeps`: a step that leaves the settings and the updates alone keeps `IInv`.

`CamServerRefinement` proves, under the assumptions of `CamServerProofs`:

| Theorem | Statement |
|---|---|
| `ReadsAreOwn` | `Spec => []Own(srv)` |
| `ServiceImplemented` | `Spec => ImplementsService` |

The abstract state is `socket`, `streaming`, whether the process is alive, the
connections that are closed (`former`) and those of which a command is unread or its
read in the queue (`asking`). That a command which is obeyed comes from the client
served, or one served before, is not seen in a handler: it needs the invariant `Own`, that
a read which is pending or queued is of the connection that is held, or of one that was
closed. `Quiet` and `Ended` say what a function does to these (nothing new is
asked for, and nobody or just the one held is closed), and keep `Own`. For each function of Server a lemma says what it does to these
and to `calls` (`Same`, `ResetShown`, `ServeShown`, ...), for each handler which step of
the service it then is (`ReadHandlerShown`, `HandledIsServiceStep`), and for
the reactor, the clients and a write that returns that they are none
(`OthersUnshown`). `NextIsServiceStep` puts them together.

`CamStreamProofs` proves, for any set of connections and any bounds:

| Theorem | Statement |
|---|---|
| `StreamTypeCorrect` | `StreamSpec => []StreamTypeOK` |
| `ChainsMatch` | `StreamSpec => []ChainsMatchStreaming` |
| `ToldWhatIsWanted` | `StreamSpec => []CameraToldLast` |
| `ServerSafeWithCamera` | `StreamSpec => [](StreamingNeedsClient /\ ... /\ AcceptorArmed)` |
| `StreamImplementsService` | `StreamSpec => ImplementsService` |
| `NobodyNoStream` | with no client, `Told` is FALSE |

`CameraToldLast` asks for the last element of a queue that grows by whatever the
handlers of the server call. Its invariant `InStep` says the same with `Says`, which
has a witness in place of a search: there is a last `set_stream` in the queue and it
is the one wanted, or there is none and the camera is as wanted. Lemmas say what
adding to the queue and taking its head do to `Says` (`SaysTheLast`,
`SaysAfterHead`); `DispatchCalls` says that a handler calls `stream_callback`
once, with the value `streaming` has at its end, or not at all, and then it has neither
changed `streaming` nor taken the status request. `Lit` is `ChainsMatchStreaming` by a witness instead of a count: a chain is a
wait pending or one that ends with success. The last three theorems carry the results
about `CamServer` over: the camera thread touches of the server only its queue, by
calls that `Safe` and `Own` allow, and its process. `CamServerProofs` by itself is
about a server without a camera; with one it is `ServerSafeWithCamera`.

`CamClientProofs` proves, for any bounds:

| Theorem | Statement |
|---|---|
| `ClientTypeCorrect` | `Spec => []ClientTypeOK` |
| `StatusIsTrue` | `Spec => []StatusTrue` |
| `ClientAlwaysHears` | `Spec => []ClientHears` |
| `AlwaysKeepsAlive` | `Spec => []KeepsAlive` |
| `StatusIsTold` | `Spec => []StatusTold` |

The inductive invariant `ClientInv` is the type with `Live` and `Tells`. `Live` adds to
the three invariants how the socket, the pending connect and the event of the reactor
go together (`Steady`): an event is in the queue once at most and only when the connect
is decided or a read has bytes to take, and a closed socket has nothing pending. This is what a completion
that comes late needs: an aborted read of an old connection runs `reset` on the
new one, and the status must follow. `Tells` is `StatusTold` with the user interface as a
parameter, so that a handler that sets the status and takes it back can be followed
through its two calls (`UpdatedTells`). A handler ends in `Good`, the part of the
invariant a composition of the functions of Cam_Client keeps.

`DaqCommandProofs` and `DaqBoardProofs` prove, for any settings, junk and bounds:

| Theorem | Statement |
|---|---|
| `CommandsRead` | `Understood(CommandData(s))` are the settings `s`, if `InRange(s)` |
| `DaqTypeCorrect` | `Spec => []DaqTypeOK` |
| `BoardIsConfigured` | `Spec => []BoardConfigured` |
| `BoardUnderstands` | `Spec => CommandsUnderstood` |

`CommandsUnderstood` is about builds that the other thread did not disturb
(`Thread \ mixed`): of the others it does not hold, and TLC finds that at once when the
condition is dropped.

`CommandsRead` goes byte by byte: `CommandBytes` says what the fourteen commands are,
`CommandsApart` that each keeps opcode and digit apart, `ArgumentStepwise` what the
board reads from one command to the next, and `DigitsMakeNumber` that six octal digits
make a number below 2^18. That the function which reads them exists is an
induction on the number of commands; it is done on the set of the lengths for which
it does (`SetInduction`, from the well-foundedness of `<`), because the library's own
theorems of induction take an operator.

That the board is configured at rest is not inductive either, and what is true on the way
is not that a register is right. `BoardInv` says that each compared register is right or a
thread will check it (`WillCheck`): the thread has the write of this register
still ahead, or is about to compare it with the right value (for MSBUFF, whatever is
in its local variable: the code compares with the member). So a register that one thread
has checked and the other overwrites with junk is covered by the other one's own check; and
a thread whose local variable is of members that have changed since is covered by
the thread that changed them, which has its writes ahead. `Shape` says of a list of
steps that each write is followed by its check.

Only model-checked: liveness, for fairness and `ENABLED` are out of the prover's
reach (`NewConnectionAccepted`, `CameraObeys`, `FramesCease`, `DisconnectNoticed`,
`DeadPeerDropped`, `ServerLossNoticed`, `SetupLeadsToPlay`, `ScansGoOn`), and the
violations. No module declares a `RECURSIVE`
operator.

## 6. Not modelled

- **daqsrv Server** (`daqsrv/server.cpp`). `start_async_accept` is private and
  nothing calls it, so no handler of it is reachable; its callback is the
  environment of `Daq`. Its reads are those of the camera's Server without the
  keep-alive.
- **The mains.** Option checks are straight lines that print and exit; what they leave
  is in `DaqAssumption` (the first sample time is valid) and in `setting.version`.
  The options `daq_version` and `serial_number` of `daqsrv` are declared without the
  variable they should set (`daqsrv/main.cpp:196`), so the version is read
  uninitialized; Init keeps the two values that the check after it lets pass.
- **squsb beyond the accesses of the controller.** `connect_to_qusb` is reached only
  through `connect_to_daq`, which nothing calls; its loop over the modules
  (`sis_quick_usb.cpp:33`) does not advance. Nothing calls the ADC and DAC functions.
- **Of IPCamera**: `stream_timer_handler` (nothing sets its timer), the frames and the
  buffer of `DummySink` (see above), and what a crash looks like.
- **Of the camera side**: the display of images, image data, memory, and the
  destructors, which the programs never run while a thread is at work.
- **Of `Daq`**: the data a scan reads (a `read_multiple` of 0 included, which makes an array
  of no bytes), which bytes of two builds end up where in the command buffer (`Mixed` is
  any set of byte strings), the order of the accesses of
  `set_default_quickusb_settings`, of whose first setting the read back is not compared
  (`controller.cpp:90` assigns), the timer as an object that two threads use without
  a lock.
- **Of `CamClient`**: the catch in `reset` and blocking writes (see section 2).
- **The composition of `CamServer` and `CamClient`** over a link. Each has the other
  as an environment that may do whatever a peer may do, which is more than the
  other end does. What only the pair has - that a client that keeps alive is not
  timed out - is a question of seconds, and `Elapse` counts none.
- Generated and vendored code: the Flutter runners, the Dart SDK headers and the
  vendor's header and archive. These are more than half of the lines in C and C++
  files, so the share of all lines that the models stand for stays small
  even where the program's own code is covered.

## 7. Plan

Done: `CamServer`, `StreamService`, `CamStream`, `CamClient`, `IPCamera`, `Daq` with
`DaqCommands`; every invariant and action property of a passing run and the refinement
are theorems. Left:
1. Safety that the properties of section 3 imply together and that is worth a name of
   its own, as `NobodyNoStream` is: for the client, what a click finds; for `Daq`, the
   order of the checks before the first scan.
2. Shorter proofs: the lemmas on queues (`ConcatElements`, what a head that is taken
   leaves) are alike in `CamStreamProofs` and `CamClientProofs`.

The runs stay few: a new component brings one run for all its invariants and one
for each disagreement it shows.
