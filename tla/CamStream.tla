----------------------------- MODULE CamStream -----------------------------
(***************************************************************************)
(* The camera server with its web camera: Server on the main thread,       *)
(* WebCamera on the camera thread of Controller, each with an io_service   *)
(* the other posts to.                                                     *)
(*                                                                         *)
(* The callback Controller gives to Server posts set_stream to the camera  *)
(* only when it sees the pointer `camera` set, and the camera thread sets  *)
(* it without any synchronisation. The only waits on the camera's timer    *)
(* are those of read_frame; no expiry is ever set, so a wait is due as     *)
(* soon as the io_service looks at its timers.                             *)
(***************************************************************************)
EXTENDS CamServer, SequencesExt

CONSTANTS
    MaxPosts,   \* bound: the calls of the camera thread in the queue of the server
    MaxTasks,   \* bound: the calls of set_stream in camera_service
    MaxChains   \* bound: the chains of read_frame that are told apart

ASSUME CameraBounds ==
    MaxPosts \in Nat /\ MaxTasks \in Nat /\ MaxChains \in Nat \ {0}

VARIABLE cam        \* the camera thread: camera, camera_service, the device

Task == {"set_on", "set_off", "expired", "aborted"}
Phase == {"constructing", "assigned", "running"}

CameraState ==
    [phase     : Phase,       \* of worker_thread
     streaming : BOOLEAN,     \* Camera::streaming, and whether the device streams
     waits     : Nat,         \* pending waits of read_frame on the timer
     queue     : Seq(Task)]   \* tasks of camera_service ready to be run

InitCamera == [phase |-> "constructing", streaming |-> FALSE, waits |-> 0, queue |-> <<>>]

-----------------------------------------------------------------------------
(* The callback of Controller, run in the handlers of Server.              *)

\* MUTANT of SetStream: the timer is cancelled, set_stream(false) not called.
SetStreamCancels(on) == IF on THEN "set_on" ELSE "cancel"

SetStream(on) == IF on THEN "set_on" ELSE "set_off"

\* What the main thread may read of the pointer. Until it has taken a lock the
\* camera thread released after the assignment, both values are possible.
CameraSeen ==
    CASE cam.phase = "constructing" -> {FALSE}
      [] cam.phase = "assigned"     -> {FALSE, TRUE}
      [] cam.phase = "running"      -> {TRUE}

StreamCallback ==
    \E seen \in CameraSeen :
        cam' = IF seen
               THEN [cam EXCEPT !.queue = @ \o [i \in DOMAIN srv'.calls |->
                                                  SetStream(srv'.calls[i])]]
               ELSE cam

SetTasks == {i \in DOMAIN cam.queue : cam.queue[i] \in {"set_on", "set_off"}}

ServerHandles ==
    /\ Cardinality(SetTasks) < MaxTasks
    /\ Dispatch
    /\ StreamCallback

ServerOther ==
    /\ Unblock \/ Reactor \/ \E c \in Conns : Client(c)
    /\ UNCHANGED cam

-----------------------------------------------------------------------------
(* The camera thread.                                                      *)

\* worker_thread: the camera is made and assigned, then the main thread is asked
\* for the status, then camera_service runs.
AssignCamera ==
    /\ Alive
    /\ cam.phase = "constructing"
    /\ cam' = [cam EXCEPT !.phase = "assigned"]
    /\ UNCHANGED vars

\* MUTANT of RunCamera: the status is not requested.
RunCameraSilently ==
    /\ Alive
    /\ cam.phase = "assigned"
    /\ cam' = [cam EXCEPT !.phase = "running"]
    /\ srv' = [srv EXCEPT !.calls = <<>>]
    /\ UNCHANGED peer

RunCamera ==
    /\ Alive
    /\ cam.phase = "assigned"
    /\ cam' = [cam EXCEPT !.phase = "running"]
    /\ srv' = Enqueue(srv, StatusRequest)
    /\ UNCHANGED peer

TaskReady(tasks) ==
    /\ Alive
    /\ cam.phase = "running"
    /\ cam.queue # <<>>
    /\ Head(cam.queue) \in tasks

PoppedTask == [cam EXCEPT !.queue = Tail(@)]

\* The frame chains that are alive: each wait of read_frame starts the next.
Chains(k) == k.waits + Cardinality({i \in DOMAIN k.queue : k.queue[i] = "expired"})

\* read_frame: async_wait on the timer.
read_frame(k) == IF Chains(k) < MaxChains THEN [k EXCEPT !.waits = @ + 1] ELSE k

TurnOn(k)  == read_frame([k EXCEPT !.streaming = TRUE])

\* MUTANT of TurnOff: the timer is not cancelled.
TurnOffOnly(k) == [k EXCEPT !.streaming = FALSE]

TurnOff(k) == [k EXCEPT !.streaming = FALSE,
                        !.waits = 0,
                        !.queue = @ \o Copies(k.waits, "aborted")]

RunSetStream ==
    /\ TaskReady({"set_on", "set_off"})
    /\ cam' = IF Head(cam.queue) = "set_on" THEN TurnOn(PoppedTask)
              ELSE TurnOff(PoppedTask)
    /\ UNCHANGED vars

Posts == {i \in DOMAIN srv.queue : srv.queue[i].op \in PostOp}

\* MUTANT of RunReadFrame: it looks at the error and not at is_streaming().
RunReadFrameAnyway ==
    /\ TaskReady({"expired", "aborted"})
    /\ cam' = IF Head(cam.queue) = "expired" THEN read_frame(PoppedTask) ELSE PoppedTask
    /\ srv' = IF Head(cam.queue) = "expired" /\ Cardinality(Posts) < MaxPosts
              THEN Enqueue(srv, Frame) ELSE [srv EXCEPT !.calls = <<>>]
    /\ UNCHANGED peer

\* The handler of read_frame. Frames above the bound are not followed further.
RunReadFrame ==
    /\ TaskReady({"expired", "aborted"})
    /\ IF cam.streaming /\ Head(cam.queue) = "expired"
       THEN /\ cam' = read_frame(PoppedTask)
            /\ srv' = IF Cardinality(Posts) < MaxPosts THEN Enqueue(srv, Frame)
                      ELSE [srv EXCEPT !.calls = <<>>]
       ELSE /\ cam' = PoppedTask
            /\ srv' = [srv EXCEPT !.calls = <<>>]
    /\ UNCHANGED peer

\* The timer queue gives up all the waits that are due, at once.
WaitsExpire ==
    /\ Alive
    /\ cam.phase = "running"
    /\ cam.waits > 0
    /\ cam' = [cam EXCEPT !.waits = 0, !.queue = @ \o Copies(cam.waits, "expired")]
    /\ UNCHANGED vars

\* An ioctl on the device fails: std::exit.
DeviceFails ==
    /\ TaskReady({"set_on", "set_off"}) \/ (TaskReady({"expired"}) /\ cam.streaming)
         \/ (Alive /\ cam.phase = "constructing")
    /\ srv' = [srv EXCEPT !.process = "terminated", !.calls = <<>>]
    /\ UNCHANGED <<peer, cam>>

-----------------------------------------------------------------------------
CameraThreadSteps ==
    \/ AssignCamera \/ RunCamera \/ RunSetStream \/ RunReadFrame
    \/ WaitsExpire \/ DeviceFails

StreamInit == Init /\ cam = InitCamera

StreamNext == ServerHandles \/ ServerOther \/ CameraThreadSteps

streamVars == <<srv, peer, cam>>

StreamSpec == StreamInit /\ [][StreamNext]_streamVars

\* Both io_services go on running what is in their queues; and the server's fairness.
StreamFairness ==
    /\ WF_streamVars(ServerHandles)
    /\ WF_streamVars(AssignCamera)
    /\ WF_streamVars(RunCamera)
    /\ WF_streamVars(RunSetStream)
    /\ WF_streamVars(RunReadFrame)
    /\ WF_streamVars(WaitsExpire)
    /\ Fairness

FairStreamSpec == StreamSpec /\ StreamFairness

-----------------------------------------------------------------------------
StreamTypeOK == TypeOK /\ cam \in CameraState

\* What the camera does when it has run all it has been told.
Told ==
    LET i == SelectLastInSeq(cam.queue, LAMBDA t : t \in {"set_on", "set_off"})
    IN  IF i = 0 THEN cam.streaming ELSE cam.queue[i] = "set_on"

\* "Avoids race condition. What if somehow the server has already been connected
\* and sent a stream on/off command ... Easiest solution is to just request the
\* current status upon initialization" (controller.cpp:27): once the main thread
\* has answered the request, the last thing the camera has been told is what
\* the server wants, whatever commands came while the camera was being made.
CameraToldLast ==
    Alive /\ cam.phase = "running" /\ StatusRequest \notin Queued
        => Told = srv.streaming

\* A camera that streams has a frame chain that goes on: no order of on and off
\* and of waits cancelled or too late to be cancelled stalls the stream; and
\* one that does not stream has no wait pending, so its chains die.
ChainsMatchStreaming ==
    IF cam.streaming THEN Chains(cam) > 0 ELSE cam.waits = 0

\* The camera comes to do what the server goes on wanting.
CameraObeys ==
    /\ <>[](srv.process = "running" /\ srv.streaming) => <>[]cam.streaming
    /\ <>[](srv.process = "running" /\ ~srv.streaming) => <>[]~cam.streaming

\* ... and then no more frames reach the server.
FramesCease ==
    <>[](srv.process = "running" /\ ~srv.streaming) => <>[](Frame \notin Queued)
=============================================================================
