-------------------------- MODULE CamStreamProofs --------------------------
(* Theorems about CamStream, for every set of connections and every bound. *)
EXTENDS CamStream, CamServerRefinement, FiniteSetTheorems

-----------------------------------------------------------------------------
(* Type correctness.                                                       *)

LEMMA TaskQueueType ==
    ASSUME NEW q \in Seq(Task), NEW r \in Seq(Task)
    PROVE  q \o r \in Seq(Task)
OBVIOUS

LEMMA TasksType ==
    ASSUME NEW n \in Nat, NEW t \in Task
    PROVE  Copies(n, t) \in Seq(Task)
BY DEF Copies

\* The calls of the callback become tasks of the camera, in their order.
Tasks(calls) == [i \in DOMAIN calls |-> SetStream(calls[i])]

LEMMA CallbackTasksType ==
    ASSUME NEW f \in Seq(BOOLEAN)
    PROVE  /\ Tasks(f) \in Seq(Task)
           /\ Len(Tasks(f)) = Len(f)
           /\ \A i \in 1..Len(f) : Tasks(f)[i] = IF f[i] THEN "set_on" ELSE "set_off"
<1>1. Len(f) \in Nat /\ DOMAIN f = 1..Len(f)
  OBVIOUS
<1>2. \A i \in 1..Len(f) : SetStream(f[i]) \in Task
  BY DEF SetStream, Task
<1>3. Tasks(f) = [i \in 1..Len(f) |-> SetStream(f[i])]
  BY <1>1 DEF Tasks
<1>4. QED
  BY <1>1, <1>2, <1>3 DEF SetStream

\* What a handler leaves in the camera's queue.
LEMMA CallbackEffect ==
    ASSUME cam \in CameraState, srv' \in ServerState, StreamCallback
    PROVE  /\ cam' \in CameraState /\ cam'.phase = cam.phase
           /\ cam'.streaming = cam.streaming /\ cam'.waits = cam.waits
           /\ \/ cam'.queue = cam.queue
              \/ cam'.queue = cam.queue \o Tasks(srv'.calls)
           /\ cam.phase = "running" => cam'.queue = cam.queue \o Tasks(srv'.calls)
<1>1. PICK seen \in CameraSeen :
        cam' = IF seen THEN [cam EXCEPT !.queue = @ \o Tasks(srv'.calls)] ELSE cam
  BY DEF StreamCallback, Tasks
<1>2. cam.phase = "running" => seen
  BY <1>1 DEF CameraSeen
<1>3. cam.queue \o Tasks(srv'.calls) \in Seq(Task)
  <2>1. cam.queue \in Seq(Task) /\ srv'.calls \in Seq(BOOLEAN)
    BY DEF CameraState, ServerState
  <2>2. QED
    BY <2>1, CallbackTasksType, TaskQueueType
<1>4. ASSUME NEW q \in Seq(Task)
      PROVE  LET k == [cam EXCEPT !.queue = q]
             IN  /\ k \in CameraState /\ k.phase = cam.phase /\ k.queue = q
                 /\ k.streaming = cam.streaming /\ k.waits = cam.waits
  BY DEF CameraState
<1>5. CASE seen
  BY <1>1, <1>3, <1>4, <1>5 DEF CameraState
<1>6. CASE ~seen
  BY <1>1, <1>2, <1>6
<1>7. QED
  BY <1>5, <1>6

LEMMA PoppedTaskEffect ==
    ASSUME cam \in CameraState, cam.queue # <<>>
    PROVE  /\ PoppedTask \in CameraState /\ PoppedTask.phase = cam.phase
           /\ PoppedTask.streaming = cam.streaming /\ PoppedTask.waits = cam.waits
           /\ PoppedTask.queue = Tail(cam.queue)
<1>1. Tail(cam.queue) \in Seq(Task)
  BY DEF CameraState
<1>2. QED
  BY <1>1 DEF PoppedTask, CameraState

LEMMA ReadFrameEffect ==
    ASSUME NEW k \in CameraState
    PROVE  LET t == read_frame(k)
           IN  /\ t \in CameraState /\ t.phase = k.phase
               /\ t.streaming = k.streaming /\ t.queue = k.queue
               /\ IF Chains(k) < MaxChains THEN t.waits = k.waits + 1 ELSE t = k
<1>1. ASSUME NEW n \in Nat
      PROVE  LET t == [k EXCEPT !.waits = n]
             IN  /\ t \in CameraState /\ t.phase = k.phase
                 /\ t.streaming = k.streaming /\ t.queue = k.queue /\ t.waits = n
  BY DEF CameraState
<1>2. k.waits + 1 \in Nat
  BY DEF CameraState
<1>3. QED
  BY <1>1, <1>2 DEF read_frame

LEMMA TurnOnEffect ==
    ASSUME NEW k \in CameraState
    PROVE  LET u == [k EXCEPT !.streaming = TRUE]
               t == TurnOn(k)
           IN  /\ t \in CameraState /\ t.phase = k.phase
               /\ t.streaming = TRUE /\ t.queue = k.queue
               /\ u \in CameraState /\ t = read_frame(u)
<1>1. LET u == [k EXCEPT !.streaming = TRUE]
      IN  /\ u \in CameraState /\ u.phase = k.phase
          /\ u.streaming = TRUE /\ u.queue = k.queue
  BY DEF CameraState
<1>2. QED
  BY <1>1, ReadFrameEffect DEF TurnOn

LEMMA TurnOffEffect ==
    ASSUME NEW k \in CameraState
    PROVE  LET t == TurnOff(k)
           IN  /\ t \in CameraState /\ t.phase = k.phase
               /\ t.streaming = FALSE /\ t.waits = 0
               /\ t.queue = k.queue \o Copies(k.waits, "aborted")
<1>1. k.queue \o Copies(k.waits, "aborted") \in Seq(Task)
  BY TasksType, TaskQueueType DEF CameraState, Task
<1>2. ASSUME NEW q \in Seq(Task)
      PROVE  LET t == [k EXCEPT !.streaming = FALSE, !.waits = 0, !.queue = q]
             IN  /\ t \in CameraState /\ t.phase = k.phase
                 /\ t.streaming = FALSE /\ t.waits = 0 /\ t.queue = q
  BY DEF CameraState
<1>3. QED
  BY <1>1, <1>2 DEF TurnOff, CameraState

LEMMA WaitsExpireEffect ==
    ASSUME cam \in CameraState, WaitsExpire
    PROVE  /\ cam' \in CameraState /\ cam'.phase = cam.phase
           /\ cam'.streaming = cam.streaming /\ cam'.waits = 0
           /\ cam'.queue = cam.queue \o Copies(cam.waits, "expired")
<1>1. cam.queue \o Copies(cam.waits, "expired") \in Seq(Task)
  BY TasksType, TaskQueueType DEF CameraState, Task
<1>2. ASSUME NEW q \in Seq(Task)
      PROVE  LET t == [cam EXCEPT !.waits = 0, !.queue = q]
             IN  /\ t \in CameraState /\ t.phase = cam.phase
                 /\ t.streaming = cam.streaming /\ t.waits = 0 /\ t.queue = q
  BY DEF CameraState
<1>3. cam' = [cam EXCEPT !.waits = 0, !.queue = cam.queue \o Copies(cam.waits, "expired")]
  BY DEF WaitsExpire
<1>4. QED
  BY <1>1, <1>2, <1>3

LEMMA PhaseEffect ==
    ASSUME NEW k \in CameraState, NEW p \in Phase
    PROVE  LET t == [k EXCEPT !.phase = p]
           IN  /\ t \in CameraState /\ t.phase = p /\ t.waits = k.waits
               /\ t.streaming = k.streaming /\ t.queue = k.queue
BY DEF CameraState

\* What the steps of the camera thread do to the server: they add to its queue.
LEMMA CameraServerSide ==
    ASSUME TypeOK, CameraThreadSteps
    PROVE  /\ TypeOK'
           /\ srv'.streaming = srv.streaming
           /\ srv'.process = srv.process \/ srv'.process = "terminated"
           /\ Range(srv.queue) \subseteq Range(srv'.queue)
           /\ RunCamera => StatusRequest \in Range(srv'.queue)
<1>1. srv \in ServerState /\ peer \in [Conns -> PeerStatus]
  BY DEF TypeOK
<1>2. ASSUME NEW e \in Completion, e.op # "accept", srv' = Enqueue(srv, e),
             UNCHANGED peer
      PROVE  /\ TypeOK' /\ srv'.streaming = srv.streaming
             /\ srv'.process = srv.process
             /\ Range(srv.queue) \subseteq Range(srv'.queue)
             /\ e \in Range(srv'.queue)
  <2>1. srv' \in ServerState
    BY <1>1, <1>2, EnqueueType
  <2>2. /\ srv'.streaming = srv.streaming /\ srv'.process = srv.process
        /\ srv'.queue = Append(srv.queue, e)
    BY <1>1, <1>2, EnqueueEffect
  <2>3. Grown(srv.queue, srv'.queue) /\ e \in Range(srv'.queue)
    BY <1>1, <1>2, <2>2, QueueType, GrownByAppend
  <2>4. QED
    BY <1>1, <1>2, <2>1, <2>2, <2>3 DEF TypeOK, Grown
<1>3. /\ StatusRequest \in Completion /\ StatusRequest.op # "accept"
      /\ Frame \in Completion /\ Frame.op # "accept"
  BY DEF Completion, Frame, StatusRequest, Result
<1>4. ASSUME NEW q \in Process, srv' = [srv EXCEPT !.process = q, !.calls = <<>>],
             UNCHANGED peer
      PROVE  /\ TypeOK' /\ srv'.streaming = srv.streaming
             /\ srv'.process = q /\ srv'.queue = srv.queue
  <2>1. ASSUME NEW f \in Seq(BOOLEAN)
        PROVE  LET t == [srv EXCEPT !.process = q, !.calls = f]
               IN  /\ t \in ServerState /\ t.streaming = srv.streaming
                   /\ t.process = q /\ t.queue = srv.queue
    BY <1>1 DEF ServerState
  <2>2. <<>> \in Seq(BOOLEAN)
    OBVIOUS
  <2>3. QED
    BY <1>1, <1>4, <2>1, <2>2 DEF TypeOK
<1>5. ASSUME srv' = [srv EXCEPT !.calls = <<>>], UNCHANGED peer
      PROVE  /\ TypeOK' /\ srv'.streaming = srv.streaming
             /\ srv'.process = srv.process /\ srv'.queue = srv.queue
  <2>1. ASSUME NEW f
        PROVE  LET t == [srv EXCEPT !.calls = f]
               IN  /\ t.streaming = srv.streaming
                   /\ t.process = srv.process /\ t.queue = srv.queue
    BY <1>1 DEF ServerState
  <2>2. QED
    BY <1>1, <1>5, <2>1, CallsType DEF TypeOK
<1>6. ASSUME UNCHANGED vars
      PROVE  TypeOK' /\ srv' = srv
  BY <1>6 DEF vars, TypeOK
<1>7. CASE AssignCamera \/ RunSetStream \/ WaitsExpire
  <2>1. UNCHANGED vars
    BY <1>7 DEF AssignCamera, RunSetStream, WaitsExpire
  <2>2. RunCamera => StatusRequest \in Range(srv'.queue)
    BY <1>2, <1>3 DEF RunCamera
  <2>3. QED
    BY <1>6, <2>1, <2>2
<1>8. CASE RunCamera
  BY <1>2, <1>3, <1>8 DEF RunCamera
<1>9. CASE RunReadFrame
  <2>1. UNCHANGED peer
    BY <1>9 DEF RunReadFrame
  <2>2. RunCamera => StatusRequest \in Range(srv'.queue)
    BY <1>2, <1>3 DEF RunCamera
  <2>3. srv' = Enqueue(srv, Frame) \/ srv' = [srv EXCEPT !.calls = <<>>]
    BY <1>9 DEF RunReadFrame
  <2>4. QED
    BY <1>2, <1>3, <1>5, <2>1, <2>2, <2>3
<1>10. CASE DeviceFails
  <2>1. RunCamera => StatusRequest \in Range(srv'.queue)
    BY <1>2, <1>3 DEF RunCamera
  <2>2. "terminated" \in Process
    BY DEF Process
  <2>3. QED
    BY <1>4, <1>10, <2>1, <2>2 DEF DeviceFails
<1>11. QED
  BY <1>7, <1>8, <1>9, <1>10 DEF CameraThreadSteps

\* What the steps of the camera thread do to the camera.
LEMMA CameraType ==
    ASSUME cam \in CameraState, CameraThreadSteps
    PROVE  cam' \in CameraState
<1>1. TaskReady({"set_on", "set_off"}) \/ TaskReady({"expired", "aborted"})
        => PoppedTask \in CameraState
  BY PoppedTaskEffect DEF TaskReady
<1>2. CASE AssignCamera \/ RunCamera
  BY <1>2, PhaseEffect DEF AssignCamera, RunCamera, Phase
<1>3. CASE RunSetStream
  BY <1>1, <1>3, TurnOnEffect, TurnOffEffect DEF RunSetStream
<1>4. CASE RunReadFrame
  BY <1>1, <1>4, ReadFrameEffect DEF RunReadFrame
<1>5. CASE WaitsExpire
  BY <1>5, WaitsExpireEffect
<1>6. CASE DeviceFails
  BY <1>6 DEF DeviceFails
<1>7. QED
  BY <1>2, <1>3, <1>4, <1>5, <1>6 DEF CameraThreadSteps

LEMMA StreamInitType == StreamInit => StreamTypeOK
<1> SUFFICES ASSUME StreamInit PROVE StreamTypeOK
  OBVIOUS
<1>1. ASSUME NEW q \in Seq(Task)
      PROVE  [phase |-> "constructing", streaming |-> FALSE, waits |-> 0,
              queue |-> q] \in CameraState
  BY DEF CameraState, Phase
<1>2. <<>> \in Seq(Task)
  OBVIOUS
<1>3. QED
  BY <1>1, <1>2, InitType DEF StreamInit, InitCamera, StreamTypeOK

LEMMA StreamNextType == StreamTypeOK /\ [StreamNext]_streamVars => StreamTypeOK'
<1> SUFFICES ASSUME TypeOK, cam \in CameraState, [StreamNext]_streamVars
             PROVE  TypeOK' /\ cam' \in CameraState
  BY DEF StreamTypeOK
<1>1. CASE ServerHandles
  <2>1. TypeOK'
    BY <1>1, DispatchType DEF ServerHandles
  <2>2. QED
    BY <1>1, <2>1, CallbackEffect DEF ServerHandles, TypeOK
<1>2. CASE ServerOther
  <2>1. ServerNext
    BY <1>2 DEF ServerOther, ServerNext
  <2>2. QED
    BY <1>2, <2>1, NextType DEF ServerOther
<1>3. CASE CameraThreadSteps
  BY <1>3, CameraServerSide, CameraType
<1>4. CASE UNCHANGED streamVars
  BY <1>4 DEF streamVars, TypeOK
<1>5. QED
  BY <1>1, <1>2, <1>3, <1>4 DEF StreamNext

\* In every state the server, the clients and the camera thread's state and
\* tasks are of their types, whichever thread moves.
THEOREM StreamTypeCorrect == StreamSpec => []StreamTypeOK
<1>1. QED
  BY StreamInitType, StreamNextType, PTL DEF StreamSpec

-----------------------------------------------------------------------------
(* The frame chains.                                                       *)

Expired(q) == {i \in DOMAIN q : q[i] = "expired"}

\* A chain is alive exactly when a wait is pending or an expired one is queued.
Alight(k) == k.waits > 0 \/ Expired(k.queue) # {}

LEMMA ChainsAlight ==
    ASSUME NEW k \in CameraState
    PROVE  Chains(k) \in Nat /\ (Chains(k) > 0 <=> Alight(k))
<1>1. k.queue \in Seq(Task) /\ k.waits \in Nat
  BY DEF CameraState
<1>2. DOMAIN k.queue = 1..Len(k.queue) /\ Len(k.queue) \in Nat
  BY <1>1
<1>3. IsFiniteSet(1..Len(k.queue))
  BY <1>2, FS_Interval
<1>4. Expired(k.queue) \subseteq 1..Len(k.queue)
  BY <1>2 DEF Expired
<1>5. IsFiniteSet(Expired(k.queue))
  BY <1>3, <1>4, FS_Subset
<1>6. /\ Cardinality(Expired(k.queue)) \in Nat
      /\ Cardinality(Expired(k.queue)) = 0 <=> Expired(k.queue) = {}
  BY <1>5, FS_CardinalityType, FS_EmptySet
<1>7. Chains(k) = k.waits + Cardinality(Expired(k.queue))
  BY DEF Chains, Expired
<1>8. QED
  BY <1>1, <1>6, <1>7 DEF Alight

LEMMA ExpiredInConcat ==
    ASSUME NEW q \in Seq(Task), NEW r \in Seq(Task)
    PROVE  Expired(q \o r) # {} <=> Expired(q) # {} \/ Expired(r) # {}
<1>1. /\ DOMAIN q = 1..Len(q) /\ Len(q) \in Nat
      /\ DOMAIN r = 1..Len(r) /\ Len(r) \in Nat
      /\ DOMAIN (q \o r) = 1..(Len(q) + Len(r))
      /\ \A i \in 1..Len(q) : (q \o r)[i] = q[i]
      /\ \A i \in (Len(q) + 1)..(Len(q) + Len(r)) : (q \o r)[i] = r[i - Len(q)]
  OBVIOUS
<1>2. ASSUME NEW i \in Expired(q)
      PROVE  i \in Expired(q \o r)
  BY <1>1 DEF Expired
<1>3. ASSUME NEW i \in Expired(r)
      PROVE  Len(q) + i \in Expired(q \o r)
  <2>1. i \in 1..Len(r) /\ r[i] = "expired"
    BY <1>1 DEF Expired
  <2>2. /\ Len(q) + i \in (Len(q) + 1)..(Len(q) + Len(r))
        /\ (Len(q) + i) - Len(q) = i
    BY <1>1, <2>1
  <2>3. (q \o r)[Len(q) + i] = "expired" /\ Len(q) + i \in 1..(Len(q) + Len(r))
    BY <1>1, <2>1, <2>2
  <2>4. QED
    BY <1>1, <2>3 DEF Expired
<1>4. ASSUME NEW i \in Expired(q \o r), i \notin Expired(q)
      PROVE  i - Len(q) \in Expired(r)
  <2>1. i \in 1..(Len(q) + Len(r)) /\ (q \o r)[i] = "expired"
    BY <1>1 DEF Expired
  <2>2. i \notin 1..Len(q)
    BY <1>1, <1>4, <2>1 DEF Expired
  <2>3. i \in (Len(q) + 1)..(Len(q) + Len(r)) /\ i - Len(q) \in 1..Len(r)
    BY <1>1, <2>1, <2>2
  <2>4. r[i - Len(q)] = "expired"
    BY <1>1, <2>1, <2>3
  <2>5. QED
    BY <1>1, <2>3, <2>4 DEF Expired
<1>5. QED
  BY <1>2, <1>3, <1>4

LEMMA ExpiredInTail ==
    ASSUME NEW q \in Seq(Task), q # <<>>, Head(q) # "expired"
    PROVE  Expired(q) # {} => Expired(Tail(q)) # {}
<1>1. /\ Len(q) \in Nat \ {0} /\ DOMAIN q = 1..Len(q)
      /\ DOMAIN Tail(q) = 1..(Len(q) - 1)
      /\ \A i \in 1..(Len(q) - 1) : Tail(q)[i] = q[i + 1]
      /\ Head(q) = q[1]
  OBVIOUS
<1>2. ASSUME NEW i \in Expired(q)
      PROVE  i - 1 \in Expired(Tail(q))
  <2>1. i \in 1..Len(q) /\ q[i] = "expired" /\ i # 1
    BY <1>1 DEF Expired
  <2>2. i - 1 \in 1..(Len(q) - 1) /\ (i - 1) + 1 = i
    BY <1>1, <2>1
  <2>3. QED
    BY <1>1, <2>1, <2>2 DEF Expired
<1>3. QED
  BY <1>2

LEMMA ExpiredInCopies ==
    ASSUME NEW n \in Nat, n > 0
    PROVE  Expired(Copies(n, "expired")) # {}
<1>1. 1 \in DOMAIN Copies(n, "expired") /\ Copies(n, "expired")[1] = "expired"
  BY DEF Copies
<1>2. QED
  BY <1>1 DEF Expired

\* read_frame never leaves the camera without a chain.
LEMMA ReadFrameAlight ==
    ASSUME NEW k \in CameraState
    PROVE  Alight(read_frame(k))
<1>1. Chains(k) \in Nat /\ (Chains(k) > 0 <=> Alight(k)) /\ k.waits \in Nat
  BY ChainsAlight DEF CameraState
<1>2. CASE Chains(k) < MaxChains
  <2>1. read_frame(k).waits = k.waits + 1
    BY <1>2, ReadFrameEffect
  <2>2. QED
    BY <1>1, <2>1 DEF Alight
<1>3. CASE ~(Chains(k) < MaxChains)
  <2>1. Chains(k) > 0
    BY <1>1, <1>3, CameraBounds
  <2>2. QED
    BY <1>1, <1>3, <2>1, ReadFrameEffect
<1>4. QED
  BY <1>2, <1>3

Lit(k) == IF k.streaming THEN Alight(k) ELSE k.waits = 0

\* A step that only adds tasks to the queue keeps the chains as they were.
LEMMA LitGrows ==
    ASSUME NEW k \in CameraState, NEW t, Lit(k), NEW r \in Seq(Task),
           t.streaming = k.streaming, t.waits = k.waits, t.queue = k.queue \o r
    PROVE  Lit(t)
<1>1. k.queue \in Seq(Task)
  BY DEF CameraState
<1>2. QED
  BY <1>1, ExpiredInConcat DEF Lit, Alight

LEMMA StreamNextLit ==
    ASSUME StreamTypeOK, Lit(cam), [StreamNext]_streamVars
    PROVE  Lit(cam')
<1>1. cam \in CameraState /\ cam.queue \in Seq(Task) /\ cam.waits \in Nat
  BY DEF StreamTypeOK, CameraState
<1>2. StreamTypeOK'
  BY StreamNextType
<1>3. CASE ServerHandles
  <2>1. /\ cam'.streaming = cam.streaming /\ cam'.waits = cam.waits
        /\ cam'.queue = cam.queue \/ cam'.queue = cam.queue \o Tasks(srv'.calls)
    BY <1>1, <1>2, <1>3, CallbackEffect DEF ServerHandles, StreamTypeOK, TypeOK
  <2>2. Tasks(srv'.calls) \in Seq(Task)
    BY <1>2, CallbackTasksType DEF StreamTypeOK, TypeOK, ServerState
  <2>3. CASE cam'.queue = cam.queue
    BY <2>1, <2>3 DEF Lit, Alight
  <2>4. QED
    BY <1>1, <2>1, <2>2, <2>3, LitGrows
<1>4. CASE AssignCamera \/ RunCamera
  <2>1. PICK p \in Phase : cam' = [cam EXCEPT !.phase = p]
    BY <1>4 DEF AssignCamera, RunCamera, Phase
  <2>2. /\ cam'.streaming = cam.streaming /\ cam'.waits = cam.waits
        /\ cam'.queue = cam.queue
    BY <1>1, <2>1, PhaseEffect
  <2>3. QED
    BY <2>2 DEF Lit, Alight
<1>5. CASE RunSetStream
  <2>1. PoppedTask \in CameraState
    BY <1>1, <1>5, PoppedTaskEffect DEF RunSetStream, TaskReady
  <2>2. CASE Head(cam.queue) = "set_on"
    <3>1. cam' = TurnOn(PoppedTask)
      BY <1>5, <2>2 DEF RunSetStream
    <3>2. cam'.streaming = TRUE /\ Alight(cam')
      BY <2>1, <3>1, TurnOnEffect, ReadFrameAlight
    <3>3. QED
      BY <3>2 DEF Lit
  <2>3. CASE Head(cam.queue) # "set_on"
    <3>1. cam' = TurnOff(PoppedTask)
      BY <1>5, <2>3 DEF RunSetStream
    <3>2. QED
      BY <2>1, <3>1, TurnOffEffect DEF Lit
  <2>4. QED
    BY <2>2, <2>3
<1>6. CASE RunReadFrame
  <2>1. /\ PoppedTask \in CameraState /\ PoppedTask.streaming = cam.streaming
        /\ PoppedTask.waits = cam.waits /\ PoppedTask.queue = Tail(cam.queue)
        /\ cam.queue # <<>>
    BY <1>1, <1>6, PoppedTaskEffect DEF RunReadFrame, TaskReady
  <2>2. CASE cam.streaming /\ Head(cam.queue) = "expired"
    <3>1. cam' = read_frame(PoppedTask)
      BY <1>6, <2>2 DEF RunReadFrame
    <3>2. QED
      BY <2>1, <2>2, <3>1, ReadFrameEffect, ReadFrameAlight DEF Lit
  <2>3. CASE ~(cam.streaming /\ Head(cam.queue) = "expired")
    <3>1. cam' = PoppedTask
      BY <1>6, <2>3 DEF RunReadFrame
    <3>2. cam.streaming => Head(cam.queue) # "expired"
      BY <2>3
    <3>3. QED
      BY <1>1, <2>1, <3>1, <3>2, ExpiredInTail DEF Lit, Alight
  <2>4. QED
    BY <2>2, <2>3
<1>7. CASE WaitsExpire
  <2>1. /\ cam'.streaming = cam.streaming /\ cam'.waits = 0 /\ cam.waits > 0
        /\ cam'.queue = cam.queue \o Copies(cam.waits, "expired")
    BY <1>1, <1>7, WaitsExpireEffect DEF WaitsExpire
  <2>2. /\ Copies(cam.waits, "expired") \in Seq(Task)
        /\ Expired(Copies(cam.waits, "expired")) # {}
    BY <1>1, <2>1, TasksType, ExpiredInCopies DEF Task
  <2>3. QED
    BY <1>1, <2>1, <2>2, ExpiredInConcat DEF Lit, Alight
<1>8. CASE ServerOther \/ DeviceFails \/ UNCHANGED streamVars
  BY <1>8 DEF ServerOther, DeviceFails, streamVars
<1>9. QED
  BY <1>3, <1>4, <1>5, <1>6, <1>7, <1>8 DEF StreamNext, CameraThreadSteps

\* A streaming camera always has a frame chain that goes on, and one that does
\* not stream has no wait pending, whatever the order of set_stream, of
\* cancelled waits and of waits that were too late to be cancelled.
THEOREM ChainsMatch == StreamSpec => []ChainsMatchStreaming
<1>1. StreamInit => Lit(cam)
  BY DEF StreamInit, InitCamera, Lit
<1>2. StreamTypeOK /\ Lit(cam) /\ [StreamNext]_streamVars => Lit(cam)'
  BY StreamNextLit
<1>3. StreamTypeOK /\ Lit(cam) => ChainsMatchStreaming
  BY ChainsAlight DEF StreamTypeOK, Lit, ChainsMatchStreaming
<1>4. QED
  BY <1>1, <1>2, <1>3, StreamTypeCorrect, PTL DEF StreamSpec

-----------------------------------------------------------------------------
(* What the camera is told last.                                           *)

IsSet(t) == t \in {"set_on", "set_off"}
SetIn(q) == {i \in DOMAIN q : IsSet(q[i])}

\* A camera that streams or not, as d says, streams as b says when it has run
\* the tasks q.
Says(q, d, b) ==
    \/ SetIn(q) = {} /\ b = d
    \/ \E i \in SetIn(q) : (\A j \in SetIn(q) : j <= i) /\ b = (q[i] = "set_on")

LEMMA SaysTold ==
    ASSUME cam \in CameraState, NEW b \in BOOLEAN, Says(cam.queue, cam.streaming, b)
    PROVE  Told = b
<1> DEFINE I == {i \in 1..Len(cam.queue) : cam.queue[i] \in {"set_on", "set_off"}}
           last == IF I # {} THEN Max(I) ELSE 0
<1>1. cam.queue \in Seq(Task) /\ DOMAIN cam.queue = 1..Len(cam.queue)
      /\ Len(cam.queue) \in Nat
  BY DEF CameraState
<1>2. I = SetIn(cam.queue)
  BY <1>1 DEF SetIn, IsSet
<1>3. Told = IF last = 0 THEN cam.streaming ELSE cam.queue[last] = "set_on"
  BY DEF Told, SelectLastInSeq
<1>4. CASE SetIn(cam.queue) = {} /\ b = cam.streaming
  BY <1>2, <1>3, <1>4
<1>5. ASSUME NEW i \in SetIn(cam.queue), \A j \in SetIn(cam.queue) : j <= i,
             b = (cam.queue[i] = "set_on")
      PROVE  Told = b
  <2>1. i \in Nat /\ i # 0 /\ \A j \in I : j \in Nat
    BY <1>1, <1>2
  <2>2. i \in I /\ \A j \in I : i >= j
    BY <1>2, <1>5, <2>1
  <2>3. \A x \in I : (\A j \in I : x >= j) => x = i
    BY <2>1, <2>2
  <2>4. Max(I) = i
    <3> HIDE DEF I
    <3>1. QED
      BY <2>2, <2>3 DEF Max
  <2>5. last = i
    BY <2>2, <2>4
  <2>6. QED
    BY <1>3, <1>5, <2>1, <2>5
<1>6. QED
  BY <1>4, <1>5 DEF Says

LEMMA ConcatElements ==
    ASSUME NEW q \in Seq(Task), NEW r \in Seq(Task)
    PROVE  /\ DOMAIN q = 1..Len(q) /\ Len(q) \in Nat
           /\ DOMAIN r = 1..Len(r) /\ Len(r) \in Nat
           /\ DOMAIN (q \o r) = 1..(Len(q) + Len(r))
           /\ \A i \in 1..Len(q) : (q \o r)[i] = q[i]
           /\ \A i \in (Len(q) + 1)..(Len(q) + Len(r)) : (q \o r)[i] = r[i - Len(q)]
OBVIOUS

LEMMA SaysUnchangedByOthers ==
    ASSUME NEW q \in Seq(Task), NEW r \in Seq(Task), SetIn(r) = {},
           NEW d, NEW b, Says(q, d, b)
    PROVE  Says(q \o r, d, b)
<1>1. /\ DOMAIN q = 1..Len(q) /\ Len(q) \in Nat
      /\ DOMAIN r = 1..Len(r) /\ Len(r) \in Nat
      /\ DOMAIN (q \o r) = 1..(Len(q) + Len(r))
      /\ \A i \in 1..Len(q) : (q \o r)[i] = q[i]
      /\ \A i \in (Len(q) + 1)..(Len(q) + Len(r)) : (q \o r)[i] = r[i - Len(q)]
  BY ConcatElements
<1>2. ASSUME NEW i \in (Len(q) + 1)..(Len(q) + Len(r))
      PROVE  ~IsSet((q \o r)[i])
  <2>1. i - Len(q) \in DOMAIN r
    BY <1>1
  <2>2. QED
    BY <1>1, <2>1 DEF SetIn
<1>3. \A i \in DOMAIN (q \o r) : i \in 1..Len(q) \/ i \in (Len(q) + 1)..(Len(q) + Len(r))
  BY <1>1
<1>4. SetIn(q \o r) = SetIn(q)
  <2>1. ASSUME NEW i \in SetIn(q \o r)
        PROVE  i \in SetIn(q)
    <3>1. i \in 1..Len(q)
      BY <1>2, <1>3 DEF SetIn
    <3>2. QED
      BY <1>1, <3>1 DEF SetIn
  <2>2. ASSUME NEW i \in SetIn(q)
        PROVE  i \in SetIn(q \o r)
    BY <1>1 DEF SetIn
  <2>3. QED
    BY <2>1, <2>2
<1>5. \A i \in SetIn(q) : (q \o r)[i] = q[i]
  BY <1>1 DEF SetIn
<1>6. QED
  BY <1>4, <1>5 DEF Says

LEMMA SaysTheLast ==
    ASSUME NEW q \in Seq(Task), NEW on \in BOOLEAN, NEW d
    PROVE  Says(q \o Tasks(<<on>>), d, on)
<1> DEFINE r == Tasks(<<on>>)
<1>1. /\ r \in Seq(Task) /\ Len(r) = 1
      /\ r[1] = IF on THEN "set_on" ELSE "set_off"
  <2> DEFINE f == <<on>>
  <2>1. f \in Seq(BOOLEAN) /\ Len(f) = 1 /\ f[1] = on
    OBVIOUS
  <2>2. r = Tasks(f)
    OBVIOUS
  <2> HIDE DEF f, r
  <2>3. 1 \in 1..Len(f)
    BY <2>1
  <2>4. QED
    BY <2>1, <2>2, <2>3, CallbackTasksType
<1> HIDE DEF r
<1>2. /\ Len(q) \in Nat /\ DOMAIN (q \o r) = 1..(Len(q) + 1)
      /\ (q \o r)[Len(q) + 1] = r[1]
  <2>1. /\ Len(q) \in Nat /\ DOMAIN (q \o r) = 1..(Len(q) + Len(r))
        /\ \A i \in (Len(q) + 1)..(Len(q) + Len(r)) : (q \o r)[i] = r[i - Len(q)]
    BY <1>1, ConcatElements
  <2>2. Len(q) + 1 \in (Len(q) + 1)..(Len(q) + Len(r)) /\ (Len(q) + 1) - Len(q) = 1
    BY <1>1, <2>1
  <2>3. QED
    BY <1>1, <2>1, <2>2
<1>3. Len(q) + 1 \in SetIn(q \o r)
  BY <1>1, <1>2 DEF SetIn, IsSet
<1>4. \A j \in SetIn(q \o r) : j <= Len(q) + 1
  BY <1>2 DEF SetIn
<1>5. on = ((q \o r)[Len(q) + 1] = "set_on")
  BY <1>1, <1>2
<1>6. Says(q \o r, d, on)
  BY <1>3, <1>4, <1>5 DEF Says
<1>7. QED
  BY <1>6 DEF r

\* Running the task at the head changes what is still to be told not at all.
LEMMA SaysAfterHead ==
    ASSUME NEW q \in Seq(Task), q # <<>>, NEW d, NEW b, Says(q, d, b)
    PROVE  Says(Tail(q), IF IsSet(Head(q)) THEN Head(q) = "set_on" ELSE d, b)
<1>1. /\ Len(q) \in Nat \ {0} /\ DOMAIN q = 1..Len(q)
      /\ DOMAIN Tail(q) = 1..(Len(q) - 1)
      /\ \A i \in 1..(Len(q) - 1) : Tail(q)[i] = q[i + 1]
      /\ Head(q) = q[1]
  OBVIOUS
<1>2. ASSUME NEW j \in SetIn(Tail(q))
      PROVE  j \in 1..(Len(q) - 1) /\ j + 1 \in SetIn(q) /\ q[j + 1] = Tail(q)[j]
  <2>1. j \in 1..(Len(q) - 1) /\ IsSet(Tail(q)[j])
    BY <1>1 DEF SetIn
  <2>2. j + 1 \in 1..Len(q) /\ Tail(q)[j] = q[j + 1]
    BY <1>1, <2>1
  <2>3. QED
    BY <1>1, <2>1, <2>2 DEF SetIn
<1>3. ASSUME NEW i \in SetIn(q), i # 1
      PROVE  i \in 2..Len(q) /\ i - 1 \in SetIn(Tail(q)) /\ Tail(q)[i - 1] = q[i]
  <2>1. i \in 2..Len(q) /\ IsSet(q[i])
    BY <1>1, <1>3 DEF SetIn
  <2>2. i - 1 \in 1..(Len(q) - 1) /\ (i - 1) + 1 = i
    BY <1>1, <2>1
  <2>3. Tail(q)[i - 1] = q[i]
    BY <1>1, <2>2
  <2>4. QED
    BY <1>1, <2>1, <2>2, <2>3 DEF SetIn
<1>4. CASE SetIn(q) = {} /\ b = d
  <2>1. SetIn(Tail(q)) = {} /\ ~IsSet(Head(q))
    BY <1>1, <1>2, <1>4 DEF SetIn
  <2>2. QED
    BY <1>4, <2>1 DEF Says
<1>5. ASSUME NEW i \in SetIn(q), \A j \in SetIn(q) : j <= i, b = (q[i] = "set_on")
      PROVE  Says(Tail(q), IF IsSet(Head(q)) THEN Head(q) = "set_on" ELSE d, b)
  <2>1. CASE i = 1
    <3>1. IsSet(Head(q)) /\ b = (Head(q) = "set_on")
      BY <1>1, <1>5, <2>1 DEF SetIn
    <3>2. ASSUME NEW j \in SetIn(Tail(q))
          PROVE  FALSE
      <4>1. j \in 1..(Len(q) - 1) /\ j + 1 <= 1
        BY <1>2, <1>5, <2>1
      <4>2. QED
        BY <1>1, <4>1
    <3>3. QED
      BY <3>1, <3>2 DEF Says
  <2>2. CASE i # 1
    <3>1. i \in 2..Len(q) /\ i - 1 \in SetIn(Tail(q)) /\ Tail(q)[i - 1] = q[i]
      BY <1>3, <2>2
    <3>2. ASSUME NEW j \in SetIn(Tail(q))
          PROVE  j <= i - 1
      <4>1. j \in 1..(Len(q) - 1) /\ j + 1 <= i
        BY <1>2, <1>5
      <4>2. QED
        BY <1>1, <3>1, <4>1
    <3>3. QED
      BY <1>5, <3>1, <3>2 DEF Says
  <2>3. QED
    BY <2>1, <2>2
<1>6. QED
  BY <1>4, <1>5 DEF Says

-----------------------------------------------------------------------------
(* What the handlers of Server leave in its own queue.                     *)

LEMMA StartKeepaliveGrown ==
    ASSUME NEW s \in ServerState
    PROVE  Grown(s.queue, start_keepalive(s).queue)
<1>1. ASSUME NEW t \in ServerState
      PROVE  [t EXCEPT !.timer = "armed"].queue = t.queue
  BY DEF ServerState
<1>2. QED
  BY <1>1, CancelType, CancelEffect DEF start_keepalive

LEMMA StartReadGrown ==
    ASSUME NEW s \in ServerState
    PROVE  Grown(s.queue, start_read(s).queue)
<1>1. CASE s.socket = NoConn
  BY <1>1 DEF start_read, ServerState, Grown
<1>2. CASE s.socket # NoConn
  <2>1. s.socket \in Conns /\ start_read(s) = AsyncRead(s, s.socket)
    BY <1>2 DEF ServerState, start_read
  <2>2. QED
    BY <2>1, AsyncReadEffect
<1>3. QED
  BY <1>1, <1>2

LEMMA ReadHandlerGrown ==
    ASSUME NEW s \in ServerState, NEW r
    PROVE  Grown(s.queue, read_handler(s, r).queue)
<1>1. ASSUME NEW on \in BOOLEAN
      PROVE  Grown(s.queue, start_read(update_stream_status(s, on)).queue)
  BY UpdateStreamStatusType, StatusEffect, StartReadGrown
<1>2. Grown(s.queue, start_read(Cancel(s)).queue)
  BY CancelType, CancelEffect, StartReadGrown, GrownTwice
<1>3. Grown(s.queue, reset(s).queue)
  BY ResetEffect
<1>4. QED
  BY <1>1, <1>2, <1>3 DEF read_handler

LEMMA WaitHandlerGrown ==
    ASSUME NEW s \in ServerState, NEW r
    PROVE  Grown(s.queue, wait_handler(s, r).queue)
<1>1. Grown(s.queue, s.queue)
  BY DEF Grown
<1>2. QED
  BY <1>1, StartKeepaliveGrown, ResetEffect DEF wait_handler

LEMMA AcceptErrorQueue ==
    ASSUME NEW s \in ServerState
    PROVE  accept_handler(s, NoConn).queue = s.queue
<1>1. ASSUME NEW t \in ServerState
      PROVE  start_async_accept(t).queue = t.queue
  BY DEF start_async_accept, ServerState
<1>2. /\ [s EXCEPT !.temp_socket = FALSE] \in ServerState
      /\ [s EXCEPT !.temp_socket = FALSE].queue = s.queue
  BY DEF ServerState
<1>3. QED
  BY <1>1, <1>2 DEF accept_handler

\* A handler that calls stream_callback calls it once, with what the stream
\* then is. One that does not leaves the stream as it was, and a status request
\* in the queue stays there.
Calls(on) == srv'.calls = <<on>> /\ srv'.streaming = on
CallsNothing ==
    /\ srv'.calls = <<>> /\ srv'.streaming = srv.streaming
    /\ StatusRequest \in Range(srv.queue) => StatusRequest \in Range(srv'.queue)

LEMMA HandledCalls ==
    ASSUME NEW s \in ServerState, Same(Popped, s), srv \in ServerState,
           Grown(Tail(srv.queue), s.queue),
           Switched(s, srv', TRUE) \/ Switched(s, srv', FALSE)
             \/ /\ Same(s, srv') /\ Grown(s.queue, srv'.queue)
                /\ srv.queue # <<>> /\ Head(srv.queue).op # "status"
    PROVE  (\E on \in BOOLEAN : Calls(on)) \/ CallsNothing
<1>1. s.calls = <<>> /\ s.streaming = srv.streaming
  BY PoppedShown DEF Same
<1>2. ASSUME NEW on \in BOOLEAN, Switched(s, srv', on)
      PROVE  Calls(on)
  <2>1. srv'.streaming = on /\ srv'.calls = Append(<<>>, on)
    BY <1>1, <1>2 DEF Switched
  <2>2. Append(<<>>, on) = <<on>>
    OBVIOUS
  <2>3. QED
    BY <2>1, <2>2 DEF Calls
<1>3. ASSUME Same(s, srv'), Grown(s.queue, srv'.queue),
             srv.queue # <<>>, Head(srv.queue).op # "status"
      PROVE  CallsNothing
  <2>1. srv'.calls = <<>> /\ srv'.streaming = srv.streaming
    BY <1>1, <1>3 DEF Same
  <2>2. Range(srv.queue) = Range(Tail(srv.queue)) \cup {Head(srv.queue)}
    BY <1>3, QueueType, PoppedAccepts
  <2>3. StatusRequest.op = "status"
    BY DEF StatusRequest
  <2>4. StatusRequest \in Range(srv.queue) => StatusRequest \in Range(srv'.queue)
    BY <1>3, <2>2, <2>3 DEF Grown
  <2>5. QED
    BY <2>1, <2>4 DEF CallsNothing
<1>4. QED
  BY <1>2, <1>3

LEMMA DispatchCalls ==
    ASSUME srv \in ServerState, Dispatch, Alive'
    PROVE  (\E on \in BOOLEAN : Calls(on)) \/ CallsNothing
<1>1. srv.process = "running" /\ srv.queue # <<>>
  BY DEF Dispatch, DispatchAccept, DispatchRead, DispatchPoll, DispatchWait,
         DispatchFrame, DispatchStatus, Dispatchable
<1>2. /\ Popped \in ServerState /\ Popped.queue = Tail(srv.queue)
      /\ Head(srv.queue).conn \in Conns \cup {NoConn}
      /\ Head(srv.queue).op \in {"poll", "read"} => Head(srv.queue).conn \in Conns
  BY <1>1, PoppedType, PoppedFields
<1>3. Same(Popped, Popped) /\ Grown(Tail(srv.queue), Popped.queue)
  BY <1>2 DEF Same, Grown
<1>4. srv'.process # "aborted"
  BY DEF Alive
<1>5. CASE DispatchAccept
  <2>1. /\ srv' = accept_handler(Popped, Head(srv.queue).conn)
        /\ Head(srv.queue).op = "accept"
    BY <1>5 DEF DispatchAccept, Dispatchable
  <2>2. CASE Head(srv.queue).conn = NoConn
    <3>1. Same(Popped, srv') /\ srv'.queue = Popped.queue
      BY <1>2, <2>1, <2>2, AcceptHandlerShown, AcceptErrorQueue
    <3>2. Grown(Popped.queue, srv'.queue)
      BY <3>1 DEF Grown
    <3>3. QED
      BY <1>1, <1>2, <1>3, <2>1, <3>1, <3>2, HandledCalls
  <2>3. CASE Head(srv.queue).conn # NoConn
    <3>1. Switched(Popped, srv', FALSE)
      BY <1>2, <2>1, <2>3, AcceptHandlerShown
    <3>2. QED
      BY <1>2, <1>3, <3>1, HandledCalls
  <2>4. QED
    BY <2>2, <2>3
<1>6. ASSUME NEW s \in ServerState, Same(Popped, s), Grown(Tail(srv.queue), s.queue),
             Head(srv.queue).op # "status", NEW r, srv' = read_handler(s, r)
      PROVE  (\E on \in BOOLEAN : Calls(on)) \/ CallsNothing
  <2>1. \/ Switched(s, srv', TRUE) \/ Switched(s, srv', FALSE)
        \/ Same(s, srv')
    BY <1>4, <1>6, ReadHandlerShown
  <2>2. Grown(s.queue, srv'.queue)
    BY <1>6, ReadHandlerGrown
  <2>3. QED
    BY <1>1, <1>6, <2>1, <2>2, HandledCalls
<1>7. CASE DispatchRead
  <2>1. PICK r : srv' = read_handler(Popped, r)
    BY <1>7 DEF DispatchRead
  <2>2. Head(srv.queue).op # "status"
    BY <1>7 DEF DispatchRead, Dispatchable
  <2>3. QED
    BY <1>2, <1>3, <1>6, <2>1, <2>2
<1>8. CASE DispatchPoll
  <2> DEFINE c == Head(srv.queue).conn
             n == Completable(Popped, c)
  <2>1. c \in Conns /\ Head(srv.queue).op # "status"
    BY <1>2, <1>8 DEF DispatchPoll, Dispatchable
  <2>2. n \in 0..Popped.reads[c]
    BY <1>2, <2>1, CompletableType
  <2>3. /\ Perform(Popped, c, n) \in ServerState
        /\ Same(Popped, Perform(Popped, c, n))
        /\ Grown(Tail(srv.queue), Perform(Popped, c, n).queue)
    <3> HIDE DEF c, n
    <3>1. QED
      BY <1>2, <2>1, <2>2, PerformedType, PerformSame
  <2>4. srv' = Popped \/ \E r : srv' = read_handler(Perform(Popped, c, n), r)
    BY <1>8 DEF DispatchPoll
  <2>5. CASE srv' = Popped
    <3>1. Same(Popped, srv') /\ Grown(Popped.queue, srv'.queue)
      BY <2>5 DEF Same, Grown
    <3>2. QED
      BY <1>1, <1>2, <1>3, <2>1, <3>1, HandledCalls
  <2>6. QED
    BY <1>6, <2>1, <2>3, <2>4, <2>5
<1>9. CASE DispatchWait
  <2>1. /\ srv' = wait_handler(Popped, Head(srv.queue).result)
        /\ Head(srv.queue).op # "status"
    BY <1>9 DEF DispatchWait, Dispatchable
  <2>2. Same(Popped, srv') \/ Switched(Popped, srv', FALSE)
    BY <1>2, <2>1, WaitHandlerShown
  <2>3. Grown(Popped.queue, srv'.queue)
    BY <1>2, <2>1, WaitHandlerGrown
  <2>4. QED
    BY <1>1, <1>2, <1>3, <2>1, <2>2, <2>3, HandledCalls
<1>10. CASE DispatchFrame
  <2>1. PICK p : srv' = [Popped EXCEPT !.process = p]
    BY <1>10 DEF DispatchFrame, send_frame
  <2>2. Head(srv.queue).op # "status"
    BY <1>10 DEF DispatchFrame, Dispatchable
  <2>3. /\ srv'.queue = Popped.queue /\ srv'.calls = Popped.calls
        /\ srv'.streaming = Popped.streaming
    BY <1>2, <2>1 DEF ServerState
  <2>4. srv'.calls = <<>> /\ srv'.streaming = srv.streaming
    BY <2>3, PoppedShown
  <2>5. Range(srv.queue) = Range(Tail(srv.queue)) \cup {Head(srv.queue)}
    BY <1>1, QueueType, PoppedAccepts
  <2>6. QED
    BY <1>2, <2>2, <2>3, <2>4, <2>5 DEF CallsNothing, StatusRequest
<1>11. CASE DispatchStatus
  <2>1. srv' = update_stream_status(Popped, srv.streaming)
    BY <1>11 DEF DispatchStatus
  <2>2. srv.streaming \in BOOLEAN
    BY DEF ServerState
  <2>3. Switched(Popped, srv', srv.streaming)
    BY <1>2, <2>1, <2>2, StatusSwitched
  <2>4. QED
    BY <1>2, <1>3, <2>2, <2>3, HandledCalls
<1>12. QED
  BY <1>5, <1>7, <1>8, <1>9, <1>10, <1>11 DEF Dispatch

LEMMA OthersQueue ==
    ASSUME srv \in ServerState, Unblock \/ Reactor \/ \E c \in Conns : Client(c)
    PROVE  Range(srv.queue) \subseteq Range(srv'.queue)
<1>1. srv.queue \in Seq(Completion)
  BY QueueType
<1>2. ASSUME NEW e
      PROVE  Range(srv.queue) \subseteq Range(Append(srv.queue, e))
  <2>1. /\ DOMAIN srv.queue = 1..Len(srv.queue) /\ Len(srv.queue) \in Nat
        /\ DOMAIN Append(srv.queue, e) = 1..(Len(srv.queue) + 1)
        /\ \A i \in 1..Len(srv.queue) : Append(srv.queue, e)[i] = srv.queue[i]
    BY <1>1
  <2>2. QED
    BY <2>1 DEF Range
<1>3. srv'.queue = srv.queue \/ \E e : srv'.queue = Append(srv.queue, e)
  <2>1. ASSUME NEW t \in ServerState, NEW v, NEW c,
               \/ srv' = t
               \/ srv' = [t EXCEPT !.accepting = v]
               \/ srv' = [t EXCEPT !.timer = v]
               \/ srv' = [t EXCEPT !.accepting = v, !.status[c] = "open"]
        PROVE  srv'.queue = t.queue
    BY <2>1 DEF ServerState
  <2>2. ASSUME NEW f, NEW v, NEW c \in Conns,
               \/ srv' = [srv EXCEPT !.calls = f, !.process = v]
               \/ srv' = [srv EXCEPT !.timer = v, !.calls = f]
               \/ srv' = [srv EXCEPT !.status[c] = v, !.calls = f]
               \/ srv' = [srv EXCEPT !.inbox[c] = v, !.calls = f]
               \/ srv' = [srv EXCEPT !.calls = f]
        PROVE  srv'.queue = srv.queue
    BY <2>2 DEF ServerState
  <2>3. CASE Unblock
    <3>1. \E f, v : srv' = [srv EXCEPT !.calls = f, !.process = v]
      BY <2>3 DEF Unblock
    <3>2. QED
      BY <3>1 DEF ServerState
  <2>4. CASE Elapse
    <3>1. \E f : srv' = [srv EXCEPT !.timer = "due", !.calls = f]
      BY <2>4 DEF Elapse
    <3>2. QED
      BY <3>1 DEF ServerState
  <2>5. CASE AcceptFails
    <3>1. AcceptError \in Completion
      BY DEF AcceptError, Completion, Result, ReadError
    <3>2. Enqueue(srv, AcceptError) \in ServerState
      BY <3>1, EnqueueType
    <3>3. srv'.queue = Enqueue(srv, AcceptError).queue
      BY <2>1, <2>5, <3>2 DEF AcceptFails
    <3>4. QED
      BY <3>1, <3>3, EnqueueEffect
  <2>6. CASE TimerExpires
    <3>1. WaitDone("ok") \in Completion
      BY WaitDoneType
    <3>2. Enqueue(srv, WaitDone("ok")) \in ServerState
      BY <3>1, EnqueueType
    <3>3. srv'.queue = Enqueue(srv, WaitDone("ok")).queue
      BY <2>1, <2>6, <3>2 DEF TimerExpires
    <3>4. QED
      BY <3>1, <3>3, EnqueueEffect
  <2>7. ASSUME NEW c \in Conns, AcceptReady(c) \/ ReadReady(c)
        PROVE  \E e : srv'.queue = Append(srv.queue, e)
    <3>1. PICK e \in {Accepted(c), Poll(c)} :
            \/ srv' = [Enqueue(srv, e) EXCEPT !.accepting = FALSE, !.status[c] = "open"]
            \/ srv' = Enqueue(srv, e)
      BY <2>7 DEF AcceptReady, ReadReady
    <3>2. e \in Completion
      BY CompletionTypes DEF Result
    <3>3. Enqueue(srv, e) \in ServerState
      BY <3>2, EnqueueType
    <3>4. srv'.queue = Enqueue(srv, e).queue
      BY <2>1, <3>1, <3>3
    <3>5. QED
      BY <3>2, <3>4, EnqueueEffect
  <2>8. ASSUME NEW c \in Conns, Client(c)
        PROVE  srv'.queue = srv.queue
    <3>1. CASE Connect(c)
      BY <2>2, <3>1 DEF Connect
    <3>2. CASE Disconnect(c)
      BY <2>2, <3>2 DEF Disconnect
    <3>3. CASE Vanish(c)
      BY <2>2, <3>3 DEF Vanish
    <3>4. ASSUME NEW m \in Messages, Send(c, m)
          PROVE  srv'.queue = srv.queue
      BY <2>2, <3>4 DEF Send
    <3>5. QED
      BY <2>8, <3>1, <3>2, <3>3, <3>4 DEF Client
  <2>9. QED
    BY <2>3, <2>4, <2>5, <2>6, <2>7, <2>8 DEF Reactor
<1>4. QED
  BY <1>2, <1>3

-----------------------------------------------------------------------------
(* The camera is told last what the server wants.                          *)

\* Once the camera runs and its status request has been answered, the tasks it
\* has not run yet leave it as the server wants it.
InStep ==
    Alive /\ cam.phase = "running" /\ StatusRequest \notin Queued
        => Says(cam.queue, cam.streaming, srv.streaming)

\* A step of the server that keeps the stream and the request, and leaves the
\* camera alone, keeps them in step.
LEMMA InStepKept ==
    ASSUME InStep, Alive' => Alive, srv'.streaming = srv.streaming,
           StatusRequest \in Range(srv.queue) => StatusRequest \in Range(srv'.queue),
           cam'.phase = "running" => cam.phase = "running",
           Says(cam.queue, cam.streaming, srv.streaming)
             => Says(cam'.queue, cam'.streaming, srv.streaming)
    PROVE  InStep'
BY DEF InStep, Queued

LEMMA ServerHandlesInStep ==
    ASSUME StreamTypeOK, StreamTypeOK', InStep, ServerHandles
    PROVE  InStep'
<1>1. /\ srv \in ServerState /\ cam \in CameraState /\ cam.queue \in Seq(Task)
      /\ srv' \in ServerState
  BY DEF StreamTypeOK, TypeOK, CameraState
<1>2. /\ cam'.phase = cam.phase /\ cam'.streaming = cam.streaming
      /\ cam.phase = "running" => cam'.queue = cam.queue \o Tasks(srv'.calls)
  BY <1>1, CallbackEffect DEF ServerHandles
<1>3. Alive
  BY DEF ServerHandles, Dispatch, DispatchAccept, DispatchRead, DispatchPoll,
         DispatchWait, DispatchFrame, DispatchStatus, Dispatchable, Alive
<1>4. SUFFICES ASSUME Alive', cam'.phase = "running", StatusRequest \notin Queued'
               PROVE  Says(cam'.queue, cam'.streaming, srv'.streaming)
  BY DEF InStep
<1>5. (\E on \in BOOLEAN : Calls(on)) \/ CallsNothing
  BY <1>1, <1>4, DispatchCalls DEF ServerHandles
<1>6. ASSUME NEW on \in BOOLEAN, Calls(on)
      PROVE  Says(cam'.queue, cam'.streaming, srv'.streaming)
  <2>1. cam'.queue = cam.queue \o Tasks(<<on>>) /\ srv'.streaming = on
    BY <1>2, <1>4, <1>6 DEF Calls
  <2>2. QED
    BY <1>1, <2>1, SaysTheLast
<1>7. CASE CallsNothing
  <2>1. cam'.queue = cam.queue \o Tasks(<<>>) /\ srv'.streaming = srv.streaming
    BY <1>2, <1>4, <1>7 DEF CallsNothing
  <2>2. Tasks(<<>>) = <<>> /\ cam.queue \o <<>> = cam.queue
    BY <1>1 DEF Tasks
  <2>3. Says(cam.queue, cam.streaming, srv.streaming)
    BY <1>2, <1>3, <1>4, <1>7 DEF CallsNothing, InStep, Queued
  <2>4. QED
    BY <1>2, <2>1, <2>2, <2>3
<1>8. QED
  BY <1>5, <1>6, <1>7

LEMMA NoSetInCopies ==
    ASSUME NEW n \in Nat, NEW t \in {"expired", "aborted"}
    PROVE  SetIn(Copies(n, t)) = {} /\ Copies(n, t) \in Seq(Task)
BY TasksType DEF SetIn, IsSet, Copies, Task

\* What a step of the camera thread does to what it has still been told.
LEMMA CameraSays ==
    ASSUME cam \in CameraState, CameraThreadSteps, NEW b,
           Says(cam.queue, cam.streaming, b)
    PROVE  Says(cam'.queue, cam'.streaming, b)
<1>1. cam.queue \in Seq(Task) /\ cam.waits \in Nat
  BY DEF CameraState
<1>2. ASSUME cam.queue # <<>>
      PROVE  /\ PoppedTask \in CameraState /\ PoppedTask.waits \in Nat
             /\ PoppedTask.queue = Tail(cam.queue) /\ Tail(cam.queue) \in Seq(Task)
             /\ PoppedTask.streaming = cam.streaming
             /\ Says(Tail(cam.queue), IF IsSet(Head(cam.queue))
                       THEN Head(cam.queue) = "set_on" ELSE cam.streaming, b)
  BY <1>1, <1>2, PoppedTaskEffect, SaysAfterHead DEF CameraState
<1>3. CASE AssignCamera \/ RunCamera
  <2>1. PICK p \in Phase : cam' = [cam EXCEPT !.phase = p]
    BY <1>3 DEF AssignCamera, RunCamera, Phase
  <2>2. QED
    BY <2>1, PhaseEffect
<1>4. CASE RunSetStream
  <2>1. cam.queue # <<>> /\ IsSet(Head(cam.queue))
    BY <1>4 DEF RunSetStream, TaskReady, IsSet
  <2>2. CASE Head(cam.queue) = "set_on"
    <3>1. cam' = TurnOn(PoppedTask)
      BY <1>4, <2>2 DEF RunSetStream
    <3>2. cam'.streaming = TRUE /\ cam'.queue = Tail(cam.queue)
      BY <1>2, <2>1, <3>1, TurnOnEffect
    <3>3. QED
      BY <1>2, <2>1, <2>2, <3>2
  <2>3. CASE Head(cam.queue) # "set_on"
    <3>1. cam' = TurnOff(PoppedTask)
      BY <1>4, <2>3 DEF RunSetStream
    <3>2. /\ cam'.streaming = FALSE
          /\ cam'.queue = Tail(cam.queue) \o Copies(PoppedTask.waits, "aborted")
      BY <1>2, <2>1, <3>1, TurnOffEffect
    <3>3. Says(Tail(cam.queue), FALSE, b)
      BY <1>2, <2>1, <2>3
    <3>4. QED
      BY <1>2, <2>1, <3>2, <3>3, NoSetInCopies, SaysUnchangedByOthers
  <2>4. QED
    BY <2>2, <2>3
<1>5. CASE RunReadFrame
  <2>1. cam.queue # <<>> /\ ~IsSet(Head(cam.queue))
    BY <1>5 DEF RunReadFrame, TaskReady, IsSet
  <2>2. cam' = PoppedTask \/ cam' = read_frame(PoppedTask)
    BY <1>5 DEF RunReadFrame
  <2>3. cam'.queue = Tail(cam.queue) /\ cam'.streaming = cam.streaming
    BY <1>2, <2>1, <2>2, ReadFrameEffect
  <2>4. QED
    BY <1>2, <2>1, <2>3
<1>6. CASE WaitsExpire
  <2>1. /\ cam'.streaming = cam.streaming
        /\ cam'.queue = cam.queue \o Copies(cam.waits, "expired")
    BY <1>6, WaitsExpireEffect
  <2>2. QED
    BY <1>1, <2>1, NoSetInCopies, SaysUnchangedByOthers
<1>7. CASE DeviceFails
  BY <1>7 DEF DeviceFails
<1>8. QED
  BY <1>3, <1>4, <1>5, <1>6, <1>7 DEF CameraThreadSteps

LEMMA StreamNextInStep ==
    ASSUME StreamTypeOK, InStep, [StreamNext]_streamVars
    PROVE  InStep'
<1>1. /\ srv \in ServerState /\ cam \in CameraState /\ TypeOK
  BY DEF StreamTypeOK, TypeOK
<1>2. StreamTypeOK'
  BY StreamNextType
<1>3. CASE ServerHandles
  BY <1>2, <1>3, ServerHandlesInStep
<1>4. CASE ServerOther
  <2>1. Range(srv.queue) \subseteq Range(srv'.queue) /\ cam' = cam
    BY <1>1, <1>4, OthersQueue DEF ServerOther
  <2>2. srv'.streaming = srv.streaming /\ (Alive' => Alive)
    BY <1>1, <1>4, OthersUnshown, UnblockShown DEF ServerOther, Unshown, Alive
  <2>3. QED
    BY <2>1, <2>2, InStepKept
<1>5. CASE CameraThreadSteps
  <2>1. /\ srv'.streaming = srv.streaming
        /\ Range(srv.queue) \subseteq Range(srv'.queue)
        /\ Alive' => Alive
        /\ RunCamera => StatusRequest \in Range(srv'.queue)
    BY <1>1, <1>5, CameraServerSide DEF Alive
  <2>2. CASE RunCamera
    BY <2>1, <2>2 DEF InStep, Queued
  <2>3. CASE ~RunCamera
    <3>1. cam'.phase = "running" => cam.phase = "running"
      <4>1. CASE AssignCamera
        BY <1>1, <4>1, PhaseEffect DEF AssignCamera, Phase
      <4>2. CASE RunSetStream \/ RunReadFrame \/ WaitsExpire
        BY <4>2 DEF RunSetStream, RunReadFrame, WaitsExpire, TaskReady
      <4>3. CASE DeviceFails
        BY <4>3 DEF DeviceFails
      <4>4. QED
        BY <1>5, <2>3, <4>1, <4>2, <4>3 DEF CameraThreadSteps
    <3>2. QED
      BY <1>1, <1>5, <2>1, <3>1, InStepKept, CameraSays
  <2>4. QED
    BY <2>2, <2>3
<1>6. CASE UNCHANGED streamVars
  BY <1>6 DEF streamVars, InStep, Alive, Queued
<1>7. QED
  BY <1>3, <1>4, <1>5, <1>6 DEF StreamNext

\* Once the main thread has answered the status request of the camera thread,
\* the last thing the camera has been told is what the server wants, whatever
\* commands, time-outs and newer clients came while the camera was being made
\* and whichever of them saw the pointer already set.
THEOREM ToldWhatIsWanted == StreamSpec => []CameraToldLast
<1>1. StreamInit => InStep
  BY DEF StreamInit, InitCamera, InStep
<1>2. StreamTypeOK /\ InStep /\ [StreamNext]_streamVars => InStep'
  BY StreamNextInStep
<1>3. StreamTypeOK /\ InStep => CameraToldLast
  <2> SUFFICES ASSUME StreamTypeOK, InStep, Alive, cam.phase = "running",
                      StatusRequest \notin Queued
               PROVE  Told = srv.streaming
    BY DEF CameraToldLast
  <2>1. srv.streaming \in BOOLEAN /\ cam \in CameraState
    BY DEF StreamTypeOK, TypeOK, ServerState
  <2>2. QED
    BY <2>1, SaysTold DEF InStep
<1>4. QED
  BY <1>1, <1>2, <1>3, StreamTypeCorrect, PTL DEF StreamSpec

-----------------------------------------------------------------------------
(* The server, now that the camera thread is a real one.                   *)

\* A step of the camera thread adds a call to the server's queue, clears the calls of
\* the step before, ends the process or leaves the server alone.
LEMMA CameraKeepsSafe ==
    ASSUME srv \in ServerState, Safe(srv), CameraThreadSteps
    PROVE  /\ Safe(srv')
           /\ srv'.socket = srv.socket /\ srv'.streaming = srv.streaming
           /\ \/ srv'.process = srv.process
              \/ Alive /\ srv'.process = "terminated"
<1>1. ASSUME NEW e \in {Frame, StatusRequest}, srv' = Enqueue(srv, e)
      PROVE  /\ Safe(srv') /\ srv'.process = srv.process
             /\ srv'.socket = srv.socket /\ srv'.streaming = srv.streaming
  <2>1. e \in Completion /\ e.op # "accept"
    BY DEF Completion, Frame, StatusRequest, Result
  <2>2. QED
    BY <1>1, <2>1, EnqueueSafe, EnqueueEffect
<1>2. ASSUME NEW p, NEW f,
             \/ srv' = [srv EXCEPT !.process = p, !.calls = f] /\ p = "terminated"
             \/ srv' = [srv EXCEPT !.calls = f] /\ p = srv.process
      PROVE  /\ Safe(srv') /\ srv'.process = p
             /\ srv'.socket = srv.socket /\ srv'.streaming = srv.streaming
  <2>1. /\ srv'.socket = srv.socket /\ srv'.streaming = srv.streaming
        /\ srv'.temp_socket = srv.temp_socket
        /\ srv'.accepting = srv.accepting /\ srv'.reads = srv.reads
        /\ srv'.timer = srv.timer /\ srv'.queue = srv.queue
        /\ srv'.status = srv.status /\ srv'.process = p
    BY <1>2 DEF ServerState
  <2>2. Streams(srv')
    BY <1>2, <2>1 DEF Safe, Settled, Streams
  <2>3. NoLeak(srv') /\ Armed(srv') /\ Heard(srv') /\ Watched(srv')
    BY <2>1 DEF Safe, Settled, NoLeak, Armed, Heard, Watched
  <2>4. QED
    BY <2>1, <2>2, <2>3 DEF Safe, Settled
<1>3. CASE AssignCamera \/ RunSetStream \/ WaitsExpire
  BY <1>3 DEF AssignCamera, RunSetStream, WaitsExpire, vars
<1>4. CASE RunCamera
  BY <1>1, <1>4 DEF RunCamera
<1>5. CASE RunReadFrame
  BY <1>1, <1>2, <1>5 DEF RunReadFrame
<1>6. CASE DeviceFails
  <2>1. Alive /\ srv' = [srv EXCEPT !.process = "terminated", !.calls = <<>>]
    BY <1>6 DEF DeviceFails, TaskReady
  <2>2. QED
    BY <1>2, <2>1
<1>7. QED
  BY <1>3, <1>4, <1>5, <1>6 DEF CameraThreadSteps

LEMMA StreamNextSafe ==
    StreamTypeOK /\ Safe(srv) /\ [StreamNext]_streamVars => Safe(srv)'
<1> SUFFICES ASSUME StreamTypeOK, Safe(srv), [StreamNext]_streamVars PROVE Safe(srv')
  OBVIOUS
<1>1. TypeOK /\ srv \in ServerState
  BY DEF StreamTypeOK, TypeOK
<1>2. CASE ServerHandles \/ ServerOther
  <2>1. ServerNext
    BY <1>2 DEF ServerHandles, ServerOther, ServerNext
  <2>2. QED
    BY <1>1, <2>1, NextSafe
<1>3. CASE CameraThreadSteps
  BY <1>1, <1>3, CameraKeepsSafe
<1>4. CASE UNCHANGED streamVars
  BY <1>4 DEF streamVars
<1>5. QED
  BY <1>2, <1>3, <1>4 DEF StreamNext

\* Beside a camera thread that posts as often as its frames and the status request
\* make it, and may end the process at any time, the server keeps all that ServerSafe
\* says of it: the connection it holds is heard and watched, none is leaked, it never
\* streams without a client and goes on accepting.
THEOREM ServerSafeWithCamera ==
    StreamSpec => [](/\ StreamingNeedsClient /\ ConnectionHeard /\ ConnectionWatched
                     /\ NoLeakedConnection /\ AcceptorArmed)
<1>1. StreamInit => Safe(srv)
  BY InitSafe DEF StreamInit
<1>2. Safe(srv) => /\ StreamingNeedsClient /\ ConnectionHeard /\ ConnectionWatched
                   /\ NoLeakedConnection /\ AcceptorArmed
  BY DEF Safe, Settled, Streams, Heard, Watched, NoLeak, Armed, AcceptsIn, Queued, Alive,
     StreamingNeedsClient, ConnectionHeard, ConnectionWatched, NoLeakedConnection,
     AcceptorArmed, QueuedAccepts
<1>3. QED
  BY <1>1, <1>2, StreamNextSafe, StreamTypeCorrect, PTL DEF StreamSpec

\* No camera step reads or closes a connection.
LEMMA CameraQuiet ==
    ASSUME srv \in ServerState, CameraThreadSteps
    PROVE  Quiet(srv, srv')
<1>1. ASSUME NEW e \in {Frame, StatusRequest}, srv' = Enqueue(srv, e)
      PROVE  Quiet(srv, srv')
  <2>1. e \in Completion /\ e.op # "read"
    BY DEF Completion, Frame, StatusRequest, Result
  <2>2. QED
    BY <1>1, <2>1, EnqueueQuiet
<1>2. ASSUME NEW p, NEW f,
             \/ srv' = [srv EXCEPT !.process = p, !.calls = f]
             \/ srv' = [srv EXCEPT !.calls = f]
             \/ srv' = srv
      PROVE  Quiet(srv, srv')
  <2>1. /\ srv'.socket = srv.socket /\ srv'.status = srv.status
        /\ srv'.reads = srv.reads /\ srv'.inbox = srv.inbox
        /\ srv'.queue = srv.queue
    BY <1>2 DEF ServerState
  <2>2. QED
    BY <2>1, NoReadQuiet
<1>3. CASE AssignCamera \/ RunSetStream \/ WaitsExpire
  BY <1>2, <1>3 DEF AssignCamera, RunSetStream, WaitsExpire, vars
<1>4. CASE RunCamera
  BY <1>1, <1>4 DEF RunCamera
<1>5. CASE RunReadFrame
  BY <1>1, <1>2, <1>5 DEF RunReadFrame
<1>6. CASE DeviceFails
  BY <1>2, <1>6 DEF DeviceFails
<1>7. QED
  BY <1>3, <1>4, <1>5, <1>6 DEF CameraThreadSteps

LEMMA StreamNextIsServiceStep ==
    ASSUME StreamTypeOK, Safe(srv), Own(srv), [StreamNext]_streamVars
    PROVE  [Service!Next]_Service!svars /\ Own(srv')
<1>1. TypeOK /\ srv \in ServerState
  BY DEF StreamTypeOK, TypeOK
<1>2. CASE ServerHandles \/ ServerOther
  <2>1. ServerNext
    BY <1>2 DEF ServerHandles, ServerOther, ServerNext
  <2>2. QED
    BY <1>1, <2>1, NextIsServiceStep
<1>3. CASE CameraThreadSteps
  <2>1. /\ srv'.socket = srv.socket /\ srv'.streaming = srv.streaming
        /\ srv'.process = srv.process \/ (Alive /\ srv'.process = "terminated")
    BY <1>1, <1>3, CameraKeepsSafe
  <2>2. Quiet(srv, srv') /\ Alive
    BY <1>1, <1>3, CameraQuiet
    DEF CameraThreadSteps, AssignCamera, RunCamera, RunSetStream, RunReadFrame,
        WaitsExpire, DeviceFails, TaskReady
  <2>3. CASE srv'.process = srv.process
    <3>1. Service!Forget
      BY <2>1, <2>2, <2>3 DEF Service!Forget, Service!NoneAsks, Quiet, Closed, Alive
    <3>2. QED
      BY <2>2, <3>1 DEF Service!Next, Quiet
  <2>4. CASE srv'.process = "terminated"
    <3>1. Service!BreakDown
      BY <2>1, <2>2, <2>4 DEF Service!BreakDown, Service!NoneAsks, Quiet, Closed, Alive
    <3>2. QED
      BY <2>2, <3>1 DEF Service!Next, Quiet
  <2>5. QED
    BY <2>1, <2>3, <2>4
<1>4. CASE UNCHANGED streamVars
  BY <1>4 DEF streamVars, Alive, Asking, Service!svars
<1>5. QED
  BY <1>2, <1>3, <1>4 DEF StreamNext

\* The camera server as a whole implements the service: nothing the camera thread does
\* admits or drops a client or switches the stream, but it may break the service down.
THEOREM StreamImplementsService == StreamSpec => ImplementsService
<1>1. StreamInit => Service!Init /\ Safe(srv) /\ Own(srv)
  BY InitSafe, InitIsServiceInit DEF StreamInit
<1>2. StreamTypeOK /\ Safe(srv) /\ Own(srv) /\ [StreamNext]_streamVars
        => [Service!Next]_Service!svars /\ Own(srv)'
  BY StreamNextIsServiceStep
<1>3. QED
  BY <1>1, <1>2, StreamNextSafe, StreamTypeCorrect, PTL
     DEF StreamSpec, ImplementsService, Service!Spec

\* A server without a client has told the camera to stop: no order of the two threads
\* leaves the camera streaming, once it has run its tasks, for nobody.
THEOREM NobodyNoStream ==
    StreamSpec => [](Alive /\ cam.phase = "running" /\ StatusRequest \notin Queued
                       /\ srv.socket = NoConn => ~Told)
<1>1. /\ StreamTypeOK /\ StreamingNeedsClient /\ CameraToldLast
        => (Alive /\ cam.phase = "running" /\ StatusRequest \notin Queued
              /\ srv.socket = NoConn => ~Told)
  BY DEF StreamTypeOK, TypeOK, ServerState, StreamingNeedsClient, CameraToldLast
<1>2. QED
  BY <1>1, StreamTypeCorrect, ServerSafeWithCamera, ToldWhatIsWanted, PTL
=============================================================================
