----------------------------- MODULE DaqProofs -----------------------------
(***************************************************************************)
(* Theorems about Daq, for any settings, any junk and any bounds: the last *)
(* settings are those in use, and scans go on in one chain.                *)
(***************************************************************************)
EXTENDS Daq, TLAPS

\* The reactor is in the queue once, and a scan, of which there is at most one, is
\* ahead of it: it will have run before the reactor collects the next.
Ordered(q) ==
    \E r \in DOMAIN q :
        /\ q[r] = Reactor
        /\ \A i \in DOMAIN q : q[i] = Reactor => i = r
        /\ \A i \in DOMAIN q : q[i] = Scan => i < r
        /\ \A i, j \in DOMAIN q : q[i] = Scan /\ q[j] = Scan => i = j

NoUpdate(q) == \A i \in DOMAIN q : q[i].op # "update"

LastUpdate(q, s) ==
    \E k \in DOMAIN q :
        /\ q[k] = Update(s)
        /\ \A i \in DOMAIN q : i > k => q[i].op # "update"

\* The last settings are in use, unless an update with them is the last one in the
\* queue or what the worker posts to the main thread is still to run.
Applied ==
    process = "running" /\ messages # <<>> =>
        \/ LastUpdate(tasks, Last(messages))
        \/ NoUpdate(tasks) /\ (members = Stored(Last(messages)) \/ main # "lambda")

\* The worker is told of settings only when `controller` is set, and has posted before
\* the main thread runs what it posted.
Told ==
    /\ worker = "start" => NoUpdate(tasks)
    /\ main = "lambda" => worker = "running"

Timers == [waits : 0..1, soon : BOOLEAN]

Types ==
    /\ process \in {"running", "exited"}
    /\ tasks \in Seq(Tasks) /\ messages \in Seq(Settings)
    /\ timer \in Timers

IInv == Types /\ Ordered(tasks) /\ Told /\ Applied

-----------------------------------------------------------------------------
(* The queue: what taking the first task and adding one do to it.          *)

LEMMA KindsDiffer ==
    /\ Reactor # Scan /\ Reactor # Aborted /\ Scan # Aborted
    /\ Reactor.op # "update" /\ Scan.op # "update" /\ Aborted.op # "update"
    /\ \A s : Update(s).op = "update" /\ Update(s).settings = s
    /\ \A s : Update(s) # Reactor /\ Update(s) # Scan /\ Update(s) # Aborted
<1>1. /\ Reactor.op = "reactor" /\ Scan.op = "scan" /\ Aborted.op = "aborted"
      /\ \A s : Update(s).op = "update" /\ Update(s).settings = s
  BY DEF Reactor, Scan, Aborted, Update
<1>2. QED
  BY <1>1

LEMMA TailQueue ==
    ASSUME NEW q \in Seq(Tasks), q # <<>>
    PROVE  /\ Tail(q) \in Seq(Tasks) /\ DOMAIN Tail(q) = 1..(Len(q) - 1)
           /\ Len(q) \in Nat /\ DOMAIN q = 1..Len(q) /\ 1 \in DOMAIN q
           /\ \A i \in DOMAIN Tail(q) : Tail(q)[i] = q[i + 1] /\ i + 1 \in DOMAIN q
           /\ Head(q) = q[1]
OBVIOUS

LEMMA AppendQueue ==
    ASSUME NEW q \in Seq(Tasks), NEW e \in Tasks
    PROVE  /\ Append(q, e) \in Seq(Tasks) /\ DOMAIN Append(q, e) = 1..(Len(q) + 1)
           /\ Len(q) \in Nat /\ DOMAIN q = 1..Len(q)
           /\ \A i \in DOMAIN q : Append(q, e)[i] = q[i]
           /\ Append(q, e)[Len(q) + 1] = e
OBVIOUS

\* What is not the reactor may be taken.
LEMMA TakeOrdered ==
    ASSUME NEW q \in Seq(Tasks), q # <<>>, Ordered(q), Head(q) # Reactor
    PROVE  Ordered(Tail(q))
<1> DEFINE t == Tail(q)
<1>1. PICK r \in DOMAIN q :
        /\ q[r] = Reactor
        /\ \A i \in DOMAIN q : q[i] = Reactor => i = r
        /\ \A i \in DOMAIN q : q[i] = Scan => i < r
        /\ \A i, j \in DOMAIN q : q[i] = Scan /\ q[j] = Scan => i = j
  BY DEF Ordered
<1>2. /\ DOMAIN t = 1..(Len(q) - 1) /\ Len(q) \in Nat /\ DOMAIN q = 1..Len(q)
      /\ \A i \in DOMAIN t : t[i] = q[i + 1] /\ i + 1 \in DOMAIN q
      /\ Head(q) = q[1]
  BY TailQueue
<1>3. r # 1
  BY <1>1, <1>2
<1>4. r - 1 \in DOMAIN t /\ t[r - 1] = Reactor
  BY <1>1, <1>2, <1>3
<1> HIDE DEF t
<1>5. /\ \A i \in DOMAIN t : t[i] = Reactor => i = r - 1
      /\ \A i \in DOMAIN t : t[i] = Scan => i < r - 1
      /\ \A i, j \in DOMAIN t : t[i] = Scan /\ t[j] = Scan => i = j
  BY <1>1, <1>2
<1>6. Ordered(t)
  BY <1>4, <1>5 DEF Ordered
<1>7. QED
  BY <1>6 DEF t

\* What is neither the reactor nor a scan may be added.
LEMMA AddOrdered ==
    ASSUME NEW q \in Seq(Tasks), NEW e \in Tasks, e # Reactor, e # Scan, Ordered(q)
    PROVE  Ordered(Append(q, e))
<1> DEFINE t == Append(q, e)
<1>1. PICK r \in DOMAIN q :
        /\ q[r] = Reactor
        /\ \A i \in DOMAIN q : q[i] = Reactor => i = r
        /\ \A i \in DOMAIN q : q[i] = Scan => i < r
        /\ \A i, j \in DOMAIN q : q[i] = Scan /\ q[j] = Scan => i = j
  BY DEF Ordered
<1>2. /\ DOMAIN t = 1..(Len(q) + 1) /\ Len(q) \in Nat /\ DOMAIN q = 1..Len(q)
      /\ \A i \in DOMAIN q : t[i] = q[i]
      /\ t[Len(q) + 1] = e
  BY AppendQueue
<1> HIDE DEF t
<1>3. r \in DOMAIN t /\ t[r] = Reactor
  BY <1>1, <1>2
<1>4. \A i \in DOMAIN t : t[i] \in {Reactor, Scan} => i \in DOMAIN q /\ t[i] = q[i]
  BY <1>2
<1>5. Ordered(t)
  BY <1>1, <1>3, <1>4 DEF Ordered
<1>6. QED
  BY <1>5 DEF t

\* The reactor's turn: it goes to the end, behind the scan it may have collected.
LEMMA TurnOrdered ==
    ASSUME NEW q \in Seq(Tasks), q # <<>>, Ordered(q), Head(q) = Reactor
    PROVE  /\ Ordered(Append(Tail(q), Reactor))
           /\ Ordered(Append(Append(Tail(q), Scan), Reactor))
<1> DEFINE t == Tail(q)
           u == Append(t, Reactor)
           v == Append(t, Scan)
           w == Append(v, Reactor)
<1>1. Reactor \in Tasks /\ Scan \in Tasks
  BY DEF Tasks
<1>2. t \in Seq(Tasks) /\ \A i \in DOMAIN t : t[i] # Reactor /\ t[i] # Scan
  <2>1. PICK r \in DOMAIN q :
          /\ q[r] = Reactor
          /\ \A i \in DOMAIN q : q[i] = Reactor => i = r
          /\ \A i \in DOMAIN q : q[i] = Scan => i < r
    BY DEF Ordered
  <2>2. /\ t \in Seq(Tasks) /\ DOMAIN t = 1..(Len(q) - 1) /\ Len(q) \in Nat
        /\ DOMAIN q = 1..Len(q) /\ 1 \in DOMAIN q
        /\ \A i \in DOMAIN t : t[i] = q[i + 1] /\ i + 1 \in DOMAIN q
        /\ Head(q) = q[1]
    BY TailQueue
  <2> HIDE DEF t
  <2>3. r = 1
    BY <2>1, <2>2
  <2>4. QED
    BY <2>1, <2>2, <2>3
<1> HIDE DEF t
<1>3. /\ Len(t) \in Nat /\ DOMAIN t = 1..Len(t)
      /\ DOMAIN u = 1..(Len(t) + 1) /\ u[Len(t) + 1] = Reactor
      /\ \A i \in DOMAIN t : u[i] = t[i]
  BY <1>1, <1>2, AppendQueue
<1>4. Ordered(u)
  <2> HIDE DEF u
  <2>1. Len(t) + 1 \in DOMAIN u /\ \A i \in DOMAIN u : i # Len(t) + 1 => i \in DOMAIN t
    BY <1>3
  <2>2. \A i \in DOMAIN u : u[i] # Scan
    BY <1>2, <1>3, <2>1, KindsDiffer
  <2>3. QED
    BY <1>2, <1>3, <2>1, <2>2 DEF Ordered
<1>5. /\ v \in Seq(Tasks) /\ Len(v) = Len(t) + 1 /\ v[Len(t) + 1] = Scan
      /\ DOMAIN v = 1..Len(v) /\ \A i \in DOMAIN t : v[i] = t[i]
  BY <1>1, <1>2, AppendQueue
<1>6. /\ DOMAIN w = 1..(Len(v) + 1) /\ w[Len(v) + 1] = Reactor
      /\ \A i \in DOMAIN v : w[i] = v[i]
  <2> HIDE DEF v
  <2>1. QED
    BY <1>1, <1>5, AppendQueue
<1>7. Ordered(w)
  <2> HIDE DEF v, w
  <2> DEFINE n == Len(t)
  <2>1. /\ n \in Nat /\ n + 2 \in DOMAIN w /\ w[n + 2] = Reactor /\ w[n + 1] = Scan
        /\ \A i \in DOMAIN w : i = n + 2 \/ i = n + 1 \/ i \in DOMAIN t
    BY <1>3, <1>5, <1>6
  <2>2. \A i \in DOMAIN t : w[i] # Reactor /\ w[i] # Scan
    BY <1>2, <1>3, <1>5, <1>6
  <2> HIDE DEF n
  <2>3. /\ \A i \in DOMAIN w : w[i] = Reactor => i = n + 2
        /\ \A i \in DOMAIN w : w[i] = Scan => i = n + 1
    BY <2>1, <2>2, KindsDiffer
  <2>4. QED
    BY <2>1, <2>3 DEF Ordered
<1>8. QED
  BY <1>4, <1>7 DEF u, v, w, t
-----------------------------------------------------------------------------
(* What the changes of the queue do to the updates in it.                  *)

\* p has the updates q has.
Carried(q, p) ==
    /\ NoUpdate(q) => NoUpdate(p)
    /\ \A s : LastUpdate(q, s) => LastUpdate(p, s)

\* p is a queue with the updates of q.
Follows(q, p) == p \in Seq(Tasks) /\ Ordered(p) /\ Carried(q, p)

LEMMA AddCarries ==
    ASSUME NEW q \in Seq(Tasks), NEW e \in Tasks, e.op # "update"
    PROVE  Carried(q, Append(q, e))
<1> DEFINE t == Append(q, e)
<1>1. /\ DOMAIN t = 1..(Len(q) + 1) /\ Len(q) \in Nat /\ DOMAIN q = 1..Len(q)
      /\ \A i \in DOMAIN q : t[i] = q[i]
      /\ t[Len(q) + 1] = e
  BY AppendQueue
<1> HIDE DEF t
<1>2. \A i \in DOMAIN t : t[i].op = "update" => i \in DOMAIN q /\ t[i] = q[i]
  BY <1>1
<1>3. NoUpdate(q) => NoUpdate(t)
  BY <1>2 DEF NoUpdate
<1>4. ASSUME NEW s, LastUpdate(q, s) PROVE LastUpdate(t, s)
  <2>1. PICK k \in DOMAIN q : q[k] = Update(s) /\ \A i \in DOMAIN q : i > k => q[i].op # "update"
    BY <1>4 DEF LastUpdate
  <2>2. k \in DOMAIN t /\ t[k] = Update(s)
    BY <1>1, <2>1
  <2>3. \A i \in DOMAIN t : i > k => t[i].op # "update"
    BY <1>2, <2>1
  <2>4. QED
    BY <2>2, <2>3 DEF LastUpdate
<1>5. QED
  BY <1>3, <1>4 DEF Carried, t

LEMMA TakeCarries ==
    ASSUME NEW q \in Seq(Tasks), q # <<>>, Head(q).op # "update"
    PROVE  Carried(q, Tail(q))
<1> DEFINE t == Tail(q)
<1>1. /\ DOMAIN t = 1..(Len(q) - 1) /\ Len(q) \in Nat /\ DOMAIN q = 1..Len(q)
      /\ \A i \in DOMAIN t : t[i] = q[i + 1] /\ i + 1 \in DOMAIN q
      /\ Head(q) = q[1]
  BY TailQueue
<1> HIDE DEF t
<1>2. NoUpdate(q) => NoUpdate(t)
  BY <1>1 DEF NoUpdate
<1>3. ASSUME NEW s, LastUpdate(q, s) PROVE LastUpdate(t, s)
  <2>1. PICK k \in DOMAIN q : q[k] = Update(s) /\ \A i \in DOMAIN q : i > k => q[i].op # "update"
    BY <1>3 DEF LastUpdate
  <2>2. k # 1
    BY <1>1, <2>1, KindsDiffer
  <2>3. k - 1 \in DOMAIN t /\ t[k - 1] = Update(s)
    BY <1>1, <2>1, <2>2
  <2>4. \A i \in DOMAIN t : i > k - 1 => t[i].op # "update"
    BY <1>1, <2>1
  <2>5. QED
    BY <2>3, <2>4 DEF LastUpdate
<1>4. QED
  BY <1>2, <1>3 DEF Carried, t

LEMMA AddUpdate ==
    ASSUME NEW q \in Seq(Tasks), NEW s \in Settings
    PROVE  LastUpdate(Append(q, Update(s)), s)
<1> DEFINE t == Append(q, Update(s))
<1>1. Update(s) \in Tasks
  BY DEF Tasks
<1>2. /\ DOMAIN t = 1..(Len(q) + 1) /\ Len(q) \in Nat /\ t[Len(q) + 1] = Update(s)
  BY <1>1, AppendQueue
<1> HIDE DEF t
<1>3. Len(q) + 1 \in DOMAIN t /\ \A i \in DOMAIN t : ~(i > Len(q) + 1)
  BY <1>2
<1>4. QED
  BY <1>2, <1>3 DEF LastUpdate, t

\* The update that is taken is the last one, or another one is.
LEMMA TakeUpdate ==
    ASSUME NEW q \in Seq(Tasks), q # <<>>, Head(q).op = "update"
    PROVE  /\ ~NoUpdate(q)
           /\ \A s : LastUpdate(q, s) =>
                 LastUpdate(Tail(q), s) \/ (NoUpdate(Tail(q)) /\ Head(q) = Update(s))
<1> DEFINE t == Tail(q)
<1>1. /\ DOMAIN t = 1..(Len(q) - 1) /\ Len(q) \in Nat /\ DOMAIN q = 1..Len(q)
      /\ \A i \in DOMAIN t : t[i] = q[i + 1] /\ i + 1 \in DOMAIN q
      /\ Head(q) = q[1] /\ 1 \in DOMAIN q
  BY TailQueue
<1> HIDE DEF t
<1>2. ~NoUpdate(q)
  BY <1>1 DEF NoUpdate
<1>3. ASSUME NEW s, LastUpdate(q, s)
      PROVE  LastUpdate(t, s) \/ (NoUpdate(t) /\ Head(q) = Update(s))
  <2>1. PICK k \in DOMAIN q : q[k] = Update(s) /\ \A i \in DOMAIN q : i > k => q[i].op # "update"
    BY <1>3 DEF LastUpdate
  <2>2. CASE k = 1
    <3>1. \A i \in DOMAIN t : t[i].op # "update"
      BY <1>1, <2>1, <2>2
    <3>2. QED
      BY <1>1, <2>1, <2>2, <3>1 DEF NoUpdate
  <2>3. CASE k # 1
    <3>1. k - 1 \in DOMAIN t /\ t[k - 1] = Update(s)
      BY <1>1, <2>1, <2>3
    <3>2. \A i \in DOMAIN t : i > k - 1 => t[i].op # "update"
      BY <1>1, <2>1
    <3>3. QED
      BY <3>1, <3>2 DEF LastUpdate
  <2>4. QED
    BY <2>2, <2>3
<1>4. QED
  BY <1>2, <1>3 DEF t
-----------------------------------------------------------------------------
(* What the operations of the timer and of a set-up do to the queue.       *)


LEMMA TimerSet ==
    ASSUME NEW wait \in Timers, NEW w \in 0..1
    PROVE  wait.waits \in 0..1 /\ [wait EXCEPT !.waits = w] \in Timers
BY DEF Timers

LEMMA AppendIsConcat ==
    ASSUME NEW q \in Seq(Tasks), NEW e \in Tasks
    PROVE  q \o <<e>> = Append(q, e)
OBVIOUS

LEMMA CancelledFollows ==
    ASSUME NEW q \in Seq(Tasks), Ordered(q), NEW w \in 0..1
    PROVE  Follows(q, Cancelled(q, w))
<1>1. CASE w = 0
  <2>1. [i \in 1..w |-> Aborted] = <<>>
    BY <1>1
  <2>2. Cancelled(q, w) = q
    BY <2>1 DEF Cancelled
  <2>3. QED
    BY <2>2 DEF Follows, Carried
<1>2. CASE w = 1
  <2>1. [i \in 1..w |-> Aborted] = <<Aborted>>
    BY <1>2
  <2>2. Aborted \in Tasks
    BY DEF Tasks
  <2>3. Cancelled(q, w) = Append(q, Aborted)
    BY <2>1, <2>2, AppendIsConcat DEF Cancelled
  <2>4. QED
    BY <2>2, <2>3, KindsDiffer, AddOrdered, AddCarries, AppendQueue DEF Follows
<1>3. QED
  BY <1>1, <1>2

LEMMA TimerFollows ==
    ASSUME Types, NEW q \in Seq(Tasks), Ordered(q), NEW soon \in BOOLEAN,
           start_scan_timer(soon, q)
    PROVE  timer' \in Timers /\ Follows(q, tasks')
<1>1. timer.waits \in 0..1
  BY DEF Types, Timers
<1>2. timer' \in Timers
  BY DEF start_scan_timer, Timers
<1>3. Follows(q, tasks')
  BY <1>1, CancelledFollows DEF start_scan_timer
<1>4. QED
  BY <1>2, <1>3

LEMMA UpdateFollows ==
    ASSUME Types, NEW q \in Seq(Tasks), Ordered(q), NEW t, NEW s,
           update_settings(t, s, q)
    PROVE  /\ timer' \in Timers /\ Follows(q, tasks')
           /\ members' = Stored(s)
<1>1. timer.waits \in 0..1
  BY DEF Types, Timers
<1>2. timer' = [timer EXCEPT !.waits = 0] /\ timer \in Timers /\ 0 \in 0..1
  BY DEF Types, update_settings
<1>3. timer' \in Timers
  BY <1>2, TimerSet
<1>4. QED
  BY <1>1, <1>3, CancelledFollows DEF update_settings

-----------------------------------------------------------------------------
(* IInv is inductive.                                                      *)

LEMMA InitApplied == Init => IInv
<1> SUFFICES ASSUME Init PROVE IInv
  OBVIOUS
<1> DEFINE q == <<Reactor>>
<1>1. tasks = q /\ q \in Seq(Tasks) /\ DOMAIN q = {1} /\ q[1] = Reactor
  BY DEF Init, Tasks
<1> HIDE DEF q
<1>2. Ordered(q) /\ NoUpdate(q)
  BY <1>1, KindsDiffer DEF Ordered, NoUpdate
<1>3. timer \in Timers /\ messages \in Seq(Settings)
  BY DEF Init, Timers
<1>4. QED
  BY <1>1, <1>2, <1>3 DEF Init, IInv, Types, Told, Applied

\* A step that leaves the settings alone and the updates in the queue.
LEMMA FollowsKeeps ==
    ASSUME IInv, process = "running", UNCHANGED <<process, messages, members>>,
           Follows(tasks, tasks'), timer' \in Timers,
           worker' = "start" => worker = "start",
           worker = "running" => worker' = "running",
           main' = "lambda" => main = "lambda",
           main = "lambda" => main' # "start"
    PROVE  IInv'
<1>1. Types'
  BY DEF IInv, Types, Follows
<1>2. Ordered(tasks')
  BY DEF Follows
<1>3. Told'
  BY DEF IInv, Told, Follows, Carried
<1>4. Applied'
  BY DEF IInv, Applied, Follows, Carried
<1>5. QED
  BY <1>1, <1>2, <1>3, <1>4 DEF IInv

LEMMA ExitKeeps ==
    ASSUME IInv, Exit, UNCHANGED <<main, worker, messages>>
    PROVE  IInv'
<1> DEFINE q == <<Reactor>>
<1>1. tasks' = q /\ q \in Seq(Tasks) /\ DOMAIN q = {1} /\ q[1] = Reactor
  BY DEF Exit, Tasks
<1> HIDE DEF q
<1>2. Ordered(q) /\ NoUpdate(q)
  BY <1>1, KindsDiffer DEF Ordered, NoUpdate
<1>3. timer' \in Timers /\ process' = "exited"
  BY DEF Exit, Timers
<1>4. QED
  BY <1>1, <1>2, <1>3 DEF IInv, Types, Told, Applied

LEMMA SetUpKeeps ==
    ASSUME IInv, NEW t \in Thread, SetUpStep(t)
    PROVE  IInv'
<1>1. Types /\ tasks \in Seq(Tasks) /\ Ordered(tasks)
  BY DEF IInv, Types
<1>2. Follows(tasks, tasks)
  BY <1>1 DEF Follows, Carried
<1>3. ASSUME process = "running",
             UNCHANGED <<main, worker, messages, process, members, timer, tasks>>
      PROVE  IInv'
  BY <1>1, <1>2, <1>3, FollowsKeeps DEF Types
<1>4. ASSUME process = "running", UNCHANGED <<main, worker, messages, process, members>>,
             NEW soon \in BOOLEAN, start_scan_timer(soon, tasks)
      PROVE  IInv'
  BY <1>1, <1>4, TimerFollows, FollowsKeeps
<1>5. CASE \/ set_default_quickusb_settings(t) \/ daqv1_start_commanding(t)
           \/ initialize_daq_version_1(t) \/ read_asics(t)
  BY <1>3, <1>5 DEF set_default_quickusb_settings, daqv1_start_commanding,
                    initialize_daq_version_1, read_asics, At, unchangedAll
<1>6. CASE \E r \in Registers : write_fpga(t, r) \/ read_fpga(t, r)
  BY <1>3, <1>6 DEF write_fpga, read_fpga, At, unchangedAll
<1>7. CASE verify_truth(t) \/ overflow_stack(t)
  BY <1>7, ExitKeeps DEF verify_truth, overflow_stack
<1>8. CASE finish_setup(t)
  BY <1>4, <1>8 DEF finish_setup, start_scanning, At, unchangedAll
<1>9. CASE rearm(t)
  BY <1>4, <1>9 DEF rearm, At, unchangedAll
<1>10. QED
  BY <1>5, <1>6, <1>7, <1>8, <1>9 DEF SetUpStep

LEMMA StartKeeps ==
    ASSUME IInv, MakeController \/ RunService \/ StartMain \/ EndMain
    PROVE  IInv'
<1>1. Follows(tasks, tasks) /\ timer \in Timers
  BY DEF IInv, Types, Follows, Carried
<1>2. CASE MakeController /\ worker' = "assigned" /\ process' = process
  BY <1>1, <1>2, FollowsKeeps DEF MakeController
<1>3. CASE MakeController /\ process' = "exited" /\ worker' = worker
  BY <1>3 DEF MakeController, IInv, Types, Told, Applied
<1>4. CASE RunService
  BY <1>1, <1>4, FollowsKeeps DEF RunService
<1>5. CASE StartMain
  BY <1>1, <1>5, FollowsKeeps DEF StartMain
<1>6. CASE EndMain
  BY <1>6 DEF EndMain, IInv, Types, Told, Applied
<1>7. QED
  BY <1>2, <1>3, <1>4, <1>5, <1>6 DEF MakeController

\* The worker applies an update: the last settings, or others that the last ones
\* are still behind.
LEMMA UpdateKeeps ==
    ASSUME IInv, RunUpdate
    PROVE  IInv'
<1> DEFINE q == Tail(tasks)
           s == Head(tasks).settings
<1>1. Types /\ tasks \in Seq(Tasks) /\ tasks # <<>> /\ Ordered(tasks)
  BY DEF IInv, Types, Ordered
<1>2. Head(tasks).op = "update" /\ Head(tasks) # Reactor
  BY KindsDiffer DEF RunUpdate
<1>3. q \in Seq(Tasks) /\ Ordered(q)
  BY <1>1, <1>2, TailQueue, TakeOrdered
<1>4. update_settings("worker", s, q)
  BY DEF RunUpdate
<1>5. /\ ~NoUpdate(tasks)
      /\ \A x : LastUpdate(tasks, x) =>
            LastUpdate(q, x) \/ (NoUpdate(q) /\ Head(tasks) = Update(x))
  BY <1>1, <1>2, TakeUpdate
<1> HIDE DEF q
<1>6. /\ timer' \in Timers /\ Follows(q, tasks')
      /\ members' = Stored(s)
  BY <1>1, <1>3, <1>4, UpdateFollows
<1>7. UNCHANGED <<process, main, worker, messages>> /\ worker = "running" /\ process = "running"
  BY DEF RunUpdate, Free, unchangedAll
<1>8. Types' /\ Ordered(tasks')
  BY <1>1, <1>6, <1>7 DEF Types, Follows
<1>9. Told'
  BY <1>7 DEF IInv, Told
<1>10. Applied'
  <2> SUFFICES ASSUME messages # <<>>
               PROVE  \/ LastUpdate(tasks', Last(messages))
                      \/ NoUpdate(tasks') /\ members' = Stored(Last(messages))
    BY <1>7 DEF Applied
  <2>1. LastUpdate(tasks, Last(messages))
    BY <1>5, <1>7 DEF IInv, Applied
  <2>2. CASE LastUpdate(q, Last(messages))
    BY <1>6, <2>2 DEF Follows, Carried
  <2>3. CASE NoUpdate(q) /\ Head(tasks) = Update(Last(messages))
    BY <1>6, <2>3, KindsDiffer DEF Follows, Carried
  <2>4. QED
    BY <1>5, <2>1, <2>2, <2>3
<1>11. QED
  BY <1>8, <1>9, <1>10 DEF IInv

LEMMA CarriedOn ==
    ASSUME NEW a, NEW b, NEW c, Carried(a, b), Carried(b, c)
    PROVE  Carried(a, c)
BY DEF Carried

LEMMA TasksKeep ==
    ASSUME IInv, RunScan \/ RunAborted \/ RunReactor
    PROVE  IInv'
<1> DEFINE q == Tail(tasks)
<1>1. Types /\ tasks \in Seq(Tasks) /\ tasks # <<>> /\ Ordered(tasks)
  BY DEF IInv, Types, Ordered
<1>2. /\ process = "running" /\ UNCHANGED <<process, main, worker, messages, members>>
      /\ Head(tasks) \in {Scan, Aborted, Reactor}
  BY DEF RunScan, RunAborted, RunReactor, Free, unchangedAll
<1>3. Head(tasks).op # "update"
  BY <1>2, KindsDiffer
<1>4. q \in Seq(Tasks) /\ Carried(tasks, q)
  BY <1>1, <1>3, TailQueue, TakeCarries
<1>5. ASSUME Head(tasks) # Reactor
      PROVE  Ordered(q)
  BY <1>1, <1>5, TakeOrdered
<1>6. CASE RunScan
  <2>1. Ordered(q)
    BY <1>5, <1>6, KindsDiffer DEF RunScan
  <2>2. PICK soon \in BOOLEAN : start_scan_timer(soon, q)
    BY <1>6 DEF RunScan, start_scanning
  <2> HIDE DEF q
  <2>3. timer' \in Timers /\ Follows(q, tasks')
    BY <1>1, <1>4, <2>1, <2>2, TimerFollows
  <2>4. Follows(tasks, tasks')
    BY <1>4, <2>3, CarriedOn DEF Follows
  <2>5. QED
    BY <1>2, <2>3, <2>4, FollowsKeeps
<1>7. CASE RunAborted
  <2>1. Ordered(q) /\ tasks' = q /\ timer' = timer
    BY <1>5, <1>7, KindsDiffer DEF RunAborted
  <2> HIDE DEF q
  <2>2. Follows(tasks, tasks') /\ timer' \in Timers
    BY <1>1, <1>4, <2>1 DEF Follows, Types
  <2>3. QED
    BY <1>2, <2>2, FollowsKeeps
<1>8. CASE RunReactor
  <2>1. Reactor \in Tasks /\ Scan \in Tasks /\ Head(tasks) = Reactor
    BY <1>8 DEF Tasks, RunReactor
  <2>2. Ordered(Append(q, Reactor)) /\ Ordered(Append(Append(q, Scan), Reactor))
    BY <1>1, <2>1, TurnOrdered
  <2>3. PICK ended \in BOOLEAN :
          /\ ended => timer.waits > 0
          /\ timer' = [timer EXCEPT !.waits = IF ended THEN 0 ELSE @]
          /\ tasks' = q \o (IF ended THEN [i \in 1..timer.waits |-> Scan] ELSE <<>>)
                        \o <<Reactor>>
    BY <1>8 DEF RunReactor
  <2> HIDE DEF q
  <2>4. timer' \in Timers /\ timer.waits \in 0..1
    <3>1. timer \in Timers /\ timer.waits \in 0..1 /\ 0 \in 0..1
      BY <1>1 DEF Types, Timers
    <3>2. (IF ended THEN 0 ELSE timer.waits) \in 0..1
      BY <3>1
    <3>3. timer' = [timer EXCEPT !.waits = IF ended THEN 0 ELSE timer.waits]
      BY <2>3
    <3>4. QED
      BY <3>1, <3>2, <3>3, TimerSet
  <2>5. CASE ~ended
    <3>1. tasks' = Append(q, Reactor)
      BY <1>4, <2>1, <2>3, <2>5
    <3>2. Follows(tasks, tasks')
      BY <1>4, <2>1, <2>2, <3>1, AddCarries, AppendQueue, CarriedOn, KindsDiffer DEF Follows
    <3>3. QED
      BY <1>2, <2>4, <3>2, FollowsKeeps
  <2>6. CASE ended
    <3>1. [i \in 1..timer.waits |-> Scan] = <<Scan>>
      BY <2>3, <2>4, <2>6
    <3>2. tasks' = Append(Append(q, Scan), Reactor) /\ Append(q, Scan) \in Seq(Tasks)
      <4>1. q \o <<Scan>> = Append(q, Scan) /\ Append(q, Scan) \in Seq(Tasks)
        BY <1>4, <2>1, AppendIsConcat, AppendQueue
      <4>2. tasks' = (q \o <<Scan>>) \o <<Reactor>>
        BY <2>3, <2>6, <3>1
      <4>3. QED
        BY <2>1, <4>1, <4>2, AppendIsConcat
    <3>3. Carried(q, Append(q, Scan)) /\ Carried(Append(q, Scan), tasks')
      BY <1>4, <2>1, <3>2, AddCarries, KindsDiffer
    <3>4. tasks' \in Seq(Tasks)
      BY <2>1, <3>2, AppendQueue
    <3>5. Follows(tasks, tasks')
      BY <1>4, <2>2, <3>2, <3>3, <3>4, CarriedOn DEF Follows
    <3>6. QED
      BY <1>2, <2>4, <3>5, FollowsKeeps
  <2>7. QED
    BY <2>5, <2>6
<1>9. QED
  BY <1>6, <1>7, <1>8
\* Settings come in: they are the last ones, and the worker is told, or the main
\* thread has yet to look.
LEMMA CallbackKeeps ==
    ASSUME IInv, NEW s \in Settings, SettingsCallback(s)
    PROVE  IInv'
<1>1. Types /\ tasks \in Seq(Tasks) /\ messages \in Seq(Settings) /\ Ordered(tasks) /\ Told
  BY DEF IInv, Types
<1>2. /\ process = "running" /\ messages' = Append(messages, s)
      /\ UNCHANGED <<process, main, worker, members, timer>>
      /\ tasks' = IF worker = "start" THEN tasks ELSE Append(tasks, Update(s))
  BY DEF SettingsCallback
<1>3. messages' \in Seq(Settings) /\ messages' # <<>> /\ Last(messages') = s
  BY <1>1, <1>2 DEF Last
<1>4. Update(s) \in Tasks /\ Update(s) # Reactor /\ Update(s) # Scan
  BY KindsDiffer DEF Tasks
<1>5. CASE worker = "start"
  <2>1. tasks' = tasks
    BY <1>2, <1>5
  <2>2. NoUpdate(tasks) /\ main # "lambda"
    BY <1>1, <1>5 DEF Told
  <2>3. QED
    BY <1>1, <1>2, <1>3, <2>1, <2>2 DEF IInv, Types, Told, Applied
<1>6. CASE worker # "start"
  <2>1. tasks' = Append(tasks, Update(s))
    BY <1>2, <1>6
  <2>2. tasks' \in Seq(Tasks) /\ Ordered(tasks') /\ LastUpdate(tasks', s)
    BY <1>1, <1>4, <2>1, AppendQueue, AddOrdered, AddUpdate
  <2>3. Applied'
    BY <1>2, <1>3, <2>2 DEF Applied
  <2>4. (main = "lambda" => worker = "running")'
    BY <1>1, <1>2 DEF Told
  <2>5. QED
    BY <1>1, <1>2, <1>3, <1>6, <2>2, <2>3, <2>4 DEF IInv, Types, Told
<1>7. QED
  BY <1>5, <1>6

\* The main thread applies the last settings itself; what the worker was told
\* meanwhile ends with the same ones.
LEMMA PostedKeeps ==
    ASSUME IInv, RunPosted
    PROVE  IInv'
<1> DEFINE s == Last(messages)
<1>1. Types /\ tasks \in Seq(Tasks) /\ Ordered(tasks)
  BY DEF IInv, Types
<1>2. /\ process = "running" /\ worker = "running" /\ main' = "lambda"
      /\ UNCHANGED <<process, worker, messages>>
  BY DEF RunPosted
<1>3. CASE messages = <<>>
  <2>1. UNCHANGED <<members, timer, tasks>>
    BY <1>3 DEF RunPosted
  <2>2. QED
    BY <1>2, <1>3, <2>1 DEF IInv, Types, Told, Applied
<1>4. CASE messages # <<>>
  <2>1. update_settings("main", s, tasks)
    BY <1>4 DEF RunPosted
  <2>2. timer' \in Timers /\ Follows(tasks, tasks') /\ members' = Stored(s)
    BY <1>1, <2>1, UpdateFollows
  <2>3. LastUpdate(tasks, s) \/ NoUpdate(tasks)
    BY <1>2, <1>4 DEF IInv, Applied
  <2>4. LastUpdate(tasks', s) \/ (NoUpdate(tasks') /\ members' = Stored(s))
    BY <2>2, <2>3 DEF Follows, Carried
  <2>5. Applied'
    BY <1>2, <2>4 DEF Applied
  <2>6. QED
    BY <1>1, <1>2, <2>2, <2>5 DEF IInv, Types, Told, Follows
<1>5. QED
  BY <1>3, <1>4

LEMMA StepApplied == IInv /\ [Next]_vars => IInv'
<1> SUFFICES ASSUME IInv, [Next]_vars PROVE IInv'
  OBVIOUS
<1>1. CASE MakeController \/ RunService \/ StartMain \/ EndMain
  BY <1>1, StartKeeps
<1>2. CASE RunUpdate
  BY <1>2, UpdateKeeps
<1>3. CASE RunScan \/ RunAborted \/ RunReactor
  BY <1>3, TasksKeep
<1>4. CASE SetUpStep("worker") \/ SetUpStep("main")
  BY <1>4, SetUpKeeps DEF Thread
<1>5. CASE RunPosted
  BY <1>5, PostedKeeps
<1>6. CASE \E s \in Settings : SettingsCallback(s)
  BY <1>6, CallbackKeeps
<1>7. CASE UNCHANGED vars
  BY <1>7 DEF vars, IInv, Types, Ordered, Told, Applied, NoUpdate, LastUpdate
<1>8. QED
  BY <1>1, <1>2, <1>3, <1>4, <1>5, <1>6, <1>7 DEF Next, Worker, Main

\* The queue of the worker stays in order, with the reactor behind a scan, and the
\* last settings are in use or on their way.
THEOREM SettingsOnTheirWay == Spec => []IInv
BY InitApplied, StepApplied, PTL DEF Spec

-----------------------------------------------------------------------------
(* What the run checks.                                                    *)

\* When nothing is to be done about settings any more, the Controller has those of
\* the last message, whichever thread applied which when. (daq.cpp, l.28)
THEOREM LastSettings == Spec => []LastSettingsApplied
<1>1. IInv => LastSettingsApplied
  <2> SUFFICES ASSUME IInv, Quiet, messages # <<>>
               PROVE  members = Stored(Last(messages))
    BY DEF LastSettingsApplied
  <2>1. NoUpdate(tasks) /\ main = "lambda" /\ process = "running"
    BY DEF Quiet, NoUpdate
  <2>2. ~LastUpdate(tasks, Last(messages))
    BY <2>1, KindsDiffer DEF NoUpdate, LastUpdate
  <2>3. QED
    BY <2>1, <2>2 DEF IInv, Applied
<1>2. QED
  BY <1>1, SettingsOnTheirWay, PTL

\* However often a Controller is set up, there is one wait to come and one scan to
\* run at most. (start_scan_timer)
THEOREM OneChain == Spec => []OneScanChain
<1>1. IInv => OneScanChain
  <2> SUFFICES ASSUME IInv PROVE OneScanChain
    OBVIOUS
  <2>1. timer.waits <= 1
    BY DEF IInv, Types, Timers
  <2>2. \A i, j \in DOMAIN tasks : tasks[i] = Scan /\ tasks[j] = Scan => i = j
    BY DEF IInv, Ordered
  <2>3. QED
    BY <2>1, <2>2 DEF OneScanChain
<1>2. QED
  BY <1>1, SettingsOnTheirWay, PTL
=============================================================================
