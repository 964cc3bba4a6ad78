-------------------------- MODULE CamClientProofs --------------------------
(* Theorems about CamClient, for every bound.                              *)
EXTENDS CamClient, TLAPS

-----------------------------------------------------------------------------
(* The queue.                                                              *)

Events(q) == {i \in DOMAIN q : q[i] = Event}

\* What most operations do to the queue: they add to it, but no event.
Grown(q, r) == Range(q) \subseteq Range(r) /\ Events(r) = Events(q)

LEMMA DoneType ==
    ASSUME NEW k \in ReadKind, NEW r \in ReadResult
    PROVE  /\ Done(k, r) \in Completion /\ Done(k, r) # Event
           /\ Done(k, r).op \in ReadKind
BY DEF Done, Completion, Event, ReadKind, ReadResult, Item

LEMMA OtherDoneType ==
    /\ Done("connect", "error") \in Completion /\ Done("connect", "error") # Event
    /\ Done("wait", "ok") \in Completion /\ Done("wait", "ok") # Event
    /\ Done("wait", "error") \in Completion /\ Done("wait", "error") # Event
    /\ Done("start_keepalive", "ok") \in Completion
    /\ Done("start_keepalive", "ok") # Event
    /\ Event \in Completion
BY DEF Done, Completion, Event

LEMMA GrownByAppend ==
    ASSUME NEW q \in Seq(Completion), NEW e \in Completion, e # Event
    PROVE  /\ Append(q, e) \in Seq(Completion) /\ Grown(q, Append(q, e))
           /\ e \in Range(Append(q, e))
<1>1. /\ DOMAIN q = 1..Len(q) /\ Len(q) \in Nat
      /\ DOMAIN Append(q, e) = 1..(Len(q) + 1)
      /\ \A i \in 1..Len(q) : Append(q, e)[i] = q[i]
      /\ Append(q, e)[Len(q) + 1] = e
      /\ Append(q, e) \in Seq(Completion)
  OBVIOUS
<1>2. Range(q) \subseteq Range(Append(q, e)) /\ e \in Range(Append(q, e))
  BY <1>1 DEF Range
<1>3. Events(Append(q, e)) = Events(q)
  BY <1>1 DEF Events
<1>4. QED
  BY <1>1, <1>2, <1>3 DEF Grown

LEMMA ConcatElements ==
    ASSUME NEW q \in Seq(Completion), NEW r \in Seq(Completion)
    PROVE  /\ DOMAIN q = 1..Len(q) /\ Len(q) \in Nat
           /\ DOMAIN r = 1..Len(r) /\ Len(r) \in Nat
           /\ DOMAIN (q \o r) = 1..(Len(q) + Len(r))
           /\ \A i \in 1..Len(q) : (q \o r)[i] = q[i]
           /\ \A i \in (Len(q) + 1)..(Len(q) + Len(r)) : (q \o r)[i] = r[i - Len(q)]
           /\ q \o r \in Seq(Completion)
OBVIOUS

LEMMA EventsInConcat ==
    ASSUME NEW q \in Seq(Completion), NEW r \in Seq(Completion), Events(r) = {}
    PROVE  Events(q \o r) = Events(q)
<1>1. /\ DOMAIN q = 1..Len(q) /\ Len(q) \in Nat
      /\ DOMAIN r = 1..Len(r) /\ Len(r) \in Nat
      /\ DOMAIN (q \o r) = 1..(Len(q) + Len(r))
      /\ \A i \in 1..Len(q) : (q \o r)[i] = q[i]
      /\ \A i \in (Len(q) + 1)..(Len(q) + Len(r)) : (q \o r)[i] = r[i - Len(q)]
  BY ConcatElements
<1>2. ASSUME NEW i \in (Len(q) + 1)..(Len(q) + Len(r))
      PROVE  (q \o r)[i] # Event
  <2>1. i - Len(q) \in DOMAIN r
    BY <1>1
  <2>2. QED
    BY <1>1, <2>1 DEF Events
<1>3. QED
  BY <1>1, <1>2 DEF Events

LEMMA PoppedElements ==
    ASSUME NEW q \in Seq(Completion), q # <<>>
    PROVE  /\ Tail(q) \in Seq(Completion) /\ Head(q) \in Completion
           /\ Range(q) = Range(Tail(q)) \cup {Head(q)}
           /\ Head(q) # Event => (Events(Tail(q)) = {} <=> Events(q) = {})
           /\ Head(q) = Event => Events(q) # {}
           /\ (\A i, j \in Events(q) : i = j) =>
                 /\ \A i, j \in Events(Tail(q)) : i = j
                 /\ Head(q) = Event => Events(Tail(q)) = {}
<1>1. /\ Len(q) \in Nat \ {0} /\ DOMAIN q = 1..Len(q)
      /\ DOMAIN Tail(q) = 1..(Len(q) - 1)
      /\ \A i \in 1..(Len(q) - 1) : Tail(q)[i] = q[i + 1]
      /\ Head(q) = q[1] /\ Tail(q) \in Seq(Completion) /\ Head(q) \in Completion
  OBVIOUS
<1>2. \A i \in Nat : i \in Events(Tail(q)) <=> i >= 1 /\ i + 1 \in Events(q)
  BY <1>1 DEF Events
<1>3. Events(q) \subseteq 1..Len(q) /\ Events(Tail(q)) \subseteq Nat
  BY <1>1 DEF Events
<1>4. 1 \in Events(q) <=> Head(q) = Event
  BY <1>1 DEF Events
<1>5. \A i \in Events(q) : i # 1 => i - 1 \in Events(Tail(q))
  BY <1>1, <1>2, <1>3
<1>6. Range(q) = Range(Tail(q)) \cup {Head(q)}
  <2>1. ASSUME NEW i \in 1..Len(q)
        PROVE  q[i] \in Range(Tail(q)) \cup {Head(q)}
    <3>1. CASE i = 1
      BY <1>1, <3>1
    <3>2. CASE i # 1
      <4>1. i - 1 \in 1..(Len(q) - 1) /\ (i - 1) + 1 = i
        BY <1>1, <3>2
      <4>2. q[i] = Tail(q)[i - 1]
        BY <1>1, <4>1
      <4>3. QED
        BY <1>1, <4>1, <4>2 DEF Range
    <3>3. QED
      BY <3>1, <3>2
  <2>2. ASSUME NEW i \in 1..(Len(q) - 1)
        PROVE  Tail(q)[i] \in Range(q)
    <3>1. i + 1 \in 1..Len(q) /\ Tail(q)[i] = q[i + 1]
      BY <1>1
    <3>2. QED
      BY <1>1, <3>1 DEF Range
  <2>3. Head(q) \in Range(q)
    BY <1>1 DEF Range
  <2>4. QED
    BY <1>1, <2>1, <2>2, <2>3 DEF Range
<1>7. ASSUME \A i, j \in Events(q) : i = j,
             NEW i \in Events(Tail(q)), NEW j \in Events(Tail(q))
      PROVE  i = j
  <2>1. i \in Nat /\ j \in Nat
    BY <1>3
  <2>2. i + 1 = j + 1
    BY <1>2, <1>7, <2>1
  <2>3. QED
    BY <2>1, <2>2
<1>8. ASSUME \A i, j \in Events(q) : i = j, Head(q) = Event,
             NEW i \in Events(Tail(q))
      PROVE  FALSE
  <2>1. i \in Nat /\ i >= 1 /\ i + 1 \in Events(q)
    BY <1>2, <1>3
  <2>2. i + 1 = 1
    BY <1>4, <1>8, <2>1
  <2>3. QED
    BY <2>1, <2>2
<1>9. Head(q) # Event => (Events(Tail(q)) = {} <=> Events(q) = {})
  BY <1>2, <1>3, <1>4, <1>5
<1>10. QED
  BY <1>1, <1>4, <1>6, <1>7, <1>8, <1>9

\* close() takes the one event there can be out of the queue.
LEMMA EventRemoved ==
    ASSUME NEW q \in Seq(Completion), \A i, j \in Events(q) : i = j
    PROVE  RemoveFirst(q, Event) \in Seq(Completion) /\ Events(RemoveFirst(q, Event)) = {}
<1> DEFINE I == {i \in 1..Len(q) : q[i] = Event}
           k == IF I # {} THEN Min(I) ELSE 0
           a == SubSeq(q, 1, k - 1)
           b == SubSeq(q, k + 1, Len(q))
<1>1. DOMAIN q = 1..Len(q) /\ Len(q) \in Nat /\ I = Events(q)
  BY DEF Events
<1>2. CASE I = {}
  <2>1. RemoveFirst(q, Event) = q
    BY <1>2 DEF RemoveFirst
  <2>2. QED
    BY <1>1, <1>2, <2>1
<1>3. CASE I # {}
  <2>1. PICK i \in I : \A j \in I : j = i
    BY <1>1, <1>3
  <2>2. i \in 1..Len(q) /\ \A j \in 1..Len(q) : q[j] = Event => j = i
    BY <2>1
  <2>3. Min(I) = i
    <3>1. i \in Nat /\ i \in I /\ \A y \in I : i =< y
      BY <2>1, <2>2
    <3> HIDE DEF I
    <3>2. QED
      BY <2>1, <3>1 DEF Min
  <2>4. k = i
    BY <1>3, <2>3
  <2>5. RemoveFirst(q, Event) = a \o b
    BY <1>3 DEF RemoveFirst, RemoveAt, SelectInSeq
  <2>6. /\ a \in Seq(Completion) /\ Len(a) = i - 1
        /\ \A j \in 1..(i - 1) : a[j] = q[j]
    <3>1. SubSeq(q, 1, i - 1) \in Seq(Completion) /\ Len(SubSeq(q, 1, i - 1)) = i - 1
          /\ \A j \in 1..(i - 1) : SubSeq(q, 1, i - 1)[j] = q[j]
      BY <1>1, <2>2
    <3>2. QED
      BY <2>4, <3>1
  <2>7. /\ b \in Seq(Completion) /\ Len(b) = Len(q) - i
        /\ \A j \in 1..(Len(q) - i) : b[j] = q[i + j]
    <3>1. SubSeq(q, i + 1, Len(q)) \in Seq(Completion)
          /\ Len(SubSeq(q, i + 1, Len(q))) = Len(q) - i
          /\ \A j \in 1..(Len(q) - i) : SubSeq(q, i + 1, Len(q))[j] = q[i + j]
      BY <1>1, <2>2
    <3>2. QED
      BY <2>4, <3>1
  <2> HIDE DEF a, b
  <2>8. Events(a) = {}
    BY <1>1, <2>2, <2>6 DEF Events
  <2>9. Events(b) = {}
    BY <1>1, <2>2, <2>7 DEF Events
  <2>10. QED
    BY <2>5, <2>6, <2>7, <2>8, <2>9, EventsInConcat, ConcatElements
<1>4. QED
  BY <1>2, <1>3

-----------------------------------------------------------------------------
(* The operations of asio.                                                 *)

\* The part of the state that only set_connection, connect and reset change.
SameConnection(s, t) ==
    /\ t.socket = s.socket /\ t.connecting = s.connecting
    /\ t.connection_status = s.connection_status /\ t.port = s.port
    /\ t.server = s.server

LEMMA StateType ==
    ASSUME NEW s \in ClientState
    PROVE  /\ s.queue \in Seq(Completion) /\ s.reads \in Seq(ReadKind)
           /\ s.inbox \in Seq(Item) /\ s.port \in Seq(BOOLEAN)
           /\ s.connection_status \in BOOLEAN /\ s.connecting \in BOOLEAN
           /\ s.socket \in SocketStatus /\ s.server \in ServerStatus
BY DEF ClientState

LEMMA AbortedReads ==
    ASSUME NEW r \in Seq(ReadKind)
    PROVE  LET d == [i \in DOMAIN r |-> Done(r[i], "error")]
           IN  d \in Seq(Completion) /\ Events(d) = {}
<1>1. Len(r) \in Nat /\ DOMAIN r = 1..Len(r) /\ \A i \in 1..Len(r) : r[i] \in ReadKind
  OBVIOUS
<1>2. \A i \in 1..Len(r) : /\ Done(r[i], "error") \in Completion
                           /\ Done(r[i], "error") # Event
  BY <1>1, DoneType DEF ReadResult
<1>3. QED
  BY <1>1, <1>2 DEF Events

LEMMA CloseEffect ==
    ASSUME NEW s \in ClientState, \A i, j \in Events(s.queue) : i = j
    PROVE  LET t == Close(s)
           IN  /\ t \in ClientState /\ t.socket = "closed" /\ ~t.connecting
               /\ t.reads = <<>> /\ t.inbox = <<>> /\ Events(t.queue) = {}
               /\ t.connection_status = s.connection_status /\ t.port = s.port
<1> DEFINE left == RemoveFirst(s.queue, Event)
           aborted == [i \in DOMAIN s.reads |-> Done(s.reads[i], "error")]
           failed == IF s.connecting THEN <<Done("connect", "error")>> ELSE <<>>
           q == left \o aborted \o failed
<1>1. left \in Seq(Completion) /\ Events(left) = {}
  BY StateType, EventRemoved
<1>2. aborted \in Seq(Completion) /\ Events(aborted) = {}
  BY StateType, AbortedReads
<1>3. failed \in Seq(Completion) /\ Events(failed) = {}
  <2> DEFINE e == Done("connect", "error")
  <2>1. e \in Completion /\ e # Event
    BY OtherDoneType
  <2> HIDE DEF e
  <2>2. <<e>> \in Seq(Completion) /\ DOMAIN <<e>> = {1} /\ <<e>>[1] = e
    BY <2>1
  <2>3. Events(<<e>>) = {}
    BY <2>1, <2>2 DEF Events
  <2>4. <<>> \in Seq(Completion) /\ Events(<<>>) = {}
    BY DEF Events
  <2>5. failed = IF s.connecting THEN <<e>> ELSE <<>>
    BY DEF e
  <2> HIDE DEF failed
  <2>6. QED
    BY <2>2, <2>3, <2>4, <2>5
<1>4. q \in Seq(Completion) /\ Events(q) = {}
  <2> HIDE DEF left, aborted, failed
  <2>1. left \o aborted \in Seq(Completion) /\ Events(left \o aborted) = {}
    BY <1>1, <1>2, EventsInConcat, ConcatElements
  <2>2. QED
    BY <1>3, <2>1, EventsInConcat, ConcatElements
<1>5. Close(s) = [s EXCEPT !.socket = "closed", !.connecting = FALSE, !.reads = <<>>,
                           !.inbox = <<>>, !.server = "up", !.queue = q]
  BY DEF Close
<1> DEFINE t == Close(s)
<1> HIDE DEF q
<1>6. <<>> \in Seq(ReadKind) /\ <<>> \in Seq(Item)
  OBVIOUS
<1>7. /\ t.socket = "closed" /\ t.connecting = FALSE /\ t.reads = <<>>
      /\ t.inbox = <<>> /\ t.queue = q
      /\ t.connection_status = s.connection_status /\ t.port = s.port
  BY <1>5 DEF ClientState
<1>8. t \in ClientState
  BY <1>4, <1>5, <1>6 DEF ClientState, SocketStatus, ServerStatus
<1>9. QED
  <2> HIDE DEF t
  <2>1. QED
    BY <1>4, <1>7, <1>8 DEF t

LEMMA CancelEffect ==
    ASSUME NEW s \in ClientState
    PROVE  LET t == Cancel(s)
           IN  /\ t \in ClientState /\ SameConnection(s, t)
               /\ t.reads = s.reads /\ t.inbox = s.inbox
               /\ Grown(s.queue, t.queue)
<1>1. ASSUME NEW q \in Seq(Completion)
      PROVE  LET t == [s EXCEPT !.timer = "idle", !.queue = q]
             IN  /\ t \in ClientState /\ SameConnection(s, t)
                 /\ t.reads = s.reads /\ t.inbox = s.inbox /\ t.queue = q
  BY DEF ClientState, SameConnection
<1> DEFINE q == Append(s.queue, Done("wait", "error"))
<1>2. q \in Seq(Completion) /\ Grown(s.queue, q)
  BY StateType, OtherDoneType, GrownByAppend
<1>3. CASE s.timer = "idle"
  BY <1>3 DEF Cancel, SameConnection, Grown
<1>4. CASE s.timer # "idle"
  <2>1. Cancel(s) = [s EXCEPT !.timer = "idle", !.queue = q]
    BY <1>4 DEF Cancel
  <2> HIDE DEF q
  <2>2. QED
    BY <1>1, <1>2, <2>1
<1>5. QED
  BY <1>3, <1>4

LEMMA StartKeepaliveEffect ==
    ASSUME NEW s \in ClientState
    PROVE  LET t == start_keepalive(s)
           IN  /\ t \in ClientState /\ SameConnection(s, t)
               /\ t.reads = s.reads /\ t.inbox = s.inbox
               /\ Grown(s.queue, t.queue) /\ t.timer = "armed"
<1>1. ASSUME NEW u \in ClientState
      PROVE  LET t == [u EXCEPT !.timer = "armed"]
             IN  /\ t \in ClientState /\ SameConnection(u, t)
                 /\ t.reads = u.reads /\ t.inbox = u.inbox
                 /\ t.queue = u.queue /\ t.timer = "armed"
  BY DEF ClientState, SameConnection
<1>2. QED
  BY <1>1, CancelEffect DEF start_keepalive, SameConnection

LEMMA RemainingType ==
    ASSUME NEW b \in Seq(Item), NEW n \in Nat
    PROVE  Remaining(b, n) \in Seq(Item)
<1>1. n < Len(b) => SubSeq(b, n + 1, Len(b)) \in Seq(Item)
  OBVIOUS
<1>2. <<"eof">> \in Seq(Item) /\ <<>> \in Seq(Item)
  BY DEF Item
<1>3. QED
  BY <1>1, <1>2 DEF Remaining

\* A read that is started is pending or its completion is queued.
LEMMA AsyncReadEffect ==
    ASSUME NEW s \in ClientState, NEW kind \in ReadKind
    PROVE  LET t == AsyncRead(s, kind)
           IN  /\ t \in ClientState /\ SameConnection(s, t) /\ t.timer = s.timer
               /\ Grown(s.queue, t.queue)
               /\ t.reads # <<>> \/ \E e \in Range(t.queue) : e.op \in ReadKind
               /\ s.socket = "closed" => t.reads = s.reads /\ t.inbox = s.inbox
               /\ s.reads # <<>> => t.reads # <<>> /\ t.inbox = s.inbox
<1>1. /\ s.queue \in Seq(Completion) /\ s.reads \in Seq(ReadKind)
      /\ s.inbox \in Seq(Item)
  BY StateType
<1> DEFINE t == AsyncRead(s, kind)
<1>2. ASSUME NEW q \in Seq(Completion), NEW b \in Seq(Item), NEW r \in Seq(ReadKind),
             \/ t = [s EXCEPT !.queue = q, !.inbox = b] /\ r = s.reads
             \/ t = [s EXCEPT !.queue = q] /\ b = s.inbox /\ r = s.reads
             \/ t = [s EXCEPT !.reads = r] /\ b = s.inbox /\ q = s.queue
      PROVE  /\ t \in ClientState /\ SameConnection(s, t) /\ t.timer = s.timer
             /\ t.reads = r /\ t.inbox = b /\ t.queue = q
  <2> HIDE DEF t
  <2>1. QED
    BY <1>2 DEF ClientState, SameConnection
<1>3. ASSUME NEW e \in Completion, e # Event, e.op \in ReadKind
      PROVE  /\ Append(s.queue, e) \in Seq(Completion)
             /\ Grown(s.queue, Append(s.queue, e))
             /\ \E d \in Range(Append(s.queue, e)) : d.op \in ReadKind
  BY <1>1, <1>3, GrownByAppend
<1>4. CASE s.socket \in {"closed", "refused"}
  <2> DEFINE q == Append(s.queue, Done(kind, "error"))
  <2>1. t = [s EXCEPT !.queue = q]
    BY <1>4 DEF AsyncRead
  <2>2. /\ q \in Seq(Completion) /\ Grown(s.queue, q)
        /\ \E d \in Range(q) : d.op \in ReadKind
    BY <1>3, DoneType DEF ReadResult
  <2> HIDE DEF q, t
  <2>3. /\ t \in ClientState /\ SameConnection(s, t) /\ t.timer = s.timer
        /\ t.reads = s.reads /\ t.inbox = s.inbox /\ t.queue = q
    BY <1>1, <1>2, <2>1, <2>2
  <2>4. QED
    BY <2>2, <2>3 DEF t
<1>5. CASE /\ s.socket \notin {"closed", "refused"}
           /\ s.reads = <<>> /\ s.inbox # <<>>
  <2> DEFINE q == Append(s.queue, Done(kind, Head(s.inbox)))
             b == Remaining(s.inbox, 1)
  <2>1. t = [s EXCEPT !.queue = q, !.inbox = b]
    BY <1>5 DEF AsyncRead
  <2>2. Head(s.inbox) \in ReadResult
    BY <1>1, <1>5 DEF ReadResult
  <2>3. /\ q \in Seq(Completion) /\ Grown(s.queue, q)
        /\ \E d \in Range(q) : d.op \in ReadKind
    BY <1>3, <2>2, DoneType
  <2>4. b \in Seq(Item)
    BY <1>1, RemainingType
  <2> HIDE DEF q, b, t
  <2>5. /\ t \in ClientState /\ SameConnection(s, t) /\ t.timer = s.timer
        /\ t.reads = s.reads /\ t.inbox = b /\ t.queue = q
    BY <1>1, <1>2, <2>1, <2>3, <2>4
  <2>6. QED
    BY <1>5, <2>3, <2>5 DEF t
<1>6. CASE /\ s.socket \notin {"closed", "refused"}
           /\ ~(s.reads = <<>> /\ s.inbox # <<>>)
  <2> DEFINE r == Append(s.reads, kind)
  <2>1. t = [s EXCEPT !.reads = r]
    BY <1>6 DEF AsyncRead
  <2>2. r \in Seq(ReadKind) /\ r # <<>>
    BY <1>1
  <2> HIDE DEF r, t
  <2>3. /\ t \in ClientState /\ SameConnection(s, t) /\ t.timer = s.timer
        /\ t.reads = r /\ t.inbox = s.inbox /\ t.queue = s.queue
    BY <1>1, <1>2, <2>1, <2>2
  <2>4. QED
    BY <1>6, <2>2, <2>3 DEF t, Grown
<1>7. QED
  <2> HIDE DEF t
  <2>1. QED
    BY <1>4, <1>5, <1>6 DEF t

LEMMA WrittenEffect ==
    ASSUME NEW s \in ClientState
    PROVE  LET t == Written(s)
           IN  /\ t \in ClientState /\ t.socket = "established"
               /\ t.connecting = s.connecting /\ t.port = s.port
               /\ t.connection_status = s.connection_status
               /\ t.timer = s.timer /\ t.reads = s.reads
               /\ t.inbox = s.inbox /\ t.queue = s.queue
<1> DEFINE v == IF s.server = "gone" THEN "unanswered" ELSE s.server
           t == Written(s)
<1>1. v \in ServerStatus
  BY StateType DEF ServerStatus
<1>2. t = [s EXCEPT !.socket = "established", !.server = v]
  BY DEF Written
<1> HIDE DEF v, t
<1>3. /\ t \in ClientState /\ t.socket = "established"
      /\ t.connecting = s.connecting /\ t.port = s.port
      /\ t.connection_status = s.connection_status
      /\ t.timer = s.timer /\ t.reads = s.reads
      /\ t.inbox = s.inbox /\ t.queue = s.queue
  BY <1>1, <1>2 DEF ClientState, SocketStatus
<1>4. QED
  BY <1>3 DEF t

-----------------------------------------------------------------------------
(* The invariants, of a state s of the client.                             *)

StatusIs(s) == s.connection_status <=> s.socket = "established" /\ ~s.connecting
ConnectingIs(s) == s.socket = "connecting" => s.connecting
ClosedIs(s) == s.socket = "closed" => s.reads = <<>> /\ s.inbox = <<>> /\ ~s.connecting
EventsOnce(s) == \A i, j \in Events(s.queue) : i = j
EventsDue(s) ==
    Events(s.queue) # {} => ConnectDecided(s) \/ (s.reads # <<>> /\ s.inbox # <<>>)

\* What is true of every state but for the connection status.
Steady(s) == ConnectingIs(s) /\ ClosedIs(s) /\ EventsOnce(s) /\ EventsDue(s)

Hears(s) ==
    s.connection_status => s.reads # <<>> \/ \E e \in Range(s.queue) : e.op \in ReadKind
Keeps(s) ==
    s.connection_status =>
        \/ s.timer # "idle"
        \/ Done("wait", "ok") \in Range(s.queue)
        \/ Done("start_keepalive", "ok") \in Range(s.queue)

Live(s) == StatusIs(s) /\ Steady(s) /\ Hears(s) /\ Keeps(s)

\* What the user interface shows, u, and what it has still to be told.
Tells(u, s) ==
    /\ s.port = <<>> => u = s.connection_status
    /\ s.port # <<>> => u # s.port[1] /\ s.port[Len(s.port)] = s.connection_status
    /\ \A i \in 1..(Len(s.port) - 1) : s.port[i] # s.port[i + 1]

-----------------------------------------------------------------------------
(* The functions of Cam_Client.                                            *)

LEMMA UpdatedEffect ==
    ASSUME NEW s \in ClientState, NEW b \in BOOLEAN
    PROVE  LET t == updated_connection_status(s, b)
           IN  /\ t \in ClientState /\ t.connection_status = b
               /\ t.socket = s.socket /\ t.connecting = s.connecting
               /\ t.reads = s.reads /\ t.inbox = s.inbox /\ t.server = s.server
               /\ t.queue = s.queue /\ t.timer = s.timer
               /\ \/ t.port = s.port /\ b = s.connection_status
                  \/ t.port = Append(s.port, b) /\ b # s.connection_status
<1> DEFINE t == updated_connection_status(s, b)
           p == Append(s.port, b)
<1>1. CASE b = s.connection_status
  BY <1>1 DEF updated_connection_status
<1>2. CASE b # s.connection_status
  <2>1. t = [s EXCEPT !.connection_status = b, !.port = p]
    BY <1>2 DEF updated_connection_status
  <2>2. p \in Seq(BOOLEAN)
    BY StateType
  <2> HIDE DEF t, p
  <2>3. /\ t \in ClientState /\ t.connection_status = b
        /\ t.socket = s.socket /\ t.connecting = s.connecting
        /\ t.reads = s.reads /\ t.inbox = s.inbox /\ t.server = s.server
        /\ t.queue = s.queue /\ t.timer = s.timer /\ t.port = p
    BY <2>1, <2>2 DEF ClientState
  <2>4. QED
    BY <1>2, <2>3 DEF t, p
<1>3. QED
  BY <1>1, <1>2

\* The one who listens to the port is told a change, and only a change.
LEMMA UpdatedTells ==
    ASSUME NEW s \in ClientState, NEW b \in BOOLEAN, NEW u \in BOOLEAN, Tells(u, s)
    PROVE  Tells(u, updated_connection_status(s, b))
<1> DEFINE t == updated_connection_status(s, b)
<1>1. /\ t.connection_status = b
      /\ \/ t.port = s.port /\ b = s.connection_status
         \/ t.port = Append(s.port, b) /\ b # s.connection_status
  BY UpdatedEffect
<1>2. s.port \in Seq(BOOLEAN) /\ s.connection_status \in BOOLEAN
  BY StateType
<1> HIDE DEF t
<1>3. CASE t.port = s.port /\ b = s.connection_status
  BY <1>1, <1>3 DEF Tells, t
<1>4. CASE t.port = Append(s.port, b) /\ b # s.connection_status
  <2> DEFINE n == Len(s.port)
             q == Append(s.port, b)
  <2>1. /\ n \in Nat /\ Len(q) = n + 1 /\ q # <<>> /\ q[n + 1] = b
        /\ \A i \in 1..n : q[i] = s.port[i]
        /\ (s.port = <<>> <=> n = 0)
    BY <1>2
  <2> HIDE DEF n, q
  <2>2. u # q[1] /\ q[Len(q)] = b
    <3>1. CASE n = 0
      BY <1>4, <2>1, <3>1 DEF Tells
    <3>2. CASE n > 0
      <4>1. 1 \in 1..n
        BY <2>1, <3>2
      <4>2. QED
        BY <2>1, <3>2, <4>1 DEF Tells
    <3>3. QED
      BY <2>1, <3>1, <3>2
  <2>3. ASSUME NEW i \in 1..(Len(q) - 1)
        PROVE  q[i] # q[i + 1]
    <3>1. CASE i = n
      <4>1. q[i] = s.port[n] /\ s.port # <<>>
        BY <2>1, <2>3, <3>1
      <4>2. s.port[n] = s.connection_status
        BY <4>1 DEF Tells, n
      <4>3. q[i + 1] = b
        BY <2>1, <3>1
      <4>4. QED
        BY <1>4, <4>1, <4>2, <4>3
    <3>2. CASE i # n
      <4>1. i \in 1..(n - 1) /\ i \in 1..n /\ i + 1 \in 1..n
        BY <2>1, <2>3, <3>2
      <4>2. s.port[i] # s.port[i + 1]
        BY <4>1 DEF Tells, n
      <4>3. QED
        BY <2>1, <4>1, <4>2
    <3>3. QED
      BY <3>1, <3>2
  <2>4. t.port = q
    BY <1>4 DEF q
  <2>5. Tells(u, t)
    BY <1>1, <2>1, <2>2, <2>3, <2>4 DEF Tells
  <2>6. QED
    BY <2>5 DEF t
<1>5. QED
  BY <1>1, <1>3, <1>4

LEMMA SameTells ==
    ASSUME NEW s, NEW t, NEW u, Tells(u, s), t.port = s.port,
           t.connection_status = s.connection_status
    PROVE  Tells(u, t)
BY DEF Tells

\* reset leaves a client that is not connected and has nothing pending.
LEMMA ResetLive ==
    ASSUME NEW s \in ClientState, EventsOnce(s)
    PROVE  LET t == reset(s)
           IN  /\ t \in ClientState /\ Live(t) /\ t.socket = "closed"
               /\ \A u \in BOOLEAN : Tells(u, s) => Tells(u, t)
<1> DEFINE c == Close(s)
           k == Cancel(c)
           t == reset(s)
<1>1. /\ c \in ClientState /\ c.socket = "closed" /\ ~c.connecting
      /\ c.reads = <<>> /\ c.inbox = <<>> /\ Events(c.queue) = {}
      /\ c.connection_status = s.connection_status /\ c.port = s.port
  BY CloseEffect DEF EventsOnce
<1>2. /\ k \in ClientState /\ SameConnection(c, k)
      /\ k.reads = c.reads /\ k.inbox = c.inbox /\ Grown(c.queue, k.queue)
  <2> HIDE DEF c
  <2>1. QED
    BY <1>1, CancelEffect
<1>3. t = updated_connection_status(k, FALSE)
  BY DEF reset
<1>4. /\ t \in ClientState /\ t.connection_status = FALSE
      /\ t.socket = k.socket /\ t.connecting = k.connecting
      /\ t.reads = k.reads /\ t.inbox = k.inbox /\ t.queue = k.queue
  <2> HIDE DEF k, t
  <2>1. QED
    BY <1>2, <1>3, UpdatedEffect
<1>5. ASSUME NEW u \in BOOLEAN, Tells(u, s)
      PROVE  Tells(u, t)
  <2> HIDE DEF c, k, t
  <2>1. Tells(u, k)
    BY <1>1, <1>2, <1>5, SameTells DEF SameConnection
  <2>2. QED
    BY <1>2, <1>3, <2>1, UpdatedTells
<1>6. Live(t) /\ t.socket = "closed"
  <2> HIDE DEF c, k, t
  <2>1. /\ t.socket = "closed" /\ ~t.connecting /\ t.reads = <<>> /\ t.inbox = <<>>
        /\ Events(t.queue) = {} /\ t.connection_status = FALSE
    BY <1>1, <1>2, <1>4 DEF SameConnection, Grown
  <2>2. StatusIs(t) /\ ConnectingIs(t) /\ ClosedIs(t) /\ EventsOnce(t) /\ EventsDue(t)
    BY <2>1 DEF StatusIs, ConnectingIs, ClosedIs, EventsOnce, EventsDue
  <2>3. Hears(t) /\ Keeps(t)
    BY <2>1 DEF Hears, Keeps
  <2>4. QED
    BY <2>1, <2>2, <2>3 DEF Live, Steady
<1>7. QED
  <2> HIDE DEF t
  <2>1. QED
    BY <1>4, <1>5, <1>6 DEF t

LEMMA StartKeepaliveSteady ==
    ASSUME NEW s \in ClientState, Steady(s)
    PROVE  LET t == start_keepalive(s)
           IN  Steady(t) /\ Keeps(t) /\ (StatusIs(s) => StatusIs(t)) /\ (Hears(s) => Hears(t))
<1> DEFINE t == start_keepalive(s)
<1>1. /\ SameConnection(s, t) /\ t.reads = s.reads /\ t.inbox = s.inbox
      /\ Grown(s.queue, t.queue) /\ t.timer = "armed"
  BY StartKeepaliveEffect
<1>2. Steady(t) /\ Keeps(t) /\ (StatusIs(s) => StatusIs(t)) /\ (Hears(s) => Hears(t))
  <2> HIDE DEF t
  <2>1. ConnectingIs(t) /\ ClosedIs(t) /\ EventsOnce(t)
    BY <1>1 DEF Steady, ConnectingIs, ClosedIs, EventsOnce, SameConnection, Grown
  <2>2. EventsDue(t)
    BY <1>1 DEF Steady, EventsDue, ConnectDecided, SameConnection, Grown
  <2>3. Keeps(t) /\ (StatusIs(s) => StatusIs(t)) /\ (Hears(s) => Hears(t))
    BY <1>1 DEF Keeps, StatusIs, Hears, SameConnection, Grown
  <2>4. QED
    BY <2>1, <2>2, <2>3 DEF Steady
<1>3. QED
  BY <1>2

LEMMA AsyncReadSteady ==
    ASSUME NEW s \in ClientState, NEW kind \in ReadKind, Steady(s)
    PROVE  LET t == AsyncRead(s, kind)
           IN  Steady(t) /\ Hears(t) /\ (StatusIs(s) => StatusIs(t)) /\ (Keeps(s) => Keeps(t))
<1> DEFINE t == AsyncRead(s, kind)
<1>1. /\ SameConnection(s, t) /\ t.timer = s.timer /\ Grown(s.queue, t.queue)
      /\ t.reads # <<>> \/ \E e \in Range(t.queue) : e.op \in ReadKind
      /\ s.socket = "closed" => t.reads = s.reads /\ t.inbox = s.inbox
      /\ s.reads # <<>> => t.reads # <<>> /\ t.inbox = s.inbox
  BY AsyncReadEffect
<1>2. Steady(t) /\ Hears(t) /\ (StatusIs(s) => StatusIs(t)) /\ (Keeps(s) => Keeps(t))
  <2> HIDE DEF t
  <2>1. ConnectingIs(t) /\ ClosedIs(t) /\ EventsOnce(t)
    BY <1>1 DEF Steady, ConnectingIs, ClosedIs, EventsOnce, SameConnection, Grown
  <2>2. EventsDue(t)
    BY <1>1 DEF Steady, EventsDue, ConnectDecided, SameConnection, Grown
  <2>3. Hears(t) /\ (StatusIs(s) => StatusIs(t)) /\ (Keeps(s) => Keeps(t))
    BY <1>1 DEF Keeps, StatusIs, Hears, SameConnection, Grown
  <2>4. QED
    BY <2>1, <2>2, <2>3 DEF Steady
<1>3. QED
  BY <1>2

\* A write that goes through leaves the connection made, or to be reported.
LEMMA WrittenSteady ==
    ASSUME NEW s \in ClientState, Steady(s), StatusIs(s),
           s.socket \in {"connecting", "established"}
    PROVE  LET t == Written(s)
           IN  /\ t \in ClientState /\ Steady(t) /\ StatusIs(t)
               /\ (Hears(s) => Hears(t)) /\ (Keeps(s) => Keeps(t))
<1> DEFINE t == Written(s)
<1>1. /\ t \in ClientState /\ t.socket = "established"
      /\ t.connecting = s.connecting
      /\ t.connection_status = s.connection_status
      /\ t.timer = s.timer /\ t.reads = s.reads
      /\ t.inbox = s.inbox /\ t.queue = s.queue
  BY WrittenEffect
<1>2. Steady(t) /\ StatusIs(t) /\ (Hears(s) => Hears(t)) /\ (Keeps(s) => Keeps(t))
  <2> HIDE DEF t
  <2>1. StatusIs(t) /\ ConnectingIs(t) /\ ClosedIs(t) /\ EventsOnce(t)
    BY <1>1 DEF Steady, StatusIs, ConnectingIs, ClosedIs, EventsOnce
  <2>2. EventsDue(t)
    BY <1>1 DEF Steady, EventsDue, ConnectDecided
  <2>3. (Hears(s) => Hears(t)) /\ (Keeps(s) => Keeps(t))
    BY <1>1 DEF Hears, Keeps
  <2>4. QED
    BY <2>1, <2>2, <2>3 DEF Steady
<1>3. QED
  BY <1>1, <1>2

\* What goes for a state goes for one with more in its queue.
LEMMA GrownSteady ==
    ASSUME NEW s, NEW t, SameConnection(s, t), t.reads = s.reads, t.inbox = s.inbox,
           Grown(s.queue, t.queue)
    PROVE  /\ Steady(s) => Steady(t)
           /\ StatusIs(s) => StatusIs(t)
           /\ Hears(s) => Hears(t)
           /\ Keeps(s) /\ t.timer = s.timer => Keeps(t)
           /\ \A u \in BOOLEAN : Tells(u, s) => Tells(u, t)
<1>1. ConnectingIs(s) => ConnectingIs(t)
  BY DEF ConnectingIs, SameConnection
<1>2. ClosedIs(s) => ClosedIs(t)
  BY DEF ClosedIs, SameConnection
<1>3. (EventsOnce(s) => EventsOnce(t)) /\ (EventsDue(s) => EventsDue(t))
  BY DEF EventsOnce, EventsDue, ConnectDecided, SameConnection, Grown
<1>4. StatusIs(s) => StatusIs(t)
  BY DEF StatusIs, SameConnection
<1>5. (Hears(s) => Hears(t)) /\ (Keeps(s) /\ t.timer = s.timer => Keeps(t))
  BY DEF Hears, Keeps, SameConnection, Grown
<1>6. \A u \in BOOLEAN : Tells(u, s) => Tells(u, t)
  BY SameTells DEF SameConnection
<1>7. QED
  BY <1>1, <1>2, <1>3, <1>4, <1>5, <1>6 DEF Steady

-----------------------------------------------------------------------------
(* The handlers: each leaves a state in which the invariants hold.         *)

Good(s, t) ==
    /\ t \in ClientState /\ Live(t)
    /\ \A u \in BOOLEAN : Tells(u, s) => Tells(u, t)

LEMMA ConnectHandlerGood ==
    ASSUME NEW s \in ClientState, NEW result, NEW sent \in BOOLEAN, Steady(s),
           result # "ok" => Live(s),
           result = "ok" => s.socket = "established" /\ ~s.connecting
    PROVE  Good(s, connect_handler(s, result, sent))
<1> DEFINE u == updated_connection_status(s, TRUE)
           k == start_keepalive(u)
           r == start_read(k)
<1>1. CASE result # "ok"
  BY <1>1 DEF connect_handler, Good
<1>2. CASE result = "ok"
  <2>1. /\ u \in ClientState /\ u.connection_status = TRUE
        /\ u.socket = s.socket /\ u.connecting = s.connecting
        /\ u.reads = s.reads /\ u.inbox = s.inbox /\ u.queue = s.queue
        /\ \A l \in BOOLEAN : Tells(l, s) => Tells(l, u)
    BY UpdatedEffect, UpdatedTells
  <2>2. connect_handler(s, result, sent) = IF sent THEN Written(r) ELSE reset(r)
    BY <1>2 DEF connect_handler
  <2> HIDE DEF u
  <2>3. StatusIs(u) /\ Steady(u)
    <3>1. StatusIs(u) /\ ConnectingIs(u) /\ ClosedIs(u) /\ EventsOnce(u)
      BY <1>2, <2>1 DEF Steady, StatusIs, ConnectingIs, ClosedIs, EventsOnce
    <3>2. EventsDue(u)
      BY <2>1 DEF Steady, EventsDue, ConnectDecided
    <3>3. QED
      BY <3>1, <3>2 DEF Steady
  <2>4. /\ k \in ClientState /\ SameConnection(u, k)
        /\ Steady(k) /\ Keeps(k) /\ StatusIs(k)
    BY <2>1, <2>3, StartKeepaliveEffect, StartKeepaliveSteady
  <2> HIDE DEF k
  <2>5. r \in ClientState /\ SameConnection(k, r) /\ Live(r)
    <3>1. "header" \in ReadKind
      BY DEF ReadKind
    <3>2. QED
      BY <2>4, <3>1, AsyncReadEffect, AsyncReadSteady DEF start_read, Live
  <2> HIDE DEF r
  <2>6. /\ r.socket = "established"
        /\ \A l \in BOOLEAN : Tells(l, s) => Tells(l, r)
    BY <1>2, <2>1, <2>4, <2>5, SameTells DEF SameConnection
  <2>7. CASE sent
    <3> DEFINE w == Written(r)
    <3>1. /\ w \in ClientState /\ Live(w) /\ w.port = r.port
          /\ w.connection_status = r.connection_status
      BY <2>5, <2>6, WrittenSteady, WrittenEffect DEF Live
    <3> HIDE DEF w
    <3>2. \A l \in BOOLEAN : Tells(l, s) => Tells(l, w)
      BY <2>6, <3>1, SameTells
    <3>3. QED
      BY <2>2, <2>7, <3>1, <3>2 DEF Good, w
  <2>8. CASE ~sent
    <3>1. EventsOnce(r)
      BY <2>5 DEF Live, Steady
    <3> DEFINE w == reset(r)
    <3>2. /\ w \in ClientState /\ Live(w)
          /\ \A l \in BOOLEAN : Tells(l, r) => Tells(l, w)
      BY <2>5, <3>1, ResetLive
    <3> HIDE DEF w
    <3>3. QED
      BY <2>2, <2>6, <2>8, <3>2 DEF Good, w
  <2>9. QED
    BY <2>7, <2>8
<1>3. QED
  BY <1>1, <1>2

LEMMA WaitHandlerGood ==
    ASSUME NEW s \in ClientState, NEW result, NEW sent \in BOOLEAN,
           Steady(s), StatusIs(s), Hears(s), result # "ok" => Keeps(s),
           sent => s.socket \in {"connecting", "established"}
    PROVE  Good(s, wait_handler(s, result, sent))
<1>1. CASE result # "ok"
  BY <1>1 DEF wait_handler, Good, Live
<1>2. CASE result = "ok" /\ sent
  <2> DEFINE w == Written(s)
             q == Append(w.queue, Done("start_keepalive", "ok"))
             t == [w EXCEPT !.queue = q]
  <2>1. wait_handler(s, result, sent) = t
    BY <1>2 DEF wait_handler
  <2>2. /\ w \in ClientState /\ Steady(w) /\ StatusIs(w) /\ Hears(w)
        /\ w.port = s.port /\ w.connection_status = s.connection_status
    BY <1>2, WrittenSteady, WrittenEffect
  <2> HIDE DEF w
  <2>3. /\ q \in Seq(Completion) /\ Grown(w.queue, q)
        /\ Done("start_keepalive", "ok") \in Range(q)
    BY <2>2, StateType, OtherDoneType, GrownByAppend
  <2> HIDE DEF q
  <2>4. /\ t \in ClientState /\ SameConnection(w, t) /\ t.reads = w.reads
        /\ t.inbox = w.inbox /\ t.queue = q
    BY <2>2, <2>3 DEF ClientState, SameConnection
  <2> HIDE DEF t
  <2>5. Steady(t) /\ StatusIs(t) /\ Hears(t)
    BY <2>2, <2>3, <2>4, GrownSteady
  <2>6. Keeps(t)
    BY <2>3, <2>4 DEF Keeps
  <2>7. \A u \in BOOLEAN : Tells(u, s) => Tells(u, t)
    BY <2>2, <2>4, SameTells DEF SameConnection
  <2>8. QED
    BY <2>1, <2>4, <2>5, <2>6, <2>7 DEF Good, Live
<1>3. CASE result = "ok" /\ ~sent
  BY <1>3, ResetLive DEF wait_handler, Good, Steady
<1>4. QED
  BY <1>1, <1>2, <1>3

LEMMA ReadHandlerGood ==
    ASSUME NEW s \in ClientState, NEW kind \in ReadKind, NEW content,
           Steady(s), StatusIs(s), Keeps(s)
    PROVE  Good(s, read_handler(s, kind, content))
<1>1. Good(s, reset(s))
  BY ResetLive DEF Good, Steady
<1>2. ASSUME NEW next \in ReadKind
      PROVE  Good(s, AsyncRead(s, next))
  <2> DEFINE t == AsyncRead(s, next)
  <2>1. t \in ClientState /\ SameConnection(s, t)
    BY AsyncReadEffect
  <2>2. Live(t)
    BY AsyncReadSteady DEF Live
  <2> HIDE DEF t
  <2>3. \A u \in BOOLEAN : Tells(u, s) => Tells(u, t)
    BY <2>1, SameTells DEF SameConnection
  <2>4. QED
    BY <2>1, <2>2, <2>3 DEF Good, t
<1>3. QED
  BY <1>1, <1>2 DEF read_handler, header_handler, data_handler, start_read, ReadKind

LEMMA SetConnectionGood ==
    ASSUME NEW s \in ClientState, NEW status, Live(s)
    PROVE  Good(s, set_connection(s, status))
<1>1. CASE s.socket = "closed" /\ status
  <2> DEFINE t == start_async_connect(s)
  <2>1. /\ t \in ClientState /\ t.socket = "connecting" /\ t.connecting = TRUE
        /\ t.connection_status = s.connection_status /\ t.port = s.port
        /\ t.queue = s.queue
    BY DEF start_async_connect, ClientState, SocketStatus
  <2> HIDE DEF t
  <2>2. ~s.connecting /\ s.reads = <<>> /\ ~s.connection_status
    BY <1>1 DEF Live, Steady, ClosedIs, StatusIs
  <2>3. Events(s.queue) = {}
    BY <2>2 DEF Live, Steady, EventsDue, ConnectDecided
  <2>4. ~t.connection_status
    BY <2>1, <2>2
  <2>5. StatusIs(t) /\ ConnectingIs(t) /\ ClosedIs(t)
    BY <2>1, <2>4 DEF StatusIs, ConnectingIs, ClosedIs
  <2>6. EventsOnce(t) /\ EventsDue(t)
    BY <2>1, <2>3 DEF EventsOnce, EventsDue
  <2>7. Hears(t) /\ Keeps(t)
    BY <2>4 DEF Hears, Keeps
  <2>8. \A u \in BOOLEAN : Tells(u, s) => Tells(u, t)
    BY <2>1, SameTells
  <2>9. set_connection(s, status) = t
    BY <1>1 DEF set_connection, t
  <2>10. QED
    BY <2>1, <2>5, <2>6, <2>7, <2>8, <2>9 DEF Good, Live, Steady
<1>2. CASE s.socket # "closed" /\ ~status
  BY <1>2, ResetLive DEF set_connection, Good, Live, Steady
<1>3. CASE ~(s.socket = "closed" /\ status) /\ ~(s.socket # "closed" /\ ~status)
  BY <1>3 DEF set_connection, Good
<1>4. QED
  BY <1>1, <1>2, <1>3

-----------------------------------------------------------------------------
(* What DispatchEvent completes.                                           *)

LEMMA ReadsDoneType ==
    ASSUME NEW s \in ClientState
    PROVE  /\ Completable(s) \in 0..Len(s.reads)
           /\ Len(s.reads) \in Nat
           /\ ReadsDone(s) \in Seq(Completion) /\ Events(ReadsDone(s)) = {}
           /\ Len(ReadsDone(s)) = Completable(s)
           /\ \A i \in 1..Completable(s) : ReadsDone(s)[i].op \in ReadKind
           /\ s.reads # <<>> /\ s.inbox # <<>> => Completable(s) # 0
<1>1. /\ Len(s.reads) \in Nat /\ DOMAIN s.reads = 1..Len(s.reads)
      /\ \A i \in 1..Len(s.reads) : s.reads[i] \in ReadKind
      /\ Len(s.inbox) \in Nat /\ \A i \in 1..Len(s.inbox) : s.inbox[i] \in Item
      /\ (s.reads = <<>> <=> Len(s.reads) = 0) /\ (s.inbox = <<>> <=> Len(s.inbox) = 0)
  BY StateType
<1>2. /\ Completable(s) \in 0..Len(s.reads)
      /\ s.reads # <<>> /\ s.inbox # <<>> => Completable(s) # 0
  BY <1>1 DEF Completable, Answered
<1> HIDE DEF Completable
<1>3. ASSUME NEW i \in 1..Completable(s)
      PROVE  /\ Done(s.reads[i], Received(s.inbox, i)) \in Completion
             /\ Done(s.reads[i], Received(s.inbox, i)) # Event
             /\ Done(s.reads[i], Received(s.inbox, i)).op \in ReadKind
  <2>1. s.reads[i] \in ReadKind
    BY <1>1, <1>2
  <2>2. Received(s.inbox, i) \in ReadResult
    BY <1>1, <1>2 DEF Received, ReadResult, Item
  <2>3. QED
    BY <2>1, <2>2, DoneType
<1> DEFINE d == ReadsDone(s)
           n == Completable(s)
<1>4. d = [i \in 1..n |-> Done(s.reads[i], Received(s.inbox, i))]
  BY DEF ReadsDone
<1>5. n \in Nat
  BY <1>1, <1>2
<1>6. d \in Seq(Completion) /\ DOMAIN d = 1..n /\ Len(d) = n
  BY <1>3, <1>4, <1>5
<1>7. Events(d) = {} /\ \A i \in 1..n : d[i].op \in ReadKind
  BY <1>3, <1>4 DEF Events
<1>8. QED
  BY <1>1, <1>2, <1>6, <1>7

LEMMA CompletedEffect ==
    ASSUME NEW s \in ClientState,
           ConnectDecided(s) \/ (s.reads # <<>> /\ s.inbox # <<>>)
    PROVE  /\ Tail(Completed(s)) \in Seq(Completion) /\ Events(Tail(Completed(s))) = {}
           /\ ConnectDecided(s) =>
                 Head(Completed(s))
                    = Done("connect", IF s.socket = "established" THEN "ok" ELSE "error")
           /\ ~ConnectDecided(s) => Head(Completed(s)).op \in ReadKind
<1> DEFINE d == ReadsDone(s)
           c == Done("connect", IF s.socket = "established" THEN "ok" ELSE "error")
<1>1. /\ d \in Seq(Completion) /\ Events(d) = {} /\ Len(d) = Completable(s)
      /\ \A i \in 1..Completable(s) : d[i].op \in ReadKind
      /\ s.reads # <<>> /\ s.inbox # <<>> => Completable(s) # 0
  BY ReadsDoneType
<1>2. CASE ConnectDecided(s)
  <2>1. Completed(s) = <<c>> \o d
    BY <1>2 DEF Completed
  <2> HIDE DEF c, d
  <2>2. Tail(<<c>> \o d) = d /\ Head(<<c>> \o d) = c
    BY <1>1
  <2>3. QED
    BY <1>1, <1>2, <2>1, <2>2 DEF c
<1>3. CASE ~ConnectDecided(s)
  <2>1. Completed(s) = d
    BY <1>3 DEF Completed
  <2> HIDE DEF d
  <2>2. d # <<>>
    BY <1>1, <1>3
  <2>3. Tail(d) \in Seq(Completion) /\ Head(d) = d[1] /\ 1 \in 1..Len(d) /\ Head(d) \in Completion
    BY <1>1, <2>2
  <2>4. Head(d).op \in ReadKind
    BY <1>1, <2>3
  <2>5. Head(d) # Event
    BY <2>4 DEF Event, Done, ReadKind
  <2>6. Events(Tail(d)) = {}
    BY <1>1, <2>2, <2>5, PoppedElements
  <2>7. QED
    BY <1>3, <2>1, <2>3, <2>4, <2>6
<1>4. QED
  BY <1>2, <1>3

LEMMA PerformedEffect ==
    ASSUME NEW s \in ClientState, Events(s.queue) = {},
           ConnectDecided(s) \/ (s.reads # <<>> /\ s.inbox # <<>>)
    PROVE  LET t == Performed(s)
           IN  /\ t \in ClientState /\ Events(t.queue) = {}
               /\ Range(s.queue) \subseteq Range(t.queue)
               /\ t.socket = s.socket /\ t.timer = s.timer /\ t.port = s.port
               /\ t.connection_status = s.connection_status
               /\ t.connecting = (s.connecting /\ ~ConnectDecided(s))
<1> DEFINE t == Performed(s)
           c == s.connecting /\ ~ConnectDecided(s)
           n == Len(s.reads)
           r == SubSeq(s.reads, Completable(s) + 1, n)
           b == Remaining(s.inbox, n)
           left == Tail(Completed(s))
           q == s.queue \o left
<1>1. t = [s EXCEPT !.connecting = c, !.reads = r, !.inbox = b, !.queue = q]
  BY DEF Performed
<1>2. /\ Completable(s) \in 0..n /\ n \in Nat /\ s.reads \in Seq(ReadKind)
      /\ s.queue \in Seq(Completion) /\ s.inbox \in Seq(Item)
  BY ReadsDoneType, StateType
<1>3. left \in Seq(Completion) /\ Events(left) = {}
  BY CompletedEffect
<1>4. r \in Seq(ReadKind)
  <2> DEFINE k == Completable(s)
  <2>1. k \in 0..n
    BY <1>2
  <2> HIDE DEF k
  <2>2. SubSeq(s.reads, k + 1, n) \in Seq(ReadKind)
    BY <1>2, <2>1
  <2>3. QED
    BY <2>2 DEF k
<1>5. b \in Seq(Item)
  BY <1>2, RemainingType
<1>6. q \in Seq(Completion) /\ Events(q) = {} /\ Range(s.queue) \subseteq Range(q)
  <2> HIDE DEF left
  <2>1. q \in Seq(Completion) /\ Events(q) = {}
    BY <1>2, <1>3, EventsInConcat, ConcatElements
  <2>2. /\ DOMAIN s.queue = 1..Len(s.queue) /\ Len(s.queue) \in Nat /\ Len(left) \in Nat
        /\ DOMAIN q = 1..(Len(s.queue) + Len(left))
        /\ \A i \in 1..Len(s.queue) : q[i] = s.queue[i]
    BY <1>2, <1>3, ConcatElements
  <2> HIDE DEF q
  <2>3. QED
    BY <2>1, <2>2 DEF Range
<1>7. c \in BOOLEAN
  BY StateType
<1> HIDE DEF c, r, b, q, t
<1>8. /\ t \in ClientState /\ t.queue = q /\ t.connecting = c
      /\ t.socket = s.socket /\ t.timer = s.timer /\ t.port = s.port
      /\ t.connection_status = s.connection_status
  BY <1>1, <1>4, <1>5, <1>6, <1>7 DEF ClientState
<1>9. QED
  BY <1>6, <1>8 DEF t, c

-----------------------------------------------------------------------------
(* The inductive invariant, and the steps of the io_service thread.        *)

ClientInv ==
    /\ cli \in ClientState
    /\ connected \in BOOLEAN
    /\ Live(cli)
    /\ Tells(connected, cli)

LEMMA GoodInv ==
    ASSUME ClientInv, NEW s, Tells(connected, cli) => Tells(connected, s),
           Good(s, cli'), UNCHANGED connected
    PROVE  ClientInv'
BY DEF ClientInv, Good, Live, Steady, StatusIs, ConnectingIs, ClosedIs, EventsOnce,
       EventsDue, Events, ConnectDecided, Hears, Keeps, Tells

\* What the completion at the head of the queue leaves behind when it is taken.
LEMMA PoppedEffect ==
    ASSUME ClientInv, cli.queue # <<>>
    PROVE  LET e == Head(cli.queue)
           IN  /\ Popped \in ClientState /\ e \in Completion
               /\ SameConnection(cli, Popped) /\ Popped.timer = cli.timer
               /\ Popped.reads = cli.reads /\ Popped.inbox = cli.inbox
               /\ StatusIs(Popped) /\ Tells(connected, Popped)
               /\ e # Event => Steady(Popped)
               /\ e.op \notin ReadKind => Hears(Popped)
               /\ e # Done("wait", "ok") /\ e # Done("start_keepalive", "ok") => Keeps(Popped)
               /\ e = Event => /\ Events(Popped.queue) = {}
                               /\ \/ ConnectDecided(Popped)
                                  \/ Popped.reads # <<>> /\ Popped.inbox # <<>>
<1> DEFINE e == Head(cli.queue)
           q == Tail(cli.queue)
           t == [cli EXCEPT !.queue = q]
<1>1. Live(cli) /\ Steady(cli) /\ StatusIs(cli) /\ cli \in ClientState
  BY DEF ClientInv, Live
<1>2. /\ q \in Seq(Completion) /\ e \in Completion
      /\ Range(cli.queue) = Range(q) \cup {e}
      /\ e # Event => (Events(q) = {} <=> Events(cli.queue) = {})
      /\ e = Event => Events(cli.queue) # {}
      /\ \A i, j \in Events(q) : i = j
      /\ e = Event => Events(q) = {}
  <2>1. cli.queue \in Seq(Completion) /\ \A i, j \in Events(cli.queue) : i = j
    BY <1>1, StateType DEF Steady, EventsOnce
  <2>2. QED
    BY <2>1, PoppedElements
<1>3. Popped = t
  BY DEF Popped
<1> HIDE DEF e, q
<1>4. /\ t \in ClientState /\ t.queue = q
      /\ SameConnection(cli, t) /\ t.timer = cli.timer
      /\ t.reads = cli.reads /\ t.inbox = cli.inbox
  BY <1>1, <1>2 DEF ClientState, SameConnection
<1> HIDE DEF t
<1>5. StatusIs(t) /\ Tells(connected, t)
  BY <1>1, <1>4, SameTells DEF ClientInv, StatusIs, SameConnection
<1>6. ASSUME e # Event PROVE Steady(t)
  <2>1. ConnectingIs(t) /\ ClosedIs(t) /\ EventsOnce(t)
    BY <1>1, <1>2, <1>4 DEF Steady, ConnectingIs, ClosedIs, EventsOnce, SameConnection
  <2>2. EventsDue(t)
    BY <1>1, <1>2, <1>4, <1>6 DEF Steady, EventsDue, ConnectDecided, SameConnection
  <2>3. QED
    BY <2>1, <2>2 DEF Steady
<1>7. ASSUME e.op \notin ReadKind PROVE Hears(t)
  <2>1. Hears(cli)
    BY <1>1 DEF Live
  <2>2. \A d \in Range(cli.queue) : d.op \in ReadKind => d \in Range(q)
    BY <1>2, <1>7
  <2>3. QED
    BY <1>4, <2>1, <2>2 DEF Hears, SameConnection
<1>8. ASSUME e # Done("wait", "ok"), e # Done("start_keepalive", "ok") PROVE Keeps(t)
  <2>1. Keeps(cli)
    BY <1>1 DEF Live
  <2>2. QED
    BY <1>2, <1>4, <1>8, <2>1 DEF Keeps, SameConnection
<1>9. ASSUME e = Event
      PROVE  Events(t.queue) = {} /\ (ConnectDecided(t) \/ (t.reads # <<>> /\ t.inbox # <<>>))
  <2>1. ConnectDecided(cli) \/ (cli.reads # <<>> /\ cli.inbox # <<>>)
    BY <1>1, <1>2, <1>9 DEF Steady, EventsDue
  <2>2. QED
    BY <1>2, <1>4, <1>9, <2>1 DEF ConnectDecided, SameConnection
<1>10. QED
  BY <1>2, <1>3, <1>4, <1>5, <1>6, <1>7, <1>8, <1>9 DEF e

\* What the results of the completions are.
LEMMA CompletionKinds ==
    ASSUME NEW e \in Completion
    PROVE  /\ e.op = "connect" => e.arg # "ok"
           /\ e.op # "event" => e # Event
           /\ e.op = "event" => e = Event
           /\ e.op # "wait" \/ e.arg # "ok" => e # Done("wait", "ok")
           /\ e.op # "start_keepalive" => e # Done("start_keepalive", "ok")
BY DEF Completion, Event, Done, ReadKind

LEMMA DispatchOthersInv ==
    ASSUME ClientInv,
           DispatchSetConnection \/ DispatchConnect \/ DispatchRead
              \/ DispatchWait \/ DispatchKeepalive
    PROVE  ClientInv'
<1> DEFINE e == Head(cli.queue)
<1>1. cli.queue # <<>> /\ UNCHANGED connected
  BY DEF DispatchSetConnection, DispatchConnect, DispatchRead, DispatchWait,
         DispatchKeepalive, Dispatchable
<1>2. e.op \in {"set_connection", "connect", "header", "data", "wait", "start_keepalive"}
  BY DEF DispatchSetConnection, DispatchConnect, DispatchRead, DispatchWait,
         DispatchKeepalive, Dispatchable, ReadKind
<1>3. /\ Popped \in ClientState /\ e \in Completion
      /\ SameConnection(cli, Popped)
      /\ StatusIs(Popped) /\ Tells(connected, Popped)
      /\ e # Event => Steady(Popped)
      /\ e.op \notin ReadKind => Hears(Popped)
      /\ e # Done("wait", "ok") /\ e # Done("start_keepalive", "ok") => Keeps(Popped)
  BY <1>1, PoppedEffect
<1> HIDE DEF e
<1>4. e # Event /\ Steady(Popped)
  BY <1>2, <1>3, CompletionKinds
<1>5. SUFFICES Good(Popped, cli')
  BY <1>1, <1>3, <1>5, GoodInv
<1>6. CASE DispatchSetConnection
  <2>1. e.op = "set_connection" /\ cli' = set_connection(Popped, e.arg)
    BY <1>6 DEF DispatchSetConnection, Dispatchable, e
  <2>2. Live(Popped)
    BY <1>3, <1>4, <2>1, CompletionKinds DEF Live, ReadKind
  <2>3. QED
    BY <1>3, <2>1, <2>2, SetConnectionGood
<1>7. CASE DispatchConnect
  <2>1. e.op = "connect" /\ cli' = connect_handler(Popped, e.arg, FALSE)
    BY <1>7 DEF DispatchConnect, Dispatchable, e
  <2>2. Live(Popped) /\ e.arg # "ok"
    BY <1>3, <1>4, <2>1, CompletionKinds DEF Live, ReadKind
  <2>3. QED
    BY <1>3, <1>4, <2>1, <2>2, ConnectHandlerGood
<1>8. CASE DispatchRead
  <2>1. PICK content \in Contents(Popped, e) :
           e.op \in ReadKind /\ cli' = read_handler(Popped, e.op, content)
    BY <1>8 DEF DispatchRead, Dispatchable, e
  <2>2. Keeps(Popped)
    BY <1>3, <2>1, CompletionKinds DEF ReadKind
  <2>3. QED
    BY <1>3, <1>4, <2>1, <2>2, ReadHandlerGood
<1>9. CASE DispatchWait
  <2>1. PICK sent \in WriteOutcomes(cli) :
           e.op = "wait" /\ cli' = wait_handler(Popped, e.arg, sent)
    BY <1>9 DEF DispatchWait, Dispatchable, e
  <2>2. Hears(Popped) /\ (e.arg # "ok" => Keeps(Popped))
    BY <1>3, <2>1, CompletionKinds DEF ReadKind
  <2>3. sent \in BOOLEAN /\ (sent => Popped.socket \in {"connecting", "established"})
    <3>1. cli.socket \in SocketStatus
      BY StateType DEF ClientInv
    <3>2. QED
      BY <1>3, <2>1, <3>1 DEF WriteOutcomes, SocketStatus, SameConnection
  <2>4. QED
    BY <1>3, <1>4, <2>1, <2>2, <2>3, WaitHandlerGood
<1>10. CASE DispatchKeepalive
  <2>1. e.op = "start_keepalive" /\ cli' = start_keepalive(Popped)
    BY <1>10 DEF DispatchKeepalive, Dispatchable, e
  <2>2. Hears(Popped)
    BY <1>3, <2>1 DEF ReadKind
  <2> DEFINE t == start_keepalive(Popped)
  <2>3. t \in ClientState /\ Live(t) /\ SameConnection(Popped, t)
    BY <1>3, <1>4, <2>2, StartKeepaliveEffect, StartKeepaliveSteady DEF Live
  <2> HIDE DEF t
  <2>4. \A u \in BOOLEAN : Tells(u, Popped) => Tells(u, t)
    BY <2>3, SameTells DEF SameConnection
  <2>5. QED
    BY <2>1, <2>3, <2>4 DEF Good, t
<1>11. QED
  BY <1>6, <1>7, <1>8, <1>9, <1>10

LEMMA DispatchEventInv ==
    ASSUME ClientInv, DispatchEvent
    PROVE  ClientInv'
<1> DEFINE e == Head(cli.queue)
           s == Performed(Popped)
           first == Head(Completed(Popped))
<1>1. cli.queue # <<>> /\ UNCHANGED connected /\ e.op = "event"
  BY DEF DispatchEvent, Dispatchable
<1>2. e = Event
  BY <1>1, PoppedEffect, CompletionKinds
<1>3. /\ Popped \in ClientState /\ SameConnection(cli, Popped)
      /\ Popped.timer = cli.timer
      /\ Popped.reads = cli.reads /\ Popped.inbox = cli.inbox
      /\ StatusIs(Popped) /\ Tells(connected, Popped) /\ Keeps(Popped)
      /\ Events(Popped.queue) = {}
      /\ ConnectDecided(Popped) \/ (Popped.reads # <<>> /\ Popped.inbox # <<>>)
  <2>1. e # Done("wait", "ok") /\ e # Done("start_keepalive", "ok")
    BY <1>2 DEF Event, Done
  <2>2. QED
    BY <1>1, <1>2, <2>1, PoppedEffect
<1>4. /\ s \in ClientState /\ Events(s.queue) = {}
      /\ Range(Popped.queue) \subseteq Range(s.queue)
      /\ s.socket = Popped.socket /\ s.timer = Popped.timer /\ s.port = Popped.port
      /\ s.connection_status = Popped.connection_status
      /\ s.connecting = (Popped.connecting /\ ~ConnectDecided(Popped))
  BY <1>3, PerformedEffect
<1>5. /\ ConnectDecided(Popped) =>
            first = Done("connect", IF Popped.socket = "established" THEN "ok" ELSE "error")
      /\ ~ConnectDecided(Popped) => first.op \in ReadKind
  BY <1>3, CompletedEffect
<1>6. \/ /\ first.op = "connect"
         /\ \E sent \in WriteOutcomes(cli) : cli' = connect_handler(s, first.arg, sent)
      \/ /\ first.op # "connect"
         /\ \E content \in Contents(s, first) : cli' = read_handler(s, first.op, content)
  BY DEF DispatchEvent
<1>7. cli \in ClientState /\ Steady(cli)
  BY DEF ClientInv, Live
<1> HIDE DEF s, first, e
<1>8. Tells(connected, s)
  BY <1>3, <1>4, SameTells
<1>9. Steady(s)
  <2>1. s.socket # "closed"
    BY <1>3, <1>4, <1>7 DEF Steady, ClosedIs, ConnectDecided, SameConnection
  <2>2. ConnectingIs(s)
    BY <1>3, <1>4, <1>7 DEF Steady, ConnectingIs, ConnectDecided, SameConnection
  <2>3. QED
    BY <1>4, <2>1, <2>2 DEF Steady, ClosedIs, EventsOnce, EventsDue
<1>10. SUFFICES Good(s, cli')
  BY <1>1, <1>8, <1>10, GoodInv
<1>11. CASE ConnectDecided(Popped)
  <2>1. first.op = "connect"
        /\ first.arg = IF Popped.socket = "established" THEN "ok" ELSE "error"
    BY <1>5, <1>11 DEF Done
  <2>2. PICK sent \in WriteOutcomes(cli) : cli' = connect_handler(s, first.arg, sent)
    BY <1>6, <2>1
  <2>3. sent \in BOOLEAN
    BY <1>7, <2>2, StateType DEF WriteOutcomes, SocketStatus
  <2>4. ~s.connecting /\ ~s.connection_status
    BY <1>3, <1>4, <1>11 DEF StatusIs, ConnectDecided
  <2>5. CASE Popped.socket = "established"
    BY <1>4, <1>9, <2>1, <2>2, <2>3, <2>4, <2>5, ConnectHandlerGood
  <2>6. CASE Popped.socket # "established"
    <3>1. StatusIs(s) /\ Hears(s) /\ Keeps(s)
      BY <1>4, <2>4, <2>6 DEF StatusIs, Hears, Keeps
    <3>2. Live(s) /\ first.arg # "ok"
      BY <1>9, <2>1, <2>6, <3>1 DEF Live
    <3>3. QED
      BY <1>4, <1>9, <2>2, <2>3, <3>2, ConnectHandlerGood
  <2>7. QED
    BY <2>5, <2>6
<1>12. CASE ~ConnectDecided(Popped)
  <2>1. first.op \in ReadKind
    BY <1>5, <1>12
  <2>2. PICK content \in Contents(s, first) : cli' = read_handler(s, first.op, content)
    BY <1>6, <2>1 DEF ReadKind
  <2>3. StatusIs(s)
    BY <1>3, <1>4, <1>12 DEF StatusIs
  <2>4. Keeps(s)
    BY <1>3, <1>4 DEF Keeps
  <2>5. QED
    BY <1>4, <1>9, <2>1, <2>2, <2>3, <2>4, ReadHandlerGood
<1>13. QED
  BY <1>11, <1>12

-----------------------------------------------------------------------------
(* The steps of the reactor, the server and the user interface.            *)

LEMMA QueuedInv ==
    ASSUME ClientInv, NEW e \in Completion, e # Event,
           cli' = [cli EXCEPT !.queue = Append(@, e)], UNCHANGED connected
    PROVE  ClientInv'
<1> DEFINE q == Append(cli.queue, e)
<1>1. cli \in ClientState /\ Live(cli)
  BY DEF ClientInv
<1>2. q \in Seq(Completion) /\ Grown(cli.queue, q)
  BY <1>1, StateType, GrownByAppend
<1>3. cli' = [cli EXCEPT !.queue = q]
  OBVIOUS
<1> HIDE DEF q
<1>4. /\ cli' \in ClientState /\ cli'.queue = q /\ cli'.timer = cli.timer
      /\ SameConnection(cli, cli') /\ cli'.reads = cli.reads /\ cli'.inbox = cli.inbox
  BY <1>1, <1>2, <1>3 DEF ClientState, SameConnection
<1> DEFINE t == cli'
<1> HIDE DEF t
<1>5. Good(cli, t)
  <2>1. t \in ClientState /\ t.timer = cli.timer /\ SameConnection(cli, t)
        /\ t.reads = cli.reads /\ t.inbox = cli.inbox /\ Grown(cli.queue, t.queue)
    BY <1>2, <1>4 DEF t
  <2>2. QED
    BY <1>1, <2>1, GrownSteady DEF Good, Live
<1>6. QED
  BY <1>5, GoodInv DEF t

LEMMA ReadyInv ==
    ASSUME ClientInv, Ready
    PROVE  ClientInv'
<1> DEFINE q == Append(cli.queue, Event)
<1>1. cli \in ClientState /\ Live(cli) /\ Steady(cli) /\ cli.queue \in Seq(Completion)
  BY StateType DEF ClientInv, Live
<1>2. /\ q \in Seq(Completion) /\ DOMAIN q = 1..(Len(cli.queue) + 1)
      /\ Len(cli.queue) \in Nat /\ DOMAIN cli.queue = 1..Len(cli.queue)
      /\ \A i \in 1..Len(cli.queue) : q[i] = cli.queue[i]
  BY <1>1, OtherDoneType
<1>3. /\ cli' = [cli EXCEPT !.queue = q] /\ UNCHANGED connected
      /\ Event \notin Range(cli.queue)
      /\ ConnectDecided(cli) \/ (cli.reads # <<>> /\ cli.inbox # <<>>)
  BY DEF Ready
<1> HIDE DEF q
<1>4. Range(cli.queue) \subseteq Range(q) /\ \A i \in Events(q) : i = Len(cli.queue) + 1
  BY <1>2, <1>3 DEF Range, Events
<1>5. /\ cli' \in ClientState /\ cli'.queue = q /\ cli'.timer = cli.timer
      /\ SameConnection(cli, cli') /\ cli'.reads = cli.reads /\ cli'.inbox = cli.inbox
  BY <1>1, <1>2, <1>3 DEF ClientState, SameConnection
<1> DEFINE t == cli'
<1> HIDE DEF t
<1>6. EventsOnce(t) /\ EventsDue(t)
  BY <1>3, <1>4, <1>5 DEF EventsOnce, EventsDue, ConnectDecided, SameConnection, t
<1>7. ConnectingIs(t) /\ ClosedIs(t) /\ StatusIs(t)
  BY <1>1, <1>5 DEF Live, Steady, ConnectingIs, ClosedIs, StatusIs, SameConnection, t
<1>8. Hears(t) /\ Keeps(t)
  BY <1>1, <1>4, <1>5 DEF Live, Hears, Keeps, SameConnection, t
<1>9. \A u \in BOOLEAN : Tells(u, cli) => Tells(u, t)
  BY <1>5, SameTells DEF SameConnection, t
<1>10. Good(cli, cli')
  BY <1>5, <1>6, <1>7, <1>8, <1>9 DEF Good, Live, Steady, t
<1>11. QED
  BY <1>3, <1>10, GoodInv

LEMMA TimerInv ==
    ASSUME ClientInv, Elapse \/ TimerExpires
    PROVE  ClientInv'
<1> DEFINE q == Append(cli.queue, Done("wait", "ok"))
<1>1. cli \in ClientState /\ Live(cli) /\ cli.queue \in Seq(Completion)
  BY StateType DEF ClientInv
<1>2. q \in Seq(Completion) /\ Grown(cli.queue, q) /\ Done("wait", "ok") \in Range(q)
  BY <1>1, OtherDoneType, GrownByAppend
<1>3. /\ UNCHANGED connected
      /\ \/ cli' = [cli EXCEPT !.timer = "due"]
         \/ cli' = [cli EXCEPT !.timer = "idle", !.queue = q]
  BY DEF Elapse, TimerExpires
<1> HIDE DEF q
<1>4. /\ cli' \in ClientState
      /\ SameConnection(cli, cli') /\ cli'.reads = cli.reads /\ cli'.inbox = cli.inbox
      /\ \/ cli'.timer = "due" /\ cli'.queue = cli.queue
         \/ cli'.queue = q
  BY <1>1, <1>2, <1>3 DEF ClientState, SameConnection
<1> DEFINE t == cli'
<1> HIDE DEF t
<1>5. t \in ClientState /\ SameConnection(cli, t) /\ t.reads = cli.reads
      /\ t.inbox = cli.inbox /\ Grown(cli.queue, t.queue)
  BY <1>2, <1>4 DEF Grown, t
<1>6. Steady(t) /\ StatusIs(t) /\ Hears(t) /\ \A u \in BOOLEAN : Tells(u, cli) => Tells(u, t)
  BY <1>1, <1>5, GrownSteady DEF Live
<1>7. Keeps(t)
  BY <1>2, <1>4 DEF Keeps, t
<1>8. Good(cli, cli')
  BY <1>5, <1>6, <1>7 DEF Good, Live, t
<1>9. QED
  BY <1>3, <1>8, GoodInv

\* The connect is decided, or more is received on the socket.
LEMMA ReceivedInv ==
    ASSUME ClientInv,
           Established \/ Refused \/ ServerSends \/ ServerCloses \/ ServerVanishes
    PROVE  ClientInv'
<1>1. cli \in ClientState /\ Live(cli) /\ Steady(cli) /\ cli.inbox \in Seq(Item)
  BY StateType DEF ClientInv, Live
<1>2. cli.socket \in SocketStatus /\ cli.server \in ServerStatus
  BY <1>1, StateType
<1> DEFINE t == cli'
<1>3. ASSUME NEW socket \in SocketStatus, NEW b \in Seq(Item), NEW v \in ServerStatus,
             t = [cli EXCEPT !.socket = socket, !.inbox = b, !.server = v],
             \/ cli.socket = "connecting" /\ socket \in {"established", "refused"}
             \/ cli.socket = "established" /\ socket = cli.socket,
             cli.inbox # <<>> => b # <<>>
      PROVE  Good(cli, t)
  <2> HIDE DEF t
  <2>1. /\ t \in ClientState /\ t.socket = socket /\ t.inbox = b
        /\ t.connecting = cli.connecting /\ t.reads = cli.reads
        /\ t.connection_status = cli.connection_status /\ t.port = cli.port
        /\ t.timer = cli.timer /\ t.queue = cli.queue
    BY <1>1, <1>3 DEF ClientState
  <2>2. ConnectingIs(t) /\ ClosedIs(t) /\ StatusIs(t)
    BY <1>1, <1>3, <2>1 DEF Live, Steady, ConnectingIs, ClosedIs, StatusIs
  <2>3. EventsOnce(t) /\ EventsDue(t)
    BY <1>1, <1>3, <2>1 DEF Steady, EventsOnce, EventsDue, ConnectDecided
  <2>4. Hears(t) /\ Keeps(t)
    BY <1>1, <2>1 DEF Live, Hears, Keeps
  <2>5. \A u \in BOOLEAN : Tells(u, cli) => Tells(u, t)
    BY <2>1, SameTells
  <2>6. QED
    BY <2>1, <2>2, <2>3, <2>4, <2>5 DEF Good, Live, Steady
<1>4. /\ <<"eof">> \in Seq(Item) /\ <<"eof">> # <<>>
      /\ \A m \in Item : Append(cli.inbox, m) \in Seq(Item) /\ Append(cli.inbox, m) # <<>>
      /\ "image" \in Item /\ "payload" \in Item /\ "eof" \in Item
  BY <1>1 DEF Item
<1>5. Good(cli, t)
  <2>1. CASE Established
    <3>1. t = [cli EXCEPT !.socket = "established", !.inbox = cli.inbox, !.server = cli.server]
      BY <1>1, <2>1 DEF Established, ClientState
    <3> HIDE DEF t
    <3>2. QED
      BY <1>1, <1>2, <1>3, <2>1, <3>1 DEF Established, SocketStatus
  <2>2. CASE Refused
    <3>1. t = [cli EXCEPT !.socket = "refused", !.inbox = <<"eof">>, !.server = cli.server]
      BY <1>1, <2>2 DEF Refused, ClientState
    <3> HIDE DEF t
    <3>2. QED
      BY <1>1, <1>2, <1>3, <1>4, <2>2, <3>1 DEF Refused, SocketStatus
  <2>3. CASE ServerSends
    <3> DEFINE m == IF cli.server = "up" THEN "image" ELSE "payload"
               b == Append(cli.inbox, m)
               v == IF cli.server = "up" THEN "sending" ELSE "up"
    <3>1. t = [cli EXCEPT !.socket = cli.socket, !.inbox = b, !.server = v]
      BY <1>1, <2>3 DEF ServerSends, ClientState
    <3>2. b \in Seq(Item) /\ b # <<>> /\ v \in ServerStatus /\ cli.socket = "established"
      BY <1>4, <2>3 DEF ServerSends, ServerStatus
    <3> HIDE DEF t, b, v
    <3>3. QED
      BY <1>2, <1>3, <3>1, <3>2
  <2>4. CASE ServerCloses
    <3> DEFINE b == Append(cli.inbox, "eof")
    <3>1. t = [cli EXCEPT !.socket = cli.socket, !.inbox = b, !.server = "closed"]
      BY <1>1, <2>4 DEF ServerCloses, ClientState
    <3>2. /\ b \in Seq(Item) /\ b # <<>> /\ "closed" \in ServerStatus
          /\ cli.socket = "established"
      BY <1>4, <2>4 DEF ServerCloses, ServerStatus
    <3> HIDE DEF t, b
    <3>3. QED
      BY <1>2, <1>3, <3>1, <3>2
  <2>5. CASE ServerVanishes
    <3>1. t = [cli EXCEPT !.socket = cli.socket, !.inbox = cli.inbox, !.server = "gone"]
      BY <1>1, <2>5 DEF ServerVanishes, ClientState
    <3>2. "gone" \in ServerStatus /\ cli.socket = "established"
      BY <2>5 DEF ServerVanishes, ServerStatus
    <3> HIDE DEF t
    <3>3. QED
      BY <1>1, <1>2, <1>3, <3>1, <3>2
  <2>6. QED
    BY <2>1, <2>2, <2>3, <2>4, <2>5
<1>6. UNCHANGED connected
  BY DEF Established, Refused, ServerSends, ServerCloses, ServerVanishes
<1>7. QED
  BY <1>5, <1>6, GoodInv

LEMMA StatusHeardInv ==
    ASSUME ClientInv, StatusHeard
    PROVE  ClientInv'
<1> DEFINE t == cli'
           p == Tail(cli.port)
           n == Len(cli.port)
<1>1. cli \in ClientState /\ Live(cli) /\ cli.port \in Seq(BOOLEAN) /\ Tells(connected, cli)
  BY StateType DEF ClientInv
<1>2. /\ cli.port # <<>> /\ connected' = cli.port[1]
      /\ t = [cli EXCEPT !.port = p]
  BY <1>1 DEF StatusHeard
<1>3. /\ n \in Nat \ {0} /\ p \in Seq(BOOLEAN) /\ Len(p) = n - 1
      /\ (p = <<>> <=> n = 1) /\ cli.port[1] \in BOOLEAN
      /\ \A i \in 1..(n - 1) : p[i] = cli.port[i + 1]
  <2>1. ASSUME NEW r \in Seq(BOOLEAN), r # <<>>
        PROVE  /\ Len(r) \in Nat \ {0} /\ Tail(r) \in Seq(BOOLEAN) /\ Len(Tail(r)) = Len(r) - 1
               /\ (Tail(r) = <<>> <=> Len(r) = 1) /\ r[1] \in BOOLEAN
               /\ \A i \in 1..(Len(r) - 1) : Tail(r)[i] = r[i + 1]
    <3>1. Len(Tail(r)) = Len(r) - 1 /\ Tail(r) \in Seq(BOOLEAN) /\ Len(r) \in Nat \ {0}
      BY <2>1
    <3>2. Tail(r) = <<>> <=> Len(Tail(r)) = 0
      BY <3>1
    <3>3. r[1] \in BOOLEAN
      BY <2>1, <3>1
    <3>4. \A i \in 1..(Len(r) - 1) : Tail(r)[i] = r[i + 1]
      BY <2>1
    <3>5. QED
      BY <3>1, <3>2, <3>3, <3>4
  <2>2. QED
    BY <1>1, <1>2, <2>1
<1> HIDE DEF t, p
<1>4. /\ t \in ClientState /\ t.port = p
      /\ t.socket = cli.socket /\ t.connecting = cli.connecting
      /\ t.connection_status = cli.connection_status
      /\ t.reads = cli.reads /\ t.inbox = cli.inbox
      /\ t.timer = cli.timer /\ t.queue = cli.queue
  BY <1>1, <1>2, <1>3 DEF ClientState
<1>5. Live(t)
  BY <1>1, <1>4 DEF Live, Steady, StatusIs, ConnectingIs, ClosedIs, EventsOnce, EventsDue,
     ConnectDecided, Hears, Keeps
<1> DEFINE last == cli.port[n]
<1>6. last = cli.connection_status /\ \A i \in 1..(n - 1) : cli.port[i] # cli.port[i + 1]
  BY <1>1, <1>2 DEF Tells
<1>7. p = <<>> => connected' = t.connection_status
  BY <1>2, <1>3, <1>4, <1>6
<1> HIDE DEF n
<1>8. p # <<>> => connected' # p[1] /\ p[Len(p)] = t.connection_status
  <2> HAVE p # <<>>
  <2>1. 1 \in 1..(n - 1) /\ Len(p) = n - 1 /\ n - 1 \in 1..(n - 1) /\ (n - 1) + 1 = n
    BY <1>3
  <2>2. p[1] = cli.port[1 + 1] /\ cli.port[1] # cli.port[1 + 1]
    BY <1>3, <1>6, <2>1
  <2>3. p[n - 1] = cli.port[n]
    BY <1>3, <2>1
  <2>4. QED
    BY <1>2, <1>4, <1>6, <2>1, <2>2, <2>3
<1>9. ASSUME NEW i \in 1..(Len(p) - 1)
      PROVE  p[i] # p[i + 1]
  <2>1. i \in 1..(n - 1) /\ i + 1 \in 1..(n - 1)
    BY <1>3
  <2>2. QED
    BY <1>3, <1>6, <2>1
<1>10. Tells(connected', t)
  BY <1>4, <1>7, <1>8, <1>9 DEF Tells
<1>11. connected' \in BOOLEAN
  BY <1>2, <1>3
<1>12. cli' \in ClientState /\ Live(cli') /\ Tells(connected', cli')
  BY <1>4, <1>5, <1>10 DEF t
<1>13. QED
  BY <1>11, <1>12 DEF ClientInv, Live, Steady, StatusIs, ConnectingIs, ClosedIs, EventsOnce,
     EventsDue, Events, ConnectDecided, Hears, Keeps, Tells

-----------------------------------------------------------------------------
(* The theorems.                                                           *)

LEMMA InitInv == Init => ClientInv
<1> SUFFICES ASSUME Init PROVE ClientInv
  OBVIOUS
<1>1. cli = [socket |-> "closed", connecting |-> FALSE, connection_status |-> FALSE,
             timer |-> "idle", reads |-> <<>>, inbox |-> <<>>, server |-> "up",
             queue |-> <<>>, port |-> <<>>]
      /\ connected = FALSE
  BY DEF Init
<1>2. cli \in ClientState
  BY <1>1 DEF ClientState, SocketStatus, ServerStatus
<1>3. Events(cli.queue) = {}
  BY <1>1 DEF Events
<1>4. Live(cli)
  BY <1>1, <1>3 DEF Live, Steady, StatusIs, ConnectingIs, ClosedIs, EventsOnce, EventsDue,
     Hears, Keeps
<1>5. Tells(connected, cli)
  <2>1. cli.port = <<>> /\ Len(cli.port) = 0 /\ connected = cli.connection_status
    BY <1>1
  <2>2. QED
    BY <2>1 DEF Tells
<1>6. QED
  BY <1>1, <1>2, <1>4, <1>5 DEF ClientInv

LEMMA NextInv == ClientInv /\ [Next]_vars => ClientInv'
<1> SUFFICES ASSUME ClientInv, [Next]_vars PROVE ClientInv'
  OBVIOUS
<1>1. CASE Dispatch
  BY <1>1, DispatchOthersInv, DispatchEventInv DEF Dispatch
<1>2. CASE Reactor
  BY <1>2, ReadyInv, TimerInv, ReceivedInv DEF Reactor
<1>3. CASE Server
  BY <1>3, ReceivedInv DEF Server
<1>4. CASE Click
  <2>1. UNCHANGED connected /\ connected \in BOOLEAN
    BY <1>4 DEF Click, ClientInv
  <2> DEFINE e == Done("set_connection", ~connected)
  <2>2. e \in Completion /\ e # Event
    BY <2>1 DEF Completion, Done, Event
  <2>3. cli' = [cli EXCEPT !.queue = Append(@, e)]
    BY <1>4 DEF Click, PostSetConnection
  <2> HIDE DEF e
  <2>4. QED
    BY <2>1, <2>2, <2>3, QueuedInv
<1>5. CASE StatusHeard
  BY <1>5, StatusHeardInv
<1>6. CASE UNCHANGED vars
  BY <1>6 DEF vars, ClientInv, Live, Steady, StatusIs, ConnectingIs, ClosedIs, EventsOnce,
     EventsDue, Events, ConnectDecided, Hears, Keeps, Tells
<1>7. QED
  BY <1>1, <1>2, <1>3, <1>4, <1>5, <1>6 DEF Next

LEMMA ClientInvAlways == Spec => []ClientInv
BY InitInv, NextInv, PTL DEF Spec

\* What is pending or received belongs to a socket that is open, in every order
\* in which the two threads, the reactor and the server take their steps.
THEOREM ClientTypeCorrect == Spec => []ClientTypeOK
<1>1. ClientInv => ClientTypeOK
  BY DEF ClientInv, ClientTypeOK, Live, Steady, ClosedIs
<1>2. QED
  BY <1>1, ClientInvAlways, PTL

\* The status that the callback has reported is that of the socket
\* (updated_connection_status is called wherever the socket changes).
THEOREM StatusIsTrue == Spec => []StatusTrue
<1>1. ClientInv => StatusTrue
  BY DEF ClientInv, StatusTrue, Live, StatusIs
<1>2. QED
  BY <1>1, ClientInvAlways, PTL

\* A connected client has a read outstanding, so it hears the end of the
\* connection: every read handler starts the next read or resets.
THEOREM ClientAlwaysHears == Spec => []ClientHears
<1>1. ClientInv => ClientHears
  BY DEF ClientInv, ClientHears, Live, Hears
<1>2. QED
  BY <1>1, ClientInvAlways, PTL

\* A connected client never stops sending KEEP_ALIVE: its timer runs, has expired,
\* or the posted start_keepalive is on its way, whatever old waits are queued.
THEOREM AlwaysKeepsAlive == Spec => []KeepsAlive
<1>1. ClientInv => KeepsAlive
  BY DEF ClientInv, KeepsAlive, Live, Keeps
<1>2. QED
  BY <1>1, ClientInvAlways, PTL

\* The user interface is told every change of the status and nothing else: what it
\* shows and the messages on their way alternate and end in the client's status.
THEOREM StatusIsTold == Spec => []StatusTold
<1>1. ASSUME ClientInv PROVE StatusTold
  <2> DEFINE p == cli.port
             shown == <<connected>> \o p
  <2>1. /\ p \in Seq(BOOLEAN) /\ connected \in BOOLEAN
        /\ (p = <<>> => connected = cli.connection_status)
        /\ (p # <<>> => connected # p[1] /\ p[Len(p)] = cli.connection_status)
        /\ \A i \in 1..(Len(p) - 1) : p[i] # p[i + 1]
    BY <1>1, StateType DEF ClientInv, Tells
  <2> HIDE DEF p
  <2>2. /\ Len(p) \in Nat /\ DOMAIN p = 1..Len(p) /\ (p = <<>> <=> Len(p) = 0)
        /\ Len(shown) = Len(p) + 1 /\ shown[1] = connected
        /\ \A i \in 1..Len(p) : shown[i + 1] = p[i]
    BY <2>1
  <2> HIDE DEF shown
  <2>3. Last(shown) = cli.connection_status
    <3>1. Last(shown) = shown[Len(p) + 1]
      BY <2>2 DEF Last
    <3>2. CASE p = <<>>
      BY <2>1, <2>2, <3>1, <3>2
    <3>3. CASE p # <<>>
      BY <2>1, <2>2, <3>1, <3>3
    <3>4. QED
      BY <3>2, <3>3
  <2>4. ASSUME NEW i \in DOMAIN p
        PROVE  shown[i] # shown[i + 1]
    <3>1. i \in 1..Len(p) /\ shown[i + 1] = p[i]
      BY <2>2
    <3>2. CASE i = 1
      BY <2>1, <2>2, <3>1, <3>2
    <3>3. CASE i # 1
      <4>1. i - 1 \in 1..(Len(p) - 1) /\ i - 1 \in 1..Len(p) /\ (i - 1) + 1 = i
        BY <2>2, <3>1, <3>3
      <4>2. p[i - 1] # p[(i - 1) + 1] /\ shown[(i - 1) + 1] = p[i - 1]
        BY <2>1, <2>2, <4>1
      <4>3. QED
        BY <3>1, <4>1, <4>2
    <3>4. QED
      BY <3>2, <3>3
  <2>5. QED
    BY <2>3, <2>4 DEF StatusTold, shown, p
<1>2. QED
  BY <1>1, ClientInvAlways, PTL
=============================================================================
