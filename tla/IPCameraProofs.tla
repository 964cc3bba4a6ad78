--------------------------- MODULE IPCameraProofs ---------------------------
(***************************************************************************)
(* Theorems about the RTSP session of IPCamera, for any bound on the       *)
(* number of its subsessions.                                              *)
(***************************************************************************)
EXTENDS IPCamera, TLAPS

\* A subsession that the iteration has passed: all of the session once PLAY is sent.
Passed(i) == i < subsession

\* The subsession whose SETUP is granted and not yet handled.
Granted(i) == i = subsession /\ request = "SETUP" /\ answer = "ok"

\* Before the first SETUP nothing is set up anywhere.
NothingSetUp ==
    process = "starting" \/ (process = "loop" /\ request = "DESCRIBE") =>
        /\ sinks = {} /\ live = {} /\ ending = {}
        /\ subsession = 0

\* The requests walk through the session in its order.
InOrder ==
    process = "loop" =>
        /\ request \in {"SETUP", "PLAY"} => session \in Subs
        /\ request = "SETUP" => subsession \in 1..session
        /\ request = "PLAY" => subsession = Unset
        /\ request # "none"

\* What is set up on either side has been passed, or is about to be; the server
\* streams none that it has ended, and none that has been passed without a sink.
BothSides ==
    process = "loop" =>
        /\ \A i \in sinks : Passed(i)
        /\ \A i \in live \cup ending : Passed(i) \/ Granted(i)
        /\ \A i \in live : i \notin ending
        /\ \A i \in live : Passed(i) => i \in sinks

Ready == process = "starting" => request = "none" /\ answer = "none"

IInv == TypeOK /\ NothingSetUp /\ InOrder /\ BothSides /\ Ready

-----------------------------------------------------------------------------
(* The functions that several handlers call.                               *)

\* A shutdown closes the sinks, and the process is no longer in its loop.
LEMMA ShutdownEffect ==
    ASSUME NEW ms, NEW open \in SUBSET Subs, NEW handlers \in SUBSET Subs,
           process \in Process, sinks \subseteq Subs, byes \subseteq Subs,
           teardown \in BOOLEAN,
           shutdown_stream(ms, open, handlers)
    PROVE  /\ process' \in {"exited", "crashed"}
           /\ sinks' \subseteq Subs /\ byes' \subseteq Subs /\ teardown' \in BOOLEAN
           /\ process' = "exited" => teardown' = (open # {})
BY DEF shutdown_stream, Process

\* The next SETUP is for a later subsession of the session; without one comes PLAY.
LEMMA SetupEffect ==
    ASSUME NEW ms \in Subs, subsession \in Nat, setup_next_subsession(ms)
    PROVE  \/ /\ request' = "SETUP"
              /\ subsession' \in 1..ms /\ subsession < subsession'
           \/ request' = "PLAY" /\ subsession' = Unset
<1>1. ASSUME NEW next \in (subsession + 1)..ms, subsession' = next
      PROVE  subsession' \in 1..ms /\ subsession < subsession'
  BY <1>1, MaxSubsAssumption DEF Subs
<1>2. QED
  BY <1>1 DEF setup_next_subsession

\* The end of a subsession closes its sink, and with the last sink the session.
LEMMA AfterPlayingEffect ==
    ASSUME NEW i \in Subs, NEW handlers \in SUBSET Subs, TypeOK,
           subsession_after_playing(i, handlers)
    PROVE  /\ process' \in {process, "exited", "crashed"}
           /\ sinks' \subseteq Subs /\ byes' \subseteq Subs /\ teardown' \in BOOLEAN
           /\ process' = "loop" => sinks' = sinks \ {i} /\ sinks' # {}
           /\ process = "loop" /\ process' = "exited" => sinks \ {i} = {}
<1> USE DEF TypeOK
<1>1. CASE sinks \ {i} = {}
  BY <1>1, ShutdownEffect DEF subsession_after_playing
<1>2. CASE sinks \ {i} # {}
  BY <1>2 DEF subsession_after_playing
<1>3. QED
  BY <1>1, <1>2

-----------------------------------------------------------------------------
(* The invariant.                                                          *)

LEMMA InitReady == Init => IInv
<1> SUFFICES ASSUME Init PROVE IInv
  OBVIOUS
<1>1. Unset \in 0..Unset /\ 0 \in 0..Unset
  BY MaxSubsAssumption DEF Unset
<1>2. TypeOK
  BY <1>1 DEF Init, TypeOK, Process, Request, Answer
<1>3. QED
  BY <1>2 DEF Init, IInv, NothingSetUp, InOrder, BothSides, Ready

\* Outside the loop the invariant is about types only.
LEMMA Ended ==
    ASSUME TypeOK', process' \in {"idle", "exited", "crashed"}
    PROVE  IInv'
BY DEF IInv, NothingSetUp, InOrder, BothSides, Ready

LEMMA OpenUrlKeeps ==
    ASSUME IInv, OpenUrl
    PROVE  IInv'
<1> USE DEF OpenUrl, clientVars, serverVars
<1>1. TypeOK'
  BY DEF IInv, TypeOK, Process, Request, Unset, Subs
<1>2. CASE process' = "idle"
  BY <1>1, <1>2, Ended
<1>3. CASE process' = "loop"
  <2>1. NothingSetUp' /\ InOrder' /\ Ready'
    BY <1>3 DEF IInv, NothingSetUp, InOrder, Ready
  <2>2. BothSides'
    BY <1>3 DEF IInv, NothingSetUp, BothSides
  <2>3. QED
    BY <1>1, <2>1, <2>2 DEF IInv
<1>4. QED
  BY <1>2, <1>3

LEMMA DescribeKeeps ==
    ASSUME IInv, ContinueAfterDescribe
    PROVE  IInv'
<1>1. TypeOK /\ process = "loop" /\ request = "DESCRIBE" /\ subsession = 0
  BY DEF IInv, NothingSetUp, ContinueAfterDescribe, Answered
<1>2. sinks = {} /\ live = {} /\ ending = {}
  BY <1>1 DEF IInv, NothingSetUp
<1>3. MaxSubs \in Nat /\ 0 \in 0..Unset /\ 0..MaxSubs \subseteq 0..Unset
  BY MaxSubsAssumption DEF Unset
<1>4. CASE answer = "error" \/ session' = 0
  <2>1. shutdown_stream(session', sinks, byes)
    BY <1>4 DEF ContinueAfterDescribe
  <2>2. /\ process' \in {"exited", "crashed"}
        /\ sinks' \subseteq Subs /\ byes' \subseteq Subs /\ teardown' \in BOOLEAN
    BY <1>1, <2>1, ShutdownEffect DEF TypeOK
  <2>3. /\ session' \in 0..Unset /\ subsession' = subsession /\ request' = "none"
        /\ overrun' \in BOOLEAN
    BY <1>1, <1>3, <1>4 DEF ContinueAfterDescribe, TypeOK
  <2>4. TypeOK'
    BY <1>1, <1>3, <2>2, <2>3 DEF TypeOK, ContinueAfterDescribe, Process, Request, Answer
  <2>5. QED
    BY <2>2, <2>4, Ended
<1>5. CASE answer # "error" /\ session' # 0
  <2>1. session' \in Subs
    BY <1>5, MaxSubsAssumption DEF ContinueAfterDescribe, Subs
  <2>2. setup_next_subsession(session')
    BY <1>5 DEF ContinueAfterDescribe
  <2>3. \/ request' = "SETUP" /\ subsession' \in 1..session'
        \/ request' = "PLAY" /\ subsession' = Unset
    BY <1>1, <2>1, <2>2, SetupEffect
  <2>4. /\ answer' = "none" /\ overrun' = TRUE
        /\ UNCHANGED <<process, sinks, byes, teardown, live, ending>>
    BY <1>5 DEF ContinueAfterDescribe
  <2>5. session' \in 0..Unset /\ subsession' \in 0..Unset
    BY <2>1, <2>3, MaxSubsAssumption DEF Subs, Unset
  <2>6. TypeOK'
    BY <1>1, <2>3, <2>4, <2>5 DEF TypeOK, Request, Answer
  <2>7. NothingSetUp' /\ InOrder' /\ BothSides' /\ Ready'
    BY <1>1, <1>2, <2>1, <2>3, <2>4 DEF NothingSetUp, InOrder, BothSides, Ready
  <2>8. QED
    BY <2>6, <2>7 DEF IInv
<1>6. QED
  BY <1>4, <1>5

\* A subsession that is granted gets its sink as the iteration passes it.
LEMMA SetupKeeps ==
    ASSUME IInv, ContinueAfterSetup
    PROVE  IInv'
<1> USE DEF Passed, Granted
<1>1. TypeOK /\ process = "loop" /\ request = "SETUP" /\ answer # "none"
  BY DEF IInv, ContinueAfterSetup, Answered
<1>2. session \in Subs /\ subsession \in 1..session /\ subsession \in Subs
  BY <1>1, MaxSubsAssumption DEF IInv, InOrder, Subs
<1>3. setup_next_subsession(session)
  BY DEF ContinueAfterSetup
<1>4. \/ request' = "SETUP" /\ subsession' \in 1..session /\ subsession < subsession'
      \/ request' = "PLAY" /\ subsession' = Unset
  BY <1>2, <1>3, SetupEffect DEF Subs
<1>5. subsession < subsession' /\ subsession' \in 0..Unset
  BY <1>2, <1>4, MaxSubsAssumption DEF Subs, Unset
<1>6. /\ answer' = "none"
      /\ UNCHANGED <<process, session, overrun, teardown, live, ending>>
      /\ sinks' = IF answer = "ok" THEN sinks \cup {subsession} ELSE sinks
      /\ byes' \in {byes, byes \cup {subsession}}
  BY DEF ContinueAfterSetup
<1>7. TypeOK'
  BY <1>1, <1>2, <1>4, <1>5, <1>6 DEF TypeOK, Request, Answer
<1>8. NothingSetUp' /\ InOrder' /\ Ready'
  BY <1>1, <1>2, <1>4, <1>6 DEF NothingSetUp, InOrder, Ready
<1>9. BothSides'
  <2>1. BothSides /\ \A i \in Subs : i \in Nat
    BY DEF IInv, Subs
  <2>2. \A i \in Subs : i <= subsession => i < subsession'
    BY <1>2, <1>5, <2>1, MaxSubsAssumption DEF Subs, Unset
  <2>3. \A i \in sinks' : i \in Subs /\ i <= subsession
    BY <1>1, <1>2, <1>6, <2>1 DEF TypeOK, BothSides
  <2>4. \A i \in live \cup ending : i \in Subs /\ i <= subsession
    BY <1>1, <1>2, <2>1 DEF TypeOK, BothSides
  <2>5. \A i \in live : i \in sinks'
    BY <1>1, <1>6, <2>1 DEF BothSides
  <2>6. QED
    BY <1>1, <1>6, <2>1, <2>2, <2>3, <2>4, <2>5 DEF BothSides
<1>10. QED
  BY <1>7, <1>8, <1>9 DEF IInv

LEMMA PlayKeeps ==
    ASSUME IInv, ContinueAfterPlay
    PROVE  IInv'
<1>1. TypeOK
  BY DEF IInv
<1>2. shutdown_stream(session, sinks, byes)
  BY DEF ContinueAfterPlay
<1>3. /\ process' \in {"exited", "crashed"}
      /\ sinks' \subseteq Subs /\ byes' \subseteq Subs /\ teardown' \in BOOLEAN
  BY <1>1, <1>2, ShutdownEffect DEF TypeOK
<1>4. TypeOK'
  BY <1>1, <1>3 DEF ContinueAfterPlay, TypeOK, Process, Request, Answer
<1>5. QED
  BY <1>3, <1>4, Ended

\* The end of a subsession the server has ended, whichever way it comes in.
LEMMA EndKeeps ==
    ASSUME IInv, NEW i \in Subs, i \in ending, process = "loop",
           NEW handlers \in SUBSET Subs,
           subsession_after_playing(i, handlers),
           UNCHANGED <<session, subsession, overrun, request, answer, live>>,
           ending' \in {ending, ending \ {i}}
    PROVE  IInv'
<1>1. TypeOK
  BY DEF IInv
<1>2. /\ process' \in {"loop", "exited", "crashed"}
      /\ sinks' \subseteq Subs /\ byes' \subseteq Subs /\ teardown' \in BOOLEAN
      /\ process' = "loop" => sinks' = sinks \ {i} /\ sinks' # {}
  BY <1>1, AfterPlayingEffect
<1>3. TypeOK'
  BY <1>1, <1>2 DEF TypeOK, Process
<1>4. CASE process' = "loop"
  <2>1. sinks # {}
    BY <1>2, <1>4
  <2>2. NothingSetUp' /\ InOrder' /\ Ready'
    BY <1>4, <2>1 DEF IInv, NothingSetUp, InOrder, Ready
  <2>3. BothSides'
    BY <1>2, <1>4 DEF IInv, BothSides, Passed, Granted
  <2>4. QED
    BY <1>3, <2>2, <2>3 DEF IInv
<1>5. CASE process' # "loop"
  BY <1>2, <1>3, <1>5, Ended
<1>6. QED
  BY <1>4, <1>5

LEMMA ByeKeeps ==
    ASSUME IInv, NEW i \in Subs, ByeArrives(i)
    PROVE  IInv'
<1>1. CASE i \in byes
  <2>1. byes \ {i} \subseteq Subs
    BY DEF IInv, TypeOK
  <2>2. QED
    BY <1>1, <2>1, EndKeeps DEF ByeArrives
<1>2. CASE i \notin byes
  <2>1. TypeOK'
    BY <1>2 DEF IInv, TypeOK, ByeArrives
  <2>2. NothingSetUp' /\ InOrder' /\ BothSides' /\ Ready'
    BY <1>2 DEF IInv, NothingSetUp, InOrder, BothSides, Ready, ByeArrives, Passed, Granted
  <2>3. QED
    BY <2>1, <2>2 DEF IInv
<1>3. QED
  BY <1>1, <1>2

LEMMA SourceKeeps ==
    ASSUME IInv, NEW i \in Subs, SourceCloses(i)
    PROVE  IInv'
<1>1. byes \subseteq Subs
  BY DEF IInv, TypeOK
<1>2. QED
  BY <1>1, EndKeeps DEF SourceCloses, serverVars

LEMMA CrashKeeps ==
    ASSUME IInv, HeapCrash
    PROVE  IInv'
<1>1. TypeOK'
  BY DEF IInv, TypeOK, HeapCrash, serverVars, Process
<1>2. QED
  BY <1>1, Ended DEF HeapCrash

\* The server sets up only the subsession it is asked for, which it has neither set
\* up nor ended before.
LEMMA AnswerKeeps ==
    ASSUME IInv, ServerAnswers
    PROVE  IInv'
<1> USE DEF ServerAnswers, clientVars
<1>1. TypeOK /\ InOrder /\ BothSides
  BY DEF IInv
<1>2. request = "SETUP" => subsession \in Subs
  BY <1>1, MaxSubsAssumption DEF InOrder, Subs
<1>3. TypeOK'
  BY <1>1, <1>2 DEF TypeOK, Answer
<1>4. NothingSetUp' /\ InOrder' /\ Ready'
  BY DEF IInv, NothingSetUp, InOrder, Ready
<1>5. BothSides'
  <2>1. \A i \in live \cup ending : Passed(i)
    BY <1>1 DEF BothSides, Granted
  <2>2. subsession \notin ending
    BY <1>1, <2>1, MaxSubsAssumption DEF TypeOK, Passed, Unset
  <2>3. ~(subsession < subsession)
    BY <1>1, MaxSubsAssumption DEF TypeOK, Unset
  <2>4. QED
    BY <1>1, <2>1, <2>2, <2>3 DEF BothSides, Passed, Granted
<1>6. QED
  BY <1>3, <1>4, <1>5 DEF IInv

LEMMA ServerEndsKeeps ==
    ASSUME IInv, NEW i \in Subs, ServerEnds(i)
    PROVE  IInv'
<1> USE DEF ServerEnds, clientVars
<1>1. TypeOK'
  BY DEF IInv, TypeOK
<1>2. NothingSetUp' /\ InOrder' /\ BothSides' /\ Ready'
  BY DEF IInv, NothingSetUp, InOrder, BothSides, Ready, Passed, Granted
<1>3. QED
  BY <1>1, <1>2 DEF IInv

LEMMA StepKeeps == IInv /\ [Next]_vars => IInv'
<1> SUFFICES ASSUME IInv, [Next]_vars PROVE IInv'
  OBVIOUS
<1>1. CASE UNCHANGED vars
  BY <1>1 DEF vars, clientVars, serverVars, IInv, TypeOK, NothingSetUp, InOrder, BothSides,
              Ready, Passed, Granted
<1>2. CASE OpenUrl
  BY <1>2, OpenUrlKeeps
<1>3. CASE ContinueAfterDescribe \/ ContinueAfterSetup \/ ContinueAfterPlay
  BY <1>3, DescribeKeeps, SetupKeeps, PlayKeeps
<1>4. CASE \E i \in Subs : ByeArrives(i) \/ SourceCloses(i)
  BY <1>4, ByeKeeps, SourceKeeps
<1>5. CASE HeapCrash \/ ServerAnswers
  BY <1>5, CrashKeeps, AnswerKeeps
<1>6. CASE \E i \in Subs : ServerEnds(i)
  BY <1>6, ServerEndsKeeps
<1>7. QED
  BY <1>1, <1>2, <1>3, <1>4, <1>5, <1>6 DEF Next, Handlers

\* The requests of a session come in their order, from subsession to subsession, and
\* what the server streams has a sink. (setup_next_subsession, continue_after_*)
THEOREM SessionInOrder == Spec => []IInv
BY InitReady, StepKeeps, PTL DEF Spec

-----------------------------------------------------------------------------
(* What the runs check, for every number of subsessions.                   *)

\* The iteration never leaves the session, and every sink is one of it.
THEOREM TypeCorrect == Spec => []TypeOK
<1>1. IInv => TypeOK
  BY DEF IInv
<1>2. QED
  BY <1>1, SessionInOrder, PTL

\* Whatever ends of streams are under way, a stream that is shut down is torn down
\* with TEARDOWN, or the server streams nothing of it any more but the subsession
\* whose SETUP it has just granted. (shutdown_stream)
THEOREM NoneLeftStreaming == Spec => ServerToldOfEnd
<1> DEFINE Told == \A i \in live : request = "SETUP" /\ i = subsession
<1>1. ASSUME IInv, Next, process = "loop", process' = "exited"
      PROVE  teardown' \/ Told
  <2>1. TypeOK /\ BothSides
    BY <1>1 DEF IInv
  <2>2. sinks = {} => Told
    BY <1>1, <2>1 DEF BothSides, Granted
  <2>3. ASSUME NEW ms, NEW handlers \in SUBSET Subs, shutdown_stream(ms, sinks, handlers)
        PROVE  teardown' \/ Told
    BY <1>1, <2>1, <2>2, <2>3, ShutdownEffect DEF TypeOK
  <2>4. ASSUME NEW i \in ending, i \in Subs, NEW handlers \in SUBSET Subs,
               subsession_after_playing(i, handlers)
        PROVE  Told
    <3>1. sinks \ {i} = {}
      BY <1>1, <2>1, <2>4, AfterPlayingEffect
    <3>2. QED
      BY <1>1, <2>1, <2>4, <3>1 DEF BothSides, Granted
  <2>5. CASE ContinueAfterDescribe \/ ContinueAfterPlay
    BY <1>1, <2>1, <2>3, <2>5 DEF ContinueAfterDescribe, ContinueAfterPlay, TypeOK
  <2>6. CASE \E i \in Subs : ByeArrives(i) \/ SourceCloses(i)
    <3>1. PICK i \in Subs : ByeArrives(i) \/ SourceCloses(i)
      BY <2>6
    <3>2. i \in ending /\ \E handlers \in SUBSET Subs : subsession_after_playing(i, handlers)
      BY <1>1, <2>1, <3>1 DEF ByeArrives, SourceCloses, TypeOK
    <3>3. QED
      BY <2>4, <3>2
  <2>7. QED
    BY <1>1, <2>5, <2>6
       DEF Next, Handlers, OpenUrl, ContinueAfterSetup, HeapCrash, ServerAnswers,
           ServerEnds, clientVars
<1>2. IInv /\ [Next]_vars =>
        [process = "loop" /\ process' = "exited" => teardown' \/ Told]_vars
  BY <1>1
<1>3. QED
  BY <1>2, SessionInOrder, PTL DEF Spec, ServerToldOfEnd

\* However the ends of the streams come in, a session that has had a sink does not
\* go on without one. (subsession_after_playing)
THEOREM NoneWithoutSinks == Spec => NoSessionWithoutSinks
<1>1. ASSUME IInv, Next, sinks # {}, process' = "loop"
      PROVE  sinks' # {}
  <2>1. TypeOK /\ byes \subseteq Subs
    BY <1>1 DEF IInv, TypeOK
  <2>2. ASSUME NEW ms, NEW handlers \in SUBSET Subs, shutdown_stream(ms, sinks, handlers)
        PROVE  FALSE
    BY <1>1, <2>1, <2>2, ShutdownEffect DEF TypeOK
  <2>3. CASE ContinueAfterDescribe
    BY <1>1, <2>3 DEF IInv, NothingSetUp, ContinueAfterDescribe, Answered
  <2>4. CASE ContinueAfterPlay
    BY <2>1, <2>2, <2>4 DEF ContinueAfterPlay
  <2>5. CASE ContinueAfterSetup
    BY <1>1, <2>5 DEF ContinueAfterSetup
  <2>6. CASE \E i \in Subs : ByeArrives(i) \/ SourceCloses(i)
    BY <1>1, <2>1, <2>6, AfterPlayingEffect DEF ByeArrives, SourceCloses
  <2>7. QED
    BY <1>1, <2>3, <2>4, <2>5, <2>6
       DEF Next, Handlers, OpenUrl, HeapCrash, ServerAnswers, ServerEnds, clientVars
<1>2. IInv /\ [Next]_vars => [sinks # {} /\ process' = "loop" => sinks' # {}]_vars
  BY <1>1
<1>3. QED
  BY <1>2, SessionInOrder, PTL DEF Spec, NoSessionWithoutSinks
=============================================================================
