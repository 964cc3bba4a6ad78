------------------------------ MODULE IPCamera ------------------------------
(***************************************************************************)
(* The RTSP session of src/servers/camsrv/ipcamera.cpp: IPCamera on the    *)
(* camera thread, whose event loop (live555) runs the handlers of the      *)
(* answers to DESCRIBE, SETUP and PLAY and of the end of a subsession.     *)
(*                                                                         *)
(* The RTSP server and the network are the environment. A request is       *)
(* answered at most once; the end of a stream (RTCP BYE, or a source that  *)
(* closes) travels apart from the answers and may come at any time.        *)
(*                                                                         *)
(* open_url makes its client with the createNew of the base class and the  *)
(* handlers cast it to ourRTSPClient (l.219, l.250): stream_client_state   *)
(* is memory behind the object, which nobody has constructed. A write to   *)
(* it overruns the heap and a read before the first write yields anything. *)
(***************************************************************************)
EXTENDS Naturals, FiniteSets

CONSTANT MaxSubs    \* bound: the subsessions of a session

ASSUME MaxSubsAssumption == MaxSubs \in Nat

VARIABLES
    process,    \* the camera thread, and with it the process
    session,    \* StreamClientState::session, and its number of subsessions
    subsession, \* where StreamClientState::iterator stands
    sinks,      \* the subsessions with a sink
    byes,       \* the subsessions whose RTCP instance has a BYE handler
    overrun,    \* StreamClientState has been written
    request,    \* the request sent last, to be answered
    teardown,   \* TEARDOWN has been sent
    answer,     \* the server's answer, on its way
    live,       \* the subsessions the server has set up and not ended
    ending      \* the subsessions whose end is on its way to the client

clientVars == <<process, session, subsession, sinks, byes, overrun, request, teardown>>
serverVars == <<answer, live, ending>>
vars == <<clientVars, serverVars>>

Subs == 1..MaxSubs
Unset == MaxSubs + 1    \* a session pointer nobody has written
Process == {"starting", "idle", "loop", "exited", "crashed"}
Request == {"none", "DESCRIBE", "SETUP", "PLAY"}
Answer == {"none", "ok", "error"}

TypeOK ==
    /\ process \in Process
    /\ session \in 0..Unset         \* 0: null, or a session of no subsessions
    /\ subsession \in 0..Unset
    /\ sinks \subseteq Subs /\ byes \subseteq Subs
    /\ overrun \in BOOLEAN /\ teardown \in BOOLEAN
    /\ request \in Request /\ answer \in Answer
    /\ live \subseteq Subs /\ ending \subseteq Subs

Init ==
    /\ process = "starting"
    /\ session = Unset /\ subsession = 0
    /\ sinks = {} /\ byes = {}
    /\ overrun = FALSE /\ teardown = FALSE
    /\ request = "none" /\ answer = "none"
    /\ live = {} /\ ending = {}

-----------------------------------------------------------------------------
(* The functions of IPCamera. Each one is what a handler does last.        *)

\* MUTANT of shutdown_stream: the server is told only of a session that is whole.
shutdownTellsWhole(ms, open, handlers) ==
    \/ /\ process' = "exited"
       /\ sinks' = {} /\ byes' = handlers \ open
       /\ teardown' = (open # {} /\ open = 1..ms)
    \/ /\ ms = Unset
       /\ process' = "crashed"
       /\ UNCHANGED <<sinks, byes, teardown>>

\* Closes the sinks that are open, tells the server if there is one, closes the
\* only client and with it the process (rtsp_client_count falls to 0). A session
\* pointer that was never written happens to be null or is followed anywhere.
shutdown_stream(ms, open, handlers) ==
    \/ /\ process' = "exited"
       /\ sinks' = {} /\ byes' = handlers \ open
       /\ teardown' = (open # {})
    \/ /\ ms = Unset
       /\ process' = "crashed"
       /\ UNCHANGED <<sinks, byes, teardown>>

\* MUTANT of setup_next_subsession: the end of the iteration is overlooked.
setupRunsPast(ms) ==
    \/ \E next \in (subsession + 1)..(ms + 1) :
          subsession' = next /\ request' = "SETUP"
    \/ /\ subsession' = Unset
       /\ request' = "PLAY"

\* The subsessions whose initiate() fails are passed over, then SETUP is sent for
\* the next one; when none is left, PLAY.
setup_next_subsession(ms) ==
    \/ \E next \in (subsession + 1)..ms :
          subsession' = next /\ request' = "SETUP"
    \/ /\ subsession' = Unset
       /\ request' = "PLAY"

\* MUTANT of subsession_after_playing: the loop over the others always returns.
afterPlayingReturns(i, handlers) ==
    /\ sinks' = sinks \ {i} /\ byes' = handlers
    /\ UNCHANGED <<process, teardown>>

\* The sink of i is closed; when it was the last one, everything is shut down.
subsession_after_playing(i, handlers) ==
    IF sinks \ {i} = {} THEN shutdown_stream(session, {}, handlers)
    ELSE /\ sinks' = sinks \ {i} /\ byes' = handlers
         /\ UNCHANGED <<process, teardown>>

-----------------------------------------------------------------------------
(* The camera thread.                                                      *)

\* The constructor: open_url, then the event loop, which nothing ever ends.
OpenUrl ==
    /\ process = "starting"
    /\ \/ process' = "idle" /\ UNCHANGED request
       \/ process' = "loop" /\ request' = "DESCRIBE"
    /\ UNCHANGED <<session, subsession, sinks, byes, overrun, teardown, serverVars>>

Answered(r) == process = "loop" /\ request = r /\ answer # "none"

\* An error shuts down with the session pointer still unwritten; so do, with it
\* written, a description that makes no session and one without subsessions.
ContinueAfterDescribe ==
    /\ Answered("DESCRIBE")
    /\ answer' = "none"
    /\ IF answer = "error"
       THEN /\ UNCHANGED <<session, subsession, overrun>> /\ request' = "none"
            /\ shutdown_stream(session', sinks, byes)
       ELSE /\ session' \in 0..MaxSubs
            /\ overrun' = TRUE
            /\ IF session' = 0
               THEN /\ shutdown_stream(session', sinks, byes)
                    /\ request' = "none" /\ UNCHANGED subsession
               ELSE /\ setup_next_subsession(session')
                    /\ UNCHANGED <<process, sinks, byes, teardown>>
    /\ UNCHANGED <<live, ending>>

\* MUTANT of ContinueAfterSetup: an error ends the set-up of the others.
ContinueAfterSetupOnSuccess ==
    /\ Answered("SETUP")
    /\ answer' = "none"
    /\ IF answer = "ok"
       THEN /\ sinks' = sinks \cup {subsession}
            /\ byes' \in {byes, byes \cup {subsession}}
            /\ setup_next_subsession(session)
       ELSE request' = "none" /\ UNCHANGED <<sinks, byes, subsession>>
    /\ UNCHANGED <<process, session, overrun, teardown, live, ending>>

\* A subsession that is set up gets a sink and, if it has an RTCP instance, a BYE
\* handler; one that is refused is passed over.
ContinueAfterSetup ==
    /\ Answered("SETUP")
    /\ answer' = "none"
    /\ IF answer = "ok"
       THEN /\ sinks' = sinks \cup {subsession}
            /\ byes' \in {byes, byes \cup {subsession}}
       ELSE UNCHANGED <<sinks, byes>>
    /\ setup_next_subsession(session)
    /\ UNCHANGED <<process, session, overrun, teardown, live, ending>>

\* `if (client != 0)` always holds, so whatever the answer is the stream is shut
\* down; the timer of line 438 is never set.
ContinueAfterPlay ==
    /\ Answered("PLAY")
    /\ answer' = "none" /\ request' = "none"
    /\ UNCHANGED <<session, subsession, overrun, live, ending>>
    /\ shutdown_stream(session, sinks, byes)

\* A BYE arrives. live555 calls the handler once; without one it is lost.
ByeArrives(i) ==
    /\ process = "loop"
    /\ i \in ending
    /\ ending' = ending \ {i}
    /\ UNCHANGED <<session, subsession, overrun, request, answer, live>>
    /\ IF i \in byes THEN subsession_after_playing(i, byes \ {i})
       ELSE UNCHANGED <<process, sinks, byes, teardown>>

\* The source of a subsession that has ended closes: the callback of startPlaying.
SourceCloses(i) ==
    /\ process = "loop"
    /\ i \in ending \cap sinks
    /\ UNCHANGED <<session, subsession, overrun, request, serverVars>>
    /\ subsession_after_playing(i, byes)

\* What the overrun of the heap may lead to at any time.
HeapCrash ==
    /\ process = "loop"
    /\ overrun
    /\ process' = "crashed"
    /\ UNCHANGED <<session, subsession, sinks, byes, overrun, request, teardown, serverVars>>

-----------------------------------------------------------------------------
(* The RTSP server.                                                        *)

\* The answer to the request, or the failure live555 reports when the server or
\* the network is gone.
ServerAnswers ==
    /\ process = "loop"
    /\ request # "none" /\ answer = "none"
    /\ answer' \in {"ok", "error"}
    /\ live' = IF request = "SETUP" /\ answer' = "ok" THEN live \cup {subsession} ELSE live
    /\ UNCHANGED <<ending, clientVars>>

\* The server ends the stream of a subsession; its BYE is under way.
ServerEnds(i) ==
    /\ process = "loop"
    /\ i \in live
    /\ live' = live \ {i} /\ ending' = ending \cup {i}
    /\ UNCHANGED <<answer, clientVars>>

-----------------------------------------------------------------------------
Handlers ==
    \/ ContinueAfterDescribe \/ ContinueAfterSetup \/ ContinueAfterPlay
    \/ \E i \in Subs : ByeArrives(i) \/ SourceCloses(i)

Next ==
    \/ OpenUrl \/ Handlers \/ HeapCrash
    \/ ServerAnswers \/ \E i \in Subs : ServerEnds(i)

Spec == Init /\ [][Next]_vars

\* The event loop handles what has arrived, and requests are answered in the end
\* (by the server, or with an error when it is gone). A server need not end a
\* stream.
FairSpec ==
    /\ Spec
    /\ WF_vars(ContinueAfterDescribe \/ ContinueAfterSetup \/ ContinueAfterPlay)
    /\ WF_vars(ServerAnswers)

-----------------------------------------------------------------------------
\* A server is not left streaming to a client that has gone: when the stream is
\* shut down, either TEARDOWN is sent or the server holds no subsession but one
\* whose SETUP is not yet handled, whatever ends of streams are under way.
\* (shutdown_stream, some_subsessions_were_active)
ServerToldOfEnd ==
    [][process = "loop" /\ process' = "exited" =>
         teardown' \/ \A i \in live : request = "SETUP" /\ i = subsession]_vars

\* "All subsessions' streams have now been closed, so shutdown the client"
\* (ipcamera.cpp:469): however the ends of the streams come in, a session does not
\* go on without any sink once it has had one.
NoSessionWithoutSinks ==
    [][sinks # {} /\ process' = "loop" => sinks' # {}]_vars

\* A subsession that cannot be initiated or is refused does not stop the others
\* from playing: the set-up always gets to PLAY, unless the session ends before.
\* (setup_next_subsession, continue_after_setup)
SetupLeadsToPlay ==
    process = "loop" /\ request = "SETUP" ~> request = "PLAY" \/ process # "loop"

\* A session that the server plays goes on: the result is looked at ("Started playing
\* session", ipcamera.cpp:442), and the stream shut down if "an unrecoverable error
\* occurred with this stream" (ipcamera.cpp:450).
PlayedSessionGoesOn ==
    [][ContinueAfterPlay /\ answer = "ok" /\ sinks # {} => process' = "loop"]_vars
=============================================================================
