--------------------------- MODULE StreamService ---------------------------
(***************************************************************************)
(* What the camera server promises to its clients, without sockets, timers *)
(* or handlers: it serves one client at a time, it streams only while it   *)
(* serves one, and the stream is off when a client is admitted. From then  *)
(* on it takes a command to switch it. It does not have to be one of the   *)
(* client that is served: of a client served before, a command that was on *)
(* its way when it was replaced may still be obeyed. But then it is late,  *)
(* and a client that is not served any more can send no other.             *)
(***************************************************************************)
CONSTANTS Clients, Nobody

VARIABLES
    holder,     \* the client that is served
    former,     \* the clients that were served before
    asking,     \* the clients that a command is on its way of
    streaming,  \* whether frames are wanted from the camera
    running     \* the service has not broken down

svars == <<holder, former, asking, streaming, running>>

Init ==
    /\ holder = Nobody
    /\ former = {}
    /\ asking = {}
    /\ streaming = FALSE
    /\ running = TRUE

\* Commands are obeyed or lost.
NoneAsks == asking' \subseteq asking

\* The service of the holder ends, and its stream.
EndService ==
    /\ running
    /\ former' = (former \cup {holder}) \ {Nobody}
    /\ streaming' = FALSE
    /\ NoneAsks
    /\ UNCHANGED running

\* A client is served, in the place of the one before it if there is one.
Admit(c) == EndService /\ holder' = c

\* The client that is served is dropped.
Drop == EndService /\ holder' = Nobody

\* A client sends a command. One that was served before has no connection to send
\* it on.
Ask(c) ==
    /\ running
    /\ c \notin former
    /\ asking' = asking \cup {c}
    /\ UNCHANGED <<holder, former, streaming, running>>

\* A command of c switches the stream of the client that is served: of c, or of one
\* that came after it.
Command(c, on) ==
    /\ running
    /\ c \in asking
    /\ c \in former \cup {holder}
    /\ holder # Nobody
    /\ streaming' = on
    /\ NoneAsks
    /\ UNCHANGED <<holder, former, running>>

\* Commands that do not ask for the stream, or that are lost.
Forget ==
    /\ running
    /\ NoneAsks
    /\ UNCHANGED <<holder, former, streaming, running>>

BreakDown ==
    /\ running
    /\ running' = FALSE
    /\ NoneAsks
    /\ UNCHANGED <<holder, former>>

Next ==
    \/ \E c \in Clients : Admit(c) \/ Ask(c)
    \/ \E c \in Clients, on \in BOOLEAN : Command(c, on)
    \/ Drop \/ Forget \/ BreakDown

Spec == Init /\ [][Next]_svars
=============================================================================
