---------------------------- MODULE MCCamStream ----------------------------
(* Small instances of CamStream for TLC.                                   *)
EXTENDS CamStream

\* Bound of the search for a stuck write: no client disconnects or vanishes, no
\* accept fails and the camera works.
Undisturbed ==
    /\ \A c \in Conns : peer[c] \in {"absent", "up"}
    /\ AcceptError \notin Queued
    /\ srv.process \in {"running", "blocked"}
=============================================================================
