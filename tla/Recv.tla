-------------------------------- MODULE Recv --------------------------------
(***************************************************************************)
(* What reads of a TCP socket return: the messages in their order, each as *)
(* a whole, and then the end of the stream, which can be read again and    *)
(* again. An inbox b is a sequence of messages that may end in "eof".      *)
(***************************************************************************)
EXTENDS Naturals, Sequences, Functions

\* What the i-th of some reads returns, and what n of them leave.
Received(b, i) == IF i <= Len(b) THEN b[i] ELSE "eof"

Remaining(b, n) ==
    IF n < Len(b) THEN SubSeq(b, n + 1, Len(b))
    ELSE IF "eof" \in Range(b) THEN <<"eof">> ELSE <<>>

\* How many of n reads can be completed now.
Answered(b, n) == IF "eof" \in Range(b) \/ n <= Len(b) THEN n ELSE Len(b)
=============================================================================
