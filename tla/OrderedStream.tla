--------------------------- MODULE OrderedStream ---------------------------
(***************************************************************************)
(* What the client needs of its stream, whatever the transport: the peer   *)
(* gets a prefix of what was written, the client a prefix of what the peer *)
(* sent, each in order, and nothing moves once the stream is destroyed.    *)
(***************************************************************************)
EXTENDS Integers, Sequences

VARIABLES
    written,    \* what the client wrote
    sent,       \* what the transport has passed on
    arrived,    \* what the peer sent
    received,   \* what the client has read of it
    destroyed

vars == <<written, sent, arrived, received, destroyed>>

Init == written = <<>> /\ sent = <<>> /\ arrived = <<>> /\ received = <<>> /\ destroyed = FALSE

Extends(t, s) == Len(s) <= Len(t) /\ SubSeq(t, 1, Len(s)) = s

\* Data moves forward, and never past its source.
Moves ==
    /\ Extends(written', written) /\ Extends(sent', sent)
    /\ Extends(arrived', arrived) /\ Extends(received', received)
    /\ Extends(written', sent') /\ Extends(arrived', received')

Next == Moves /\ (destroyed => destroyed' /\ UNCHANGED <<sent, received>>)

Spec == Init /\ [][Next]_vars
=============================================================================
