---------------------------- MODULE SocksStream ----------------------------
(***************************************************************************)
(* The stream of a connection through a SOCKS proxy (connect/socks.ts): a  *)
(* Duplex that is given to the client at once, keeps what is written until *)
(* the socket behind the proxy is established, and carries Node's          *)
(* backpressure over to that socket.                                       *)
(*                                                                         *)
(* External: name lookup and SocksClient, which answer some time or fail,  *)
(* Node's Duplex and its Socket.  The client reads as Node's flowing mode  *)
(* does: it asks for more (_read) while its buffer has room.               *)
(***************************************************************************)
EXTENDS Integers, Sequences

CONSTANTS
    HighWater,      \* how many chunks the readable buffer holds
    MaxWrites,      \* bound: chunks written
    MaxArrivals     \* bound: chunks of the peer

VARIABLES
    phase,          \* of connectSocks: "lookup", "negotiating", "established", "failed"
    socket,         \* "none", or the socket behind the proxy: "up", "ended", "destroyed"
    paused,         \* the socket is paused
    flowing,        \* ProxyStream._flowing
    reading,        \* Node has called _read and got no chunk since
    buffered,       \* the readable buffer: pushed and not yet read
    eof,            \* push(null)
    busy,           \* a write of the socket is under way
    waiting,        \* written while corked or behind the write under way
    ended,          \* the client called end()
    destroyed,
    written,        \* history: what the client wrote
    sent,           \* history: what the socket took
    arrived,        \* history: what the peer sent
    received        \* history: what the stream has pushed

writeVars == <<busy, waiting, sent>>
readVars == <<flowing, reading, buffered, received>>
vars == <<phase, socket, paused, readVars, eof, writeVars, ended, destroyed, written, arrived>>

Chunks == Seq(Nat)

\* Types, and once the socket is there what waits waits for a write of it.
TypeOK ==
    /\ phase \in {"lookup", "negotiating", "established", "failed"}
    /\ socket \in {"none", "up", "ended", "destroyed"}
    /\ paused \in BOOLEAN /\ flowing \in BOOLEAN /\ reading \in BOOLEAN /\ eof \in BOOLEAN
    /\ busy \in BOOLEAN /\ ended \in BOOLEAN /\ destroyed \in BOOLEAN
    /\ buffered \in Chunks /\ waiting \in Chunks
    /\ written \in Chunks /\ sent \in Chunks /\ arrived \in Chunks /\ received \in Chunks
    /\ busy \/ socket = "none" \/ waiting = <<>> \/ destroyed

(* openSocks: the new ProxyStream is corked, the lookup under way.  A bad  *)
(* URL and a lookup that fails end the same way.                           *)
Init ==
    /\ phase = "lookup" /\ socket = "none" /\ paused = FALSE
    /\ flowing = FALSE /\ reading = FALSE /\ buffered = <<>> /\ eof = FALSE
    /\ busy = FALSE /\ waiting = <<>> /\ ended = FALSE /\ destroyed = FALSE
    /\ written = <<>> /\ sent = <<>> /\ arrived = <<>> /\ received = <<>>

-----------------------------------------------------------------------------
\* mutant: the socket stays
DestroysAlone ==
    destroyed' = TRUE /\ UNCHANGED <<socket, paused, readVars, eof, writeVars, ended, written, arrived>>

\* _destroy: the socket goes with the stream, if it is there.
Destroys ==
    /\ destroyed' = TRUE
    /\ socket' = IF socket = "none" THEN "none" ELSE "destroyed"
    /\ UNCHANGED <<paused, readVars, eof, writeVars, ended, written, arrived>>

\* connectSocks goes on after the lookup, also when the stream is destroyed by then.
LookedUp ==
    /\ phase = "lookup" /\ phase' = "negotiating"
    /\ UNCHANGED <<socket, paused, readVars, eof, writeVars, ended, destroyed, written, arrived>>

\* The lookup, the URL or the SOCKS negotiation fails.
Fails ==
    /\ phase \in {"lookup", "negotiating"} /\ phase' = "failed"
    /\ Destroys

\* uncork: the first of the chunks that wait is written.
Uncorks ==
    IF waiting = <<>>
    THEN UNCHANGED writeVars
    ELSE sent' = Append(sent, Head(waiting)) /\ waiting' = Tail(waiting) /\ busy' = TRUE

\* mutant: a stream destroyed meanwhile takes the socket all the same
StartsAnyway ==
    socket' = "up" /\ paused' = ~flowing /\ Uncorks

\* mutant: the socket starts paused though the client has asked for data
StartsPaused ==
    IF destroyed
    THEN socket' = "destroyed" /\ UNCHANGED <<paused, writeVars>>
    ELSE socket' = "up" /\ paused' = TRUE /\ Uncorks

\* _start.
Starts ==
    IF destroyed
    THEN socket' = "destroyed" /\ UNCHANGED <<paused, writeVars>>
    ELSE socket' = "up" /\ paused' = ~flowing /\ Uncorks

\* The SocksClient emits 'established'.
Established ==
    /\ phase = "negotiating" /\ phase' = "established"
    /\ Starts
    /\ UNCHANGED <<readVars, eof, ended, destroyed, written, arrived>>

-----------------------------------------------------------------------------
\* mutant: a write does not wait for those before it
WriteOvertakes ==
    /\ ~ended /\ ~destroyed /\ Len(written) < MaxWrites
    /\ written' = Append(written, Len(written) + 1)
    /\ IF socket = "none"
       THEN waiting' = Append(waiting, Len(written) + 1) /\ UNCHANGED <<busy, sent>>
       ELSE sent' = Append(sent, Len(written) + 1) /\ busy' = TRUE /\ UNCHANGED waiting
    /\ UNCHANGED <<phase, socket, paused, readVars, eof, ended, destroyed, arrived>>

\* write() of the client and _write, which a corked stream does not reach.
Write ==
    /\ ~ended /\ ~destroyed /\ Len(written) < MaxWrites
    /\ LET chunk == Len(written) + 1 IN
       /\ written' = Append(written, chunk)
       /\ IF socket = "none" \/ busy
          THEN waiting' = Append(waiting, chunk) /\ UNCHANGED <<busy, sent>>
          ELSE sent' = Append(sent, chunk) /\ busy' = TRUE /\ UNCHANGED waiting
    /\ UNCHANGED <<phase, socket, paused, readVars, eof, ended, destroyed, arrived>>

\* The callback of socket.write: the next chunk.
Written ==
    /\ busy /\ ~destroyed
    /\ IF waiting = <<>> THEN busy' = FALSE /\ UNCHANGED <<waiting, sent>> ELSE Uncorks
    /\ UNCHANGED <<phase, socket, paused, readVars, eof, ended, destroyed, written, arrived>>

(* end() of the client, which writes its DISCONNECT first and that only    *)
(* when it is connected.  The socket itself is not ended.                  *)
End ==
    /\ socket # "none" /\ ~ended /\ ~destroyed
    /\ ended' = TRUE
    /\ UNCHANGED <<phase, socket, paused, readVars, eof, writeVars, destroyed, written, arrived>>

-----------------------------------------------------------------------------
\* mutant: _read does not resume the socket
ReadNot ==
    /\ ~reading /\ ~destroyed /\ ~eof /\ Len(buffered) < HighWater
    /\ reading' = TRUE /\ flowing' = TRUE
    /\ UNCHANGED paused
    /\ UNCHANGED <<phase, socket, buffered, received, eof, writeVars, ended, destroyed, written, arrived>>

\* _read.
Read ==
    /\ ~reading /\ ~destroyed /\ ~eof /\ Len(buffered) < HighWater
    /\ reading' = TRUE /\ flowing' = TRUE
    /\ paused' = FALSE
    /\ UNCHANGED <<phase, socket, buffered, received, eof, writeVars, ended, destroyed, written, arrived>>

\* The peer sends; the socket keeps it until it flows.
Arrives ==
    /\ socket = "up" /\ Len(arrived) < MaxArrivals
    /\ arrived' = Append(arrived, Len(arrived) + 1)
    /\ UNCHANGED <<phase, socket, paused, readVars, eof, writeVars, ended, destroyed, written>>

\* push() tells whether there is room for more.
Pauses == flowing' = (Len(buffered') < HighWater) /\ paused' = ~flowing'

\* _onData with the next chunk of the socket.
OnData ==
    /\ socket \in {"up", "ended"} /\ ~paused /\ Len(received) < Len(arrived)
    /\ LET chunk == arrived[Len(received) + 1] IN
       /\ received' = Append(received, chunk)
       /\ buffered' = Append(buffered, chunk)
    /\ reading' = FALSE
    /\ Pauses
    /\ UNCHANGED <<phase, socket, eof, writeVars, ended, destroyed, written, arrived>>

\* The client reads a chunk.
Consume ==
    /\ buffered # <<>> /\ ~destroyed
    /\ buffered' = Tail(buffered)
    /\ UNCHANGED <<phase, socket, paused, flowing, reading, received, eof, writeVars, ended, destroyed, written, arrived>>

\* The peer ends its side.
PeerEnds ==
    /\ socket = "up" /\ socket' = "ended"
    /\ UNCHANGED <<phase, paused, readVars, eof, writeVars, ended, destroyed, written, arrived>>

\* _onEnd: the socket has delivered everything, the readable side is ended.
OnEnd ==
    /\ socket = "ended" /\ ~eof /\ ~paused /\ received = arrived
    /\ eof' = TRUE
    /\ UNCHANGED <<phase, socket, paused, readVars, writeVars, ended, destroyed, written, arrived>>

\* _onError and _onClose: the stream is destroyed.
OnClose == socket \in {"up", "ended"} /\ Destroys /\ UNCHANGED phase

\* destroy() of the client.
Destroy == ~destroyed /\ Destroys /\ UNCHANGED phase

Next ==
    \/ LookedUp \/ Fails \/ Established
    \/ Write \/ Written \/ End
    \/ Read \/ Arrives \/ OnData \/ Consume \/ PeerEnds \/ OnEnd
    \/ OnClose \/ Destroy

Spec == Init /\ [][Next]_vars

(* What goes on by itself: lookup and negotiation answer, the socket takes *)
(* what it is given and delivers what arrives, and the client reads.       *)
GoesOn == LookedUp \/ Established \/ Written \/ Read \/ OnData \/ OnEnd \/ Consume

-----------------------------------------------------------------------------
\* Of a live stream nothing written is lost or overtaken, before and after _start.
WritesInOrder == ~destroyed => sent \o waiting = written

(* A stream the client destroyed leaves no socket behind, also when the    *)
(* lookup or the proxy answers after that.                                 *)
NoSocketLeft == destroyed => socket \in {"none", "destroyed"}

(* Backpressure: while the client is owed a chunk the socket is not paused *)
(* (nobody else would resume it), and it is when the buffer is full.       *)
WantedFlows == socket \in {"up", "ended"} /\ reading /\ ~destroyed => ~paused
BufferBounded == Len(buffered) <= HighWater
Backpressure == WantedFlows /\ BufferBounded

\* What the peer sent is read and what was written is sent, while the socket lives.
ArrivedIsRead ==
    \A n \in 1..MaxArrivals : n <= Len(arrived) ~> destroyed \/ (n <= Len(received) /\ buffered = <<>>)
StartedIsSent ==
    \A n \in 1..MaxWrites : n <= Len(written) ~> n <= Len(sent) \/ destroyed \/ phase = "failed"

\* It is an ordered stream.
Ordered == INSTANCE OrderedStream
ImplementsOrderedStream == Ordered!Spec
=============================================================================
