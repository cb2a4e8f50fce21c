--------------------------- MODULE Streams_proofs ---------------------------
(***************************************************************************)
(* Proofs about SocksStream and WebSocketStream, for any number of chunks  *)
(* and any size of the readable buffer.                                    *)
(***************************************************************************)
EXTENDS MCStreams, SequenceTheorems, TLAPS

-----------------------------------------------------------------------------
(* Sequences of chunks. *)

LEMMA ConcatAppend ==
    ASSUME NEW s \in Chunks, NEW w \in Chunks, NEW x \in Nat
    PROVE  s \o Append(w, x) = Append(s \o w, x)
BY DEF Chunks

LEMMA ConcatHead ==
    ASSUME NEW s \in Chunks, NEW w \in Chunks, w # <<>>
    PROVE  Append(s, Head(w)) \o Tail(w) = s \o w
BY HeadTailProperties DEF Chunks

LEMMA ChunksClosed ==
    /\ <<>> \in Chunks
    /\ \A s \in Chunks : Len(s) \in Nat /\ s \o <<>> = s
    /\ \A s \in Chunks : \A x \in Nat : Append(s, x) \in Chunks /\ Len(Append(s, x)) = Len(s) + 1
    /\ \A s \in Chunks : s # <<>> =>
         Head(s) \in Nat /\ Tail(s) \in Chunks /\ Len(Tail(s)) = Len(s) - 1
    /\ \A s \in Chunks : \A i \in 1..Len(s) : s[i] \in Nat
BY HeadTailProperties, ConcatEmptySeq DEF Chunks

-----------------------------------------------------------------------------
(* What the actions do to the written chunks. *)

WritesOK ==
    /\ busy \in BOOLEAN /\ ended \in BOOLEAN
    /\ waiting \in Chunks /\ sent \in Chunks /\ written \in Chunks
ReadsOK ==
    /\ paused \in BOOLEAN /\ flowing \in BOOLEAN /\ reading \in BOOLEAN /\ eof \in BOOLEAN
    /\ buffered \in Chunks /\ arrived \in Chunks /\ received \in Chunks
SocketOK ==
    /\ phase \in {"lookup", "negotiating", "established", "failed"}
    /\ socket \in {"none", "up", "ended", "destroyed"} /\ destroyed \in BOOLEAN
WaitsForWrite == busy \/ socket = "none" \/ waiting = <<>> \/ destroyed

LEMMA TypeParts == TypeOK <=> WritesOK /\ ReadsOK /\ SocketOK /\ WaitsForWrite
BY DEF TypeOK, WritesOK, ReadsOK, SocketOK, WaitsForWrite

LEMMA TypePartsNext == TypeOK' <=> WritesOK' /\ ReadsOK' /\ SocketOK' /\ WaitsForWrite'
BY DEF TypeOK, WritesOK, ReadsOK, SocketOK, WaitsForWrite

LEMMA UncorksKeeps ==
    ASSUME WritesOK, Uncorks
    PROVE  /\ busy' \in BOOLEAN /\ waiting' \in Chunks /\ sent' \in Chunks
           /\ sent' \o waiting' = sent \o waiting
           /\ busy' \/ waiting' = <<>>
<1>1. CASE waiting = <<>>
  BY <1>1, ChunksClosed DEF Uncorks, WritesOK, writeVars
<1>2. CASE waiting # <<>>
  <2>1. sent' = Append(sent, Head(waiting)) /\ waiting' = Tail(waiting) /\ busy' = TRUE
    BY <1>2 DEF Uncorks
  <2> QED BY <1>2, <2>1, ConcatHead, ChunksClosed DEF WritesOK
<1> QED BY <1>1, <1>2

LEMMA StartsKeeps ==
    ASSUME WritesOK, SocketOK, ReadsOK, Starts
    PROVE  /\ busy' \in BOOLEAN /\ waiting' \in Chunks /\ sent' \in Chunks
           /\ sent' \o waiting' = sent \o waiting
           /\ destroyed \/ busy' \/ waiting' = <<>>
           /\ paused' \in BOOLEAN
           /\ socket' = IF destroyed THEN "destroyed" ELSE "up"
           /\ destroyed \/ paused' = ~flowing
<1>1. CASE destroyed
  BY <1>1 DEF Starts, WritesOK, ReadsOK, SocketOK, writeVars
<1>2. CASE ~destroyed
  <2>1. socket' = "up" /\ paused' = ~flowing /\ Uncorks
    BY <1>2 DEF Starts
  <2> QED BY <1>2, <2>1, UncorksKeeps DEF ReadsOK
<1> QED BY <1>1, <1>2

\* One step: what is written, and the order it is in.
LEMMA WritesStep ==
    ASSUME TypeOK, WritesInOrder, [Next]_vars
    PROVE  WritesOK' /\ WritesInOrder' /\ WaitsForWrite'
<1> USE DEF WritesInOrder
<1>0. WritesOK /\ ReadsOK /\ SocketOK /\ WaitsForWrite
  BY TypeParts
<1>1. CASE Established
  <2>1. Starts /\ ended' = ended /\ destroyed' = destroyed /\ written' = written
    BY <1>1 DEF Established
  <2> QED BY <1>0, <2>1, StartsKeeps DEF WritesOK, SocketOK, WaitsForWrite
<1>2. CASE Write
  <2> DEFINE chunk == Len(written) + 1
  <2>0. chunk \in Nat
    BY <1>0, ChunksClosed DEF WritesOK
  <2>1. /\ ~destroyed /\ destroyed' = destroyed /\ ended' = ended /\ socket' = socket
        /\ written' = Append(written, chunk)
    BY <1>2 DEF Write
  <2>2. CASE socket = "none" \/ busy
    <3>1. waiting' = Append(waiting, chunk) /\ busy' = busy /\ sent' = sent
      BY <1>2, <2>2 DEF Write
    <3> HIDE DEF chunk
    <3>2. sent \o Append(waiting, chunk) = Append(sent \o waiting, chunk)
      BY <1>0, <2>0, ConcatAppend DEF WritesOK
    <3>3. waiting' \in Chunks /\ written' \in Chunks
      BY <1>0, <2>0, <2>1, <3>1, ChunksClosed DEF WritesOK
    <3>4. WritesOK'
      BY <1>0, <2>1, <3>1, <3>3 DEF WritesOK
    <3>5. WaitsForWrite'
      BY <2>1, <2>2, <3>1 DEF WaitsForWrite
    <3> QED BY <2>1, <3>1, <3>2, <3>4, <3>5
  <2>3. CASE ~(socket = "none" \/ busy)
    <3>1. sent' = Append(sent, chunk) /\ busy' = TRUE /\ waiting' = waiting
      BY <1>2, <2>3 DEF Write
    <3>2. waiting = <<>>
      BY <1>0, <2>1, <2>3 DEF WaitsForWrite
    <3> HIDE DEF chunk
    <3> QED BY <1>0, <2>0, <2>1, <3>1, <3>2, ChunksClosed DEF WritesOK, WaitsForWrite
  <2> QED BY <2>2, <2>3
<1>3. CASE Written
  <2>1. ~destroyed /\ destroyed' = destroyed /\ ended' = ended /\ socket' = socket
        /\ written' = written
    BY <1>3 DEF Written
  <2>2. CASE waiting = <<>>
    BY <1>0, <1>3, <2>1, <2>2 DEF Written, WritesOK, WaitsForWrite
  <2>3. CASE waiting # <<>>
    <3>1. Uncorks
      BY <1>3, <2>3 DEF Written
    <3> QED BY <1>0, <2>1, <3>1, UncorksKeeps DEF WritesOK, WaitsForWrite
  <2> QED BY <2>2, <2>3
<1>4. ASSUME destroyed', UNCHANGED <<writeVars, ended, written>>
      PROVE  WritesOK' /\ WritesInOrder' /\ WaitsForWrite'
  BY <1>0, <1>4 DEF WritesOK, WaitsForWrite, writeVars
<1>5. CASE Fails \/ OnClose \/ Destroy
  BY <1>4, <1>5 DEF Fails, OnClose, Destroy, Destroys
<1>6. ASSUME UNCHANGED <<writeVars, written, destroyed>>, ended' \in BOOLEAN,
             socket' = "none" => socket = "none", socket = "none" => socket' = "none"
      PROVE  WritesOK' /\ WritesInOrder' /\ WaitsForWrite'
  BY <1>0, <1>6 DEF WritesOK, WaitsForWrite, writeVars
<1>7. CASE LookedUp \/ End \/ Read \/ Arrives \/ OnData \/ Consume \/ PeerEnds \/ OnEnd
  BY <1>0, <1>6, <1>7
  DEF LookedUp, End, Read, Arrives, OnData, Consume, PeerEnds, OnEnd, WritesOK
<1>8. CASE UNCHANGED vars
  BY <1>0, <1>6, <1>8 DEF vars, WritesOK
<1> QED BY <1>1, <1>2, <1>3, <1>5, <1>7, <1>8 DEF Next

LEMMA ReadsStep ==
    ASSUME TypeOK, [Next]_vars
    PROVE  ReadsOK' /\ SocketOK'
<1>0. WritesOK /\ ReadsOK /\ SocketOK /\ WaitsForWrite
  BY TypeParts
<1>1. CASE Established
  <2>1. Starts /\ phase' = "established" /\ UNCHANGED <<readVars, eof, destroyed, arrived>>
    BY <1>1 DEF Established
  <2> QED BY <1>0, <2>1, StartsKeeps DEF ReadsOK, SocketOK, readVars
<1>2. CASE OnData
  <2> DEFINE chunk == arrived[Len(received) + 1]
  <2>1. /\ Len(received) < Len(arrived)
        /\ received' = Append(received, chunk) /\ buffered' = Append(buffered, chunk)
        /\ reading' = FALSE /\ flowing' = (Len(buffered') < HighWater) /\ paused' = ~flowing'
        /\ UNCHANGED <<phase, socket, eof, destroyed, arrived>>
    BY <1>2 DEF OnData, Pauses
  <2>2. Len(received) + 1 \in 1..Len(arrived)
    BY <1>0, <2>1, ChunksClosed DEF ReadsOK
  <2>3. chunk \in Nat
    BY <1>0, <2>2, ChunksClosed DEF ReadsOK
  <2>4. flowing' \in BOOLEAN /\ paused' \in BOOLEAN
    BY <2>1
  <2> HIDE DEF chunk
  <2> QED BY <1>0, <2>1, <2>3, <2>4, ChunksClosed DEF ReadsOK, SocketOK
<1>3. CASE Arrives
  BY <1>0, <1>3, ChunksClosed DEF Arrives, ReadsOK, SocketOK, readVars
<1>4. CASE Consume
  BY <1>0, <1>4, ChunksClosed DEF Consume, ReadsOK, SocketOK
<1>5. CASE Fails \/ OnClose \/ Destroy
  BY <1>0, <1>5 DEF Fails, OnClose, Destroy, Destroys, ReadsOK, SocketOK, readVars
<1>6. CASE LookedUp \/ Write \/ Written \/ End \/ Read \/ PeerEnds \/ OnEnd
  BY <1>0, <1>6
  DEF LookedUp, Write, Written, End, Read, PeerEnds, OnEnd, ReadsOK, SocketOK, readVars
<1>7. CASE UNCHANGED vars
  BY <1>0, <1>7 DEF vars, readVars, ReadsOK, SocketOK
<1> QED BY <1>1, <1>2, <1>3, <1>4, <1>5, <1>6, <1>7 DEF Next

LEMMA InitFacts == Init => TypeOK /\ WritesInOrder
BY ChunksClosed DEF Init, TypeOK, WritesInOrder, Chunks

(***************************************************************************)
(* Every variable keeps its type, what was written to a live stream is     *)
(* sent or waits, in order, and waits only for the socket or for a write   *)
(* of it: cork, uncork and _write lose and overtake nothing.               *)
(***************************************************************************)
THEOREM SocksWritesInOrder == Spec => [](TypeOK /\ WritesInOrder)
<1>1. TypeOK /\ WritesInOrder /\ [Next]_vars => (TypeOK /\ WritesInOrder)'
  BY WritesStep, ReadsStep, TypePartsNext
<1> QED BY <1>1, InitFacts, PTL DEF Spec

-----------------------------------------------------------------------------
(***************************************************************************)
(* A destroyed stream leaves no socket behind, whenever the proxy answers. *)
(***************************************************************************)
THEOREM SocksLeavesNoSocket == Spec => []NoSocketLeft
<1>1. Init => NoSocketLeft
  BY DEF Init, NoSocketLeft
<1>2. NoSocketLeft /\ [Next]_vars => NoSocketLeft'
  <2> SUFFICES ASSUME NoSocketLeft, [Next]_vars PROVE NoSocketLeft'
    OBVIOUS
  <2>1. CASE Established
    BY <2>1 DEF Established, Starts, NoSocketLeft
  <2>2. CASE Fails \/ OnClose \/ Destroy
    BY <2>2 DEF Fails, OnClose, Destroy, Destroys, NoSocketLeft
  <2>3. CASE LookedUp \/ Write \/ Written \/ End \/ Read \/ Arrives \/ OnData \/ Consume
    BY <2>3
    DEF LookedUp, Write, Written, End, Read, Arrives, OnData, Consume, NoSocketLeft
  <2>4. CASE PeerEnds \/ OnEnd
    BY <2>4 DEF PeerEnds, OnEnd, NoSocketLeft
  <2>5. CASE UNCHANGED vars
    BY <2>5 DEF vars, NoSocketLeft
  <2> QED BY <2>1, <2>2, <2>3, <2>4, <2>5 DEF Next
<1> QED BY <1>1, <1>2, PTL DEF Spec

-----------------------------------------------------------------------------
(* Backpressure: an unpaused socket means that _flowing is set, and that   *)
(* there is room in the buffer.                                            *)

FlowsWithRoom ==
    /\ flowing => Len(buffered) < HighWater
    /\ socket \in {"up", "ended"} /\ ~destroyed /\ ~paused => flowing
    /\ socket = "none" /\ reading => flowing
    /\ phase \in {"lookup", "negotiating"} => socket = "none"

FlowInv == TypeOK /\ NoSocketLeft /\ Backpressure /\ FlowsWithRoom

LEMMA FlowStep ==
    ASSUME HighWater \in Nat, FlowInv, [Next]_vars
    PROVE  Backpressure' /\ FlowsWithRoom'
<1> USE DEF Backpressure, WantedFlows, BufferBounded, FlowsWithRoom
<1>0. /\ ReadsOK /\ SocketOK /\ WritesOK /\ Backpressure /\ FlowsWithRoom
      /\ Len(buffered) \in Nat
      /\ (socket \in {"up", "ended"} => ~destroyed)
  BY TypeParts, ChunksClosed DEF FlowInv, ReadsOK, NoSocketLeft
<1>1. CASE Established
  <2>1. Starts /\ UNCHANGED <<readVars, destroyed>>
    BY <1>1 DEF Established
  <2>2. socket' = (IF destroyed THEN "destroyed" ELSE "up") /\ (destroyed \/ paused' = ~flowing)
    BY <1>0, <2>1, StartsKeeps
  <2>3. socket = "none" /\ phase' = "established"
    BY <1>0, <1>1 DEF Established
  <2> QED BY <1>0, <2>1, <2>2, <2>3 DEF readVars
<1>2. CASE Read
  BY <1>0, <1>2 DEF Read
<1>3. CASE OnData
  <2>1. /\ socket \in {"up", "ended"} /\ ~paused /\ reading' = FALSE /\ ~destroyed
        /\ flowing' = (Len(buffered') < HighWater) /\ paused' = ~flowing'
        /\ socket' = socket /\ destroyed' = destroyed
        /\ buffered' = Append(buffered, arrived[Len(received) + 1])
    BY <1>0, <1>3 DEF OnData, Pauses
  <2>2. Len(buffered') = Len(buffered) + 1 /\ Len(buffered) < HighWater
    BY <1>0, <2>1 DEF ReadsOK, Chunks
  <2>3. (flowing' => Len(buffered') < HighWater) /\ (~paused' => flowing') /\ phase' = phase
    BY <1>3, <2>1 DEF OnData
  <2> QED BY <1>0, <2>1, <2>2, <2>3
<1>4. CASE Consume
  <2>1. Len(buffered') = Len(buffered) - 1
    BY <1>0, <1>4, ChunksClosed DEF Consume, ReadsOK
  <2> QED BY <1>0, <1>4, <2>1 DEF Consume
<1>5. CASE Fails \/ OnClose \/ Destroy
  BY <1>0, <1>5 DEF Fails, OnClose, Destroy, Destroys, readVars
<1>6. CASE LookedUp \/ Write \/ Written \/ End \/ Arrives \/ PeerEnds \/ OnEnd
  BY <1>0, <1>6 DEF LookedUp, Write, Written, End, Arrives, PeerEnds, OnEnd, readVars
<1>7. CASE UNCHANGED vars
  BY <1>0, <1>7 DEF vars, readVars
<1> QED BY <1>1, <1>2, <1>3, <1>4, <1>5, <1>6, <1>7 DEF Next

(***************************************************************************)
(* While the client is owed a chunk the socket is not paused, so that it   *)
(* never waits for a socket nobody resumes, and the buffer never overflows.*)
(***************************************************************************)
THEOREM SocksBackpressure ==
    ASSUME HighWater \in Nat
    PROVE  Spec => []Backpressure
<1>1. Init => Backpressure /\ FlowsWithRoom
  BY DEF Init, Backpressure, WantedFlows, BufferBounded, FlowsWithRoom
<1>2. TypeOK /\ NoSocketLeft /\ Backpressure /\ FlowsWithRoom /\ [Next]_vars
      => (Backpressure /\ FlowsWithRoom)'
  BY FlowStep DEF FlowInv
<1> QED BY <1>1, <1>2, SocksWritesInOrder, SocksLeavesNoSocket, PTL DEF Spec

-----------------------------------------------------------------------------
(* The refinement. *)

Prefixes == Ordered!Extends(written, sent) /\ Ordered!Extends(arrived, received)

LEMMA ExtendsFacts ==
    /\ \A s \in Chunks : Ordered!Extends(s, s)
    /\ \A s, w \in Chunks : Ordered!Extends(s \o w, s)
    /\ \A s \in Chunks : \A x \in Nat : Ordered!Extends(Append(s, x), s)
    /\ \A s, t \in Chunks : Ordered!Extends(t, s) /\ Len(s) < Len(t)
         => Ordered!Extends(t, Append(s, t[Len(s) + 1]))
<1> USE DEF Ordered!Extends, Chunks
<1>1. ASSUME NEW s \in Chunks PROVE Ordered!Extends(s, s)
  BY SubSeqFull
<1>2. ASSUME NEW s \in Chunks, NEW w \in Chunks PROVE Ordered!Extends(s \o w, s)
  <2>1. s \o w \in Seq(Nat) /\ Len(s \o w) = Len(s) + Len(w) /\ Len(s) \in Nat /\ Len(w) \in Nat
        /\ \A i \in 1..Len(s) : (s \o w)[i] = s[i]
    BY ConcatProperties
  <2>2. SubSeq(s \o w, 1, Len(s)) \in Seq(Nat) /\ Len(SubSeq(s \o w, 1, Len(s))) = Len(s)
        /\ \A i \in 1..Len(s) : SubSeq(s \o w, 1, Len(s))[i] = s[i]
    BY <2>1
  <2>3. SubSeq(s \o w, 1, Len(s)) = s
    BY <2>2, SeqEqual
  <2> QED BY <2>1, <2>3
<1>3. ASSUME NEW s \in Chunks, NEW x \in Nat PROVE Ordered!Extends(Append(s, x), s)
  <2>1. SubSeq(Append(s, x), 1, Len(s)) \in Seq(Nat) /\ Len(SubSeq(Append(s, x), 1, Len(s))) = Len(s)
        /\ \A i \in 1..Len(s) : SubSeq(Append(s, x), 1, Len(s))[i] = s[i]
    OBVIOUS
  <2>2. SubSeq(Append(s, x), 1, Len(s)) = s
    BY <2>1, SeqEqual
  <2> QED BY <2>2
<1>4. ASSUME NEW s \in Chunks, NEW t \in Chunks, Ordered!Extends(t, s), Len(s) < Len(t)
      PROVE  Ordered!Extends(t, Append(s, t[Len(s) + 1]))
  <2> DEFINE k == Len(s) + 1
             u == Append(s, t[k])
             v == SubSeq(t, 1, k)
  <2>1. k \in 1..Len(t) /\ t[k] \in Nat
    BY <1>4
  <2>2. u \in Seq(Nat) /\ Len(u) = k /\ \A i \in 1..Len(s) : u[i] = s[i]
    BY <2>1
  <2>3. u[k] = t[k]
    BY <2>1
  <2>4. v \in Seq(Nat) /\ Len(v) = k /\ \A i \in 1..k : v[i] = t[i]
    BY <2>1
  <2>5. \A i \in 1..Len(s) : s[i] = t[i]
    <3>1. \A i \in 1..Len(s) : SubSeq(t, 1, Len(s))[i] = t[i]
      BY <1>4
    <3> QED BY <1>4, <3>1
  <2>6. \A i \in 1..k : u[i] = v[i]
    BY <2>2, <2>3, <2>4, <2>5
  <2>7. u = v
    BY <2>2, <2>4, <2>6, SeqEqual
  <2> QED BY <2>1, <2>2, <2>7
<1> QED BY <1>1, <1>2, <1>3, <1>4

LEMMA ExtendsTransitive ==
    ASSUME NEW r \in Chunks, NEW s \in Chunks, NEW x \in Nat, Ordered!Extends(s, r)
    PROVE  Ordered!Extends(Append(s, x), r)
<1> USE DEF Ordered!Extends, Chunks
<1>1. Len(r) <= Len(s) /\ SubSeq(s, 1, Len(r)) = r /\ Len(r) \in Nat /\ Len(s) \in Nat
  OBVIOUS
<1>2. \A i \in 1..Len(r) : SubSeq(s, 1, Len(r))[i] = s[i]
  BY <1>1
<1>3. \A i \in 1..Len(r) : r[i] = s[i]
  BY <1>1, <1>2
<1>4. /\ SubSeq(Append(s, x), 1, Len(r)) \in Seq(Nat)
      /\ Len(SubSeq(Append(s, x), 1, Len(r))) = Len(r)
      /\ \A i \in 1..Len(r) : SubSeq(Append(s, x), 1, Len(r))[i] = s[i]
  BY <1>1
<1>5. SubSeq(Append(s, x), 1, Len(r)) = r
  BY <1>3, <1>4, SeqEqual
<1> QED BY <1>1, <1>5

LEMMA OrderedStep ==
    ASSUME TypeOK, WritesInOrder, NoSocketLeft, Prefixes, [Next]_vars
    PROVE  [Ordered!Next]_(Ordered!vars) /\ Prefixes'
<1>0. WritesOK /\ ReadsOK /\ SocketOK /\ WritesOK' /\ ReadsOK' /\ WritesInOrder'
  BY TypeParts, WritesStep, ReadsStep
<1>1. /\ destroyed => destroyed' /\ sent' = sent /\ received' = received
      /\ destroyed' => sent' = sent /\ written' = written
      /\ Ordered!Extends(written', written) /\ Ordered!Extends(sent', sent)
      /\ Ordered!Extends(arrived', arrived) /\ Ordered!Extends(received', received)
      /\ Ordered!Extends(arrived', received')
  <2> USE <1>0 DEF Prefixes
  <2>0. /\ Ordered!Extends(written, written) /\ Ordered!Extends(sent, sent)
        /\ Ordered!Extends(arrived, arrived) /\ Ordered!Extends(received, received)
        /\ Ordered!Extends(arrived, received)
    BY ExtendsFacts DEF WritesOK, ReadsOK
  <2>1. CASE Established
    <3>1. Starts /\ UNCHANGED <<received, destroyed, written, arrived>>
      BY <2>1 DEF Established, readVars
    <3>2. destroyed => sent' = sent
      BY <3>1 DEF Starts, writeVars
    <3>3. sent' = sent \/ (sent' = Append(sent, Head(waiting)) /\ waiting # <<>>)
      BY <3>1 DEF Starts, Uncorks, writeVars
    <3>4. Ordered!Extends(sent', sent)
      BY <2>0, <3>3, ExtendsFacts, ChunksClosed DEF WritesOK
    <3>5. destroyed' => sent' = sent
      BY <3>1, <3>2
    <3> QED BY <2>0, <3>1, <3>2, <3>4, <3>5
  <2>2. CASE Write
    <3> DEFINE chunk == Len(written) + 1
    <3>1. ~destroyed /\ UNCHANGED <<received, destroyed, arrived>>
          /\ written' = Append(written, chunk)
          /\ (sent' = sent \/ sent' = Append(sent, chunk))
      BY <2>2 DEF Write, readVars
    <3>2. chunk \in Nat
      BY ChunksClosed DEF WritesOK
    <3> HIDE DEF chunk
    <3>3. Ordered!Extends(written', written) /\ Ordered!Extends(sent', sent)
      BY <2>0, <3>1, <3>2, ExtendsFacts DEF WritesOK
    <3> QED BY <2>0, <3>1, <3>3
  <2>3. CASE Written
    <3>1. ~destroyed /\ UNCHANGED <<received, destroyed, arrived, written>>
          /\ (sent' = sent \/ (sent' = Append(sent, Head(waiting)) /\ waiting # <<>>))
      BY <2>3 DEF Written, Uncorks, readVars, writeVars
    <3>2. Ordered!Extends(sent', sent)
      BY <2>0, <3>1, ExtendsFacts, ChunksClosed DEF WritesOK
    <3> QED BY <2>0, <3>1, <3>2
  <2>4. CASE OnData
    <3> DEFINE chunk == arrived[Len(received) + 1]
    <3>1. /\ ~destroyed /\ UNCHANGED <<sent, destroyed, arrived, written>>
          /\ Len(received) < Len(arrived) /\ received' = Append(received, chunk)
      BY <2>4 DEF OnData, NoSocketLeft, writeVars
    <3>2. Len(received) + 1 \in 1..Len(arrived)
      BY <3>1, ChunksClosed DEF ReadsOK
    <3>3. Ordered!Extends(arrived, received')
      BY <2>0, <3>1, ExtendsFacts DEF ReadsOK
    <3>4. chunk \in Nat
      BY <3>2, ChunksClosed DEF ReadsOK
    <3> HIDE DEF chunk
    <3>5. Ordered!Extends(received', received)
      BY <3>1, <3>4, ExtendsFacts DEF ReadsOK
    <3> QED BY <2>0, <3>1, <3>3, <3>5
  <2>5. CASE Arrives
    <3>1. /\ ~destroyed /\ UNCHANGED <<sent, destroyed, received, written>>
          /\ arrived' = Append(arrived, Len(arrived) + 1) /\ Len(arrived) \in Nat
      BY <2>5, ChunksClosed DEF Arrives, NoSocketLeft, writeVars, readVars, ReadsOK
    <3>2. Ordered!Extends(arrived', arrived)
      BY <3>1, ExtendsFacts DEF ReadsOK
    <3>3. Ordered!Extends(arrived', received)
      BY <2>0, <3>1, <3>2, ExtendsTransitive DEF ReadsOK
    <3> QED BY <2>0, <3>1, <3>2, <3>3
  <2>6. CASE Fails \/ OnClose \/ Destroy
    <3>1. destroyed' /\ UNCHANGED <<sent, received, written, arrived>>
      BY <2>6 DEF Fails, OnClose, Destroy, Destroys, writeVars, readVars
    <3> QED BY <2>0, <3>1
  <2>7. CASE LookedUp \/ End \/ Read \/ Consume \/ PeerEnds \/ OnEnd \/ UNCHANGED vars
    <3>1. UNCHANGED <<sent, received, written, arrived, destroyed>>
          \/ (UNCHANGED <<sent, received, written, arrived>> /\ destroyed' = destroyed)
      BY <2>7 DEF LookedUp, End, Read, Consume, PeerEnds, OnEnd, vars, writeVars, readVars
    <3>2. destroyed => destroyed'
      BY <3>1
    <3>3. destroyed' => sent' = sent /\ written' = written
      BY <3>1
    <3> QED BY <2>0, <3>1, <3>2, <3>3
  <2> QED BY <2>1, <2>2, <2>3, <2>4, <2>5, <2>6, <2>7 DEF Next
<1>2. Ordered!Extends(written', sent')
  <2>1. CASE destroyed'
    BY <1>1, <2>1 DEF Prefixes
  <2>2. CASE ~destroyed'
    <3>1. written' = sent' \o waiting' /\ sent' \in Chunks /\ waiting' \in Chunks
      BY <1>0, <2>2 DEF WritesInOrder, WritesOK
    <3> QED BY <3>1, ExtendsFacts
  <2> QED BY <2>1, <2>2
<1>3. Prefixes'
  BY <1>1, <1>2 DEF Prefixes
<1>4. Ordered!Next
  BY <1>1, <1>2 DEF Ordered!Next, Ordered!Moves
<1> QED BY <1>3, <1>4

(***************************************************************************)
(* The stream is an ordered stream: the peer gets a prefix of what the     *)
(* client wrote and the client a prefix of what the peer sent, each in     *)
(* order, and nothing moves once the stream is destroyed.                  *)
(***************************************************************************)
THEOREM SocksIsOrdered == Spec => ImplementsOrderedStream
<1>1. Init => Ordered!Init /\ Prefixes
  <2> SUFFICES ASSUME Init PROVE Ordered!Init /\ Prefixes
    OBVIOUS
  <2>1. Ordered!Init
    BY DEF Init, Ordered!Init
  <2>2. written = <<>> /\ sent = <<>> /\ arrived = <<>> /\ received = <<>>
    BY DEF Init
  <2>3. Ordered!Extends(<<>>, <<>>)
    BY ExtendsFacts, ChunksClosed
  <2> QED BY <2>1, <2>2, <2>3 DEF Prefixes
<1>2. TypeOK /\ WritesInOrder /\ NoSocketLeft /\ Prefixes /\ [Next]_vars
      => Prefixes' /\ [Ordered!Next]_(Ordered!vars)
  BY OrderedStep
<1> QED
  BY <1>1, <1>2, SocksWritesInOrder, SocksLeavesNoSocket, PTL
  DEF Spec, ImplementsOrderedStream, Ordered!Spec

-----------------------------------------------------------------------------
(* The WebSocket. *)

LEMMA ConcatChunks ==
    /\ \A s, t \in Chunks : s \o t \in Chunks
    /\ \A s, t, u \in Chunks : (s \o t) \o u = s \o (t \o u)
    /\ \A s \in Chunks : <<>> \o s = s /\ s \o <<>> = s
BY ConcatProperties, ConcatAssociative, ConcatEmptySeq DEF Chunks

LEMMA ExtendsFurther ==
    ASSUME NEW r \in Chunks, NEW s \in Chunks, NEW t \in Chunks,
           Ordered!Extends(s, r), Ordered!Extends(t, s)
    PROVE  Ordered!Extends(t, r)
<1> USE DEF Ordered!Extends, Chunks
<1>1. Len(r) \in Nat /\ Len(s) \in Nat /\ Len(t) \in Nat /\ Len(r) <= Len(s) /\ Len(s) <= Len(t)
  OBVIOUS
<1>2. \A i \in 1..Len(r) : r[i] = s[i]
  <2>1. SubSeq(s, 1, Len(r)) = r
    OBVIOUS
  <2>2. \A i \in 1..Len(r) : SubSeq(s, 1, Len(r))[i] = s[i]
    BY <1>1
  <2> QED BY <2>1, <2>2
<1>3. \A i \in 1..Len(s) : s[i] = t[i]
  <2>1. SubSeq(t, 1, Len(s)) = s
    OBVIOUS
  <2>2. \A i \in 1..Len(s) : SubSeq(t, 1, Len(s))[i] = t[i]
    BY <1>1
  <2> QED BY <2>1, <2>2
<1>4. \A i \in 1..Len(r) : r[i] = t[i]
  BY <1>1, <1>2, <1>3
<1>5. /\ SubSeq(t, 1, Len(r)) \in Seq(Nat) /\ Len(SubSeq(t, 1, Len(r))) = Len(r)
      /\ \A i \in 1..Len(r) : SubSeq(t, 1, Len(r))[i] = t[i]
  BY <1>1
<1>6. SubSeq(t, 1, Len(r)) = r
  BY <1>4, <1>5, SeqEqual
<1> QED BY <1>1, <1>6

\* What the proxy is given goes out, or is held back behind what already is.
ProxyOK ==
    /\ wsSent \in Chunks /\ proxyWriting \in Chunks /\ proxyWaiting \in Chunks
    /\ proxyWriting = <<>> => proxyWaiting = <<>>
OutOfDuplex == wsSent \o proxyWriting \o proxyWaiting
Passes(all) ==
    /\ ProxyOK'
    /\ wsSent' # wsSent => readyState' = "open"
    /\ Ordered!Extends(wsSent', wsSent)
    /\ readyState' = "open" => OutOfDuplex' = all

LEMMA SocketWrites ==
    ASSUME NEW chunks \in Chunks, NEW more \in Chunks, chunks # <<>>, wsSent \in Chunks,
           Ws!SocketWriteBrowser(chunks, more)
    PROVE  Passes(wsSent \o chunks \o more)
<1>1. /\ wsSent \o chunks \in Chunks /\ wsSent \o chunks \o more \in Chunks
      /\ <<>> \in Chunks
      /\ wsSent \o chunks \o <<>> = wsSent \o chunks
      /\ wsSent \o chunks \o more \o <<>> = wsSent \o chunks \o more
  BY ConcatChunks, ChunksClosed
<1>2. /\ Ordered!Extends(wsSent, wsSent)
      /\ Ordered!Extends(wsSent \o chunks, wsSent)
      /\ Ordered!Extends(wsSent \o chunks \o more, wsSent \o chunks)
  BY <1>1, ExtendsFacts
<1>3. Ordered!Extends(wsSent \o chunks \o more, wsSent)
  BY <1>1, <1>2, ExtendsFurther
<1>4. CASE proxyWriting' = chunks /\ proxyWaiting' = more /\ wsSent' = wsSent
  BY <1>2, <1>4 DEF Passes, ProxyOK, OutOfDuplex
<1>5. CASE /\ readyState' = "open" /\ wsSent' = wsSent \o chunks \o more
           /\ proxyWriting' = <<>> /\ proxyWaiting' = <<>>
  BY <1>1, <1>3, <1>5 DEF Passes, ProxyOK, OutOfDuplex
<1>6. CASE /\ readyState' = "open" /\ more # <<>> /\ wsSent' = wsSent \o chunks
           /\ proxyWriting' = more /\ proxyWaiting' = <<>>
  BY <1>1, <1>2, <1>6 DEF Passes, ProxyOK, OutOfDuplex
<1>7. CASE /\ readyState' # "open" /\ wsSent' = wsSent
           /\ proxyWriting' = <<>> /\ proxyWaiting' = <<>>
  BY <1>1, <1>2, <1>7 DEF Passes, ProxyOK
<1> QED BY <1>4, <1>5, <1>6, <1>7 DEF Ws!SocketWriteBrowser

LEMMA ProxyWrites ==
    ASSUME NEW chunks \in Chunks, NEW more \in Chunks, chunks # <<>>, ProxyOK,
           Ws!ProxyWrite(chunks, more)
    PROVE  Passes(OutOfDuplex \o chunks \o more)
<1>1. CASE proxyWriting # <<>>
  <2>1. /\ proxyWaiting' = proxyWaiting \o chunks \o more
        /\ proxyWriting' = proxyWriting /\ wsSent' = wsSent
    BY <1>1 DEF Ws!ProxyWrite
  <2>2. /\ wsSent \o proxyWriting \in Chunks /\ proxyWaiting \o chunks \in Chunks
        /\ proxyWaiting \o chunks \o more \in Chunks
    BY ConcatChunks DEF ProxyOK
  <2>3. (wsSent \o proxyWriting) \o (proxyWaiting \o chunks \o more)
          = OutOfDuplex \o chunks \o more
    <3>1. PICK s \in Chunks, t \in Chunks : s = wsSent \o proxyWriting /\ t = proxyWaiting
      BY <2>2 DEF ProxyOK
    <3>2. t \o chunks \in Chunks /\ s \o (t \o chunks) = (s \o t) \o chunks
      BY ConcatChunks
    <3>3. s \o ((t \o chunks) \o more) = (s \o (t \o chunks)) \o more
      BY <3>2, ConcatChunks
    <3> QED BY <3>1, <3>2, <3>3 DEF OutOfDuplex
  <2>4. Ordered!Extends(wsSent, wsSent)
    BY ExtendsFacts DEF ProxyOK
  <2> QED BY <1>1, <2>1, <2>2, <2>3, <2>4 DEF Passes, ProxyOK, OutOfDuplex
<1>2. CASE proxyWriting = <<>>
  <2>1. OutOfDuplex = wsSent
    BY <1>2, ConcatChunks DEF OutOfDuplex, ProxyOK
  <2>2. Ws!SocketWriteBrowser(chunks, more)
    BY <1>2 DEF Ws!ProxyWrite
  <2> QED BY <2>1, <2>2, SocketWrites DEF ProxyOK
<1> QED BY <1>1, <1>2

\* The duplex hands chunks to the proxy, and perhaps with them what waits.
DuplexOK == wsBusy \in BOOLEAN /\ wsWaiting \in Chunks /\ (wsBusy \/ wsWaiting = <<>>)
Hands(held) ==
    /\ ProxyOK' /\ DuplexOK'
    /\ wsSent' # wsSent => readyState' = "open"
    /\ Ordered!Extends(wsSent', wsSent)
    /\ readyState' = "open" => OutOfDuplex' \o wsWaiting' = held

LEMMA ProxyTakes ==
    ASSUME NEW chunks \in Chunks, chunks # <<>>, ProxyOK, DuplexOK, Ws!WriteToProxy(chunks)
    PROVE  Hands(OutOfDuplex \o chunks \o wsWaiting)
<1>1. /\ OutOfDuplex \in Chunks /\ OutOfDuplex \o chunks \in Chunks
      /\ OutOfDuplex \o chunks \o wsWaiting \in Chunks /\ <<>> \in Chunks
  BY ConcatChunks, ChunksClosed DEF OutOfDuplex, ProxyOK, DuplexOK
<1>2. CASE Ws!ProxyWrite(chunks, <<>>) /\ wsBusy' = TRUE /\ wsWaiting' = wsWaiting
  <2>1. Passes(OutOfDuplex \o chunks \o <<>>)
    BY <1>1, <1>2, ProxyWrites
  <2>2. OutOfDuplex \o chunks \o <<>> = OutOfDuplex \o chunks
    BY <1>1, ConcatChunks
  <2> QED BY <1>1, <1>2, <2>1, <2>2 DEF Passes, Hands, DuplexOK
<1>3. CASE /\ Ws!ProxyWrite(chunks, wsWaiting) /\ wsWaiting' = <<>>
           /\ wsBusy' \in {FALSE, wsWaiting # <<>>}
  <2>1. Passes(OutOfDuplex \o chunks \o wsWaiting)
    BY <1>3, ProxyWrites DEF DuplexOK
  <2>2. OutOfDuplex \o chunks \o wsWaiting \o <<>> = OutOfDuplex \o chunks \o wsWaiting
    BY <1>1, ConcatChunks
  <2>3. wsBusy' \in BOOLEAN
    BY <1>3
  <2> QED BY <1>1, <1>3, <2>1, <2>2, <2>3 DEF Passes, Hands, DuplexOK
<1> QED BY <1>2, <1>3 DEF Ws!WriteToProxy

\* Where what is written can be, and what an end and a destruction leave.
Layers ==
    /\ isSocketOpen => readyState # "connecting" /\ writeQueue = <<>>
    /\ proxyWriting = <<>> => proxyWaiting = <<>>
    /\ proxyEnded => wsEnded /\ (wsBusy => wsDestroyed)
    /\ readyState = "closing" /\ ~wsDestroyed => proxyEnded /\ proxyWriting = <<>>
    /\ wsDestroyed => readyState \in {"closing", "closed"}
WsSafe == Ws!TypeOK /\ Ws!HeldInOrder /\ Ws!NothingBeforeOpen /\ Ws!EndsWhole
WsInv == WsSafe /\ Layers

\* What a step does to what was written and sent.
SendsOn ==
    /\ wsSent' # wsSent => readyState' = "open"
    /\ Ordered!Extends(wsSent', wsSent)
    /\ Ordered!Extends(wsWritten', wsWritten)

WsFlags ==
    /\ readyState \in {"connecting", "open", "closing", "closed"}
    /\ isSocketOpen \in BOOLEAN
    /\ wsEnded \in BOOLEAN /\ proxyEnded \in BOOLEAN /\ wsDestroyed \in BOOLEAN
WsData ==
    /\ writeQueue \in Chunks /\ wsWritten \in Chunks
    /\ proxyWriting \in Chunks /\ proxyWaiting \in Chunks /\ wsSent \in Chunks
    /\ DuplexOK /\ (wsBusy \/ writeQueue = <<>>)
WsReads == wsArrived \in Chunks /\ wsReceived \in Chunks

LEMMA WsTypeParts == Ws!TypeOK <=> WsFlags /\ WsData /\ WsReads
<1>1. Ws!Chunks = Chunks
  BY DEF Ws!Chunks, Chunks
<1> QED BY <1>1 DEF Ws!TypeOK, WsFlags, WsData, WsReads, DuplexOK

LEMMA WsTypePartsNext == (Ws!TypeOK)' <=> WsFlags' /\ WsData' /\ WsReads'
<1>1. Ws!Chunks = Chunks
  BY DEF Ws!Chunks, Chunks
<1> QED BY <1>1 DEF Ws!TypeOK, WsFlags, WsData, WsReads, DuplexOK

WsHolds == OutOfDuplex \o writeQueue \o wsWaiting
\* The invariant, and what a step shows of it.
LEMMA WsFacts ==
    ASSUME WsInv
    PROVE  /\ WsFlags /\ WsData /\ WsReads /\ ProxyOK /\ Layers
           /\ readyState \in {"connecting", "open"} /\ ~wsDestroyed => WsHolds = wsWritten
           /\ readyState = "connecting" => wsSent = <<>> /\ proxyWriting = <<>>
           /\ readyState = "closing" /\ ~wsDestroyed => wsSent = wsWritten
           /\ OutOfDuplex \in Chunks /\ WsHolds \in Chunks
<1>1. WsFlags /\ WsData /\ WsReads /\ Layers
  BY WsTypeParts DEF WsInv, WsSafe
<1>2. ProxyOK
  BY <1>1 DEF WsData, Layers, ProxyOK
<1>3. OutOfDuplex \in Chunks /\ WsHolds \in Chunks
  BY <1>1, ConcatChunks DEF WsData, DuplexOK, OutOfDuplex, WsHolds
<1> QED
  BY <1>1, <1>2, <1>3
  DEF WsInv, WsSafe, Ws!HeldInOrder, Ws!NothingBeforeOpen, Ws!EndsWhole, WsHolds, OutOfDuplex

LEMMA WsNext ==
    ASSUME WsFlags', WsData', WsReads', Layers',
           readyState' \in {"connecting", "open"} /\ ~wsDestroyed' => WsHolds' = wsWritten',
           readyState' = "connecting" => wsSent' = <<>> /\ proxyWriting' = <<>>,
           readyState' = "closing" /\ ~wsDestroyed' => wsSent' = wsWritten'
    PROVE  WsInv'
<1>1. (Ws!TypeOK)'
  BY WsTypePartsNext
<1>2. (Ws!HeldInOrder)' /\ (Ws!NothingBeforeOpen)' /\ (Ws!EndsWhole)'
  BY DEF Ws!HeldInOrder, Ws!NothingBeforeOpen, Ws!EndsWhole, WsHolds, OutOfDuplex
<1> QED BY <1>1, <1>2 DEF WsInv, WsSafe

\* Steps of the socket, of the proxy's end and of the reader write nothing.
LEMMA WsQuiet ==
    ASSUME WsInv, WsFlags', WsReads', Layers', UNCHANGED <<wsWritten, wsSent, proxyWriting>>,
           wsBusy' = wsBusy,
           \/ UNCHANGED <<writeQueue, wsWaiting, proxyWaiting>>
           \/ /\ wsDestroyed' /\ writeQueue' = <<>> /\ wsWaiting' = <<>> /\ proxyWaiting' = <<>>,
           readyState' \in {"connecting", "open"} => readyState' = readyState,
           ~wsDestroyed' => ~wsDestroyed,
           readyState' = "closing" /\ ~wsDestroyed' => wsSent = wsWritten
    PROVE  WsInv' /\ SendsOn
<1>1. WsFlags /\ WsData /\ ProxyOK
  BY WsFacts
<1>2. WsData'
  BY <1>1, ChunksClosed DEF WsData, DuplexOK
<1>3. SendsOn
  BY <1>1, ExtendsFacts DEF SendsOn, WsData
<1>4. readyState' \in {"connecting", "open"} /\ ~wsDestroyed' => WsHolds' = wsWritten'
  BY WsFacts DEF WsHolds, OutOfDuplex
<1>5. readyState' = "connecting" => wsSent' = <<>> /\ proxyWriting' = <<>>
  BY WsFacts
<1> QED BY <1>2, <1>3, <1>4, <1>5, WsNext

LEMMA WsWriteStep ==
    ASSUME WsInv, Ws!Write
    PROVE  WsInv' /\ SendsOn
<1> DEFINE n == Len(wsWritten) + 1
<1>0. /\ WsFlags /\ WsData /\ WsReads /\ ProxyOK /\ Layers /\ DuplexOK
      /\ OutOfDuplex \in Chunks /\ WsHolds \in Chunks
  BY WsFacts DEF WsData
<1>1. PICK chunk : chunk = <<n>>
  OBVIOUS
<1>2. n \in Nat /\ chunk \in Chunks /\ chunk # <<>> /\ <<>> \in Chunks
  BY <1>0, <1>1, ChunksClosed DEF WsData, Chunks
<1>3. /\ ~wsEnded /\ ~wsDestroyed /\ wsWritten' = wsWritten \o chunk
      /\ UNCHANGED <<readyState, isSocketOpen, wsArrived, wsReceived>>
      /\ UNCHANGED <<wsEnded, proxyEnded, wsDestroyed>>
  BY <1>1 DEF Ws!Write, Ws!readVars, Ws!endVars
<1>4. /\ wsWritten' \in Chunks /\ Ordered!Extends(wsWritten', wsWritten)
      /\ Ordered!Extends(wsSent, wsSent)
  BY <1>0, <1>2, <1>3, ConcatChunks, ExtendsFacts DEF WsData
<1>5. readyState # "closing" /\ ~proxyEnded
  BY <1>0, <1>3 DEF Layers
<1>6. WsHolds \o chunk = OutOfDuplex \o writeQueue \o (wsWaiting \o chunk)
  <2>1. PICK s : s = OutOfDuplex \o writeQueue
    OBVIOUS
  <2>2. s \in Chunks /\ wsWaiting \in Chunks
    BY <1>0, <2>1, ConcatChunks DEF WsData, DuplexOK
  <2>3. (s \o wsWaiting) \o chunk = s \o (wsWaiting \o chunk)
    BY <1>2, <2>2, ConcatChunks
  <2> QED BY <2>1, <2>3 DEF WsHolds
<1>7. CASE wsBusy
  <2>1. /\ wsWaiting' = wsWaiting \o chunk
        /\ UNCHANGED <<wsBusy, writeQueue, proxyWriting, proxyWaiting, wsSent>>
    BY <1>1, <1>7 DEF Ws!Write, Ws!proxyVars
  <2>2. WsData' /\ WsFlags' /\ WsReads' /\ Layers'
    BY <1>0, <1>2, <1>3, <1>4, <1>7, <2>1, ConcatChunks
    DEF WsData, DuplexOK, WsFlags, WsReads, Layers
  <2>3. readyState' \in {"connecting", "open"} => WsHolds' = wsWritten'
    BY <1>3, <1>6, <2>1, WsFacts DEF WsHolds, OutOfDuplex
  <2>4. SendsOn
    BY <1>4, <2>1 DEF SendsOn
  <2> QED BY <1>3, <1>5, <2>1, <2>2, <2>3, <2>4, WsFacts, WsNext
<1>8. CASE ~wsBusy /\ ~isSocketOpen
  <2>1. /\ writeQueue' = writeQueue \o chunk /\ wsBusy' = TRUE
        /\ UNCHANGED <<wsWaiting, proxyWriting, proxyWaiting, wsSent>>
    BY <1>1, <1>8 DEF Ws!Write, Ws!Queues, Ws!proxyVars
  <2>2. WsData' /\ WsFlags' /\ WsReads' /\ Layers'
    BY <1>0, <1>2, <1>3, <1>4, <1>5, <1>8, <2>1, ConcatChunks
    DEF WsData, DuplexOK, WsFlags, WsReads, Layers
  <2>3. wsWaiting = <<>> /\ writeQueue = <<>>
    BY <1>0, <1>8 DEF WsData, DuplexOK
  <2>4. WsHolds' = WsHolds \o chunk
    BY <1>0, <1>2, <2>1, <2>3, ConcatChunks DEF WsHolds, OutOfDuplex
  <2>5. SendsOn
    BY <1>4, <2>1 DEF SendsOn
  <2> QED BY <1>3, <1>5, <2>1, <2>2, <2>4, <2>5, WsFacts, WsNext
<1>9. CASE ~wsBusy /\ isSocketOpen
  <2>1. Ws!WriteToProxy(chunk) /\ writeQueue' = writeQueue
    BY <1>1, <1>9 DEF Ws!Write, Ws!Queues
  <2>2. Hands(OutOfDuplex \o chunk \o wsWaiting)
    BY <1>0, <1>2, <2>1, ProxyTakes
  <2>3. wsWaiting = <<>> /\ writeQueue = <<>> /\ readyState # "connecting"
    BY <1>0, <1>9 DEF WsData, DuplexOK, Layers
  <2>4. WsData' /\ WsFlags' /\ WsReads' /\ Layers'
    BY <1>0, <1>3, <1>4, <1>5, <2>1, <2>2, <2>3
    DEF Hands, ProxyOK, WsData, WsFlags, WsReads, Layers
  <2>5. OutOfDuplex' \in Chunks
    BY <2>2, ConcatChunks DEF Hands, ProxyOK, OutOfDuplex
  <2>6. readyState' = "open" => WsHolds' = wsWritten'
    <3>1. OutOfDuplex \o chunk \o <<>> = WsHolds \o chunk
      BY <1>0, <1>2, <2>3, ConcatChunks DEF WsHolds
    <3>2. WsHolds' = OutOfDuplex' \o wsWaiting'
      BY <2>1, <2>3, <2>5, ConcatChunks DEF WsHolds
    <3> QED BY <1>3, <2>2, <2>3, <3>1, <3>2, WsFacts DEF Hands
  <2>7. SendsOn
    BY <1>4, <2>2 DEF SendsOn, Hands
  <2> QED BY <1>3, <1>5, <2>3, <2>4, <2>6, <2>7, WsNext
<1> QED BY <1>7, <1>8, <1>9

LEMMA WsOpenStep ==
    ASSUME WsInv, Ws!OnOpen
    PROVE  WsInv' /\ SendsOn
<1>0. /\ WsFlags /\ WsData /\ WsReads /\ ProxyOK /\ Layers /\ DuplexOK
      /\ OutOfDuplex \in Chunks /\ WsHolds \in Chunks
  BY WsFacts DEF WsData
<1>1. /\ readyState = "connecting" /\ readyState' = "open" /\ isSocketOpen' = TRUE
      /\ writeQueue' = <<>> /\ ~wsDestroyed
      /\ UNCHANGED <<wsWritten, wsArrived, wsReceived, wsEnded, proxyEnded, wsDestroyed>>
  BY <1>0 DEF Ws!OnOpen, Ws!readVars, Ws!endVars, Layers
<1>2. Ordered!Extends(wsWritten, wsWritten) /\ Ordered!Extends(wsSent, wsSent) /\ <<>> \in Chunks
  BY <1>0, ExtendsFacts, ChunksClosed DEF WsData
<1>3. CASE writeQueue = <<>>
  <2>1. UNCHANGED <<wsBusy, wsWaiting, proxyWriting, proxyWaiting, wsSent>>
    BY <1>3 DEF Ws!OnOpen, Ws!proxyVars
  <2>2. WsData' /\ WsFlags' /\ WsReads' /\ Layers'
    BY <1>0, <1>1, <1>2, <2>1 DEF WsData, DuplexOK, WsFlags, WsReads, Layers
  <2>3. WsHolds' = wsWritten' /\ SendsOn
    BY <1>1, <1>2, <1>3, <2>1, WsFacts DEF WsHolds, OutOfDuplex, SendsOn
  <2> QED BY <1>1, <2>2, <2>3, WsNext
<1>4. CASE writeQueue # <<>>
  <2>1. Ws!WriteToProxy(writeQueue)
    BY <1>4 DEF Ws!OnOpen
  <2>2. Hands(WsHolds)
    BY <1>0, <1>4, <2>1, ProxyTakes DEF WsData, WsHolds
  <2>3. wsBusy /\ ~proxyEnded
    BY <1>0, <1>1, <1>4 DEF WsData, Layers
  <2>4. WsData' /\ WsFlags' /\ WsReads' /\ Layers'
    BY <1>0, <1>1, <1>2, <2>2, <2>3
    DEF Hands, ProxyOK, WsData, WsFlags, WsReads, Layers
  <2>5. OutOfDuplex' \in Chunks
    BY <2>2, ConcatChunks DEF Hands, ProxyOK, OutOfDuplex
  <2>6. WsHolds' = wsWritten'
    <3>1. WsHolds' = OutOfDuplex' \o wsWaiting'
      BY <1>1, <2>5, ConcatChunks DEF WsHolds
    <3> QED BY <1>1, <2>2, <3>1, WsFacts DEF Hands
  <2>7. SendsOn
    BY <1>1, <1>2, <2>2 DEF SendsOn, Hands
  <2> QED BY <1>1, <2>4, <2>6, <2>7, WsNext
<1> QED BY <1>3, <1>4

LEMMA WsTimerStep ==
    ASSUME WsInv, Ws!ThrottleTimer
    PROVE  WsInv' /\ SendsOn
<1>0. /\ WsFlags /\ WsData /\ WsReads /\ ProxyOK /\ Layers /\ DuplexOK
      /\ OutOfDuplex \in Chunks
  BY WsFacts DEF WsData
<1>1. /\ proxyWriting # <<>> /\ Ws!SocketWriteBrowser(proxyWriting, proxyWaiting)
      /\ UNCHANGED <<readyState, isSocketOpen, wsBusy, wsWaiting, writeQueue>>
      /\ UNCHANGED <<wsWritten, wsArrived, wsReceived, wsEnded, proxyEnded, wsDestroyed>>
  BY DEF Ws!ThrottleTimer, Ws!readVars, Ws!endVars, Ws!duplexVars
<1>2. Passes(OutOfDuplex)
  BY <1>0, <1>1, SocketWrites DEF WsData, OutOfDuplex
<1>3. readyState # "connecting" /\ ~(readyState = "closing" /\ ~wsDestroyed)
  BY <1>0, <1>1, WsFacts DEF Layers
<1>4. Ordered!Extends(wsWritten, wsWritten)
  BY <1>0, ExtendsFacts DEF WsData
<1>5. WsData' /\ WsFlags' /\ WsReads' /\ Layers'
  BY <1>0, <1>1, <1>2, <1>3
  DEF Passes, ProxyOK, WsData, DuplexOK, WsFlags, WsReads, Layers
<1>6. readyState' = "open" => WsHolds' = WsHolds
  BY <1>1, <1>2 DEF Passes, WsHolds
<1>7. SendsOn
  BY <1>1, <1>2, <1>4 DEF SendsOn, Passes
<1> QED BY <1>1, <1>3, <1>5, <1>6, <1>7, WsFacts, WsNext

LEMMA WsDrainStep ==
    ASSUME WsInv, Ws!Drain
    PROVE  WsInv' /\ SendsOn
<1>0. /\ WsFlags /\ WsData /\ WsReads /\ ProxyOK /\ Layers /\ DuplexOK
      /\ OutOfDuplex \in Chunks /\ WsHolds \in Chunks
  BY WsFacts DEF WsData
<1>1. /\ isSocketOpen /\ wsBusy /\ proxyWriting = <<>> /\ ~wsDestroyed
      /\ UNCHANGED <<readyState, isSocketOpen, writeQueue>>
      /\ UNCHANGED <<wsWritten, wsArrived, wsReceived, wsEnded, proxyEnded, wsDestroyed>>
  BY DEF Ws!Drain, Ws!readVars, Ws!endVars
<1>2. /\ Ordered!Extends(wsWritten, wsWritten) /\ Ordered!Extends(wsSent, wsSent)
      /\ <<>> \in Chunks
  BY <1>0, ExtendsFacts, ChunksClosed DEF WsData
<1>3. writeQueue = <<>> /\ ~proxyEnded /\ readyState \notin {"connecting", "closing"}
  BY <1>0, <1>1 DEF Layers
<1>4. CASE wsWaiting = <<>>
  <2>1. wsBusy' = FALSE /\ UNCHANGED <<wsWaiting, proxyWriting, proxyWaiting, wsSent>>
    BY <1>4 DEF Ws!Drain, Ws!proxyVars
  <2>2. WsData' /\ WsFlags' /\ WsReads' /\ Layers'
    BY <1>0, <1>1, <1>3, <1>4, <2>1 DEF WsData, DuplexOK, WsFlags, WsReads, Layers
  <2>3. WsHolds' = WsHolds /\ SendsOn
    BY <1>1, <1>2, <2>1 DEF WsHolds, OutOfDuplex, SendsOn
  <2> QED BY <1>1, <1>3, <2>2, <2>3, WsFacts, WsNext
<1>5. CASE wsWaiting # <<>>
  <2>1. Ws!ProxyWrite(wsWaiting, <<>>) /\ wsWaiting' = <<>> /\ wsBusy' \in BOOLEAN
    BY <1>5 DEF Ws!Drain
  <2>2. Passes(OutOfDuplex \o wsWaiting \o <<>>)
    BY <1>0, <1>2, <1>5, <2>1, ProxyWrites DEF DuplexOK
  <2>3. OutOfDuplex' \in Chunks /\ OutOfDuplex \o wsWaiting \in Chunks
    BY <1>0, <2>2, ConcatChunks DEF Passes, ProxyOK, OutOfDuplex, DuplexOK
  <2>4. readyState' = "open" => WsHolds' = WsHolds
    <3>1. OutOfDuplex \o wsWaiting \o <<>> = WsHolds
      BY <1>0, <1>3, <2>3, ConcatChunks DEF WsHolds
    <3>2. WsHolds' = OutOfDuplex'
      BY <1>1, <1>3, <2>1, <2>3, ConcatChunks DEF WsHolds
    <3> QED BY <2>2, <3>1, <3>2 DEF Passes
  <2>5. WsData' /\ WsFlags' /\ WsReads' /\ Layers'
    BY <1>0, <1>1, <1>2, <1>3, <2>1, <2>2
    DEF Passes, ProxyOK, WsData, DuplexOK, WsFlags, WsReads, Layers
  <2>6. SendsOn
    BY <1>1, <1>2, <2>2 DEF SendsOn, Passes
  <2> QED BY <1>1, <1>3, <2>4, <2>5, <2>6, WsFacts, WsNext
<1> QED BY <1>4, <1>5

LEMMA WsStep ==
    ASSUME WsInv, [Ws!Next]_wsVars
    PROVE  WsInv' /\ SendsOn
<1>0. WsFlags /\ WsData /\ WsReads /\ ProxyOK /\ Layers
  BY WsFacts
<1>1. CASE Ws!Write \/ Ws!OnOpen \/ Ws!ThrottleTimer \/ Ws!Drain
  BY <1>1, WsWriteStep, WsOpenStep, WsTimerStep, WsDrainStep
<1>2. ASSUME Ws!Destroys, readyState' = "closing" \/ readyState' = "closed",
               wsEnded' = wsEnded \/ wsEnded' = TRUE
      PROVE  WsInv' /\ SendsOn
  <2>1. /\ wsDestroyed' = TRUE /\ writeQueue' = <<>> /\ wsWaiting' = <<>> /\ proxyWaiting' = <<>>
        /\ UNCHANGED <<isSocketOpen, wsBusy, proxyWriting, wsSent>>
        /\ UNCHANGED <<wsArrived, wsReceived, proxyEnded, wsWritten>>
    BY <1>2 DEF Ws!Destroys, Ws!readVars
  <2>2. WsFlags' /\ WsReads'
    BY <1>0, <1>2, <2>1 DEF WsFlags, WsReads
  <2>3. Layers'
    BY <1>0, <1>2, <2>1 DEF Layers
  <2> QED BY <1>2, <2>1, <2>2, <2>3, WsQuiet
<1>3. CASE Ws!Destroy \/ Ws!OnError \/ Ws!OnClose
  BY <1>2, <1>3 DEF Ws!Destroy, Ws!OnError, Ws!OnClose, Ws!Closing
<1>4. CASE Ws!SocketEndBrowser
  <2>1. /\ proxyEnded /\ ~wsDestroyed /\ proxyWriting = <<>> /\ readyState' = "closing"
        /\ readyState \in {"connecting", "open"}
        /\ UNCHANGED <<isSocketOpen, wsBusy, wsWaiting, writeQueue, proxyWriting, proxyWaiting>>
        /\ UNCHANGED <<wsSent, wsWritten, wsArrived, wsReceived, wsEnded, proxyEnded, wsDestroyed>>
    BY <1>4
    DEF Ws!SocketEndBrowser, Ws!Closing, Ws!duplexVars, Ws!proxyVars, Ws!readVars, Ws!endVars
  <2>2. writeQueue = <<>> /\ wsWaiting = <<>> /\ proxyWaiting = <<>>
    BY <1>0, <2>1 DEF Layers, WsData, DuplexOK
  <2>3. WsHolds = wsSent /\ WsHolds = wsWritten
    <3>1. WsHolds = wsSent
      BY <1>0, <2>1, <2>2, ConcatChunks DEF WsHolds, OutOfDuplex, WsData
    <3> QED BY <2>1, <3>1, WsFacts
  <2>4. WsFlags' /\ WsReads' /\ Layers'
    BY <1>0, <2>1 DEF WsFlags, WsReads, Layers
  <2> QED BY <2>1, <2>3, <2>4, WsQuiet
<1>5. CASE Ws!Final
  <2>1. /\ wsEnded /\ ~wsBusy /\ ~wsDestroyed /\ writeQueue' = <<>> /\ proxyEnded' = TRUE
        /\ UNCHANGED <<readyState, isSocketOpen, wsBusy, wsWaiting, proxyWriting, proxyWaiting>>
        /\ UNCHANGED <<wsSent, wsWritten, wsArrived, wsReceived, wsEnded, wsDestroyed>>
    BY <1>5 DEF Ws!Final, Ws!proxyVars, Ws!readVars
  <2>2. writeQueue' = writeQueue
    BY <1>0, <2>1 DEF WsData
  <2>3. WsFlags' /\ WsReads' /\ Layers'
    BY <1>0, <2>1 DEF WsFlags, WsReads, Layers
  <2> QED BY <2>1, <2>2, <2>3, WsFacts, WsQuiet
<1>6. CASE Ws!End
  <2>1. /\ UNCHANGED <<isSocketOpen, wsBusy, wsWaiting, writeQueue, proxyWriting, proxyWaiting>>
        /\ UNCHANGED <<readyState, wsSent, wsWritten, wsArrived, wsReceived>>
        /\ UNCHANGED <<proxyEnded, wsDestroyed>> /\ wsEnded' = TRUE
    BY <1>6 DEF Ws!End, Ws!duplexVars, Ws!proxyVars, Ws!readVars
  <2>2. WsFlags' /\ WsReads' /\ Layers'
    BY <1>0, <2>1 DEF WsFlags, WsReads, Layers
  <2> QED BY <2>1, <2>2, WsFacts, WsQuiet
<1>7. CASE Ws!Closed
  <2>1. /\ UNCHANGED <<isSocketOpen, wsBusy, wsWaiting, writeQueue, proxyWriting, proxyWaiting>>
        /\ UNCHANGED <<wsSent, wsWritten, wsArrived, wsReceived, wsEnded, proxyEnded, wsDestroyed>>
        /\ readyState' = "closed"
    BY <1>7 DEF Ws!Closed, Ws!duplexVars, Ws!proxyVars, Ws!readVars, Ws!endVars
  <2>2. WsFlags' /\ WsReads' /\ Layers'
    BY <1>0, <2>1 DEF WsFlags, WsReads, Layers
  <2> QED BY <2>1, <2>2, WsQuiet
<1>8. CASE Ws!OnMessage
  <2>1. /\ UNCHANGED <<isSocketOpen, wsBusy, wsWaiting, writeQueue, proxyWriting, proxyWaiting>>
        /\ UNCHANGED <<readyState, wsSent, wsWritten, wsEnded, proxyEnded, wsDestroyed>>
        /\ wsArrived' \in Chunks /\ wsReceived' \in Chunks
    BY <1>0, <1>8, ChunksClosed
    DEF Ws!OnMessage, Ws!duplexVars, Ws!proxyVars, Ws!endVars, WsReads
  <2>2. WsFlags' /\ WsReads' /\ Layers'
    BY <1>0, <2>1 DEF WsFlags, WsReads, Layers
  <2> QED BY <2>1, <2>2, WsFacts, WsQuiet
<1>9. CASE UNCHANGED wsVars
  <2>1. /\ UNCHANGED <<isSocketOpen, wsBusy, wsWaiting, writeQueue, proxyWriting, proxyWaiting>>
        /\ UNCHANGED <<readyState, wsSent, wsWritten, wsEnded, proxyEnded, wsDestroyed>>
        /\ UNCHANGED <<wsArrived, wsReceived>>
    BY <1>9 DEF wsVars
  <2>2. WsFlags' /\ WsReads' /\ Layers'
    BY <1>0, <2>1 DEF WsFlags, WsReads, Layers
  <2> QED BY <2>1, <2>2, WsFacts, WsQuiet
<1> QED BY <1>1, <1>3, <1>4, <1>5, <1>6, <1>7, <1>8, <1>9 DEF Ws!Next

-----------------------------------------------------------------------------
(* The WebSocket's stream is ordered. *)

\* What is received is what has arrived, until the client has ended.
WsPrefixes ==
    /\ Ordered!Extends(wsWritten, wsSent)
    /\ Ordered!Extends(wsArrived, wsReceived)
    /\ ~wsDestroyed /\ ~proxyEnded => wsReceived = wsArrived

LEMMA WsReadStep ==
    ASSUME WsInv, WsPrefixes, [Ws!Next]_wsVars
    PROVE  /\ wsDestroyed => wsDestroyed' /\ wsReceived' = wsReceived
           /\ Ordered!Extends(wsArrived', wsArrived) /\ Ordered!Extends(wsReceived', wsReceived)
           /\ Ordered!Extends(wsArrived', wsReceived')
           /\ ~wsDestroyed' /\ ~proxyEnded' => wsReceived' = wsArrived'
<1>0. WsFlags /\ WsReads
  BY WsFacts
<1>1. /\ Ordered!Extends(wsArrived, wsArrived) /\ Ordered!Extends(wsReceived, wsReceived)
      /\ Ordered!Extends(wsArrived, wsReceived)
  BY <1>0, ExtendsFacts DEF WsReads, WsPrefixes
<1>2. CASE Ws!OnMessage
  <2> DEFINE message == Len(wsArrived) + 1
  <2>1. /\ UNCHANGED <<proxyEnded, wsDestroyed>> /\ wsArrived' = Append(wsArrived, message)
        /\ wsReceived' = IF wsDestroyed \/ proxyEnded THEN wsReceived
                         ELSE Append(wsReceived, message)
    BY <1>2 DEF Ws!OnMessage, Ws!endVars
  <2>2. message \in Nat
    BY <1>0, ChunksClosed DEF WsReads
  <2> HIDE DEF message
  <2>3. Ordered!Extends(wsArrived', wsArrived) /\ wsArrived' \in Chunks
    BY <1>0, <2>1, <2>2, ExtendsFacts, ChunksClosed DEF WsReads
  <2>4. CASE wsDestroyed \/ proxyEnded
    <3>1. Ordered!Extends(wsArrived', wsReceived)
      BY <1>0, <1>1, <2>3, ExtendsFurther DEF WsReads
    <3> QED BY <1>1, <2>1, <2>3, <2>4, <3>1
  <2>5. CASE ~wsDestroyed /\ ~proxyEnded
    <3>1. wsReceived = wsArrived /\ wsReceived' = wsArrived'
      BY <2>1, <2>5 DEF WsPrefixes
    <3> QED BY <2>1, <2>3, <2>5, <3>1, ExtendsFacts
  <2> QED BY <2>4, <2>5
<1>3. CASE UNCHANGED <<wsArrived, wsReceived>> /\ (wsDestroyed => wsDestroyed')
           /\ (proxyEnded => proxyEnded')
  BY <1>1, <1>3 DEF WsPrefixes
<1>4. CASE Ws!Write \/ Ws!OnOpen \/ Ws!ThrottleTimer \/ Ws!Drain \/ Ws!SocketEndBrowser \/ Ws!Closed
  BY <1>3, <1>4
  DEF Ws!Write, Ws!OnOpen, Ws!ThrottleTimer, Ws!Drain, Ws!SocketEndBrowser, Ws!Closed,
      Ws!readVars, Ws!endVars
<1>5. CASE Ws!End \/ Ws!Final
  BY <1>3, <1>5 DEF Ws!End, Ws!Final, Ws!readVars
<1>6. CASE Ws!Destroy \/ Ws!OnError \/ Ws!OnClose
  BY <1>3, <1>6 DEF Ws!Destroy, Ws!OnError, Ws!OnClose, Ws!Destroys, Ws!readVars
<1>7. CASE UNCHANGED wsVars
  BY <1>3, <1>7 DEF wsVars
<1> QED BY <1>2, <1>4, <1>5, <1>6, <1>7 DEF Ws!Next

LEMMA WsOrderedStep ==
    ASSUME WsInv, WsPrefixes, [Ws!Next]_wsVars
    PROVE  WsPrefixes' /\ [Ws!Ordered!Next]_(Ws!Ordered!vars)
<1>1. WsInv' /\ SendsOn
  BY WsStep
<1>2. WsData /\ WsData' /\ WsFlags' /\ Layers'
  <2>1. (Ws!TypeOK)' /\ Layers'
    BY <1>1 DEF WsInv, WsSafe
  <2> QED BY <2>1, WsTypePartsNext, WsFacts
<1>3. /\ wsDestroyed => wsDestroyed' /\ wsReceived' = wsReceived
      /\ Ordered!Extends(wsArrived', wsArrived) /\ Ordered!Extends(wsReceived', wsReceived)
      /\ Ordered!Extends(wsArrived', wsReceived')
      /\ ~wsDestroyed' /\ ~proxyEnded' => wsReceived' = wsArrived'
  BY WsReadStep
<1>4. wsSent' # wsSent => readyState' = "open" /\ ~wsDestroyed'
  BY <1>1, <1>2 DEF SendsOn, Layers
<1>5. Ordered!Extends(wsWritten', wsSent')
  <2>1. CASE wsSent' = wsSent
    <3>1. Ordered!Extends(wsWritten', wsSent)
      BY <1>1, <1>2, ExtendsFurther DEF WsPrefixes, SendsOn, WsData
    <3> QED BY <2>1, <3>1
  <2>2. CASE wsSent' # wsSent
    <3>1. wsSent' \o proxyWriting' \o proxyWaiting' \o writeQueue' \o wsWaiting' = wsWritten'
      BY <1>1, <1>4, <2>2 DEF WsInv, WsSafe, Ws!HeldInOrder
    <3>2. PICK s \in Chunks, a \in Chunks, b \in Chunks, c \in Chunks, d \in Chunks :
            /\ s = wsSent' /\ a = proxyWriting' /\ b = proxyWaiting'
            /\ c = writeQueue' /\ d = wsWaiting'
      BY <1>2 DEF WsData, DuplexOK
    <3>3. s \o a \in Chunks /\ s \o a \o b \in Chunks /\ s \o a \o b \o c \in Chunks
          /\ s \o a \o b \o c \o d \in Chunks
      BY ConcatChunks
    <3>4. Ordered!Extends(s \o a \o b, s)
      BY <3>3, ExtendsFacts, ExtendsFurther
    <3>5. Ordered!Extends(s \o a \o b \o c, s)
      BY <3>3, <3>4, ExtendsFacts, ExtendsFurther
    <3>6. Ordered!Extends(s \o a \o b \o c \o d, s)
      BY <3>3, <3>5, ExtendsFacts, ExtendsFurther
    <3> QED BY <3>1, <3>2, <3>6
  <2> QED BY <2>1, <2>2
<1>6. WsPrefixes'
  BY <1>3, <1>5 DEF WsPrefixes
<1>7. Ws!Ordered!Moves
  BY <1>1, <1>3, <1>5 DEF Ws!Ordered!Moves, Ws!Ordered!Extends, Ordered!Extends, SendsOn
<1>8. Ws!Ordered!Next
  BY <1>3, <1>4, <1>7 DEF Ws!Ordered!Next
<1> QED BY <1>6, <1>8

(***************************************************************************)
(* Whether they wait for the socket to open, for the proxy or for room,    *)
(* writes are neither lost nor overtaken, none goes out before the socket  *)
(* is open, and end() cuts none off; and the stream is an ordered stream.  *)
(***************************************************************************)
THEOREM WebSocketOrdered == StreamsSpec => WebSocketKeepsOrder
<1>1. StreamsInit => WsInv /\ WsPrefixes /\ Ws!Ordered!Init
  <2> SUFFICES ASSUME StreamsInit PROVE WsInv /\ WsPrefixes /\ Ws!Ordered!Init
    OBVIOUS
  <2>1. Ws!Init
    BY DEF StreamsInit
  <2>2. <<>> \in Chunks /\ <<>> \o <<>> = <<>> /\ Ordered!Extends(<<>>, <<>>)
    BY ChunksClosed, ConcatChunks, ExtendsFacts
  <2>3. Ws!Ordered!Init /\ WsPrefixes
    BY <2>1, <2>2 DEF Ws!Init, Ws!Ordered!Init, WsPrefixes
  <2>4. Layers
    BY <2>1 DEF Ws!Init, Layers
  <2>5. Ws!TypeOK
    BY <2>1, <2>2, WsTypeParts DEF Ws!Init, WsFlags, WsData, WsReads, DuplexOK
  <2>6. Ws!HeldInOrder /\ Ws!NothingBeforeOpen /\ Ws!EndsWhole
    BY <2>1, <2>2 DEF Ws!Init, Ws!HeldInOrder, Ws!NothingBeforeOpen, Ws!EndsWhole
  <2> QED BY <2>3, <2>4, <2>5, <2>6 DEF WsInv, WsSafe
<1>2. [StreamsNext]_streamVars => [Ws!Next]_wsVars
  BY DEF StreamsNext, SocksDo, WsDo, Ws!Next, streamVars
<1>3. WsInv /\ WsPrefixes /\ [StreamsNext]_streamVars
      => WsInv' /\ WsPrefixes' /\ [Ws!Ordered!Next]_(Ws!Ordered!vars)
  BY <1>2, WsStep, WsOrderedStep
<1>4. WsInv => Ws!TypeOK /\ Ws!HeldInOrder /\ Ws!NothingBeforeOpen /\ Ws!EndsWhole
  BY DEF WsInv, WsSafe
<1> QED
  BY <1>1, <1>3, <1>4, PTL
  DEF StreamsSpec, WebSocketKeepsOrder, Ws!ImplementsOrderedStream, Ws!Ordered!Spec
=============================================================================
