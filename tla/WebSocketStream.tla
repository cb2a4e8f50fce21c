-------------------------- MODULE WebSocketStream --------------------------
(***************************************************************************)
(* The stream of a browser's WebSocket (connect/ws.ts): a BufferedDuplex   *)
(* that keeps what is written until the socket opens, a proxy Transform    *)
(* that throttles what it passes to the socket, and the socket's events.   *)
(* WeChat and Alipay use the same BufferedDuplex.                          *)
(*                                                                         *)
(* External: Node's Writable, which has one write under way at a time and  *)
(* joins those that wait into one (writev), and the WebSocket.  Data are   *)
(* numbers, in the order they were written; whether a buffer is full is    *)
(* left open.                                                              *)
(***************************************************************************)
EXTENDS Integers, Sequences

CONSTANTS
    MaxWrites,      \* bound: chunks written
    MaxArrivals     \* bound: messages of the peer

VARIABLES
    readyState,     \* of the socket: "connecting", "open", "closing", "closed"
    isSocketOpen,   \* BufferedDuplex.isSocketOpen
    busy,           \* a write of the duplex is under way: its callback is due
    waiting,        \* the duplex's buffer: written while one is under way
    writeQueue,     \* BufferedDuplex.writeQueue
    proxyWriting,   \* the write of the proxy that a timer holds back
    proxyWaiting,   \* the proxy's buffer behind it
    ended,          \* the client called end()
    proxyEnded,     \* and _final has ended the proxy
    destroyed,
    written,        \* history: what the client wrote
    sent,           \* history: what the socket took
    arrived,        \* history: messages of the peer
    received        \* history: what the duplex has pushed

duplexVars == <<isSocketOpen, busy, waiting, writeQueue>>
proxyVars == <<proxyWriting, proxyWaiting, sent>>
readVars == <<arrived, received>>
endVars == <<ended, proxyEnded, destroyed>>
vars == <<readyState, duplexVars, proxyVars, readVars, endVars, written>>

Chunks == Seq(Nat)

\* Types, and what waits in the duplex waits for the callback of a write.
TypeOK ==
    /\ readyState \in {"connecting", "open", "closing", "closed"}
    /\ isSocketOpen \in BOOLEAN /\ busy \in BOOLEAN
    /\ ended \in BOOLEAN /\ proxyEnded \in BOOLEAN /\ destroyed \in BOOLEAN
    /\ waiting \in Chunks /\ writeQueue \in Chunks
    /\ proxyWriting \in Chunks /\ proxyWaiting \in Chunks
    /\ written \in Chunks /\ sent \in Chunks /\ arrived \in Chunks /\ received \in Chunks
    /\ busy \/ (waiting = <<>> /\ writeQueue = <<>>)

\* The socket is the one that was just made, or an option's that is not open
\* yet.  One passed in open has no BufferedDuplex: its stream is the proxy
\* itself (ws.ts:188), which is not modelled.
Init ==
    /\ readyState = "connecting" /\ isSocketOpen = FALSE
    /\ busy = FALSE /\ waiting = <<>> /\ writeQueue = <<>>
    /\ proxyWriting = <<>> /\ proxyWaiting = <<>>
    /\ ended = FALSE /\ proxyEnded = FALSE /\ destroyed = FALSE
    /\ written = <<>> /\ sent = <<>> /\ arrived = <<>> /\ received = <<>>

-----------------------------------------------------------------------------
(* socketWriteBrowser with `chunks`, and with `more` when they are through:*)
(* the socket may have too much buffered, and then a timer tries again.  A *)
(* socket that is closing discards what it is given.  (readyState' is its  *)
(* state once the event that leads here is delivered.)                     *)
SocketWriteBrowser(chunks, more) ==
    \/ proxyWriting' = chunks /\ proxyWaiting' = more /\ UNCHANGED sent
    \/ /\ readyState' = "open"
       /\ sent' = sent \o chunks \o more
       /\ proxyWriting' = <<>> /\ proxyWaiting' = <<>>
    \/ /\ readyState' = "open" /\ more # <<>>
       /\ sent' = sent \o chunks
       /\ proxyWriting' = more /\ proxyWaiting' = <<>>
    \/ /\ readyState' # "open"
       /\ proxyWriting' = <<>> /\ proxyWaiting' = <<>> /\ UNCHANGED sent

\* mutant: a write does not wait behind the one held back
ProxyWriteOvertakes(chunks, more) == SocketWriteBrowser(chunks, more)

\* proxy.write, a second time when there is `more`.
ProxyWrite(chunks, more) ==
    IF proxyWriting # <<>>
    THEN proxyWaiting' = proxyWaiting \o chunks \o more /\ UNCHANGED <<proxyWriting, sent>>
    ELSE SocketWriteBrowser(chunks, more)

(* writeToProxy: the callback comes at once, and with it the write of all  *)
(* that waits, or it comes with the proxy's drain event.                   *)
WriteToProxy(chunks) ==
    \/ ProxyWrite(chunks, <<>>) /\ busy' = TRUE /\ UNCHANGED waiting
    \/ /\ ProxyWrite(chunks, waiting) /\ waiting' = <<>>
       /\ busy' \in {FALSE, waiting # <<>>}

\* _write: until the socket is open, the chunk is kept.
Queues(chunk) ==
    IF isSocketOpen
    THEN WriteToProxy(chunk) /\ UNCHANGED writeQueue
    ELSE writeQueue' = writeQueue \o chunk /\ busy' = TRUE /\ UNCHANGED <<waiting, proxyVars>>

\* write() of the client: behind a write under way, the chunk waits.
Write ==
    /\ ~ended /\ ~destroyed /\ Len(written) < MaxWrites
    /\ UNCHANGED <<readyState, isSocketOpen, readVars, endVars>>
    /\ LET chunk == <<Len(written) + 1>> IN
       /\ written' = written \o chunk
       /\ IF busy
          THEN waiting' = waiting \o chunk /\ UNCHANGED <<busy, writeQueue, proxyVars>>
          ELSE Queues(chunk)

\* onOpen, socketReady and processWriteQueue.
OnOpen ==
    /\ readyState = "connecting"
    /\ readyState' = "open" /\ isSocketOpen' = TRUE
    /\ writeQueue' = <<>>
    /\ IF writeQueue = <<>>
       THEN UNCHANGED <<busy, waiting, proxyVars>>
       ELSE WriteToProxy(writeQueue)
    /\ UNCHANGED <<readVars, endVars, written>>

\* The timer of socketWriteBrowser.
ThrottleTimer ==
    /\ proxyWriting # <<>>
    /\ UNCHANGED <<readyState, duplexVars, readVars, endVars, written>>
    /\ SocketWriteBrowser(proxyWriting, proxyWaiting)

\* The proxy drains: the callback of the write, and the next one.
Drain ==
    /\ isSocketOpen /\ busy /\ proxyWriting = <<>> /\ ~destroyed
    /\ UNCHANGED <<readyState, isSocketOpen, writeQueue, readVars, endVars, written>>
    /\ IF waiting = <<>>
       THEN busy' = FALSE /\ UNCHANGED <<waiting, proxyVars>>
       ELSE /\ ProxyWrite(waiting, <<>>) /\ waiting' = <<>>
            /\ busy' \in BOOLEAN

-----------------------------------------------------------------------------
\* end() of the client.
End ==
    /\ ~ended /\ ~destroyed
    /\ ended' = TRUE
    /\ UNCHANGED <<readyState, duplexVars, proxyVars, readVars, proxyEnded, destroyed, written>>

\* _final: when no write is under way any more, the proxy is ended.
Final ==
    /\ ended /\ ~proxyEnded /\ ~destroyed /\ ~busy
    /\ writeQueue' = <<>> /\ proxyEnded' = TRUE
    /\ UNCHANGED <<readyState, isSocketOpen, busy, waiting, proxyVars, readVars, ended, destroyed, written>>

\* socket.close()
Closing == readyState' = IF readyState = "closed" THEN "closed" ELSE "closing"

\* socketEndBrowser, once the proxy has passed on all it holds.
SocketEndBrowser ==
    /\ proxyEnded /\ ~destroyed /\ readyState \in {"connecting", "open"} /\ proxyWriting = <<>>
    /\ Closing
    /\ UNCHANGED <<duplexVars, proxyVars, readVars, endVars, written>>

(* _destroy of the duplex: what waits is dropped and the proxy destroyed,  *)
(* whose close event closes the socket.  The throttle timer is not cleared.*)
Destroys ==
    /\ destroyed' = TRUE
    /\ writeQueue' = <<>> /\ waiting' = <<>> /\ proxyWaiting' = <<>>
    /\ UNCHANGED <<isSocketOpen, busy, proxyWriting, sent, readVars, proxyEnded, written>>

\* destroy() of the client.
Destroy == ~destroyed /\ Destroys /\ Closing /\ UNCHANGED ended

\* onError: the socket fails, the stream is destroyed with its error.
OnError ==
    /\ readyState # "closed" /\ ~destroyed
    /\ Destroys /\ readyState' = "closed" /\ UNCHANGED ended

\* The peer or the network closes the socket; the event is still to come.
Closed ==
    /\ readyState # "closed"
    /\ readyState' = "closed"
    /\ UNCHANGED <<duplexVars, proxyVars, readVars, endVars, written>>

\* onClose: the stream is ended and destroyed.
OnClose ==
    /\ readyState = "closed" /\ ~destroyed
    /\ Destroys /\ ended' = TRUE /\ UNCHANGED readyState

\* onMessage: nothing is pushed once the proxy is ended or destroyed.
OnMessage ==
    /\ readyState \in {"open", "closing"} /\ Len(arrived) < MaxArrivals
    /\ arrived' = Append(arrived, Len(arrived) + 1)
    /\ received' = IF destroyed \/ proxyEnded THEN received
                   ELSE Append(received, Len(arrived) + 1)
    /\ UNCHANGED <<readyState, duplexVars, proxyVars, endVars, written>>

Next ==
    \/ Write \/ OnOpen \/ ThrottleTimer \/ Drain
    \/ End \/ Final \/ SocketEndBrowser
    \/ Destroy \/ OnError \/ Closed \/ OnClose \/ OnMessage

Spec == Init /\ [][Next]_vars

(* What goes on by itself: the socket opens, its buffer empties so that a  *)
(* timer finds room, and Node and the browser deliver the events.          *)
GoesOn ==
    \/ OnOpen \/ ThrottleTimer \/ Drain \/ Final \/ SocketEndBrowser \/ OnClose
    \/ readyState = "closing" /\ Closed

-----------------------------------------------------------------------------
(* Nothing that was written is lost or overtaken on its way to a live      *)
(* socket: sent, held back by the throttle, kept until the socket opens or *)
(* waiting in the duplex, in this order, it is all there.                  *)
HeldInOrder ==
    readyState \in {"connecting", "open"} /\ ~destroyed =>
        sent \o proxyWriting \o proxyWaiting \o writeQueue \o waiting = written

\* Nothing is sent before the socket's open event was delivered: send would throw.
NothingBeforeOpen ==
    readyState = "connecting" => sent = <<>> /\ proxyWriting = <<>>

(* end() closes the socket only after everything written was sent: the     *)
(* DISCONNECT the client writes last is not cut off.                       *)
EndsWhole == readyState = "closing" /\ ~destroyed => sent = written

\* What is written while the socket lives is sent, however it is throttled.
WrittenIsSent ==
    \A n \in 1..MaxWrites : n <= Len(written) ~> n <= Len(sent) \/ readyState \in {"closing", "closed"}

\* It is an ordered stream, which destroy() silences.
Ordered == INSTANCE OrderedStream
ImplementsOrderedStream == Ordered!Spec
=============================================================================
