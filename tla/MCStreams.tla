----------------------------- MODULE MCStreams -----------------------------
(* The client's stream goes through a SOCKS proxy or is a WebSocket: the   *)
(* other one stays as it is at first.                                      *)
EXTENDS SocksStream

VARIABLES
    which,          \* "socks" or "ws"
    readyState, isSocketOpen, writeQueue, proxyWriting, proxyWaiting, proxyEnded,
    wsBusy, wsWaiting, wsEnded, wsDestroyed, wsWritten, wsSent, wsArrived, wsReceived

Ws == INSTANCE WebSocketStream
      WITH busy <- wsBusy, waiting <- wsWaiting, ended <- wsEnded, destroyed <- wsDestroyed,
           written <- wsWritten, sent <- wsSent, arrived <- wsArrived, received <- wsReceived

wsVars ==
    <<readyState, isSocketOpen, writeQueue, proxyWriting, proxyWaiting, proxyEnded,
      wsBusy, wsWaiting, wsEnded, wsDestroyed, wsWritten, wsSent, wsArrived, wsReceived>>
streamVars == <<which, vars, wsVars>>

StreamsInit == which \in {"socks", "ws"} /\ Init /\ Ws!Init
SocksDo(A) == which = "socks" /\ A /\ UNCHANGED <<which, wsVars>>
WsDo(A) == which = "ws" /\ A /\ UNCHANGED <<which, vars>>
StreamsNext ==
    \/ SocksDo(LookedUp) \/ SocksDo(Fails) \/ SocksDo(Established)
    \/ SocksDo(Write) \/ SocksDo(Written) \/ SocksDo(End)
    \/ SocksDo(Read) \/ SocksDo(Arrives) \/ SocksDo(OnData)
    \/ SocksDo(Consume) \/ SocksDo(PeerEnds) \/ SocksDo(OnEnd)
    \/ SocksDo(OnClose) \/ SocksDo(Destroy)
    \/ WsDo(Ws!Write) \/ WsDo(Ws!OnOpen) \/ WsDo(Ws!ThrottleTimer) \/ WsDo(Ws!Drain)
    \/ WsDo(Ws!End) \/ WsDo(Ws!Final) \/ WsDo(Ws!SocketEndBrowser)
    \/ WsDo(Ws!Destroy) \/ WsDo(Ws!OnError) \/ WsDo(Ws!Closed)
    \/ WsDo(Ws!OnClose) \/ WsDo(Ws!OnMessage)
StreamsSpec ==
    /\ StreamsInit
    /\ [][StreamsNext]_streamVars
    /\ WF_streamVars(SocksDo(GoesOn))
    /\ WF_streamVars(WsDo(Ws!GoesOn))

(* Of a WebSocket, whether they wait for the socket, for the proxy or for  *)
(* room: writes are neither lost nor overtaken, none goes out before the   *)
(* socket is open, and end() cuts none off.  It is an ordered stream.      *)
WebSocketKeepsOrder ==
    /\ [](Ws!TypeOK /\ Ws!HeldInOrder /\ Ws!NothingBeforeOpen /\ Ws!EndsWhole)
    /\ Ws!ImplementsOrderedStream

\* Of either, what is written is sent, and what arrives is read, while the socket lives.
DataGoesThrough ==
    /\ which = "socks" => ArrivedIsRead /\ StartedIsSent
    /\ which = "ws" => Ws!WrittenIsSent
=============================================================================
