------------------------ MODULE PublishFlow_proofs ------------------------
(***************************************************************************)
(* Proofs about PublishFlow, for any number of publishes, identifiers and  *)
(* lost connections: the broker holds back no identifier that the client   *)
(* may give again, and the whole path implements DeliveryContract.         *)
(*                                                                         *)
(* The user only publishes, and no ack is handled after its connection     *)
(* closed.  The steps are taken under IdsKept, that no identifier in       *)
(* flight passes to another request: for the unique provider this is       *)
(* proved below, and for the default one it holds in the behaviours in     *)
(* which the identifiers given are free (FreeIdsKept).                     *)
(***************************************************************************)
EXTENDS PublishFlow, CallOrder_proofs

-----------------------------------------------------------------------------
(***************************************************************************)
(* The client of the path is the client of OutgoingSession: what is proved *)
(* of that one holds here.                                                 *)
(***************************************************************************)
Reply == [cmd : {"puback", "pubrec", "pubcomp"}, id : Ids \cup {0}, good : BOOLEAN]
WireOK ==
    /\ toBroker \in Seq(Packet) /\ toClient \in Seq(Reply)
    /\ session \in BOOLEAN /\ received \subseteq Ids \cup {0}
    /\ delivered \in [Requests -> Nat] /\ refused \subseteq Requests

\* A step of the path is a step of the client, or leaves it alone.
LEMMA FlowIsClient ==
    ASSUME TypeOK, WireOK, [FlowNext]_allVars
    PROVE  [Next]_vars
<1>1. CASE ClientCalls
  BY <1>1 DEF ClientCalls, Next, User
<1>2. CASE ClientRuns
  BY <1>2 DEF ClientRuns, Next
<1>3. CASE ClientDrains
  BY <1>3 DEF ClientDrains, Next, Network
<1>4. CASE ClientHandlesAck
  <2> DEFINE k == Head(toClient)
  <2>1. k \in Reply
    BY <1>4, SeqType DEF ClientHandlesAck, WireOK
  <2>2. CASE k.id \in DOMAIN outgoing
    <3>1. k.id \in Ids /\ k.good \in BOOLEAN
      BY <2>1, <2>2 DEF TypeOK, Reply
    <3>2. Handles(k)
      BY <1>4, <2>2 DEF ClientHandlesAck
    <3> HIDE DEF k
    <3> QED BY <3>1, <3>2 DEF Handles, Next, Ack
  <2>3. CASE k.id \notin DOMAIN outgoing
    BY <1>4, <2>3 DEF ClientHandlesAck
  <2> QED BY <2>2, <2>3
<1>5. CASE Connected
  BY <1>5 DEF Connected, WireOK, Next, Network
<1>6. CASE PingsLost \/ ConnectionLost
  BY <1>6 DEF PingsLost, ConnectionLost, Next, Network
<1>7. CASE BrokerHandles
  BY <1>7 DEF BrokerHandles, BrokerPublish, BrokerRefuses, BrokerPubrel, BrokerTakes
<1>8. CASE UNCHANGED allVars
  BY <1>8 DEF allVars
<1> QED BY <1>1, <1>2, <1>3, <1>4, <1>5, <1>6, <1>7, <1>8 DEF FlowNext

\* What the broker answers to a packet is a reply.
LEMMA ReplyType ==
    ASSUME WireOK, toBroker # <<>>
    PROVE  /\ Head(toBroker) \in Packet /\ Tail(toBroker) \in Seq(Packet)
           /\ \A cmd \in {"puback", "pubrec", "pubcomp"}, good \in BOOLEAN :
                [cmd |-> cmd, id |-> Head(toBroker).id, good |-> good] \in Reply
<1>1. Head(toBroker) \in Packet /\ Tail(toBroker) \in Seq(Packet)
  BY SeqType DEF WireOK
<1>2. Head(toBroker).id \in Ids \cup {0}
  BY <1>1 DEF Packet
<1> QED BY <1>1, <1>2 DEF Reply

\* The broker keeps the type of what is under way.
LEMMA BrokerType ==
    ASSUME WireOK, BrokerHandles
    PROVE  WireOK'
<1> DEFINE p == Head(toBroker)
<1>1. p \in Packet /\ toBroker' \in Seq(Packet) /\ session' = session
  BY ReplyType DEF BrokerHandles, BrokerPublish, BrokerRefuses, BrokerPubrel, BrokerTakes
<1>2. p.id \in Ids \cup {0} /\ p.req \in Owners
  BY <1>1 DEF Packet
<1>3. \A cmd \in {"puback", "pubrec", "pubcomp"}, good \in BOOLEAN :
        Answers(cmd, p.id, good) => toClient' \in Seq(Reply)
  <2> TAKE cmd \in {"puback", "pubrec", "pubcomp"}, good \in BOOLEAN
  <2>1. [cmd |-> cmd, id |-> p.id, good |-> good] \in Reply
    BY ReplyType DEF BrokerHandles
  <2> QED BY <2>1, SeqType DEF Answers, WireOK
<1> HIDE DEF p
<1>4. Passes(p) => delivered' \in [Requests -> Nat]
  <2>1. CASE p.req \in Requests
    BY <2>1 DEF Passes, WireOK
  <2>2. CASE p.req \notin Requests
    BY <2>2 DEF Passes, WireOK
  <2> QED BY <2>1, <2>2
<1>5. CASE BrokerPublish(p)
  <2>1. toClient' \in Seq(Reply) /\ received' \subseteq Ids \cup {0}
    BY <1>2, <1>3, <1>5 DEF BrokerPublish, WireOK
  <2>2. delivered' \in [Requests -> Nat] /\ refused' \subseteq Requests
    BY <1>4, <1>5 DEF BrokerPublish, WireOK
  <2> QED BY <1>1, <2>1, <2>2 DEF WireOK
<1>6. CASE BrokerRefuses(p)
  <2>1. p.req \in Requests
    BY <1>2, <1>6 DEF BrokerRefuses, KindOf, Owners
  <2>2. toClient' \in Seq(Reply)
    BY <1>3, <1>6 DEF BrokerRefuses
  <2> QED BY <1>1, <1>6, <2>1, <2>2 DEF BrokerRefuses, WireOK
<1>7. CASE BrokerPubrel(p)
  BY <1>1, <1>3, <1>7 DEF BrokerPubrel, WireOK
<1> QED BY <1>5, <1>6, <1>7 DEF BrokerHandles, p

\* So does every step of the path.
LEMMA WireKept ==
    ASSUME TypeOK, TypeOK', WireOK, [FlowNext]_allVars
    PROVE  WireOK'
<1>1. Sends => toBroker' \in Seq(Packet)
  BY ConcatProperties DEF Sends, TypeOK, WireOK
<1>2. CASE ClientCalls \/ ClientRuns \/ ClientDrains
  BY <1>1, <1>2 DEF ClientCalls, ClientRuns, ClientDrains, brokerVars, WireOK
<1>3. CASE ClientHandlesAck
  <2>1. Tail(toClient) \in Seq(Reply)
    BY <1>3, SeqType DEF ClientHandlesAck, WireOK
  <2> QED BY <1>1, <1>3, <2>1 DEF ClientHandlesAck, brokerVars, WireOK
<1>4. CASE Connected \/ PingsLost \/ ConnectionLost
  BY <1>4, SeqType DEF Connected, PingsLost, ConnectionLost, flowVars, brokerVars, WireOK
<1>5. CASE BrokerHandles
  BY <1>5, BrokerType
<1>6. CASE UNCHANGED allVars
  BY <1>6 DEF allVars, flowVars, brokerVars, WireOK
<1> QED BY <1>2, <1>3, <1>4, <1>5, <1>6 DEF FlowNext

\* A behaviour of the path is one of the client.
LEMMA FlowHasClient == FlowSpec => Spec /\ []WireOK
<1>1. FlowInit => Init /\ WireOK
  <2> SUFFICES ASSUME FlowInit PROVE Init /\ WireOK
    OBVIOUS
  <2>1. toBroker \in Seq(Packet) /\ toClient \in Seq(Reply)
    BY SeqType DEF FlowInit
  <2>2. Init /\ session = FALSE /\ received = {} /\ refused = {}
    BY Zenon DEF FlowInit
  <2>3. delivered \in [Requests -> Nat]
    BY DEF FlowInit
  <2> QED BY <2>1, <2>2, <2>3 DEF WireOK
<1>2. Init => TypeOK
  BY InitType
<1>3. TypeOK /\ WireOK /\ [FlowNext]_allVars => (TypeOK' /\ WireOK') /\ [Next]_vars
  BY FlowIsClient, TypeKept, WireKept
<1> QED BY <1>1, <1>2, <1>3, PTL DEF FlowSpec, Spec

\* Such a client queues only its publishes of QoS 0.
QueuedQoS0 ==
    \A i \in DOMAIN queue :
      queue[i].cmd = "publish" /\ queue[i].id = 0 /\ KindOf(queue[i].req) = "qos0"

\* A call that begins queues itself only at QoS 0.
LEMMA QueueTakesQoS0 ==
    ASSUME OnlyPublishes, TypeOK, QueuedQoS0, NEW w \in Waiting, w.req \in Requests,
           BeginOrWait(w) \/ Begin(w)
    PROVE  QueuedQoS0'
<1> DEFINE p == [cmd |-> "publish", id |-> 0, req |-> w.req]
<1>1. queue' = queue \/ (KindOf(w.req) = "qos0" /\ queue' = Append(queue, p))
  <2>1. KindOf(w.req) \in {"qos0", "qos1", "qos2"}
    BY Parameters DEF OnlyPublishes, KindOf
  <2> QED BY <2>1 DEF BeginOrWait, Begin, PublishQoS0, PublishStored
<1>2. CASE KindOf(w.req) = "qos0" /\ queue' = Append(queue, p)
  <2>1. p \in Packet /\ queue \in Seq(Packet)
    BY DEF Packet, Waiting, TypeOK
  <2>2. \A i \in DOMAIN queue' : queue'[i] = p \/ \E j \in DOMAIN queue : queue'[i] = queue[j]
    BY <1>2, <2>1, AppendHeld
  <2> QED BY <1>2, <2>2 DEF QueuedQoS0
<1> QED BY <1>1, <1>2 DEF QueuedQoS0

\* Every step of the client keeps this.
LEMMA QueuedQoS0Kept ==
    ASSUME OnlyPublishes, LateAcks = 0, TypeOK, OnlyMessages, QueuedQoS0, [Next]_vars
    PROVE  QueuedQoS0'
<1>1. CASE UNCHANGED queue
  BY <1>1 DEF QueuedQoS0
<1>2. ASSUME NEW r \in Requests, Call(r) PROVE QueuedQoS0'
  <2> DEFINE new == IF Kind[r] = "sub" THEN Topics[r] \ resub ELSE Topics[r]
  <2>1. [req |-> r, topics |-> new] \in Waiting
    BY Parameters DEF Waiting, Owners
  <2>2. PICK w \in Waiting : w = [req |-> r, topics |-> new]
    BY <2>1
  <2>3. BeginOrWait(w) \/ UNCHANGED queue
    BY <1>2, <2>2 DEF Call
  <2> QED BY <1>1, <2>2, <2>3, QueueTakesQoS0
<1>3. CASE InvokeStoreProcessingQueue
  <2>1. CASE storeProcessing \/ spq = <<>> \/ CannotBegin(Head(spq).req)
    BY <1>1, <1>3, <2>1 DEF InvokeStoreProcessingQueue
  <2>2. CASE ~(storeProcessing \/ spq = <<>> \/ CannotBegin(Head(spq).req))
    <3>1. spq # <<>> /\ Begin(Head(spq))
      BY <1>3, <2>2 DEF InvokeStoreProcessingQueue
    <3>2. Head(spq) \in Waiting /\ Head(spq).req \in Requests
      <4>1. \E j \in DOMAIN spq : Head(spq) = spq[j]
        BY <3>1, TailHeld DEF TypeOK
      <4> QED BY <4>1 DEF OnlyMessages, TypeOK
    <3> QED BY <3>1, <3>2, QueueTakesQoS0
  <2> QED BY <2>1, <2>2
<1>4. CASE Deliver
  <2>1. CASE queue = <<>>
    <3>1. UNCHANGED queue
      BY <1>4, <2>1 DEF Deliver, Resubscribe, OnlyMessages
    <3> QED BY <1>1, <3>1
  <2>2. CASE queue # <<>>
    <3>1. queue' = Tail(queue) /\ queue \in Seq(Packet)
      BY <1>4, <2>2 DEF Deliver, TypeOK
    <3>2. \A i \in DOMAIN queue' : \E j \in DOMAIN queue : queue'[i] = queue[j]
      BY <2>2, <3>1, TailHeld
    <3> QED BY <3>2 DEF QueuedQoS0
  <2> QED BY <2>1, <2>2
<1>5. CASE Ack
  <2>1. Len(queue) >= 0
    BY LenProperties DEF TypeOK
  <2>2. \A id : Acknowledged(id) => connected
    BY <2>1 DEF Acknowledged
  <2>3. UNCHANGED queue
    BY <1>5, <2>2
    DEF Ack, HandlePuback, HandlePubrec, HandleSuback, HandleUnsuback,
        RemoveOutgoingAndStoreMessage, FinishVolatile
  <2> QED BY <1>1, <2>3
<1>6. CASE \E id \in Ids : RemoveOutgoingMessage(id)
  BY <1>1, <1>6 DEF RemoveOutgoingMessage, RemoveOutgoingAndStoreMessage
<1>7. CASE \/ StoreDeliver \/ StreamEnd \/ FlushVolatile \/ FlushStoreProcessingQueue \/ Drain
           \/ KeepaliveTimeout \/ Close \/ (\E present \in BOOLEAN : Connack(present))
           \/ UNCHANGED vars
  BY <1>1, <1>7
  DEF StoreDeliver, StreamEnd, FlushVolatile, FlushStoreProcessingQueue, Drain,
      KeepaliveTimeout, Close, Connack, vars, procVars
<1> QED BY <1>2, <1>3, <1>4, <1>5, <1>6, <1>7 DEF Next, User, Run, Network

\* No call is made twice.
IssuedOnce == \A i, j \in DOMAIN issued : issued[i] = issued[j] => i = j

\* A call is issued once.
LEMMA IssuedOnceKept ==
    ASSUME TypeOK, IssuedOnce, [Next]_vars
    PROVE  IssuedOnce'
<1>1. ASSUME NEW r \in Requests, Call(r) PROVE IssuedOnce'
  <2>1. issued \in Seq(Requests) /\ issued' = Append(issued, r) /\ \A i \in DOMAIN issued : issued[i] # r
    BY <1>1 DEF Call, TypeOK
  <2>2. PICK t : t = issued'
    OBVIOUS
  <2>3. /\ Len(issued) \in Nat /\ DOMAIN issued = 1..Len(issued) /\ DOMAIN t = 1..(Len(issued) + 1)
        /\ \A i \in 1..Len(issued) : t[i] = issued[i]
        /\ t[Len(issued) + 1] = r
    BY <2>1, <2>2, AppendProperties
  <2>4. \A i, j \in DOMAIN t : t[i] = t[j] => i = j
    BY <2>1, <2>3 DEF IssuedOnce
  <2> QED BY <2>2, <2>4 DEF IssuedOnce
<1>2. CASE UNCHANGED issued
  BY <1>2 DEF IssuedOnce
<1>3. (\E r \in Requests : Call(r)) \/ UNCHANGED issued
  BY DEF Next, User, Ack, Run, Network, RemoveOutgoingMessage, RemoveOutgoingAndStoreMessage,
      HandlePuback, HandlePubrec, HandleSuback, HandleUnsuback, FinishVolatile, StoreDeliver,
      StreamEnd, InvokeStoreProcessingQueue, Deliver, FlushVolatile,
      FlushStoreProcessingQueue, Connack, Drain, KeepaliveTimeout, Close, vars
<1> QED BY <1>1, <1>2, <1>3

\* What a lost connection leaves is flushed before the next one begins.
FlushedFirst == task \in {"flushVolatile", "flushQueue"} => reconnectTimer

\* The flush is over when the reconnect timer fires.
LEMMA FlushedFirstKept ==
    ASSUME FlushedFirst, [Next]_vars
    PROVE  FlushedFirst'
<1>1. CASE \E present \in BOOLEAN : Connack(present)
  BY <1>1 DEF Connack, FlushedFirst
<1>2. CASE \/ (\E r \in Requests : Call(r)) \/ Ack \/ (\E id \in Ids : RemoveOutgoingMessage(id))
           \/ InvokeStoreProcessingQueue \/ Deliver \/ StoreDeliver
  <2>1. UNCHANGED reconnectTimer
    BY <1>2
    DEF Call, Ack, RemoveOutgoingMessage, RemoveOutgoingAndStoreMessage, HandlePuback,
        HandlePubrec, HandleSuback, HandleUnsuback, FinishVolatile, InvokeStoreProcessingQueue,
        Deliver, StoreDeliver, connVars
  <2>2. task' = task \/ task' \in {"idle", "invokeOne", "storeDeliver", "invokeAll", "deliver"}
    BY <1>2
    DEF Call, Ack, RemoveOutgoingMessage, RemoveOutgoingAndStoreMessage, HandlePuback,
        HandlePubrec, HandleSuback, HandleUnsuback, FinishVolatile, InvokeStoreProcessingQueue,
        Deliver, StoreDeliver, Resume, AfterBegin, SendQueued
  <2> QED BY <2>1, <2>2 DEF FlushedFirst
<1>3. CASE StreamEnd \/ FlushVolatile \/ FlushStoreProcessingQueue \/ Drain
  BY <1>3 DEF StreamEnd, FlushVolatile, FlushStoreProcessingQueue, Drain, connVars, FlushedFirst
<1>4. CASE KeepaliveTimeout \/ Close \/ UNCHANGED vars
  BY <1>4 DEF KeepaliveTimeout, Close, vars, connVars, FlushedFirst
<1> QED BY <1>1, <1>2, <1>3, <1>4 DEF Next, User, Run, Network

\* What is known of the client on the path.
ClientInv ==
    /\ TypeOK /\ OneHolder /\ OnlyMessages /\ StoredInv /\ OrderInv /\ ReplayInv
    /\ QueuedQoS0 /\ IssuedOnce /\ FlushedFirst

\* All of it holds on the path.
LEMMA ClientAlways ==
    ASSUME OnlyPublishes, LateAcks = 0
    PROVE  FlowSpec => [](ClientInv /\ WireOK)
<1>1. Init => QueuedQoS0 /\ IssuedOnce /\ FlushedFirst
  <2>1. DOMAIN <<>> = {}
    BY EmptySeq
  <2> QED BY <2>1 DEF Init, QueuedQoS0, IssuedOnce, FlushedFirst
<1>2. TypeOK /\ OnlyMessages /\ QueuedQoS0 /\ IssuedOnce /\ FlushedFirst /\ [Next]_vars =>
        QueuedQoS0' /\ IssuedOnce' /\ FlushedFirst'
  BY QueuedQoS0Kept, IssuedOnceKept, FlushedFirstKept
<1>3. Spec => [](TypeOK /\ OneHolder /\ OnlyMessages /\ StoredInv /\ OrderInv /\ ReplayInv)
  BY TypeCorrect, OneHolderAlways, MessagesAlways, StoredAlways, OrderAlways, ReplayQuiet, PTL
<1>4. Spec => [](QueuedQoS0 /\ IssuedOnce /\ FlushedFirst)
  BY <1>1, <1>2, <1>3, PTL DEF Spec
<1> QED BY <1>3, <1>4, FlowHasClient, PTL DEF ClientInv

-----------------------------------------------------------------------------
(***************************************************************************)
(* The invariant of the path.  Of a stored message one thing is under way, *)
(* the packet or the broker's answer to it, or nothing; what the broker    *)
(* has noted, and what it answered, is what the client's store says.       *)
(***************************************************************************)
IsIn(s, p) == \E i \in DOMAIN s : s[i] = p
HasId(s, id) == \E i \in DOMAIN s : s[i].id = id
InOrder(is, s) == \A i, j \in DOMAIN s : i < j => Comes(is, s[i].req, s[j].req)

\* The store holds the messages in flight, in the order of their calls.
StoreHolds ==
    /\ \A id \in DOMAIN outgoing : HasId(store, id)
    /\ \A i \in DOMAIN store :
         /\ KindOf(store[i].req) \in {"qos1", "qos2"}
         /\ store[i].cmd = "pubrel" => KindOf(store[i].req) = "qos2"

\* What is left to replay is stored, in order, and not under way; no new
\* message is stored meanwhile.
RestHolds ==
    /\ stream = "open" =>
         /\ storeProcessing \/ task = "storeDeliver"
         /\ DistinctIds(rest) /\ \A i \in DOMAIN rest : IsIn(store, rest[i])
    /\ stream = "destroyed" => storeProcessing /\ reconnectTimer
    /\ stream \in {"none", "ended"} => rest = <<>>
NotUnderWay(id) == ~HasId(toBroker, id) /\ ~HasId(toClient, id)
RestWaits ==
    stream = "open" => \A i \in DOMAIN rest :
      NotUnderWay(rest[i].id) /\ (UniqueIds => rest[i].id \notin used)

\* One thing is under way per identifier; a QoS 0 publish has none.
Alone(out, back) ==
    /\ \A i, j \in DOMAIN out : out[i].id # 0 /\ out[i].id = out[j].id => i = j
    /\ \A i, j \in DOMAIN back : back[i].id = back[j].id => i = j
    /\ \A i \in DOMAIN out, j \in DOMAIN back : out[i].id # back[j].id
Sent(s, p) ==
    IF p.id = 0 THEN p.cmd = "publish" /\ KindOf(p.req) = "qos0" ELSE IsIn(s, p)
UnderWay ==
    /\ ~connected => toBroker = <<>> /\ toClient = <<>>
    /\ Alone(toBroker, toClient)
    /\ \A i \in DOMAIN toBroker : Sent(store, toBroker[i])

\* An acknowledgement answers the packet that is stored, and says what the
\* broker did with it.
AckOf(k, p) ==
    /\ k.id = p.id
    /\ \/ /\ k.cmd = "puback" /\ p.cmd = "publish" /\ KindOf(p.req) = "qos1"
          /\ IF k.good THEN delivered[p.req] > 0 ELSE p.req \in refused
       \/ /\ k.cmd = "pubrec" /\ p.cmd = "publish" /\ KindOf(p.req) = "qos2"
          /\ IF k.good THEN k.id \in received ELSE k.id \notin received /\ p.req \in refused
       \/ /\ k.cmd = "pubcomp" /\ p.cmd = "pubrel" /\ k.good /\ k.id \notin received
AcksAnswer == \A j \in DOMAIN toClient : \E i \in DOMAIN store : AckOf(toClient[j], store[i])

\* The broker holds an identifier back from the first PUBLISH of a stored
\* QoS 2 message to its PUBREL.
Noted(p) ==
    /\ p.id \in received => KindOf(p.req) = "qos2"
    /\ p.cmd = "publish" /\ KindOf(p.req) = "qos2" =>
         (p.id \in received <=> delivered[p.req] > 0)
    /\ p.cmd = "pubrel" => delivered[p.req] > 0
BrokerKnows ==
    /\ \A id \in received : HasId(store, id)
    /\ \A i \in DOMAIN store : Noted(store[i])

FlowInv == StoreHolds /\ RestHolds /\ RestWaits /\ UnderWay /\ AcksAnswer /\ BrokerKnows

\* Nothing is sent or delivered before its call begins, nor twice without an
\* identifier.
NotBegun(r) ==
    ~WasIssued(r) \/ In(spq, r) \/ (Kind[r] = "qos0" /\ In(queue, r))
Fresh ==
    /\ \A r \in Requests : NotBegun(r) => delivered[r] = 0 /\ ~In(toBroker, r)
    /\ \A i, j \in DOMAIN toBroker : toBroker[i].id = 0 /\ toBroker[j].req = toBroker[i].req => i = j
    /\ \A i \in DOMAIN toBroker : toBroker[i].id = 0 => delivered[toBroker[i].req] = 0

\* A stored message the broker has not settled is under way or to be
\* replayed; it is under way before every later one.
Settled(r) == delivered[r] > 0 \/ r \in refused
NoneForgotten ==
    connected /\ ~reconnectTimer =>
      \A i \in DOMAIN store :
        store[i].cmd = "publish" =>
          Settled(store[i].req) \/ IsIn(toBroker, store[i]) \/ IsIn(rest, store[i])
SentInOrder ==
    \A k \in DOMAIN toBroker : toBroker[k].id # 0 /\ toBroker[k].cmd = "publish" =>
      \A i \in DOMAIN store :
        store[i].cmd = "publish" /\ Comes(issued, store[i].req, toBroker[k].req) =>
          Settled(store[i].req) \/ \E h \in DOMAIN toBroker : h < k /\ toBroker[h] = store[i]
SendInv ==
    /\ InOrder(issued, store) /\ (stream = "open" => InOrder(issued, rest))
    /\ Fresh /\ NoneForgotten /\ SentInOrder


-----------------------------------------------------------------------------
(***************************************************************************)
(* What a sequence holds when it grows at its end and shrinks at its head. *)
(***************************************************************************)
LEMMA AppendAt ==
    ASSUME NEW S, NEW s \in Seq(S), NEW e \in S, NEW t, t = Append(s, e)
    PROVE  /\ \A i \in DOMAIN s : i \in Nat /\ i \in DOMAIN t /\ t[i] = s[i] /\ i < Len(t)
           /\ Len(t) \in DOMAIN t /\ t[Len(t)] = e
           /\ \A i \in DOMAIN t : i = Len(t) \/ i \in DOMAIN s
<1>1. /\ Len(s) \in Nat /\ DOMAIN s = 1..Len(s) /\ DOMAIN t = 1..(Len(s) + 1)
      /\ \A i \in 1..Len(s) : t[i] = s[i]
      /\ t[Len(s) + 1] = e /\ Len(t) = Len(s) + 1
  BY AppendProperties
<1> QED BY <1>1

\* The elements of a tail.
LEMMA TailAt ==
    ASSUME NEW S, NEW s \in Seq(S), s # <<>>, NEW t, t = Tail(s)
    PROVE  /\ \A i \in DOMAIN s : i \in Nat
           /\ 1 \in DOMAIN s /\ s[1] = Head(s)
           /\ \A i \in DOMAIN t : i + 1 \in DOMAIN s /\ t[i] = s[i + 1] /\ i \in Nat /\ i + 1 # 1
           /\ \A i \in DOMAIN s : i # 1 => i - 1 \in DOMAIN t /\ t[i - 1] = s[i]
<1>1. /\ Len(s) \in Nat \ {0} /\ DOMAIN s = 1..Len(s) /\ DOMAIN t = 1..(Len(s) - 1)
      /\ \A i \in 1..(Len(s) - 1) : t[i] = s[i + 1]
      /\ Head(s) = s[1]
  BY HeadTailProperties, EmptySeq
<1> QED BY <1>1

\* The members of a sequence that has grown.
LEMMA AppendIsIn ==
    ASSUME NEW S, NEW s \in Seq(S), NEW e \in S, NEW t, t = Append(s, e)
    PROVE  /\ \A p : IsIn(t, p) <=> IsIn(s, p) \/ p = e
           /\ \A id : HasId(t, id) <=> HasId(s, id) \/ id = e.id
           /\ \A r : In(t, r) <=> In(s, r) \/ r = e.req
BY AppendAt DEF IsIn, HasId, In

\* The members of a sequence without its head.
LEMMA TailIsIn ==
    ASSUME NEW S, NEW s \in Seq(S), s # <<>>, NEW t, t = Tail(s)
    PROVE  /\ IsIn(s, Head(s)) /\ HasId(s, Head(s).id) /\ In(s, Head(s).req)
           /\ \A p : IsIn(s, p) <=> IsIn(t, p) \/ p = Head(s)
           /\ \A id : HasId(s, id) <=> HasId(t, id) \/ id = Head(s).id
           /\ \A r : In(s, r) <=> In(t, r) \/ r = Head(s).req
<1>1. ASSUME NEW i \in DOMAIN s PROVE s[i] = Head(s) \/ \E j \in DOMAIN t : t[j] = s[i]
  <2>1. i # 1 => i - 1 \in DOMAIN t /\ t[i - 1] = s[i]
    BY TailAt
  <2>2. i = 1 => s[i] = Head(s)
    BY TailAt
  <2> QED BY <2>1, <2>2
<1>2. \A j \in DOMAIN t : \E i \in DOMAIN s : t[j] = s[i]
  BY TailAt
<1>3. \E i \in DOMAIN s : s[i] = Head(s)
  BY TailAt
<1> QED BY <1>1, <1>2, <1>3 DEF IsIn, HasId, In

\* A packet is sent, taken and answered, and the answer handled.
LEMMA AloneSends ==
    ASSUME NEW out \in Seq(Packet), NEW back \in Seq(Reply), Alone(out, back), NEW p \in Packet,
           p.id # 0 => ~HasId(out, p.id), ~HasId(back, p.id), NEW t, t = Append(out, p)
    PROVE  Alone(t, back)
BY AppendAt DEF Alone, HasId

\* The broker takes the first packet.
LEMMA AloneTaken ==
    ASSUME NEW out \in Seq(Packet), NEW back \in Seq(Reply), Alone(out, back), out # <<>>,
           NEW t, t = Tail(out)
    PROVE  /\ Alone(t, back) /\ ~HasId(back, Head(out).id)
           /\ Head(out).id # 0 => ~HasId(t, Head(out).id)
<1>1. /\ 1 \in DOMAIN out /\ out[1] = Head(out)
      /\ \A i \in DOMAIN t : i + 1 \in DOMAIN out /\ t[i] = out[i + 1] /\ i \in Nat /\ i + 1 # 1
  BY TailAt
<1>2. ASSUME NEW i \in DOMAIN t, NEW j \in DOMAIN t, t[i].id # 0, t[i].id = t[j].id
      PROVE  i = j
  <2>1. i + 1 = j + 1
    BY <1>1, <1>2 DEF Alone
  <2> QED BY <1>1, <2>1
<1>3. \A i \in DOMAIN t, j \in DOMAIN back : t[i].id # back[j].id
  BY <1>1 DEF Alone
<1>4. ASSUME NEW i \in DOMAIN t, Head(out).id # 0, t[i].id = Head(out).id
      PROVE  FALSE
  BY <1>1, <1>4 DEF Alone
<1> QED BY <1>1, <1>2, <1>3, <1>4 DEF Alone, HasId

\* The broker answers the packet it has taken.
LEMMA AloneAnswered ==
    ASSUME NEW out \in Seq(Packet), NEW back \in Seq(Reply), Alone(out, back), NEW k \in Reply,
           ~HasId(out, k.id), ~HasId(back, k.id), NEW t, t = Append(back, k)
    PROVE  Alone(out, t)
BY AppendAt DEF Alone, HasId

\* The client takes the first acknowledgement.
LEMMA AloneHandled ==
    ASSUME NEW out \in Seq(Packet), NEW back \in Seq(Reply), Alone(out, back), back # <<>>,
           NEW t, t = Tail(back)
    PROVE  Alone(out, t) /\ ~HasId(t, Head(back).id) /\ ~HasId(out, Head(back).id)
BY TailAt DEF Alone, HasId

-----------------------------------------------------------------------------
(***************************************************************************)
(* What a step of the client does to the invariant, by what it sends and   *)
(* stores.                                                                 *)
(***************************************************************************)
LEMMA StoredIds ==
    ASSUME TypeOK, StoredInv, FlowInv
    PROVE  /\ \A i \in DOMAIN store :
                /\ store[i] \in StoredPacket /\ store[i].id \in Ids /\ store[i].id # 0
                /\ store[i].id \in DOMAIN outgoing /\ outgoing[store[i].id].req = store[i].req
                /\ store[i].req \in Requests
           /\ \A i \in DOMAIN toBroker : toBroker[i].id # 0 => HasId(store, toBroker[i].id)
           /\ \A i \in DOMAIN toClient : HasId(store, toClient[i].id)
           /\ ~HasId(toClient, 0)
<1>1. ASSUME NEW i \in DOMAIN store
      PROVE  /\ store[i] \in StoredPacket /\ store[i].id \in Ids /\ store[i].id # 0
             /\ store[i].id \in DOMAIN outgoing /\ outgoing[store[i].id].req = store[i].req
             /\ store[i].req \in Requests
  <2>1. store[i] \in StoredPacket
    BY DEF TypeOK
  <2>2. store[i].id \in Ids /\ store[i].id # 0 /\ store[i].req \in Owners
    BY <2>1 DEF StoredPacket, Packet
  <2>3. store[i].req # Nobody
    BY DEF FlowInv, StoreHolds, KindOf
  <2> QED BY <2>1, <2>2, <2>3 DEF StoredInv, EntryIn, Owners
<1>2. \A i \in DOMAIN toBroker : toBroker[i].id # 0 => HasId(store, toBroker[i].id)
  BY DEF FlowInv, UnderWay, Sent, IsIn, HasId
<1>3. \A i \in DOMAIN toClient : HasId(store, toClient[i].id)
  BY DEF FlowInv, AcksAnswer, AckOf, HasId
<1>4. ~HasId(toClient, 0)
  BY <1>1, <1>3 DEF HasId
<1> QED BY <1>1, <1>2, <1>3, <1>4

\* A step that sends and stores nothing.
LEMMA FlowQuiet ==
    ASSUME FlowInv, UNCHANGED <<store, toBroker, toClient, brokerVars, connected>>,
           DOMAIN outgoing' = DOMAIN outgoing, RestHolds', RestWaits'
    PROVE  FlowInv'
<1>1. StoreHolds' /\ UnderWay'
  BY DEF FlowInv, StoreHolds, HasId, UnderWay, Sent, IsIn, Alone
<1>2. AcksAnswer'
  BY DEF FlowInv, AcksAnswer, AckOf, brokerVars
<1>3. BrokerKnows'
  BY DEF FlowInv, BrokerKnows, Noted, HasId, brokerVars
<1> QED BY <1>1, <1>2, <1>3 DEF FlowInv

\* A publish of QoS 0 is sent.
LEMMA FlowSendsQoS0 ==
    ASSUME TypeOK, WireOK, StoredInv, FlowInv, connected,
           NEW p \in Packet, p.cmd = "publish", p.id = 0, KindOf(p.req) = "qos0",
           toBroker' = Append(toBroker, p),
           UNCHANGED <<store, toClient, brokerVars, connected>>,
           DOMAIN outgoing' = DOMAIN outgoing, RestHolds', stream' # "open"
    PROVE  FlowInv'
<1>1. ~HasId(toClient, 0)
  BY StoredIds
<1>2. Alone(toBroker', toClient')
  <2> DEFINE t == Append(toBroker, p)
  <2>1. Alone(t, toClient)
    BY <1>1, AloneSends DEF WireOK, FlowInv, UnderWay
  <2> QED BY <2>1
<1>3. \A i \in DOMAIN toBroker' : Sent(store, toBroker'[i])
  <2>1. \A i \in DOMAIN toBroker' : toBroker'[i] = p \/ \E j \in DOMAIN toBroker : toBroker'[i] = toBroker[j]
    BY AppendAt DEF WireOK
  <2> QED BY <2>1 DEF FlowInv, UnderWay, Sent
<1>4. UnderWay'
  BY <1>2, <1>3 DEF UnderWay, Sent, IsIn
<1>5. AcksAnswer'
  BY DEF FlowInv, AcksAnswer, AckOf, brokerVars
<1>6. BrokerKnows'
  BY DEF FlowInv, BrokerKnows, Noted, HasId, brokerVars
<1>7. StoreHolds' /\ RestWaits'
  BY DEF FlowInv, StoreHolds, RestWaits, HasId
<1> QED BY <1>4, <1>5, <1>6, <1>7 DEF FlowInv

\* A new message is stored, and sent when the stream takes it.
LEMMA FlowStores ==
    ASSUME TypeOK, WireOK, StoredInv, FlowInv,
           NEW p \in StoredPacket, p.cmd = "publish", KindOf(p.req) \in {"qos1", "qos2"},
           ~HasId(store, p.id), delivered[p.req] = 0,
           store' = Append(store, p), DOMAIN outgoing' = DOMAIN outgoing \cup {p.id},
           toBroker' = toBroker \/ (connected /\ toBroker' = Append(toBroker, p)),
           UNCHANGED <<toClient, brokerVars, connected>>,
           RestHolds', stream' # "open"
    PROVE  FlowInv'
<1> DEFINE S == Append(store, p)
<1>1. p \in Packet /\ p.id # 0 /\ p.id \in Ids
  BY DEF StoredPacket, Packet
<1>2. /\ \A q : IsIn(S, q) <=> IsIn(store, q) \/ q = p
      /\ \A id : HasId(S, id) <=> HasId(store, id) \/ id = p.id
      /\ \A i \in DOMAIN S : S[i] = p \/ \E j \in DOMAIN store : S[i] = store[j]
      /\ \A j \in DOMAIN store : \E i \in DOMAIN S : S[i] = store[j]
  <2>1. store \in Seq(StoredPacket)
    BY DEF TypeOK
  <2>2. \A q : IsIn(S, q) <=> IsIn(store, q) \/ q = p
    BY <2>1, AppendAt DEF IsIn
  <2>3. \A id : HasId(S, id) <=> HasId(store, id) \/ id = p.id
    BY <2>1, AppendIsIn
  <2>4. /\ \A i \in DOMAIN S : S[i] = p \/ \E j \in DOMAIN store : S[i] = store[j]
        /\ \A j \in DOMAIN store : \E i \in DOMAIN S : S[i] = store[j]
    BY <2>1, AppendAt
  <2> QED BY <2>2, <2>3, <2>4
<1>3. ~HasId(toBroker, p.id) /\ ~HasId(toClient, p.id) /\ p.id \notin received
  BY <1>1, StoredIds DEF HasId, FlowInv, BrokerKnows
<1>4. StoreHolds'
  <2>1. \A id \in DOMAIN outgoing' : HasId(S, id)
    BY <1>2 DEF FlowInv, StoreHolds
  <2>2. \A i \in DOMAIN S : /\ KindOf(S[i].req) \in {"qos1", "qos2"}
                            /\ S[i].cmd = "pubrel" => KindOf(S[i].req) = "qos2"
    BY <1>2 DEF FlowInv, StoreHolds
  <2> HIDE DEF S
  <2>3. store' = S
    BY DEF S
  <2> QED BY <2>1, <2>2, <2>3 DEF StoreHolds, HasId
<1>5. Alone(toBroker', toClient')
  <2>1. CASE toBroker' = toBroker
    BY <2>1 DEF FlowInv, UnderWay
  <2>2. CASE toBroker' = Append(toBroker, p)
    <3> DEFINE t == Append(toBroker, p)
    <3>1. Alone(t, toClient)
      BY <1>1, <1>3, AloneSends DEF WireOK, FlowInv, UnderWay
    <3> QED BY <2>2, <3>1
  <2> QED BY <2>1, <2>2
<1>6. \A i \in DOMAIN toBroker' : Sent(S, toBroker'[i])
  <2>1. \A i \in DOMAIN toBroker' : toBroker'[i] = p \/ \E j \in DOMAIN toBroker : toBroker'[i] = toBroker[j]
    BY <1>1, AppendAt DEF WireOK
  <2>2. \A j \in DOMAIN toBroker : Sent(S, toBroker[j])
    BY <1>2 DEF FlowInv, UnderWay, Sent
  <2> QED BY <1>1, <1>2, <2>1, <2>2 DEF Sent
<1>7. UnderWay'
  BY <1>5, <1>6 DEF FlowInv, UnderWay, Sent, IsIn
<1>8. AcksAnswer'
  <2>1. \A j \in DOMAIN toClient : \E i \in DOMAIN S : AckOf(toClient[j], S[i])
    BY <1>2 DEF FlowInv, AcksAnswer
  <2> HIDE DEF S
  <2>2. store' = S
    BY DEF S
  <2> QED BY <2>1, <2>2 DEF AcksAnswer, AckOf, brokerVars
<1>9. BrokerKnows'
  <2>1. Noted(p)
    BY <1>3 DEF Noted
  <2>2. \A i \in DOMAIN S : Noted(S[i])
    BY <1>2, <2>1 DEF FlowInv, BrokerKnows
  <2>3. \A id \in received : HasId(S, id)
    BY <1>2 DEF FlowInv, BrokerKnows
  <2> HIDE DEF S
  <2>4. store' = S
    BY DEF S
  <2> QED BY <2>2, <2>3, <2>4 DEF BrokerKnows, Noted, HasId, brokerVars
<1>10. RestWaits'
  BY DEF RestWaits
<1> QED BY <1>4, <1>7, <1>8, <1>9, <1>10 DEF FlowInv

\* The next packet of the replay is sent.
LEMMA FlowReplays ==
    ASSUME TypeOK, WireOK, StoredInv, FlowInv, connected, stream = "open", rest # <<>>,
           toBroker' = Append(toBroker, Head(rest)), rest' = Tail(rest),
           used' = used \/ used' = used \cup {Head(rest).id},
           DOMAIN outgoing' = DOMAIN outgoing, storeProcessing',
           UNCHANGED <<store, toClient, brokerVars, connected, stream>>
    PROVE  FlowInv'
<1> DEFINE p == Head(rest)
           r == Tail(rest)
           t == Append(toBroker, p)
<1>1. rest \in Seq(StoredPacket) /\ p \in StoredPacket
  BY SeqType DEF TypeOK
<1>2. p \in Packet /\ p.id # 0
  BY <1>1 DEF StoredPacket
<1>3. /\ 1 \in DOMAIN rest /\ rest[1] = p
      /\ \A i \in DOMAIN r : i + 1 \in DOMAIN rest /\ r[i] = rest[i + 1] /\ i \in Nat /\ i + 1 # 1
  BY <1>1, TailAt
<1>4. IsIn(store, p) /\ ~HasId(toBroker, p.id) /\ ~HasId(toClient, p.id)
  BY <1>3 DEF FlowInv, RestHolds, RestWaits, NotUnderWay
<1>5. /\ Alone(t, toClient)
      /\ \A i \in DOMAIN t : t[i] = p \/ \E j \in DOMAIN toBroker : t[i] = toBroker[j]
  <2>1. toBroker \in Seq(Packet) /\ toClient \in Seq(Reply) /\ Alone(toBroker, toClient)
    BY DEF WireOK, FlowInv, UnderWay
  <2>2. Alone(t, toClient)
    BY <1>2, <1>4, <2>1, AloneSends
  <2>3. \A i \in DOMAIN t : t[i] = p \/ \E j \in DOMAIN toBroker : t[i] = toBroker[j]
    BY <1>2, <2>1, AppendAt
  <2> QED BY <2>2, <2>3
<1>6. \A i \in DOMAIN t : Sent(store, t[i])
  BY <1>2, <1>4, <1>5 DEF Sent, FlowInv, UnderWay
<1>7. \A i \in DOMAIN r : r[i].id # p.id
  BY <1>3 DEF FlowInv, RestHolds, DistinctIds
<1>8. RestHolds'
  <2>1. \A i \in DOMAIN r : IsIn(store, r[i])
    BY <1>3 DEF FlowInv, RestHolds
  <2>2. DistinctIds(r)
    <3>1. ASSUME NEW i \in DOMAIN r, NEW j \in DOMAIN r, r[i].id = r[j].id PROVE i = j
      <4>1. i + 1 = j + 1
        BY <1>3, <3>1 DEF FlowInv, RestHolds, DistinctIds
      <4> QED BY <1>3, <4>1
    <3> QED BY <3>1 DEF DistinctIds
  <2> HIDE DEF r
  <2>3. rest' = r
    BY DEF r
  <2> QED BY <2>1, <2>2, <2>3 DEF RestHolds, IsIn, DistinctIds
<1>9. RestWaits'
  <2>1. ASSUME NEW i \in DOMAIN r
        PROVE  /\ ~HasId(toBroker', r[i].id) /\ ~HasId(toClient, r[i].id)
               /\ UniqueIds => r[i].id \notin used'
    <3>1. ~HasId(toBroker, r[i].id) /\ ~HasId(toClient, r[i].id) /\ (UniqueIds => r[i].id \notin used)
      BY <1>3 DEF FlowInv, RestWaits, NotUnderWay
    <3>2. ~HasId(t, r[i].id)
      BY <1>5, <1>7, <3>1 DEF HasId
    <3> QED BY <1>7, <3>1, <3>2
  <2> HIDE DEF r
  <2>2. rest' = r
    BY DEF r
  <2> QED BY <2>1, <2>2 DEF RestWaits, NotUnderWay, HasId
<1>10. UnderWay'
  <2> HIDE DEF t
  <2>1. toBroker' = t
    BY DEF t
  <2> QED BY <1>5, <1>6, <2>1 DEF UnderWay, Sent, IsIn
<1>11. StoreHolds' /\ AcksAnswer'
  BY DEF FlowInv, StoreHolds, HasId, AcksAnswer, AckOf, brokerVars
<1>12. BrokerKnows'
  BY DEF FlowInv, BrokerKnows, Noted, HasId, brokerVars
<1> QED BY <1>8, <1>9, <1>10, <1>11, <1>12 DEF FlowInv

-----------------------------------------------------------------------------
(* An acknowledgement. *)

\* The next acknowledgement answers a stored message, of which nothing else is
\* under way and nothing is left to replay.
LEMMA AckedMessage ==
    ASSUME TypeOK, WireOK, StoredInv, FlowInv, toClient # <<>>,
           NEW k, k = Head(toClient), NEW c, c = Tail(toClient)
    PROVE  /\ k \in Reply /\ c \in Seq(Reply)
           /\ \E i \in DOMAIN store : AckOf(k, store[i])
           /\ k.id \in DOMAIN outgoing /\ k.id \in Ids /\ k.id # 0
           /\ Alone(toBroker, c) /\ ~HasId(c, k.id) /\ ~HasId(toBroker, k.id)
           /\ \A j \in DOMAIN c : \E i \in DOMAIN store : AckOf(c[j], store[i])
           /\ \A id : HasId(c, id) => HasId(toClient, id)
           /\ stream = "open" => ~HasId(rest, k.id)
<1>1. toClient \in Seq(Reply) /\ toBroker \in Seq(Packet)
  BY DEF WireOK
<1>2. k \in Reply /\ c \in Seq(Reply)
  BY <1>1, SeqType
<1>3. /\ 1 \in DOMAIN toClient /\ toClient[1] = k
      /\ \A j \in DOMAIN c : j + 1 \in DOMAIN toClient /\ c[j] = toClient[j + 1]
  BY <1>1, TailAt
<1>4. \E i \in DOMAIN store : AckOf(k, store[i])
  BY <1>3 DEF FlowInv, AcksAnswer
<1>5. k.id \in DOMAIN outgoing /\ k.id \in Ids /\ k.id # 0
  BY <1>4, StoredIds DEF AckOf
<1>6. Alone(toBroker, c) /\ ~HasId(c, k.id) /\ ~HasId(toBroker, k.id)
  <2>1. Alone(toBroker, toClient)
    BY DEF FlowInv, UnderWay
  <2> QED BY <1>1, <2>1, AloneHandled
<1>7. \A j \in DOMAIN c : \E i \in DOMAIN store : AckOf(c[j], store[i])
  BY <1>3 DEF FlowInv, AcksAnswer
<1>8. \A id : HasId(c, id) => HasId(toClient, id)
  BY <1>3 DEF HasId
<1>9. stream = "open" => ~HasId(rest, k.id)
  BY <1>3 DEF FlowInv, RestWaits, NotUnderWay, HasId
<1> QED BY <1>2, <1>4, <1>5, <1>6, <1>7, <1>8, <1>9

\* The pubrel takes the message's place and is sent.
LEMMA FlowReleases ==
    ASSUME TypeOK, WireOK, StoredInv, FlowInv, toClient # <<>>, connected,
           NEW k, k = Head(toClient), k.cmd = "pubrec", k.good,
           NEW p, p = [cmd |-> "pubrel", id |-> k.id, req |-> outgoing[k.id].req],
           store' = Put(store, p), toClient' = Tail(toClient),
           toBroker' = toBroker \/ toBroker' = Append(toBroker, p),
           UNCHANGED <<outgoing, brokerVars, connected, stream, rest, storeProcessing,
                       used, task, reconnectTimer>>
    PROVE  FlowInv'
<1>1. PICK i0 \in DOMAIN store : AckOf(k, store[i0])
  BY AckedMessage
<1> DEFINE m == store[i0]
<1>2. /\ m \in StoredPacket /\ m.id = k.id /\ m.req \in Requests /\ outgoing[m.id].req = m.req
      /\ m.cmd = "publish" /\ KindOf(m.req) = "qos2" /\ k.id \in received
  BY <1>1, StoredIds DEF AckOf
<1>3. p.id = k.id /\ p.req = m.req /\ p.cmd = "pubrel"
  BY <1>2
<1>4. p \in StoredPacket /\ p \in Packet /\ p.id # 0
  <2>1. p.id \in Ids /\ p.req \in Owners /\ p.id # 0
    BY <1>1, <1>2, <1>3, StoredIds DEF Owners
  <2>2. p \in Packet
    BY <2>1 DEF Packet
  <2> QED BY <1>3, <2>1, <2>2 DEF StoredPacket
<1>5. PICK s : s = store'
  OBVIOUS
<1>6. PICK b : b = toBroker'
  OBVIOUS
<1>7. PICK c : c = toClient'
  OBVIOUS
<1>8. /\ \A i \in DOMAIN s : s[i] = p \/ (s[i].id # p.id /\ \E j \in DOMAIN store : s[i] = store[j])
      /\ \E i \in DOMAIN s : s[i] = p
      /\ \A j \in DOMAIN store : store[j].id # p.id => \E i \in DOMAIN s : s[i] = store[j]
  <2>1. store \in Seq(StoredPacket) /\ s = Put(store, p)
    BY <1>5 DEF TypeOK
  <2> QED BY <1>4, <2>1, PutHeld
<1>9. /\ Alone(toBroker, c) /\ ~HasId(c, k.id) /\ ~HasId(toBroker, k.id)
      /\ \A j \in DOMAIN c : \E i \in DOMAIN store : AckOf(c[j], store[i])
      /\ \A id : HasId(c, id) => HasId(toClient, id)
      /\ stream = "open" => ~HasId(rest, k.id)
      /\ c \in Seq(Reply)
  BY <1>7, AckedMessage
<1>10. StoreHolds'
  <2>1. \A id \in DOMAIN outgoing : HasId(s, id)
    BY <1>3, <1>8 DEF FlowInv, StoreHolds, HasId
  <2>2. \A i \in DOMAIN s : /\ KindOf(s[i].req) \in {"qos1", "qos2"}
                            /\ s[i].cmd = "pubrel" => KindOf(s[i].req) = "qos2"
    BY <1>2, <1>3, <1>8 DEF FlowInv, StoreHolds
  <2> QED BY <1>5, <2>1, <2>2 DEF StoreHolds, HasId
<1>11. RestHolds'
  <2>1. stream = "open" => \A i \in DOMAIN rest : IsIn(s, rest[i])
    BY <1>3, <1>8, <1>9 DEF FlowInv, RestHolds, IsIn, HasId
  <2> QED BY <1>5, <2>1 DEF FlowInv, RestHolds, IsIn, DistinctIds
<1>12. /\ Alone(b, c)
       /\ \A i \in DOMAIN b : b[i] = p \/ \E j \in DOMAIN toBroker : b[i] = toBroker[j]
  <2>1. CASE toBroker' = toBroker
    BY <1>6, <1>9, <2>1
  <2>2. CASE toBroker' = Append(toBroker, p)
    <3>1. toBroker \in Seq(Packet) /\ b = Append(toBroker, p)
      BY <1>6, <2>2 DEF WireOK
    <3>2. Alone(b, c)
      BY <1>3, <1>4, <1>9, <3>1, AloneSends
    <3>3. \A i \in DOMAIN b : b[i] = p \/ \E j \in DOMAIN toBroker : b[i] = toBroker[j]
      BY <1>4, <3>1, AppendAt
    <3> QED BY <3>2, <3>3
  <2> QED BY <2>1, <2>2
<1>13. RestWaits'
  <2>1. ASSUME stream = "open", NEW i \in DOMAIN rest
        PROVE  ~HasId(b, rest[i].id) /\ ~HasId(c, rest[i].id) /\ (UniqueIds => rest[i].id \notin used)
    <3>1. /\ ~HasId(toBroker, rest[i].id) /\ ~HasId(toClient, rest[i].id)
          /\ UniqueIds => rest[i].id \notin used
      BY <2>1 DEF FlowInv, RestWaits, NotUnderWay
    <3>2. rest[i].id # p.id
      BY <1>3, <1>9, <2>1 DEF HasId
    <3>3. ~HasId(b, rest[i].id)
      BY <1>12, <3>1, <3>2 DEF HasId
    <3> QED BY <1>9, <3>1, <3>3
  <2> QED BY <1>6, <1>7, <2>1 DEF RestWaits, NotUnderWay, HasId
<1>14. UnderWay'
  <2>1. \A j \in DOMAIN toBroker : Sent(s, toBroker[j])
    BY <1>3, <1>8, <1>9 DEF FlowInv, UnderWay, Sent, IsIn, HasId
  <2>2. \A i \in DOMAIN b : Sent(s, b[i])
    BY <1>4, <1>8, <1>12, <2>1 DEF Sent, IsIn
  <2> QED BY <1>5, <1>6, <1>7, <1>12, <2>2 DEF UnderWay, Sent, IsIn
<1>15. AcksAnswer'
  <2>1. \A j \in DOMAIN c : \E i \in DOMAIN s : AckOf(c[j], s[i])
    <3> TAKE j \in DOMAIN c
    <3>1. PICK i \in DOMAIN store : AckOf(c[j], store[i])
      BY <1>9
    <3>2. store[i].id # p.id
      BY <1>3, <1>9, <3>1 DEF AckOf, HasId
    <3> QED BY <1>8, <3>1, <3>2
  <2> QED BY <1>5, <1>7, <2>1 DEF AcksAnswer, AckOf, brokerVars
<1>16. BrokerKnows'
  <2>1. Noted(p)
    BY <1>1, <1>2, <1>3 DEF FlowInv, BrokerKnows, Noted
  <2>2. \A i \in DOMAIN s : Noted(s[i])
    BY <1>8, <2>1 DEF FlowInv, BrokerKnows
  <2>3. \A id \in received : HasId(s, id)
    BY <1>8 DEF FlowInv, BrokerKnows, HasId
  <2> QED BY <1>5, <2>2, <2>3 DEF BrokerKnows, Noted, HasId, brokerVars
<1> QED BY <1>10, <1>11, <1>13, <1>14, <1>15, <1>16 DEF FlowInv

\* The message is answered and leaves the store: the broker does not hold its
\* identifier back.
LEMMA FlowRemoves ==
    ASSUME TypeOK, WireOK, StoredInv, FlowInv, toClient # <<>>,
           NEW k, k = Head(toClient), k.cmd # "pubrec" \/ ~k.good,
           store' = Del(store, k.id), toClient' = Tail(toClient),
           DOMAIN outgoing' = DOMAIN outgoing \ {k.id}, used' \subseteq used,
           task # "storeDeliver", UNCHANGED <<toBroker, brokerVars, connected,
                       stream, rest, storeProcessing, reconnectTimer>>
    PROVE  FlowInv'
<1>1. PICK i0 \in DOMAIN store : AckOf(k, store[i0])
  BY AckedMessage
<1>2. k.id \notin received
  <2>1. Noted(store[i0])
    BY DEF FlowInv, BrokerKnows
  <2> QED BY <1>1, <2>1 DEF AckOf, Noted
<1>3. PICK s : s = store'
  OBVIOUS
<1>4. PICK c : c = toClient'
  OBVIOUS
<1>5. /\ \A i \in DOMAIN s : \E j \in DOMAIN store : s[i] = store[j]
      /\ \A j \in DOMAIN store : store[j].id # k.id => \E i \in DOMAIN s : s[i] = store[j]
  <2>1. store \in Seq(StoredPacket) /\ s = Del(store, k.id)
    BY <1>3 DEF TypeOK
  <2> QED BY <2>1, DelHeld
<1>6. /\ Alone(toBroker, c) /\ ~HasId(c, k.id) /\ ~HasId(toBroker, k.id)
      /\ \A j \in DOMAIN c : \E i \in DOMAIN store : AckOf(c[j], store[i])
      /\ \A id : HasId(c, id) => HasId(toClient, id)
      /\ stream = "open" => ~HasId(rest, k.id)
      /\ c \in Seq(Reply) /\ k.id # 0
  BY <1>4, AckedMessage
<1>7. StoreHolds'
  <2>1. \A id \in DOMAIN outgoing' : HasId(s, id)
    BY <1>5 DEF FlowInv, StoreHolds, HasId
  <2>2. \A i \in DOMAIN s : /\ KindOf(s[i].req) \in {"qos1", "qos2"}
                            /\ s[i].cmd = "pubrel" => KindOf(s[i].req) = "qos2"
    BY <1>5 DEF FlowInv, StoreHolds
  <2> QED BY <1>3, <2>1, <2>2 DEF StoreHolds, HasId
<1>8. RestHolds'
  <2>1. stream = "open" => \A i \in DOMAIN rest : IsIn(s, rest[i])
    BY <1>5, <1>6 DEF FlowInv, RestHolds, IsIn, HasId
  <2> QED BY <1>3, <2>1 DEF FlowInv, RestHolds, IsIn, DistinctIds
<1>9. RestWaits'
  <2>1. stream = "open" => \A i \in DOMAIN rest :
          ~HasId(toBroker, rest[i].id) /\ ~HasId(c, rest[i].id) /\ (UniqueIds => rest[i].id \notin used')
    BY <1>6 DEF FlowInv, RestWaits, NotUnderWay
  <2> QED BY <1>4, <2>1 DEF RestWaits, NotUnderWay, HasId
<1>10. UnderWay'
  <2>1. \A j \in DOMAIN toBroker : Sent(s, toBroker[j])
    BY <1>5, <1>6 DEF FlowInv, UnderWay, Sent, IsIn, HasId
  <2>2. connected
    BY DEF FlowInv, UnderWay
  <2> QED BY <1>3, <1>4, <1>6, <2>1, <2>2 DEF UnderWay, Sent, IsIn
<1>11. AcksAnswer'
  <2>1. \A j \in DOMAIN c : \E i \in DOMAIN s : AckOf(c[j], s[i])
    <3> TAKE j \in DOMAIN c
    <3>1. PICK i \in DOMAIN store : AckOf(c[j], store[i])
      BY <1>6
    <3>2. store[i].id # k.id
      BY <1>6, <3>1 DEF AckOf, HasId
    <3> QED BY <1>5, <3>1, <3>2
  <2> QED BY <1>3, <1>4, <2>1 DEF AcksAnswer, AckOf, brokerVars
<1>12. BrokerKnows'
  <2>1. \A i \in DOMAIN s : Noted(s[i])
    BY <1>5 DEF FlowInv, BrokerKnows
  <2>2. \A id \in received : HasId(s, id)
    BY <1>2, <1>5 DEF FlowInv, BrokerKnows, HasId
  <2> QED BY <1>3, <2>1, <2>2 DEF BrokerKnows, Noted, HasId, brokerVars
<1> QED BY <1>7, <1>8, <1>9, <1>10, <1>11, <1>12 DEF FlowInv

-----------------------------------------------------------------------------
(* The connection. *)

\* A connection begins with all that is stored to be replayed.
LEMMA FlowConnects ==
    ASSUME StoredInv, FlowInv, ~connected, stream' = "open", rest' = store, used' = {},
           task' = "storeDeliver",
           UNCHANGED <<outgoing, store, toBroker, toClient, received, delivered, refused>>
    PROVE  FlowInv'
<1>1. toBroker = <<>> /\ toClient = <<>> /\ DOMAIN <<>> = {}
  BY EmptySeq DEF FlowInv, UnderWay
<1>2. StoreHolds'
  BY DEF FlowInv, StoreHolds, HasId
<1>3. RestHolds' /\ RestWaits'
  BY <1>1 DEF RestHolds, RestWaits, NotUnderWay, HasId, IsIn, StoredInv, DistinctIds
<1>4. UnderWay' /\ AcksAnswer'
  BY <1>1 DEF UnderWay, Alone, AcksAnswer
<1>5. BrokerKnows'
  BY DEF FlowInv, BrokerKnows, Noted, HasId
<1> QED BY <1>2, <1>3, <1>4, <1>5 DEF FlowInv

\* A connection ends: what is under way is lost.
LEMMA FlowLoses ==
    ASSUME FlowInv, task = "idle", reconnectTimer', toBroker' = <<>>, toClient' = <<>>,
           DOMAIN outgoing' = DOMAIN outgoing, UNCHANGED <<replayVars, used, store, brokerVars>>
    PROVE  FlowInv'
<1>1. DOMAIN <<>> = {}
  BY EmptySeq
<1>2. StoreHolds'
  BY DEF FlowInv, StoreHolds, HasId
<1>3. RestHolds' /\ RestWaits'
  BY <1>1 DEF FlowInv, RestHolds, RestWaits, NotUnderWay, HasId, IsIn, DistinctIds, replayVars
<1>4. UnderWay' /\ AcksAnswer'
  BY <1>1 DEF UnderWay, Alone, AcksAnswer
<1>5. BrokerKnows'
  BY DEF FlowInv, BrokerKnows, Noted, HasId, brokerVars
<1> QED BY <1>2, <1>3, <1>4, <1>5 DEF FlowInv

-----------------------------------------------------------------------------
(* The broker. *)

\* The broker takes a packet: no other thing is under way for its identifier.
LEMMA TakenPacket ==
    ASSUME TypeOK, WireOK, StoredInv, FlowInv, toBroker # <<>>,
           NEW p, p = Head(toBroker), NEW b, b = Tail(toBroker)
    PROVE  /\ p \in Packet /\ b \in Seq(Packet) /\ toClient \in Seq(Reply) /\ connected
           /\ Sent(store, p) /\ (KindOf(p.req) # "qos0" => p.id # 0 /\ IsIn(store, p))
           /\ Alone(b, toClient) /\ ~HasId(toClient, p.id)
           /\ p.id # 0 => ~HasId(b, p.id)
           /\ \A i \in DOMAIN b : \E j \in DOMAIN toBroker : b[i] = toBroker[j]
           /\ \A id : HasId(b, id) => HasId(toBroker, id)
           /\ HasId(toBroker, p.id)
<1>1. toClient \in Seq(Reply) /\ toBroker \in Seq(Packet)
  BY DEF WireOK
<1>2. p \in Packet /\ b \in Seq(Packet)
  BY <1>1, SeqType
<1>3. /\ 1 \in DOMAIN toBroker /\ toBroker[1] = p
      /\ \A j \in DOMAIN b : j + 1 \in DOMAIN toBroker /\ b[j] = toBroker[j + 1]
  BY <1>1, TailAt
<1>4. connected
  BY DEF FlowInv, UnderWay
<1>5. Sent(store, p)
  BY <1>3 DEF FlowInv, UnderWay
<1>6. KindOf(p.req) # "qos0" => p.id # 0 /\ IsIn(store, p)
  BY <1>5 DEF Sent
<1>7. /\ Alone(b, toClient) /\ ~HasId(toClient, p.id)
      /\ p.id # 0 => ~HasId(b, p.id)
  <2>1. Alone(toBroker, toClient)
    BY DEF FlowInv, UnderWay
  <2> QED BY <1>1, <2>1, AloneTaken
<1>8. \A i \in DOMAIN b : \E j \in DOMAIN toBroker : b[i] = toBroker[j]
  BY <1>3
<1>9. (\A id : HasId(b, id) => HasId(toBroker, id)) /\ HasId(toBroker, p.id)
  BY <1>3 DEF HasId
<1> QED BY <1>1, <1>2, <1>4, <1>5, <1>6, <1>7, <1>8, <1>9

\* It takes one without an answer, a publish of QoS 0.
LEMMA FlowTakes ==
    ASSUME TypeOK, WireOK, StoredInv, FlowInv, toBroker # <<>>,
           NEW p, p = Head(toBroker), KindOf(p.req) = "qos0", toBroker' = Tail(toBroker),
           Passes(p), UNCHANGED <<vars, toClient, received, refused>>
    PROVE  FlowInv'
<1>1. PICK b : b = toBroker'
  OBVIOUS
<1>2. /\ Alone(b, toClient) /\ connected
      /\ \A i \in DOMAIN b : \E j \in DOMAIN toBroker : b[i] = toBroker[j]
      /\ \A id : HasId(b, id) => HasId(toBroker, id)
  BY <1>1, TakenPacket
<1>3. UNCHANGED <<connected, reconnectTimer, outgoing, store, stream, rest, storeProcessing,
                  used, task>>
  BY DEF vars, connVars, procVars, idVars, replayVars
<1>4. \A i \in DOMAIN store : delivered'[store[i].req] = delivered[store[i].req]
  <2>1. \A i \in DOMAIN store : store[i].req # p.req
    BY DEF FlowInv, StoreHolds
  <2> QED BY <2>1, StoredIds DEF Passes, WireOK
<1>5. StoreHolds' /\ RestHolds'
  BY <1>3 DEF FlowInv, StoreHolds, RestHolds, HasId, IsIn, DistinctIds
<1>6. RestWaits'
  <2>1. stream = "open" => \A i \in DOMAIN rest :
          ~HasId(b, rest[i].id) /\ ~HasId(toClient, rest[i].id) /\ (UniqueIds => rest[i].id \notin used)
    BY <1>2 DEF FlowInv, RestWaits, NotUnderWay
  <2> QED BY <1>1, <1>3, <2>1 DEF RestWaits, NotUnderWay, HasId
<1>7. UnderWay'
  <2>1. \A i \in DOMAIN b : Sent(store, b[i])
    BY <1>2 DEF FlowInv, UnderWay
  <2> QED BY <1>1, <1>2, <1>3, <2>1 DEF UnderWay, Sent, IsIn
<1>8. AcksAnswer'
  BY <1>3, <1>4 DEF FlowInv, AcksAnswer, AckOf
<1>9. BrokerKnows'
  BY <1>3, <1>4 DEF FlowInv, BrokerKnows, Noted, HasId
<1> QED BY <1>5, <1>6, <1>7, <1>8, <1>9 DEF FlowInv

\* Two stored messages are of two calls.
LEMMA StoredOnce ==
    ASSUME TypeOK, OneHolder, StoredInv, FlowInv, NEW i \in DOMAIN store, NEW j \in DOMAIN store,
           store[i].req = store[j].req
    PROVE  i = j
<1> DEFINE r == store[i].req
<1>1. r \in Requests /\ Kind[r] # "qos0"
  BY StoredIds DEF FlowInv, StoreHolds, KindOf
<1>2. OnceInOutgoing(r)
  BY <1>1 DEF OneHolder, HeldOnce, BegunOnce
<1>3. store[i].id = store[j].id
  BY <1>2, StoredIds DEF OnceInOutgoing
<1> QED BY <1>3 DEF StoredInv, DistinctIds

\* It takes a stored message and answers it.  The rest of its session is that
\* of the other identifiers.
LEMMA FlowAnswers ==
    ASSUME TypeOK, WireOK, WireOK', OneHolder, StoredInv, FlowInv, toBroker # <<>>,
           NEW p, p = Head(toBroker), KindOf(p.req) # "qos0", toBroker' = Tail(toBroker),
           NEW k \in Reply, k.id = p.id, toClient' = Append(toClient, k),
           delivered' = delivered \/ Passes(p), refused \subseteq refused',
           \A id \in Ids : id # p.id => (id \in received' <=> id \in received),
           received' \subseteq received \cup {p.id},
           AckOf(k, p)', Noted(p)', UNCHANGED vars
    PROVE  FlowInv'
<1>1. PICK b : b = toBroker'
  OBVIOUS
<1>2. PICK c : c = toClient'
  OBVIOUS
<1>3. /\ b \in Seq(Packet) /\ toClient \in Seq(Reply) /\ connected
      /\ Alone(b, toClient) /\ p.id # 0 /\ IsIn(store, p) /\ ~HasId(b, p.id) /\ ~HasId(toClient, p.id)
      /\ \A i \in DOMAIN b : \E j \in DOMAIN toBroker : b[i] = toBroker[j]
      /\ \A id : HasId(b, id) => HasId(toBroker, id)
      /\ HasId(toBroker, p.id)
  BY <1>1, TakenPacket
<1>4. UNCHANGED <<connected, reconnectTimer, outgoing, store, stream, rest, storeProcessing,
                  used, task>>
  BY DEF vars, connVars, procVars, idVars, replayVars
<1>5. ASSUME NEW q, IsIn(store, q), q.id # p.id
      PROVE  /\ delivered'[q.req] = delivered[q.req]
             /\ q.id \in received' <=> q.id \in received
             /\ q.req \in refused => q.req \in refused'
  <2>1. PICK i \in DOMAIN store : store[i] = q
    BY <1>5 DEF IsIn
  <2>2. PICK j \in DOMAIN store : store[j] = p
    BY <1>3 DEF IsIn
  <2>3. q.req # p.req
    BY <1>5, <2>1, <2>2, StoredOnce
  <2>4. q.req \in Requests /\ q.id \in Ids
    BY <2>1, StoredIds
  <2> QED BY <1>5, <2>3, <2>4 DEF Passes, WireOK
<1>6. ASSUME NEW q, IsIn(store, q)
      PROVE  /\ Noted(q)'
             /\ \A j : AckOf(j, q) /\ j.id # p.id => AckOf(j, q)'
  <2>1. CASE q.id = p.id
    <3>1. q = p
      BY <1>3, <1>6, <2>1 DEF StoredInv, DistinctIds, IsIn
    <3> QED BY <2>1, <3>1 DEF AckOf
  <2>2. CASE q.id # p.id
    <3>1. Noted(q)
      BY <1>6 DEF FlowInv, BrokerKnows, IsIn
    <3> QED BY <1>5, <1>6, <2>2, <3>1 DEF Noted, AckOf
  <2> QED BY <2>1, <2>2
<1>7. Alone(b, c) /\ \A j \in DOMAIN c : c[j] = k \/ \E i \in DOMAIN toClient : c[j] = toClient[i]
  <2>1. c = Append(toClient, k)
    BY <1>2
  <2>2. Alone(b, c)
    BY <1>3, <2>1, AloneAnswered
  <2>3. \A j \in DOMAIN c : c[j] = k \/ \E i \in DOMAIN toClient : c[j] = toClient[i]
    BY <1>3, <2>1, AppendAt
  <2> QED BY <2>2, <2>3
<1>8. StoreHolds' /\ RestHolds'
  BY <1>4 DEF FlowInv, StoreHolds, RestHolds, HasId, IsIn, DistinctIds
<1>9. RestWaits'
  <2>1. stream = "open" => \A i \in DOMAIN rest :
          ~HasId(b, rest[i].id) /\ ~HasId(c, rest[i].id) /\ (UniqueIds => rest[i].id \notin used)
    BY <1>3, <1>7 DEF FlowInv, RestWaits, NotUnderWay, HasId
  <2> QED BY <1>1, <1>2, <1>4, <2>1 DEF RestWaits, NotUnderWay, HasId
<1>10. UnderWay'
  <2>1. \A i \in DOMAIN b : Sent(store, b[i])
    BY <1>3 DEF FlowInv, UnderWay
  <2> QED BY <1>1, <1>2, <1>3, <1>4, <1>7, <2>1 DEF UnderWay, Sent, IsIn
<1>11. AcksAnswer'
  <2>1. ASSUME NEW j \in DOMAIN c PROVE \E i \in DOMAIN store : AckOf(c[j], store[i])'
    <3>1. CASE c[j] = k
      BY <1>3, <1>4, <3>1 DEF IsIn
    <3>2. CASE c[j] # k
      <4>1. PICK h \in DOMAIN toClient : c[j] = toClient[h]
        BY <1>7, <3>2
      <4>2. PICK i \in DOMAIN store : AckOf(c[j], store[i])
        BY <4>1 DEF FlowInv, AcksAnswer
      <4>3. c[j].id # p.id
        BY <1>3, <4>1 DEF HasId
      <4> QED BY <1>4, <1>6, <4>2, <4>3 DEF IsIn
    <3> QED BY <3>1, <3>2
  <2> QED BY <1>2, <1>4, <2>1 DEF AcksAnswer
<1>12. BrokerKnows'
  <2>1. \A id \in received' : HasId(store, id)
    BY <1>3 DEF FlowInv, BrokerKnows, HasId, IsIn
  <2>2. \A i \in DOMAIN store : Noted(store[i])'
    BY <1>4, <1>6 DEF IsIn
  <2> QED BY <1>4, <2>1, <2>2 DEF BrokerKnows, HasId
<1> QED BY <1>8, <1>9, <1>10, <1>11, <1>12 DEF FlowInv

\* A step of the broker keeps the invariant.
LEMMA BrokerFlow ==
    ASSUME TypeOK, WireOK, WireOK', OneHolder, StoredInv, FlowInv, BrokerHandles
    PROVE  FlowInv'
<1>1. PICK p : p = Head(toBroker)
  OBVIOUS
<1>2. /\ toBroker # <<>> /\ toBroker' = Tail(toBroker) /\ UNCHANGED vars
      /\ BrokerPublish(p) \/ BrokerRefuses(p) \/ BrokerPubrel(p)
  BY <1>1 DEF BrokerHandles, BrokerPublish, BrokerRefuses, BrokerPubrel, BrokerTakes
<1>3. /\ p \in Packet /\ p.id \in Ids \cup {0}
      /\ KindOf(p.req) # "qos0" => p.id # 0 /\ IsIn(store, p) /\ p.req \in Requests /\ Noted(p)
      /\ p.cmd = "pubrel" => KindOf(p.req) = "qos2"
  <2>1. p \in Packet /\ Sent(store, p) /\ (KindOf(p.req) # "qos0" => p.id # 0 /\ IsIn(store, p))
    BY <1>1, <1>2, TakenPacket
  <2>2. p.id \in Ids \cup {0}
    BY <2>1 DEF Packet
  <2>3. IsIn(store, p) => p.req \in Requests /\ Noted(p) /\ (p.cmd = "pubrel" => KindOf(p.req) = "qos2")
    BY StoredIds DEF IsIn, FlowInv, BrokerKnows, StoreHolds
  <2>4. p.id = 0 => p.cmd = "publish"
    BY <2>1 DEF Packet
  <2>5. p.cmd = "pubrel" => KindOf(p.req) = "qos2"
    BY <2>1, <2>3, <2>4 DEF Sent
  <2> QED BY <2>1, <2>2, <2>3, <2>5
<1>4. ASSUME NEW cmd \in {"puback", "pubrec", "pubcomp"}, NEW good \in BOOLEAN,
             Answers(cmd, p.id, good), KindOf(p.req) # "qos0",
             delivered' = delivered \/ Passes(p), refused \subseteq refused',
             \A id \in Ids : id # p.id => (id \in received' <=> id \in received),
             received' \subseteq received \cup {p.id},
             AckOf([cmd |-> cmd, id |-> p.id, good |-> good], p)', Noted(p)'
      PROVE  FlowInv'
  <2>1. PICK k \in Reply : k = [cmd |-> cmd, id |-> p.id, good |-> good]
    BY <1>3 DEF Reply
  <2>2. k.id = p.id /\ toClient' = Append(toClient, k) /\ AckOf(k, p)'
    BY <1>4, <2>1 DEF Answers
  <2> QED BY <1>1, <1>2, <1>4, <2>2, FlowAnswers
<1>5. CASE BrokerPublish(p)
  <2>1. CASE KindOf(p.req) = "qos0"
    BY <1>1, <1>2, <1>5, <2>1, FlowTakes DEF BrokerPublish
  <2>2. CASE KindOf(p.req) = "qos1"
    <3>1. /\ Passes(p) /\ Answers("puback", p.id, TRUE) /\ UNCHANGED <<received, refused>>
          /\ p.cmd = "publish"
      BY <1>5, <2>2 DEF BrokerPublish
    <3>2. delivered'[p.req] > 0
      BY <1>3, <2>2, <3>1 DEF Passes, WireOK
    <3>3. AckOf([cmd |-> "puback", id |-> p.id, good |-> TRUE], p)' /\ Noted(p)'
      BY <1>3, <2>2, <3>1, <3>2 DEF AckOf, Noted
    <3> QED BY <1>4, <2>2, <3>1, <3>3
  <2>3. CASE KindOf(p.req) = "qos2" /\ p.id \notin received
    <3>1. /\ Passes(p) /\ received' = received \cup {p.id} /\ Answers("pubrec", p.id, TRUE)
          /\ UNCHANGED refused /\ p.cmd = "publish"
      BY <1>5, <2>3 DEF BrokerPublish
    <3>2. delivered'[p.req] > 0
      BY <1>3, <2>3, <3>1 DEF Passes, WireOK
    <3>3. AckOf([cmd |-> "pubrec", id |-> p.id, good |-> TRUE], p)' /\ Noted(p)'
      BY <1>3, <2>3, <3>1, <3>2 DEF AckOf, Noted
    <3> QED BY <1>4, <2>3, <3>1, <3>3
  <2>4. CASE KindOf(p.req) = "qos2" /\ p.id \in received
    <3>1. /\ Answers("pubrec", p.id, TRUE) /\ UNCHANGED <<received, delivered, refused>>
          /\ p.cmd = "publish"
      BY <1>5, <2>4 DEF BrokerPublish
    <3>2. AckOf([cmd |-> "pubrec", id |-> p.id, good |-> TRUE], p)' /\ Noted(p)'
      BY <1>3, <2>4, <3>1 DEF AckOf, Noted
    <3> QED BY <1>4, <2>4, <3>1, <3>2
  <2> QED BY <1>5, <2>1, <2>2, <2>3, <2>4 DEF BrokerPublish
<1>6. CASE BrokerRefuses(p)
  <2>1. refused' = refused \cup {p.req} /\ UNCHANGED <<received, delivered>> /\ p.cmd = "publish"
    BY <1>6 DEF BrokerRefuses, BrokerTakes
  <2>2. CASE KindOf(p.req) = "qos1" /\ Answers("puback", p.id, FALSE)
    <3>1. AckOf([cmd |-> "puback", id |-> p.id, good |-> FALSE], p)' /\ Noted(p)'
      BY <1>3, <2>1, <2>2 DEF AckOf, Noted
    <3> QED BY <1>4, <2>1, <2>2, <3>1
  <2>3. CASE KindOf(p.req) = "qos2" /\ p.id \notin received /\ Answers("pubrec", p.id, FALSE)
    <3>1. AckOf([cmd |-> "pubrec", id |-> p.id, good |-> FALSE], p)' /\ Noted(p)'
      BY <1>3, <2>1, <2>3 DEF AckOf, Noted
    <3> QED BY <1>4, <2>1, <2>3, <3>1
  <2> QED BY <1>6, <2>2, <2>3 DEF BrokerRefuses
<1>7. CASE BrokerPubrel(p)
  <2>1. /\ received' = received \ {p.id} /\ Answers("pubcomp", p.id, TRUE)
        /\ UNCHANGED <<delivered, refused>> /\ p.cmd = "pubrel"
    BY <1>7 DEF BrokerPubrel, BrokerTakes
  <2>2. AckOf([cmd |-> "pubcomp", id |-> p.id, good |-> TRUE], p)' /\ Noted(p)'
    BY <1>3, <2>1 DEF AckOf, Noted
  <2> QED BY <1>3, <1>4, <2>1, <2>2
<1> QED BY <1>2, <1>5, <1>6, <1>7

-----------------------------------------------------------------------------
(* The steps of the client. *)

\* What is written is sent, unless the stream is destroyed.
LEMMA WriteSends ==
    ASSUME WireOK, Sends
    PROVE  /\ WriteNothing => toBroker' = toBroker
           /\ \A p \in Packet : Write(p) =>
                toBroker' = IF Destroyed THEN toBroker ELSE Append(toBroker, p)
<1>1. toBroker \in Seq(Packet)
  BY DEF WireOK
<1>2. toBroker \o <<>> = toBroker /\ \A p \in Packet : toBroker \o <<p>> = Append(toBroker, p)
  BY <1>1, ConcatEmptySeq, AppendIsConcat
<1> QED BY <1>2 DEF Sends, Write, WriteNothing

\* No message is sent or stored.  What is left to replay stays, unless the
\* connection is lost.
Rests ==
    /\ UNCHANGED <<store, toBroker, toClient, brokerVars, connected>>
    /\ DOMAIN outgoing' = DOMAIN outgoing /\ RestHolds'
    /\ stream' = "open" => UNCHANGED <<stream, rest, used>>
    /\ ~reconnectTimer' => ~reconnectTimer /\ UNCHANGED rest

\* A publish of QoS 0 is sent: one that was queued, or begins.
SendsQoS0(p) ==
    /\ connected /\ p \in Packet /\ p.cmd = "publish" /\ p.id = 0 /\ KindOf(p.req) = "qos0"
    /\ NotBegun(p.req) /\ ~NotBegun(p.req)'
    /\ toBroker' = Append(toBroker, p)
    /\ DOMAIN outgoing' = DOMAIN outgoing /\ RestHolds' /\ stream' # "open"
    /\ UNCHANGED <<store, toClient, brokerVars, connected, reconnectTimer, rest>>

\* A call of QoS 1 or 2 begins, not in a replay: its message is stored, and
\* sent when the stream takes it.
Stores(p) ==
    /\ p \in StoredPacket /\ p.cmd = "publish" /\ KindOf(p.req) \in {"qos1", "qos2"}
    /\ NotBegun(p.req) /\ ~NotBegun(p.req)' /\ ~HasId(store, p.id)
    /\ store' = Append(store, p) /\ DOMAIN outgoing' = DOMAIN outgoing \cup {p.id}
    /\ toBroker' = IF connected /\ ~reconnectTimer THEN Append(toBroker, p) ELSE toBroker
    /\ RestHolds' /\ stream' # "open" /\ rest = <<>>
    /\ UNCHANGED <<toClient, brokerVars, connected, reconnectTimer, rest>>

\* A stored message is sent again.
Replays ==
    /\ connected /\ ~reconnectTimer /\ stream = "open" /\ rest # <<>> /\ storeProcessing'
    /\ toBroker' = Append(toBroker, Head(rest)) /\ rest' = Tail(rest)
    /\ used' = used \/ used' = used \cup {Head(rest).id}
    /\ DOMAIN outgoing' = DOMAIN outgoing
    /\ UNCHANGED <<connected, reconnectTimer, stream, store, toClient, brokerVars>>

\* The next acknowledgement makes the client send the pubrel, or ends the flow
\* of the message.
Releases(k) ==
    /\ toClient # <<>> /\ k = Head(toClient) /\ toClient' = Tail(toClient)
    /\ k.cmd = "pubrec" /\ k.good /\ connected
    /\ LET p == [cmd |-> "pubrel", id |-> k.id, req |-> outgoing[k.id].req] IN
       /\ store' = Put(store, p)
       /\ toBroker' = toBroker \/ toBroker' = Append(toBroker, p)
    /\ UNCHANGED <<connected, reconnectTimer, replayVars, outgoing, used, task, brokerVars>>
Removes(k) ==
    /\ toClient # <<>> /\ k = Head(toClient) /\ toClient' = Tail(toClient)
    /\ k.cmd # "pubrec" \/ ~k.good
    /\ store' = Del(store, k.id) /\ DOMAIN outgoing' = DOMAIN outgoing \ {k.id}
    /\ used' \subseteq used /\ task # "storeDeliver"
    /\ UNCHANGED <<connected, reconnectTimer, replayVars, toBroker, brokerVars>>

Effects ==
    \/ Rests \/ (\E p : SendsQoS0(p) \/ Stores(p)) \/ Replays
    \/ (\E k : Releases(k) \/ Removes(k))
    \/ Connected \/ ConnectionLost \/ BrokerHandles

\* A call that is called back, waits for 'drain' or is in flight has begun.
LEMMA BegunNow ==
    ASSUME OneHolder', NEW r \in Requests,
           \/ KindOf(r) = "qos0" /\ (called'[r] # 0 \/ In(parked, r)')
           \/ KindOf(r) # "qos0" /\ InOutgoing(r)'
    PROVE  ~NotBegun(r)'
<1>1. KindOf(r) = Kind[r]
  BY Parameters DEF KindOf
<1>2. HeldOnce(r)'
  BY DEF OneHolder
<1>3. CASE KindOf(r) = "qos0" /\ called'[r] # 0
  BY <1>1, <1>2, <1>3 DEF HeldOnce, Begun, NotBegun
<1>4. CASE KindOf(r) = "qos0" /\ In(parked, r)'
  BY <1>1, <1>2, <1>4 DEF HeldOnce, Begun, BegunOnce, NotBegun
<1>5. CASE KindOf(r) # "qos0" /\ InOutgoing(r)'
  BY <1>1, <1>2, <1>5 DEF HeldOnce, Begun, NotBegun
<1> QED BY <1>3, <1>4, <1>5

\* A call begins, made just now or waiting until now, and not in a replay.
Begins(r) ==
    /\ r \in Requests /\ NotBegun(r)
    /\ \/ KindOf(r) = "qos0" /\ PublishQoS0(r)
       \/ KindOf(r) \in {"qos1", "qos2"} /\ PublishStored(r)
    /\ Sends /\ ~storeProcessing /\ task # "storeDeliver" /\ task' # "storeDeliver"
    /\ UNCHANGED <<connected, reconnectTimer, replayVars, toClient, brokerVars>>

\* A call that begins is sent, or stored, or only queued.
LEMMA BeginEffect ==
    ASSUME ClientInv, OneHolder', WireOK, FlowInv, IdsKept, NEW r, Begins(r)
    PROVE  Effects
<1> USE DEF Begins
<1>0. /\ TypeOK /\ StoredInv /\ r \in Requests /\ ~InOutgoing(r)
  <2>2. KindOf(r) # "qos0" => ~InOutgoing(r)
    BY Parameters DEF NotBegun, KindOf, ClientInv, OneHolder, HeldOnce, Begun
  <2>3. KindOf(r) = "qos0" => ~InOutgoing(r)
    BY DEF ClientInv, OneHolder, RightKinds, InOutgoing
  <2> QED BY <2>2, <2>3 DEF ClientInv
<1>1. stream \in {"none", "ended"} /\ rest = <<>>
  BY <1>0 DEF TypeOK, FlowInv, RestHolds
<1>2. RestHolds' /\ stream' # "open" /\ rest' = <<>>
  BY <1>1 DEF RestHolds, replayVars
<1>3. CASE KindOf(r) = "qos0" /\ PublishQoS0(r)
  <2> DEFINE p == [cmd |-> "publish", id |-> 0, req |-> r]
             q == [req |-> r, deliver |-> FALSE]
  <2>1. p \in Packet /\ p.cmd = "publish" /\ p.id = 0 /\ p.req = r /\ KindOf(p.req) = "qos0"
    BY <1>3 DEF Packet, Owners
  <2>2. UNCHANGED <<outgoing, store>>
    BY <1>3 DEF PublishQoS0
  <2>3. CASE ~connected \/ Destroyed
    <3>1. WriteNothing
      BY <1>3, <2>3 DEF PublishQoS0, Write, WriteNothing, Destroyed
    <3>2. toBroker' = toBroker
      BY <3>1, WriteSends
    <3> QED BY <1>1, <1>2, <2>2, <3>2 DEF Rests, Effects
  <2>4. CASE connected /\ ~Destroyed
    <3>1. Write(p) /\ (CallBack(r, TRUE) \/ parked' = Append(parked, q))
      BY <1>3, <2>4 DEF PublishQoS0
    <3>2. q \in Parked /\ parked \in Seq(Parked) /\ q.req = r
      BY <1>0 DEF Parked, Owners, TypeOK
    <3> HIDE DEF p, q
    <3>3. toBroker' = Append(toBroker, p)
      BY <2>1, <2>4, <3>1, WriteSends
    <3>4. CallBack(r, TRUE) => called'[r] # 0
      <4>1. r # Nobody /\ called \in [Requests -> Nat]
        BY <1>0, Parameters DEF TypeOK
      <4> QED BY <1>0, <4>1 DEF CallBack
    <3>5. parked' = Append(parked, q) => In(parked, r)'
      <4> SUFFICES ASSUME parked' = Append(parked, q) PROVE In(parked, r)'
        OBVIOUS
      <4>1. PICK t : t = parked'
        OBVIOUS
      <4>2. In(t, r)
        BY <3>2, <4>1, AppendIsIn
      <4> QED BY <4>1, <4>2 DEF In
    <3>6. ~NotBegun(r)'
      BY <1>0, <1>3, <3>1, <3>4, <3>5, BegunNow
    <3>7. SendsQoS0(p)
      BY <1>1, <1>2, <2>1, <2>2, <2>4, <3>3, <3>6 DEF SendsQoS0
    <3> QED BY <3>7 DEF Effects
  <2> QED BY <2>3, <2>4 DEF Destroyed
<1>4. CASE KindOf(r) \in {"qos1", "qos2"} /\ PublishStored(r)
  <2>1. PICK id \in Ids :
          LET p == [cmd |-> "publish", id |-> id, req |-> r] IN
          /\ outgoing' = With(outgoing, id, [req |-> r, volatile |-> FALSE, replay |-> FALSE])
          /\ store' = Put(store, p)
          /\ IF connected THEN Write(p) ELSE WriteNothing
    BY <1>4 DEF PublishStored
  <2>2. PICK p : p = [cmd |-> "publish", id |-> id, req |-> r]
    OBVIOUS
  <2>3. p \in StoredPacket /\ p \in Packet /\ p.id = id /\ p.req = r /\ p.cmd = "publish"
    <3>1. p \in Packet
      BY <2>2 DEF Packet, Owners
    <3> QED BY <2>2, <3>1, Parameters DEF StoredPacket, Ids
  <2>4. KindOf(p.req) \in {"qos1", "qos2"}
    BY <1>4, <2>3
  <2>5. /\ id \notin DOMAIN outgoing /\ DOMAIN outgoing' = DOMAIN outgoing \cup {id}
        /\ InOutgoing(r)'
    BY <1>0, <2>1 DEF IdsKept, With, InOutgoing
  <2>6. ~HasId(store, p.id)
    BY <1>0, <2>3, <2>5, StoredIds DEF HasId
  <2>7. store' = Append(store, p)
    BY <2>1, <2>2, <2>6 DEF Put, HasId
  <2>8. toBroker' = IF connected /\ ~reconnectTimer THEN Append(toBroker, p) ELSE toBroker
    BY <2>1, <2>2, <2>3, WriteSends DEF Destroyed
  <2>9. ~NotBegun(r)'
    BY <1>0, <1>4, <2>5, BegunNow
  <2>10. Stores(p)
    BY <1>1, <1>2, <2>3, <2>4, <2>5, <2>6, <2>7, <2>8, <2>9 DEF Stores
  <2> QED BY <2>10 DEF Effects
<1> QED BY <1>3, <1>4

\* A step that sends and stores nothing and leaves the replay.
LEMMA RestsQuiet ==
    ASSUME FlowInv, UNCHANGED <<store, toBroker, toClient, brokerVars, connected, stream, rest,
                                storeProcessing, used>>,
           DOMAIN outgoing' = DOMAIN outgoing, task # "storeDeliver",
           reconnectTimer' = reconnectTimer \/ reconnectTimer'
    PROVE  Effects
<1>1. RestHolds'
  BY DEF FlowInv, RestHolds, IsIn, DistinctIds
<1> QED BY <1>1 DEF Rests, Effects

\* A call begins or waits.
LEMMA CallEffect ==
    ASSUME OnlyPublishes, ClientInv, OneHolder', WireOK, FlowInv, IdsKept,
           NEW r \in Requests, Call(r), Sends, UNCHANGED <<toClient, brokerVars>>
    PROVE  Effects
<1>1. PICK w : w = [req |-> r, topics |-> Topics[r]]
  OBVIOUS
<1>2. w.req = r /\ KindOf(r) = Kind[r] /\ Kind[r] \in {"qos0", "qos1", "qos2"}
  BY <1>1, Parameters DEF OnlyPublishes, KindOf
<1>3. /\ BeginOrWait(w) /\ UNCHANGED <<connVars, replayVars, task>> /\ task = "idle"
      /\ NotBegun(r)
  BY <1>1, <1>2 DEF Call, Idle, NotBegun, WasIssued
<1>4. CASE MustWait(r)
  <2>1. WriteNothing /\ UNCHANGED <<outgoing, store, idVars>>
    BY <1>2, <1>3, <1>4 DEF BeginOrWait
  <2>2. toBroker' = toBroker
    BY <2>1, WriteSends DEF ClientInv
  <2> QED BY <1>3, <2>1, <2>2, RestsQuiet DEF connVars, replayVars, idVars
<1>5. CASE ~MustWait(r)
  <2>1. Begin(w) /\ ~storeProcessing
    BY <1>2, <1>3, <1>5 DEF BeginOrWait, MustWait
  <2>2. Begins(r)
    BY <1>2, <1>3, <2>1 DEF Begin, Begins, connVars, replayVars
  <2> QED BY <2>2, BeginEffect
<1> QED BY <1>4, <1>5

\* A waiting call begins.
LEMMA InvokeEffect ==
    ASSUME OnlyPublishes, ClientInv, OneHolder', WireOK, FlowInv, IdsKept,
           InvokeStoreProcessingQueue, Sends, UNCHANGED <<toClient, brokerVars>>
    PROVE  Effects
<1>0. UNCHANGED <<connVars, replayVars>> /\ task \in {"invokeOne", "invokeAll"}
  BY DEF InvokeStoreProcessingQueue
<1>1. CASE storeProcessing \/ spq = <<>> \/ CannotBegin(Head(spq).req)
  <2>1. WriteNothing /\ UNCHANGED <<outgoing, store, idVars>>
    BY <1>1 DEF InvokeStoreProcessingQueue
  <2>2. toBroker' = toBroker
    BY <2>1, WriteSends
  <2> QED BY <1>0, <2>1, <2>2, RestsQuiet DEF connVars, replayVars, idVars
<1>2. CASE ~(storeProcessing \/ spq = <<>> \/ CannotBegin(Head(spq).req))
  <2>1. spq # <<>> /\ ~storeProcessing /\ Begin(Head(spq)) /\ task' \in {"invokeAll", "idle"}
    BY <1>2 DEF InvokeStoreProcessingQueue, AfterBegin
  <2>2. spq \in Seq(Waiting)
    BY DEF ClientInv, TypeOK
  <2>3. PICK w : w = Head(spq)
    OBVIOUS
  <2>4. w.req \in Requests /\ In(spq, w.req)
    <3>1. \E j \in DOMAIN spq : Head(spq) = spq[j]
      BY <2>1, <2>2, TailHeld
    <3> QED BY <2>3, <3>1 DEF ClientInv, OnlyMessages, In
  <2>5. KindOf(w.req) \in {"qos0", "qos1", "qos2"}
    BY <2>4, Parameters DEF OnlyPublishes, KindOf
  <2>6. Begins(w.req)
    BY <1>0, <2>1, <2>3, <2>4, <2>5 DEF Begin, Begins, NotBegun, connVars
  <2> QED BY <2>6, BeginEffect
<1> QED BY <1>1, <1>2

\* A step of the replay sends a stored packet, or ends the replay.
LEMMA StoreDeliverEffect ==
    ASSUME ClientInv, WireOK, FlowInv, StoreDeliver, Sends, UNCHANGED <<toClient, brokerVars>>
    PROVE  Effects
<1>0. /\ stream = "open" /\ connected /\ UNCHANGED <<connected, reconnectTimer, store>>
      /\ rest \in Seq(StoredPacket) /\ TypeOK /\ StoredInv
  BY DEF StoreDeliver, ClientInv, ReplayInv, LoopsAreOnline, connVars, TypeOK
<1>1. CASE rest = <<>>
  <2>1. stream' = "ended" /\ WriteNothing /\ UNCHANGED <<outgoing, rest>>
    BY <1>1 DEF StoreDeliver
  <2>2. toBroker' = toBroker
    BY <2>1, WriteSends
  <2>3. RestHolds'
    BY <1>1, <2>1 DEF RestHolds
  <2> QED BY <1>0, <2>1, <2>2, <2>3 DEF Rests, Effects
<1>2. CASE rest # <<>> /\ reconnectTimer
  <2>1. stream' = "destroyed" /\ storeProcessing' /\ WriteNothing /\ UNCHANGED outgoing
    BY <1>2 DEF StoreDeliver
  <2>2. toBroker' = toBroker
    BY <2>1, WriteSends
  <2>3. RestHolds'
    BY <1>0, <1>2, <2>1 DEF RestHolds
  <2> QED BY <1>0, <1>2, <2>1, <2>2, <2>3 DEF Rests, Effects
<1>3. CASE rest # <<>> /\ ~reconnectTimer
  <2>1. PICK p : p = Head(rest)
    OBVIOUS
  <2>2. /\ rest' = Tail(rest) /\ storeProcessing' /\ Replay(p) /\ UNCHANGED stream
    BY <1>3, <2>1 DEF StoreDeliver, Replay
  <2>3. 1 \in DOMAIN rest /\ rest[1] = p
    BY <1>0, <1>3, <2>1, TailAt
  <2>4. p \in StoredPacket /\ p \in Packet
    BY <1>0, <1>3, <2>1, SeqType DEF StoredPacket
  <2>5. ~Registered(p.id) /\ p.id \in DOMAIN outgoing
    BY <1>0, <2>3, StoredIds DEF FlowInv, RestWaits, RestHolds, IsIn, Registered
  <2>6. Write(p) /\ DOMAIN outgoing' = DOMAIN outgoing
    BY <2>2, <2>5 DEF Replay, With
  <2>7. toBroker' = Append(toBroker, p)
    BY <1>3, <2>4, <2>6, WriteSends DEF Destroyed
  <2>8. used' = used \/ used' = used \cup {p.id}
    BY <2>2 DEF Replay, Register
  <2> QED BY <1>0, <1>3, <2>1, <2>2, <2>6, <2>7, <2>8 DEF Replays, Effects
<1> QED BY <1>1, <1>2, <1>3

\* A step of deliver sends a queued publish of QoS 0.
LEMMA DeliverEffect ==
    ASSUME ClientInv, OneHolder', WireOK, FlowInv, Deliver, Sends, UNCHANGED <<toClient, brokerVars>>
    PROVE  Effects
<1>0. /\ task = "deliver" /\ UNCHANGED <<connected, reconnectTimer, replayVars>>
      /\ TypeOK /\ StoredInv /\ queue \in Seq(Packet)
  BY DEF Deliver, ClientInv, TypeOK
<1>1. stream = "none" /\ connected
  BY <1>0 DEF ClientInv, ReplayInv, LoopsAreOnline, ReplayIsAlone
<1>2. CASE queue = <<>>
  <2>1. WriteNothing /\ UNCHANGED <<outgoing, store, idVars>>
    BY <1>2 DEF Deliver, Resubscribe, ClientInv, OnlyMessages
  <2>2. toBroker' = toBroker
    BY <2>1, WriteSends
  <2> QED BY <1>0, <2>1, <2>2, RestsQuiet DEF replayVars, idVars
<1>3. CASE queue # <<>>
  <2>1. PICK p : p = Head(queue)
    OBVIOUS
  <2>2. /\ p \in Packet /\ p.cmd = "publish" /\ p.id = 0 /\ KindOf(p.req) = "qos0"
        /\ In(queue, p.req)
    <3>1. 1 \in DOMAIN queue /\ queue[1] = p
      BY <1>0, <1>3, <2>1, TailAt
    <3> QED BY <1>0, <3>1 DEF TypeOK, ClientInv, QueuedQoS0, In
  <2>3. p.req \in Requests /\ Kind[p.req] = "qos0"
    BY <2>2 DEF Packet, Owners, KindOf
  <2>4. ~Registered(p.id)
    <3>1. 0 \notin Ids
      BY Parameters DEF Ids
    <3> QED BY <1>0, <2>2, <3>1 DEF Registered, TypeOK
  <2>5. SendQueued(p) /\ UNCHANGED outgoing
    BY <1>3, <2>1, <2>4 DEF Deliver
  <2>6. Write(p) /\ UNCHANGED <<store, used>>
    BY <2>2, <2>5 DEF SendQueued, Register
  <2>7. CASE reconnectTimer
    <3>1. toBroker' = toBroker
      BY <1>1, <2>2, <2>6, <2>7, WriteSends DEF Destroyed
    <3> QED BY <1>0, <2>5, <2>6, <3>1, RestsQuiet DEF replayVars
  <2>8. CASE ~reconnectTimer
    <3> DEFINE q == [req |-> p.req, deliver |-> TRUE]
    <3>1. toBroker' = Append(toBroker, p)
      BY <2>2, <2>6, <2>8, WriteSends DEF Destroyed
    <3>2. CallBack(p.req, TRUE) \/ parked' = Append(parked, q)
      BY <2>2, <2>5 DEF SendQueued
    <3>3. q \in Parked /\ parked \in Seq(Parked) /\ q.req = p.req
      BY <1>0, <2>3 DEF Parked, Owners, TypeOK
    <3> HIDE DEF q
    <3>4. CallBack(p.req, TRUE) => called'[p.req] # 0
      <4>1. p.req # Nobody /\ called \in [Requests -> Nat]
        BY <1>0, <2>3, Parameters DEF TypeOK
      <4> QED BY <2>3, <4>1 DEF CallBack
    <3>5. parked' = Append(parked, q) => In(parked, p.req)'
      <4> SUFFICES ASSUME parked' = Append(parked, q) PROVE In(parked, p.req)'
        OBVIOUS
      <4>1. PICK t : t = parked'
        OBVIOUS
      <4>2. In(t, p.req)
        BY <3>3, <4>1, AppendIsIn
      <4> QED BY <4>1, <4>2 DEF In
    <3>6. NotBegun(p.req) /\ ~NotBegun(p.req)'
      BY <2>2, <2>3, <3>2, <3>4, <3>5, BegunNow DEF NotBegun
    <3>7. RestHolds' /\ stream' # "open"
      BY <1>0, <1>1 DEF FlowInv, RestHolds, replayVars
    <3>8. SendsQoS0(p)
      BY <1>0, <1>1, <2>2, <2>5, <2>6, <3>1, <3>6, <3>7 DEF SendsQoS0, replayVars
    <3> QED BY <3>8 DEF Effects
  <2> QED BY <2>7, <2>8
<1> QED BY <1>2, <1>3

\* The other steps of the client's own.
LEMMA QuietEffect ==
    ASSUME ClientInv, WireOK, FlowInv, UNCHANGED <<toClient, brokerVars>>, Sends,
           StreamEnd \/ FlushVolatile \/ FlushStoreProcessingQueue \/ Drain
    PROVE  Effects
<1>1. CASE StreamEnd
  <2>1. stream' = "none" /\ WriteNothing /\ UNCHANGED <<connVars, outgoing, store, rest>> /\ stream = "ended"
    BY <1>1 DEF StreamEnd
  <2>2. toBroker' = toBroker /\ rest = <<>>
    BY <2>1, WriteSends DEF FlowInv, RestHolds
  <2>3. RestHolds'
    BY <2>1, <2>2 DEF RestHolds
  <2> QED BY <2>1, <2>2, <2>3 DEF Rests, Effects, connVars
<1>2. CASE FlushVolatile
  <2>1. WriteNothing /\ UNCHANGED <<connVars, outgoing, store, idVars, replayVars>> /\ task = "flushVolatile"
    BY <1>2 DEF FlushVolatile, ClientInv, OnlyMessages
  <2>2. toBroker' = toBroker
    BY <2>1, WriteSends
  <2> QED BY <2>1, <2>2, RestsQuiet DEF connVars, replayVars, idVars
<1>3. CASE FlushStoreProcessingQueue
  <2>1. WriteNothing /\ UNCHANGED <<connVars, outgoing, store, idVars>> /\ task = "flushQueue"
    BY <1>3 DEF FlushStoreProcessingQueue
  <2>2. toBroker' = toBroker
    BY <2>1, WriteSends
  <2>3. CASE UNCHANGED replayVars
    BY <2>1, <2>2, <2>3, RestsQuiet DEF connVars, replayVars, idVars
  <2>4. CASE stream' = "none" /\ rest' = <<>>
    <3>1. reconnectTimer'
      BY <2>1 DEF ClientInv, FlushedFirst, connVars
    <3>2. RestHolds'
      BY <2>4 DEF RestHolds
    <3> QED BY <2>1, <2>2, <2>4, <3>1, <3>2 DEF Rests, Effects, connVars
  <2> QED BY <1>3, <2>3, <2>4 DEF FlushStoreProcessingQueue
<1>4. CASE Drain
  <2>1. WriteNothing /\ UNCHANGED <<connVars, outgoing, store, idVars, replayVars>> /\ task = "idle"
    BY <1>4 DEF Drain, Turn, Idle
  <2>2. toBroker' = toBroker
    BY <2>1, WriteSends
  <2> QED BY <2>1, <2>2, RestsQuiet DEF connVars, replayVars, idVars
<1> QED BY <1>1, <1>2, <1>3, <1>4

\* The keepalive timeout sends nothing.
LEMMA PingsEffect ==
    ASSUME FlowInv, PingsLost
    PROVE  Effects
BY RestsQuiet DEF PingsLost, KeepaliveTimeout, Turn, Idle, flowVars, replayVars, idVars

\* The acknowledgement is of a message in flight, and of its type.
LEMMA AckEffect ==
    ASSUME ClientInv, WireOK, FlowInv, ClientHandlesAck
    PROVE  Effects
<1>1. PICK k : k = Head(toClient)
  OBVIOUS
<1>2. TypeOK /\ StoredInv
  BY DEF ClientInv
<1>3. /\ toClient # <<>> /\ toClient' = Tail(toClient) /\ connected /\ UNCHANGED brokerVars
      /\ task = "idle"
  BY DEF ClientHandlesAck, Turn, Idle
<1>4. k \in Reply /\ k.id \in DOMAIN outgoing /\ k.id \in Ids
  BY <1>1, <1>2, <1>3, AckedMessage
<1>5. Handles(k) /\ Sends
  BY <1>1, <1>4 DEF ClientHandlesAck
<1>6. ASSUME NEW good, RemoveOutgoingAndStoreMessage(k.id, good), k.cmd # "pubrec" \/ ~k.good
      PROVE  Effects
  <2>1. /\ store' = Del(store, k.id) /\ WriteNothing /\ UNCHANGED <<connVars, replayVars>>
        /\ DOMAIN outgoing' = DOMAIN outgoing \ {k.id} /\ used' \subseteq used
    BY <1>6 DEF RemoveOutgoingAndStoreMessage, Without
  <2>2. toBroker' = toBroker
    BY <1>5, <2>1, WriteSends
  <2> QED BY <1>1, <1>3, <1>6, <2>1, <2>2 DEF Removes, Effects, connVars
<1>7. CASE k.cmd \in {"puback", "pubcomp"} /\ HandlePuback(k.id, k.good)
  BY <1>6, <1>7 DEF HandlePuback
<1>8. CASE k.cmd = "pubrec" /\ HandlePubrec(k.id, k.good)
  <2>1. CASE ~k.good
    BY <1>6, <1>8, <2>1 DEF HandlePubrec
  <2>2. CASE k.good
    <3>1. PICK p : p = [cmd |-> "pubrel", id |-> k.id, req |-> outgoing[k.id].req]
      OBVIOUS
    <3>2. /\ store' = Put(store, p) /\ Write(p)
          /\ UNCHANGED <<connVars, outgoing, idVars, replayVars, task>>
      BY <1>3, <1>8, <2>2, <3>1 DEF HandlePubrec
    <3>3. p \in Packet
      <4>1. outgoing[k.id].req \in Owners /\ k.id # 0
        BY <1>2, <1>4, InFlightType, Parameters DEF Ids
      <4> QED BY <1>4, <3>1, <4>1 DEF Packet
    <3>4. toBroker' = toBroker \/ toBroker' = Append(toBroker, p)
      BY <1>5, <3>2, <3>3, WriteSends
    <3>5. Releases(k)
      BY <1>1, <1>3, <1>8, <2>2, <3>1, <3>2, <3>4 DEF Releases, connVars, idVars
    <3> QED BY <3>5 DEF Effects
  <2> QED BY <2>1, <2>2
<1> QED BY <1>5, <1>7, <1>8 DEF Handles

\* Every step of the path has one of the effects.
LEMMA FlowEffects ==
    ASSUME OnlyPublishes, ClientInv, OneHolder', WireOK, FlowInv, IdsKept, FlowNext
    PROVE  Effects
<1>1. CASE ClientCalls
  BY <1>1, CallEffect DEF ClientCalls
<1>2. CASE ClientRuns
  <2>1. Sends /\ UNCHANGED <<toClient, brokerVars>> /\ Run
    BY <1>2 DEF ClientRuns
  <2>2. CASE StoreDeliver
    BY <2>1, <2>2, StoreDeliverEffect
  <2>3. CASE InvokeStoreProcessingQueue
    BY <2>1, <2>3, InvokeEffect
  <2>4. CASE Deliver
    BY <2>1, <2>4, DeliverEffect
  <2>5. CASE StreamEnd \/ FlushVolatile \/ FlushStoreProcessingQueue
    BY <2>1, <2>5, QuietEffect
  <2> QED BY <2>1, <2>2, <2>3, <2>4, <2>5 DEF Run
<1>3. CASE ClientDrains
  BY <1>3, QuietEffect DEF ClientDrains
<1>4. CASE ClientHandlesAck
  BY <1>4, AckEffect
<1>5. CASE PingsLost
  BY <1>5, PingsEffect
<1>6. CASE Connected \/ ConnectionLost \/ BrokerHandles
  BY <1>6 DEF Effects
<1> QED BY <1>1, <1>2, <1>3, <1>4, <1>5, <1>6 DEF FlowNext

-----------------------------------------------------------------------------
(* The invariant of the path is kept by every effect. *)

\* A step that sends and stores nothing.
LEMMA RestsFlow ==
    ASSUME FlowInv, Rests
    PROVE  FlowInv'
<1>1. RestWaits'
  <2>1. CASE stream' = "open"
    BY <2>1 DEF Rests, FlowInv, RestWaits, NotUnderWay, HasId
  <2>2. CASE stream' # "open"
    BY <2>2 DEF RestWaits
  <2> QED BY <2>1, <2>2
<1> QED BY <1>1, FlowQuiet DEF Rests

\* The request of a message is a call.
LEMMA StoresType ==
    ASSUME NEW p, Stores(p)
    PROVE  p \in Packet /\ p.req \in Requests /\ p.id # 0 /\ Kind[p.req] # "qos0"
<1>1. p \in Packet /\ p.id # 0 /\ p.req \in Owners /\ KindOf(p.req) \in {"qos1", "qos2"}
  BY DEF Stores, StoredPacket, Packet
<1> QED BY <1>1 DEF KindOf, Owners

\* Whatever the effect, the invariant is kept.
LEMMA FlowKept ==
    ASSUME ClientInv, WireOK, WireOK', FlowInv, Fresh, Effects
    PROVE  FlowInv'
<1>0. TypeOK /\ StoredInv /\ OneHolder
  BY DEF ClientInv
<1>1. CASE Rests
  BY <1>1, RestsFlow
<1>2. ASSUME NEW p, SendsQoS0(p) PROVE FlowInv'
  BY <1>0, <1>2, FlowSendsQoS0 DEF SendsQoS0
<1>3. ASSUME NEW p, Stores(p) PROVE FlowInv'
  <2>1. delivered[p.req] = 0
    BY <1>3, StoresType DEF Stores, Fresh
  <2>2. toBroker' = toBroker \/ (connected /\ toBroker' = Append(toBroker, p))
    BY <1>3 DEF Stores
  <2> QED BY <1>0, <1>3, <2>1, <2>2, FlowStores DEF Stores
<1>4. CASE Replays
  BY <1>0, <1>4, FlowReplays DEF Replays
<1>5. ASSUME NEW k, Releases(k) PROVE FlowInv'
  BY <1>0, <1>5, FlowReleases DEF Releases, replayVars
<1>6. ASSUME NEW k, Removes(k) PROVE FlowInv'
  BY <1>0, <1>6, FlowRemoves DEF Removes, replayVars
<1>7. CASE Connected
  BY <1>0, <1>7, FlowConnects DEF Connected, Connack
<1>8. CASE ConnectionLost
  <2>1. /\ task = "idle" /\ reconnectTimer' /\ toBroker' = <<>> /\ toClient' = <<>>
        /\ DOMAIN outgoing' = DOMAIN outgoing /\ UNCHANGED <<replayVars, used, store, brokerVars>>
    BY <1>8 DEF ConnectionLost, Close, Turn, Idle, idVars
  <2> QED BY <2>1, FlowLoses
<1>9. CASE BrokerHandles
  BY <1>0, <1>9, BrokerFlow
<1> QED BY <1>1, <1>2, <1>3, <1>4, <1>5, <1>6, <1>7, <1>8, <1>9 DEF Effects

-----------------------------------------------------------------------------
(* No call begins twice, and what has not begun was not sent. *)

\* A call is made, and none is forgotten.
LEMMA IssuedGrows ==
    ASSUME [Next]_vars
    PROVE  \/ UNCHANGED issued
           \/ \E r \in Requests : ~WasIssued(r) /\ Call(r) /\ issued' = Append(issued, r)
<1>1. ASSUME NEW r \in Requests, Call(r) PROVE ~WasIssued(r) /\ issued' = Append(issued, r)
  BY <1>1 DEF Call, WasIssued
<1>2. (\E r \in Requests : Call(r)) \/ UNCHANGED issued
  BY DEF Next, User, Ack, Run, Network, RemoveOutgoingMessage, RemoveOutgoingAndStoreMessage,
      HandlePuback, HandlePubrec, HandleSuback, HandleUnsuback, FinishVolatile, StoreDeliver,
      StreamEnd, InvokeStoreProcessingQueue, Deliver, FlushVolatile,
      FlushStoreProcessingQueue, Connack, Drain, KeepaliveTimeout, Close, vars
<1> QED BY <1>1, <1>2

\* What the calls that follow find of the order of those made.
LEMMA ComesKept ==
    ASSUME TypeOK, IssuedOnce', [Next]_vars
    PROVE  /\ \A r : WasIssued(r) => WasIssued(r)'
           /\ \A q, r : Comes(issued, q, r) => Comes(issued, q, r)' /\ ~Comes(issued, r, q)'
           /\ \A q, r : Comes(issued, q, r)' /\ WasIssued(r) => Comes(issued, q, r)
           /\ \A q, r : WasIssued(q)' /\ WasIssued(r)' /\ q # r =>
                Comes(issued, q, r)' \/ Comes(issued, r, q)'
           /\ \A r : ~Comes(issued, r, r)'
<1>1. PICK t : t = issued'
  OBVIOUS
<1>2. /\ issued \in Seq(Requests)
      /\ \/ t = issued
         \/ \E r \in Requests : (\A i \in DOMAIN issued : issued[i] # r) /\ t = Append(issued, r)
  BY <1>1, IssuedGrows DEF TypeOK, WasIssued
<1>3. /\ DOMAIN issued = 1..Len(issued) /\ Len(issued) \in Nat
      /\ \A i \in DOMAIN issued : i \in DOMAIN t /\ t[i] = issued[i]
      /\ \A i \in DOMAIN t : i \in Nat
      /\ \A i \in DOMAIN t : i \in DOMAIN issued
           \/ ((\A j \in DOMAIN issued : issued[j] # t[i] /\ j < i)
               /\ \A j \in DOMAIN t : j <= i)
  <2>1. CASE t = issued
    BY <1>2, <2>1, LenProperties
  <2>2. ASSUME NEW r \in Requests, \A i \in DOMAIN issued : issued[i] # r, t = Append(issued, r)
        PROVE <1>3!:
    <3>1. /\ Len(issued) \in Nat /\ DOMAIN issued = 1..Len(issued) /\ DOMAIN t = 1..(Len(issued) + 1)
          /\ \A i \in 1..Len(issued) : t[i] = issued[i]
          /\ t[Len(issued) + 1] = r
      BY <1>2, <2>2, AppendProperties
    <3> QED BY <2>2, <3>1
  <2> QED BY <1>2, <2>1, <2>2
<1>4. \A i, j \in DOMAIN t : t[i] = t[j] => i = j
  BY <1>1 DEF IssuedOnce
<1>5. /\ \A r : WasIssued(r)' <=> \E i \in DOMAIN t : t[i] = r
      /\ \A q, r : Comes(issued, q, r)' <=> Comes(t, q, r)
  BY <1>1 DEF WasIssued, Comes
<1>6. \A r : WasIssued(r) => \E i \in DOMAIN t : t[i] = r
  BY <1>3 DEF WasIssued
<1>7. ASSUME NEW q, NEW r, Comes(issued, q, r) PROVE Comes(t, q, r) /\ ~Comes(t, r, q)
  <2>1. PICK i \in DOMAIN issued, j \in DOMAIN issued : i < j /\ issued[i] = q /\ issued[j] = r
    BY <1>7 DEF Comes
  <2>2. i \in DOMAIN t /\ j \in DOMAIN t /\ i < j /\ t[i] = q /\ t[j] = r
    BY <1>3, <2>1
  <2>3. ~Comes(t, r, q)
    <3> SUFFICES ASSUME NEW k \in DOMAIN t, NEW l \in DOMAIN t, k < l, t[k] = r, t[l] = q
                 PROVE  FALSE
      BY DEF Comes
    <3>1. k = j /\ l = i
      BY <1>4, <2>2
    <3> QED BY <1>3, <2>2, <3>1
  <2> QED BY <2>2, <2>3 DEF Comes
<1>8. ASSUME NEW q, NEW r, Comes(t, q, r), WasIssued(r) PROVE Comes(issued, q, r)
  <2>1. PICK i \in DOMAIN t, j \in DOMAIN t : i < j /\ t[i] = q /\ t[j] = r
    BY <1>8 DEF Comes
  <2>2. PICK l \in DOMAIN issued : issued[l] = r
    BY <1>8 DEF WasIssued
  <2>3. l = j /\ j \in DOMAIN issued
    BY <1>3, <1>4, <2>1, <2>2
  <2>4. i \in DOMAIN issued
    BY <1>3, <2>1, <2>3
  <2> QED BY <1>3, <2>1, <2>3, <2>4 DEF Comes
<1>9. ASSUME NEW i \in DOMAIN t, NEW j \in DOMAIN t, t[i] # t[j]
      PROVE  Comes(t, t[i], t[j]) \/ Comes(t, t[j], t[i])
  BY <1>3, <1>9 DEF Comes
<1>10. ASSUME NEW r, Comes(t, r, r) PROVE FALSE
  <2>1. PICK k \in DOMAIN t, l \in DOMAIN t : k < l /\ t[k] = r /\ t[l] = r
    BY <1>10 DEF Comes
  <2>2. k = l
    BY <1>4, <2>1
  <2> QED BY <1>3, <2>1, <2>2
<1>11. \A q, r : WasIssued(q)' /\ WasIssued(r)' /\ q # r => Comes(t, q, r) \/ Comes(t, r, q)
  BY <1>5, <1>9
<1>12. \A r : WasIssued(r) => WasIssued(r)'
  BY <1>5, <1>6
<1>13. \A q, r : Comes(issued, q, r) => Comes(issued, q, r)' /\ ~Comes(issued, r, q)'
  BY <1>5, <1>7
<1>14. \A q, r : Comes(issued, q, r)' /\ WasIssued(r) => Comes(issued, q, r)
  BY <1>5, <1>8
<1>15. \A r : ~Comes(issued, r, r)'
  BY <1>5, <1>10
<1> QED BY <1>5, <1>11, <1>12, <1>13, <1>14, <1>15

\* A call that begins is the only one queued by it.
LEMMA BeginQueues ==
    ASSUME OnlyPublishes, TypeOK, NEW w \in Waiting, w.req \in Requests,
           BeginOrWait(w) \/ Begin(w), NEW q, In(queue, q)'
    PROVE  In(queue, q) \/ q = w.req
<1> DEFINE p == [cmd |-> "publish", id |-> 0, req |-> w.req]
<1>1. queue' = queue \/ queue' = Append(queue, p)
  <2>1. KindOf(w.req) \in {"qos0", "qos1", "qos2"}
    BY Parameters DEF OnlyPublishes, KindOf
  <2> QED BY <2>1 DEF BeginOrWait, Begin, PublishQoS0, PublishStored
<1>2. p \in Packet /\ queue \in Seq(Packet) /\ p.req = w.req
  BY DEF Packet, Waiting, TypeOK
<1> HIDE DEF p
<1>3. PICK t : t = queue'
  OBVIOUS
<1>4. In(t, q)
  BY <1>3 DEF In
<1> QED BY <1>1, <1>2, <1>3, <1>4, JoinsOnly

\* What has begun has begun for good.
LEMMA NotBegunKept ==
    ASSUME OnlyPublishes, LateAcks = 0, TypeOK, OnlyMessages, [Next]_vars,
           NEW q, NotBegun(q)'
    PROVE  NotBegun(q)
<1>1. WasIssued(q) => WasIssued(q)'
  <2>1. ASSUME NEW r \in Requests, issued' = Append(issued, r), WasIssued(q)
        PROVE  WasIssued(q)'
    <3>1. issued \in Seq(Requests)
      BY DEF TypeOK
    <3>2. PICK t : t = issued'
      OBVIOUS
    <3>3. \A i \in DOMAIN issued : i \in DOMAIN t /\ t[i] = issued[i]
      BY <2>1, <3>1, <3>2, AppendAt
    <3> QED BY <2>1, <3>2, <3>3 DEF WasIssued
  <2> QED BY <2>1, IssuedGrows DEF WasIssued
<1>2. CASE UNCHANGED <<spq, queue>>
  BY <1>1, <1>2 DEF NotBegun, In
<1>3. ASSUME NEW r \in Requests, Call(r) PROVE NotBegun(q)
  <2> DEFINE new == IF Kind[r] = "sub" THEN Topics[r] \ resub ELSE Topics[r]
  <2>1. [req |-> r, topics |-> new] \in Waiting
    BY Parameters DEF Waiting, Owners
  <2>2. PICK w \in Waiting : w = [req |-> r, topics |-> new]
    BY <2>1
  <2>3. w.req = r /\ (BeginOrWait(w) \/ UNCHANGED <<spq, queue>>) /\ ~WasIssued(r)
    BY <1>3, <2>2 DEF Call, WasIssued
  <2>4. CASE BeginOrWait(w)
    <3>1. In(queue, q)' => In(queue, q) \/ q = r
      BY <2>3, <2>4, BeginQueues
    <3>2. In(spq, q)' => In(spq, q) \/ q = r
      <4>1. spq \in Seq(Waiting) /\ (spq' = spq \/ spq' = Append(spq, w))
        BY <2>4 DEF BeginOrWait, TypeOK
      <4>2. PICK t : t = spq'
        OBVIOUS
      <4>3. In(t, q) => In(spq, q) \/ q = r
        BY <2>3, <4>1, <4>2, JoinsOnly
      <4> QED BY <4>2, <4>3 DEF In
    <3> QED BY <1>1, <2>3, <3>1, <3>2 DEF NotBegun
  <2> QED BY <1>2, <2>3, <2>4
<1>4. CASE InvokeStoreProcessingQueue
  <2>1. CASE storeProcessing \/ spq = <<>> \/ CannotBegin(Head(spq).req)
    BY <1>2, <1>4, <2>1 DEF InvokeStoreProcessingQueue
  <2>2. CASE ~(storeProcessing \/ spq = <<>> \/ CannotBegin(Head(spq).req))
    <3>1. spq # <<>> /\ Begin(Head(spq)) /\ spq' = Tail(spq) /\ spq \in Seq(Waiting)
      BY <1>4, <2>2 DEF InvokeStoreProcessingQueue, TypeOK
    <3>2. Head(spq) \in Waiting /\ Head(spq).req \in Requests
      <4>1. \E j \in DOMAIN spq : Head(spq) = spq[j]
        BY <3>1, TailHeld DEF TypeOK
      <4> QED BY <4>1 DEF OnlyMessages, TypeOK
    <3>3. In(queue, q)' => In(queue, q) \/ q = Head(spq).req
      BY <3>1, <3>2, BeginQueues
    <3>4. In(Tail(spq), q) => In(spq, q)
      BY <3>1, TailHeld
    <3>5. q = Head(spq).req => In(spq, q)
      BY <3>1, TailHeld
    <3>6. In(spq, q)' => In(spq, q)
      BY <3>1, <3>4 DEF In
    <3> QED BY <1>1, <3>3, <3>5, <3>6 DEF NotBegun
  <2> QED BY <2>1, <2>2
<1>5. CASE Deliver
  <2>1. CASE queue = <<>>
    <3>1. UNCHANGED <<spq, queue>>
      BY <1>5, <2>1 DEF Deliver, Resubscribe, OnlyMessages
    <3> QED BY <1>2, <3>1
  <2>2. CASE queue # <<>>
    <3>1. queue' = Tail(queue) /\ queue \in Seq(Packet) /\ UNCHANGED spq
      BY <1>5, <2>2 DEF Deliver, TypeOK
    <3>2. In(Tail(queue), q) => In(queue, q)
      BY <2>2, <3>1, TailHeld
    <3>3. In(queue, q)' => In(queue, q)
      BY <3>1, <3>2 DEF In
    <3> QED BY <1>1, <3>1, <3>3 DEF NotBegun, In
  <2> QED BY <2>1, <2>2
<1>6. CASE FlushStoreProcessingQueue
  <2>1. CASE spq # <<>>
    <3>1. spq' = Tail(spq) /\ spq \in Seq(Waiting) /\ UNCHANGED queue
      BY <1>6, <2>1 DEF FlushStoreProcessingQueue, TypeOK
    <3>2. In(Tail(spq), q) => In(spq, q)
      BY <2>1, <3>1, TailHeld
    <3>3. In(spq, q)' => In(spq, q)
      BY <3>1, <3>2 DEF In
    <3> QED BY <1>1, <3>1, <3>3 DEF NotBegun, In
  <2>2. CASE spq = <<>>
    BY <1>2, <1>6, <2>2 DEF FlushStoreProcessingQueue
  <2> QED BY <2>1, <2>2
<1>7. CASE Ack
  <2>1. Len(queue) >= 0
    BY LenProperties DEF TypeOK
  <2>2. \A id : Acknowledged(id) => connected
    BY <2>1 DEF Acknowledged
  <2>3. UNCHANGED <<spq, queue>>
    BY <1>7, <2>2
    DEF Ack, HandlePuback, HandlePubrec, HandleSuback, HandleUnsuback,
        RemoveOutgoingAndStoreMessage, FinishVolatile
  <2> QED BY <1>2, <2>3
<1>8. CASE \E id \in Ids : RemoveOutgoingMessage(id)
  BY <1>2, <1>8 DEF RemoveOutgoingMessage, RemoveOutgoingAndStoreMessage
<1>9. CASE \/ StoreDeliver \/ StreamEnd \/ FlushVolatile \/ Drain
           \/ KeepaliveTimeout \/ Close \/ (\E present \in BOOLEAN : Connack(present))
           \/ UNCHANGED vars
  BY <1>2, <1>9
  DEF StoreDeliver, StreamEnd, FlushVolatile, Drain, KeepaliveTimeout, Close, Connack, vars, procVars
<1> QED BY <1>3, <1>4, <1>5, <1>6, <1>7, <1>8, <1>9 DEF Next, User, Run, Network

\* A stored message has begun: nobody else holds its call.
LEMMA StoredBegun ==
    ASSUME ClientInv, FlowInv, NEW i \in DOMAIN store
    PROVE  /\ store[i].req \in Requests /\ InOutgoing(store[i].req)
           /\ called[store[i].req] = 0
           /\ HasBegun(store[i].req) /\ WasIssued(store[i].req) /\ ~NotBegun(store[i].req)
<1>1. PICK r \in Requests : r = store[i].req /\ InOutgoing(r)
  BY StoredIds DEF ClientInv, InOutgoing
<1>2. Kind[r] # "qos0"
  BY <1>1, Parameters DEF FlowInv, StoreHolds, KindOf
<1>3. HeldOnce(r) /\ Begun(r)
  BY <1>1, <1>2 DEF ClientInv, OneHolder, Begun
<1> QED BY <1>1, <1>2, <1>3 DEF HeldOnce, HasBegun, NotBegun

\* A packet joins those under way: a stored one, or a QoS 0 publish that begins.
LEMMA FreshSends ==
    ASSUME WireOK, FlowInv, Fresh, \A q \in Requests : NotBegun(q)' => NotBegun(q),
           NEW p \in Packet, toBroker' = Append(toBroker, p), UNCHANGED delivered,
           p.req \in Requests, ~NotBegun(p.req)',
           IF p.id = 0 THEN NotBegun(p.req) ELSE KindOf(p.req) # "qos0"
    PROVE  Fresh'
<1>1. PICK b : b = toBroker'
  OBVIOUS
<1>2. /\ \A i \in DOMAIN b : (b[i] = p /\ i = Len(b)) \/ (i \in DOMAIN toBroker /\ b[i] = toBroker[i])
      /\ \A r : In(b, r) <=> In(toBroker, r) \/ r = p.req
  <2>1. toBroker \in Seq(Packet) /\ b = Append(toBroker, p)
    BY <1>1 DEF WireOK
  <2>2. \A r : In(b, r) <=> In(toBroker, r) \/ r = p.req
    BY <2>1, AppendIsIn
  <2>3. \A i \in DOMAIN b : (b[i] = p /\ i = Len(b)) \/ (i \in DOMAIN toBroker /\ b[i] = toBroker[i])
    BY <2>1, AppendAt
  <2> QED BY <2>2, <2>3
<1>3. ASSUME NEW r \in Requests, NotBegun(r)' PROVE delivered[r] = 0 /\ ~In(b, r)
  BY <1>2, <1>3 DEF Fresh
<1>4. p.id = 0 => ~In(toBroker, p.req) /\ delivered[p.req] = 0
  BY DEF Fresh
<1>5. \A i \in DOMAIN toBroker : toBroker[i].id = 0 => KindOf(toBroker[i].req) = "qos0"
  BY DEF FlowInv, UnderWay, Sent
<1>6. ASSUME NEW i \in DOMAIN b, NEW j \in DOMAIN b, b[i].id = 0, b[j].req = b[i].req
      PROVE  i = j
  <2>1. CASE i \in DOMAIN toBroker /\ b[i] = toBroker[i] /\ j \in DOMAIN toBroker /\ b[j] = toBroker[j]
    BY <1>6, <2>1 DEF Fresh
  <2>2. CASE b[i] = p /\ i = Len(b)
    BY <1>2, <1>4, <1>6, <2>2 DEF In
  <2>3. CASE i \in DOMAIN toBroker /\ b[i] = toBroker[i] /\ b[j] = p
    BY <1>4, <1>5, <1>6, <2>3 DEF In
  <2> QED BY <1>2, <2>1, <2>2, <2>3
<1>7. \A i \in DOMAIN b : b[i].id = 0 => delivered[b[i].req] = 0
  BY <1>2, <1>4 DEF Fresh
<1> QED BY <1>1, <1>3, <1>6, <1>7 DEF Fresh, In

\* A packet is taken, and may be passed on.
LEMMA FreshTakes ==
    ASSUME TypeOK, WireOK, StoredInv, FlowInv, Fresh, BrokerHandles
    PROVE  Fresh'
<1>1. PICK p : p = Head(toBroker)
  OBVIOUS
<1>2. /\ toBroker # <<>> /\ toBroker' = Tail(toBroker) /\ UNCHANGED vars
      /\ UNCHANGED delivered \/ Passes(p)
  BY <1>1 DEF BrokerHandles, BrokerPublish, BrokerRefuses, BrokerPubrel, BrokerTakes
<1>3. PICK b : b = toBroker'
  OBVIOUS
<1>4. /\ 1 \in DOMAIN toBroker /\ toBroker[1] = p
      /\ \A i \in DOMAIN b : i + 1 \in DOMAIN toBroker /\ b[i] = toBroker[i + 1] /\ i \in Nat /\ i + 1 # 1
  BY <1>1, <1>2, <1>3, TailAt DEF WireOK
<1>5. /\ In(toBroker, p.req) /\ \A r : In(b, r) => In(toBroker, r)
      /\ KindOf(p.req) # "qos0" => p.id # 0
  <2>1. KindOf(p.req) # "qos0" => p.id # 0
    BY <1>1, <1>2, TakenPacket
  <2> QED BY <1>4, <2>1 DEF In
<1>6. \A r \in Requests : r # p.req => delivered'[r] = delivered[r]
  <2>1. delivered \in [Requests -> Nat]
    BY DEF WireOK
  <2> QED BY <1>2, <2>1 DEF Passes
<1>7. \A r : NotBegun(r)' <=> NotBegun(r)
  BY <1>2 DEF vars, procVars, NotBegun, WasIssued, In
<1>8. ASSUME NEW r \in Requests, NotBegun(r) PROVE delivered'[r] = 0 /\ ~In(b, r)
  BY <1>5, <1>6, <1>8 DEF Fresh
<1>9. ASSUME NEW i \in DOMAIN b, NEW j \in DOMAIN b, b[i].id = 0, b[j].req = b[i].req
      PROVE  i = j
  <2>1. i + 1 = j + 1
    BY <1>4, <1>9 DEF Fresh
  <2> QED BY <1>4, <2>1
<1>10. ASSUME NEW i \in DOMAIN b, b[i].id = 0 PROVE delivered'[b[i].req] = 0
  <2>1. delivered[b[i].req] = 0 /\ b[i].req # p.req
    BY <1>4, <1>10 DEF Fresh
  <2>2. i + 1 \in DOMAIN toBroker /\ b[i] = toBroker[i + 1]
    BY <1>4
  <2>3. b[i] \in Packet
    BY <2>2 DEF WireOK
  <2>4. KindOf(b[i].req) = "qos0"
    BY <1>10, <2>2 DEF FlowInv, UnderWay, Sent
  <2> QED BY <1>6, <2>1, <2>3, <2>4 DEF Packet, Owners, KindOf
<1> QED BY <1>3, <1>7, <1>8, <1>9, <1>10 DEF Fresh, In

\* Whatever the effect, what has not begun is not under way.
LEMMA FreshKept ==
    ASSUME ClientInv, WireOK, FlowInv, Fresh, Effects,
           \A q \in Requests : NotBegun(q)' => NotBegun(q)
    PROVE  Fresh'
<1>0. TypeOK /\ StoredInv
  BY DEF ClientInv
<1>1. CASE UNCHANGED delivered /\ (UNCHANGED toBroker \/ toBroker' = <<>>)
  <2>1. DOMAIN <<>> = {}
    BY EmptySeq
  <2> QED BY <1>1, <2>1 DEF Fresh, In
<1>2. CASE Rests \/ (\E k : Removes(k)) \/ Connected \/ ConnectionLost
  BY <1>1, <1>2 DEF Rests, Removes, Connected, ConnectionLost, brokerVars
<1>3. ASSUME NEW p, SendsQoS0(p) PROVE Fresh'
  <2>1. p.req \in Requests
    BY <1>3 DEF SendsQoS0, Packet, Owners, KindOf
  <2> QED BY <1>3, <2>1, FreshSends DEF SendsQoS0, brokerVars
<1>4. ASSUME NEW p, Stores(p) PROVE Fresh'
  <2>1. CASE toBroker' = Append(toBroker, p)
    BY <1>4, <2>1, FreshSends, StoresType DEF Stores, brokerVars
  <2>2. CASE toBroker' = toBroker
    BY <1>1, <1>4, <2>2 DEF Stores, brokerVars
  <2> QED BY <1>4, <2>1, <2>2 DEF Stores
<1>5. ASSUME NEW i \in DOMAIN store, NEW p \in Packet, p.req = store[i].req, p.id # 0,
             toBroker' = Append(toBroker, p), UNCHANGED delivered
      PROVE  Fresh'
  <2>1. p.req \in Requests /\ ~NotBegun(p.req)' /\ KindOf(p.req) # "qos0"
    BY <1>5, StoredBegun DEF FlowInv, StoreHolds
  <2> QED BY <1>5, <2>1, FreshSends
<1>6. CASE Replays
  <2>1. rest \in Seq(StoredPacket) /\ rest # <<>> /\ stream = "open"
    BY <1>0, <1>6 DEF Replays, TypeOK
  <2>2. PICK p : p = Head(rest)
    OBVIOUS
  <2>3. 1 \in DOMAIN rest /\ rest[1] = p
    BY <2>1, <2>2, TailAt
  <2>4. p \in Packet /\ p.id # 0
    BY <2>1, <2>2, SeqType DEF StoredPacket
  <2>5. PICK i \in DOMAIN store : store[i] = p
    BY <2>1, <2>3 DEF FlowInv, RestHolds, IsIn
  <2> QED BY <1>5, <1>6, <2>2, <2>4, <2>5 DEF Replays, brokerVars
<1>7. ASSUME NEW k, Releases(k) PROVE Fresh'
  <2>1. PICK i \in DOMAIN store : AckOf(k, store[i])
    BY <1>0, <1>7, AckedMessage DEF Releases
  <2>2. PICK p : p = [cmd |-> "pubrel", id |-> k.id, req |-> outgoing[k.id].req]
    OBVIOUS
  <2>3. /\ store[i].id = k.id /\ k.id \in Ids /\ k.id # 0 /\ outgoing[k.id].req = store[i].req
        /\ store[i].req \in Requests
    BY <1>0, <2>1, StoredIds DEF AckOf
  <2>4. p \in Packet /\ p.req = store[i].req /\ p.id # 0
    BY <2>2, <2>3 DEF Packet, Owners
  <2>5. CASE toBroker' = toBroker
    BY <1>1, <1>7, <2>5 DEF Releases, brokerVars
  <2>6. CASE toBroker' = Append(toBroker, p)
    BY <1>5, <1>7, <2>4, <2>6 DEF Releases, brokerVars
  <2> QED BY <1>7, <2>2, <2>5, <2>6 DEF Releases
<1>8. CASE BrokerHandles
  BY <1>0, <1>8, FreshTakes
<1> QED BY <1>2, <1>3, <1>4, <1>6, <1>7, <1>8 DEF Effects

-----------------------------------------------------------------------------
(* What is stored, replayed and sent is in the order of the calls. *)

\* A call that begins comes after all whose messages are stored.
LEMMA BeginsLast ==
    ASSUME ClientInv, ClientInv', FlowInv, [Next]_vars, NEW r \in Requests,
           NotBegun(r), ~NotBegun(r)', Kind[r] # "qos0", NEW i \in DOMAIN store,
           NEW q, q = store[i].req
    PROVE  Comes(issued, q, r)' /\ ~Comes(issued, r, q)'
<1>1. q \in Requests /\ WasIssued(q) /\ HasBegun(q) /\ ~NotBegun(q)
  BY StoredBegun
<1>2. q # r /\ WasIssued(q)' /\ WasIssued(r)'
  BY <1>1, ComesKept DEF NotBegun, ClientInv
<1>3. ~Comes(issued, r, q)'
  <2> SUFFICES ASSUME Comes(issued, r, q)' PROVE FALSE
    OBVIOUS
  <2>1. Comes(issued, r, q)
    BY <1>1, ComesKept DEF ClientInv
  <2>2. In(spq, r)
    BY <2>1 DEF Comes, WasIssued, NotBegun
  <2> QED BY <1>1, <2>1, <2>2 DEF ClientInv, OrderInv, NoneOvertakes
<1> QED BY <1>2, <1>3, ComesKept DEF ClientInv

\* The pubrel takes the place of its message, for the same call.
LEMMA ReleasesAt ==
    ASSUME ClientInv, WireOK, FlowInv, NEW k, Releases(k),
           NEW p, p = [cmd |-> "pubrel", id |-> k.id, req |-> outgoing[k.id].req],
           NEW s, s = store'
    PROVE  /\ DOMAIN s = DOMAIN store /\ p \in Packet
           /\ \A i \in DOMAIN s : s[i].req = store[i].req /\ (s[i].cmd = "publish" => s[i] = store[i])
<1>0. TypeOK /\ StoredInv
  BY DEF ClientInv
<1>1. PICK j \in DOMAIN store : AckOf(k, store[j])
  BY <1>0, AckedMessage DEF Releases
<1>2. /\ store[j].id = k.id /\ k.id \in Ids /\ outgoing[k.id].req = store[j].req
      /\ store[j].req \in Requests
  BY <1>0, <1>1, StoredIds DEF AckOf
<1>3. p \in Packet /\ p.id = k.id /\ p.req = store[j].req /\ p.cmd = "pubrel"
  <2>1. k.id # 0
    BY <1>2, Parameters DEF Ids
  <2> QED BY <1>2, <2>1 DEF Packet, Owners
<1>4. s = [i \in DOMAIN store |-> IF store[i].id = p.id THEN p ELSE store[i]]
  BY <1>2, <1>3 DEF Releases, Put
<1>5. \A i \in DOMAIN store : store[i].id = p.id => store[i].req = p.req
  BY <1>0, <1>2, <1>3, StoredIds
<1> QED BY <1>3, <1>4, <1>5

\* The store keeps the order of the calls: a call that begins is the last.
LEMMA StoreInOrder ==
    ASSUME ClientInv, ClientInv', WireOK, FlowInv, Effects, [Next]_vars, InOrder(issued, store)
    PROVE  InOrder(issued, store)'
<1>0. TypeOK /\ StoredInv /\ IssuedOnce' /\ store \in Seq(StoredPacket)
  BY DEF ClientInv, TypeOK
<1>1. PICK s : s = store'
  OBVIOUS
<1>2. \A q, r : Comes(issued, q, r) => Comes(issued, q, r)'
  BY <1>0, ComesKept
<1>3. SUFFICES \A i, j \in DOMAIN s : i < j => Comes(issued, s[i].req, s[j].req)'
  BY <1>1 DEF InOrder, Comes
<1>4. CASE UNCHANGED store
  BY <1>1, <1>2, <1>4 DEF InOrder
<1>5. ASSUME NEW p, Stores(p) PROVE \A i, j \in DOMAIN s : i < j => Comes(issued, s[i].req, s[j].req)'
  <2>1. s = Append(store, p) /\ p \in StoredPacket
    BY <1>1, <1>5 DEF Stores
  <2>2. /\ \A i \in DOMAIN store : i \in Nat /\ i < Len(s)
        /\ \A i \in DOMAIN s : (i = Len(s) /\ s[i] = p) \/ (i \in DOMAIN store /\ s[i] = store[i])
        /\ Len(s) \in Nat
    <3>1. s \in Seq(StoredPacket)
      BY <1>0, <2>1, SeqType
    <3> QED BY <1>0, <2>1, <3>1, AppendAt, LenProperties
  <2>3. ASSUME NEW i \in DOMAIN store PROVE Comes(issued', store[i].req, p.req)
    <3>1. PICK q : q = store[i].req
      OBVIOUS
    <3>2. Comes(issued, q, p.req)'
      BY <1>5, <3>1, BeginsLast, StoresType DEF Stores
    <3> QED BY <3>1, <3>2
  <2>4. ASSUME NEW i \in DOMAIN s, NEW j \in DOMAIN s, i < j
        PROVE  Comes(issued, s[i].req, s[j].req)'
    <3>1. i # Len(s)
      BY <2>2, <2>4
    <3>2. i \in DOMAIN store /\ s[i] = store[i]
      BY <2>2, <3>1
    <3>3. CASE j = Len(s) /\ s[j] = p
      BY <2>3, <3>2, <3>3
    <3>4. CASE j \in DOMAIN store /\ s[j] = store[j]
      BY <1>2, <2>4, <3>2, <3>4 DEF InOrder
    <3> QED BY <2>2, <3>3, <3>4
  <2> QED BY <2>4
<1>6. ASSUME NEW k, Releases(k) PROVE \A i, j \in DOMAIN s : i < j => Comes(issued, s[i].req, s[j].req)'
  <2>1. DOMAIN s = DOMAIN store /\ \A i \in DOMAIN s : s[i].req = store[i].req
    BY <1>1, <1>6, ReleasesAt
  <2> QED BY <1>2, <2>1 DEF InOrder
<1>7. ASSUME NEW k, Removes(k) PROVE \A i, j \in DOMAIN s : i < j => Comes(issued, s[i].req, s[j].req)'
  <2>1. \A i, j \in DOMAIN s : i < j =>
          \E g, h \in DOMAIN store : g < h /\ s[i] = store[g] /\ s[j] = store[h]
    BY <1>0, <1>1, <1>7, DelHeld DEF Removes
  <2> QED BY <1>2, <2>1 DEF InOrder
<1>8. UNCHANGED store \/ (\E p : Stores(p)) \/ (\E k : Releases(k) \/ Removes(k))
  BY DEF Effects, Rests, SendsQoS0, Replays, Connected, Connack, ConnectionLost, Close, BrokerHandles,
         BrokerPublish, BrokerRefuses, BrokerPubrel, BrokerTakes, vars, procVars
<1> QED BY <1>4, <1>5, <1>6, <1>7, <1>8

\* What is left to replay keeps the order of the store.
LEMMA RestInOrder ==
    ASSUME ClientInv, ClientInv', Effects, [Next]_vars, InOrder(issued, store),
           stream = "open" => InOrder(issued, rest), stream' = "open"
    PROVE  InOrder(issued, rest)'
<1>0. TypeOK /\ IssuedOnce' /\ rest \in Seq(StoredPacket)
  BY DEF ClientInv, TypeOK
<1>1. PICK s : s = rest'
  OBVIOUS
<1>2. \A q, r : Comes(issued, q, r) => Comes(issued, q, r)'
  BY <1>0, ComesKept
<1>3. SUFFICES \A i, j \in DOMAIN s : i < j => Comes(issued, s[i].req, s[j].req)'
  BY <1>1 DEF InOrder, Comes
<1>4. CASE stream = "open" /\ UNCHANGED rest
  BY <1>1, <1>2, <1>4 DEF InOrder
<1>5. CASE Replays
  <2>1. s = Tail(rest) /\ rest # <<>> /\ InOrder(issued, rest)
    BY <1>1, <1>5 DEF Replays
  <2>2. \A i \in DOMAIN s : i + 1 \in DOMAIN rest /\ s[i] = rest[i + 1] /\ i \in Nat
    BY <1>0, <2>1, TailAt
  <2> TAKE i, j \in DOMAIN s
  <2> HAVE i < j
  <2>3. i + 1 < j + 1
    BY <2>2
  <2>4. Comes(issued, s[i].req, s[j].req)
    BY <2>1, <2>2, <2>3 DEF InOrder
  <2> QED BY <1>2, <2>4
<1>6. CASE Connected
  <2>1. s = store
    BY <1>1, <1>6 DEF Connected, Connack
  <2> QED BY <1>2, <2>1 DEF InOrder
<1>7. (stream = "open" /\ UNCHANGED rest) \/ Replays \/ Connected
  BY DEF Effects, Rests, SendsQoS0, Stores, Releases, Removes, replayVars, ConnectionLost, Close,
         BrokerHandles, BrokerPublish, BrokerRefuses, BrokerPubrel, BrokerTakes, vars
<1> QED BY <1>4, <1>5, <1>6, <1>7

\* A step that sends at most one packet more.
LEMMA SentGrows ==
    ASSUME ClientInv, IssuedOnce', WireOK, FlowInv, SentInOrder, [Next]_vars,
           UNCHANGED <<delivered, refused>>, NEW s, s = store',
           \A i \in DOMAIN s : s[i].cmd = "publish" =>
             \/ IsIn(store, s[i])
             \/ \A j \in DOMAIN store : ~Comes(issued', s[i].req, store[j].req),
           NEW p,
           \/ toBroker' = toBroker
           \/ /\ p \in Packet /\ toBroker' = Append(toBroker, p)
              /\ p.id # 0 /\ p.cmd = "publish" =>
                   \A i \in DOMAIN s :
                     s[i].cmd = "publish" /\ Comes(issued, s[i].req, p.req)' =>
                       Settled(s[i].req) \/ IsIn(toBroker, s[i])
    PROVE  SentInOrder'
<1>1. PICK b : b = toBroker'
  OBVIOUS
<1>2. toBroker \in Seq(Packet) /\ TypeOK
  BY DEF WireOK, ClientInv
<1>3. /\ \A k \in DOMAIN toBroker : k \in Nat /\ k \in DOMAIN b /\ b[k] = toBroker[k]
      /\ \A k \in DOMAIN b : k \in DOMAIN toBroker
           \/ (b = Append(toBroker, p) /\ b[k] = p /\ \A h \in DOMAIN toBroker : h < k)
  <2>1. CASE b = toBroker
    BY <1>2, <2>1
  <2>2. CASE p \in Packet /\ b = Append(toBroker, p)
    <3>1. /\ \A h \in DOMAIN toBroker : h \in Nat /\ h \in DOMAIN b /\ b[h] = toBroker[h] /\ h < Len(b)
          /\ b[Len(b)] = p
          /\ \A k \in DOMAIN b : k = Len(b) \/ k \in DOMAIN toBroker
      BY <1>2, <2>2, AppendAt
    <3> QED BY <2>2, <3>1
  <2> QED BY <1>1, <2>1, <2>2
<1>4. \A r : Settled(r)' <=> Settled(r)
  BY DEF Settled
<1>5. ASSUME NEW k \in DOMAIN b, b[k].id # 0, b[k].cmd = "publish",
             NEW i \in DOMAIN s, s[i].cmd = "publish", Comes(issued, s[i].req, b[k].req)'
      PROVE  Settled(s[i].req) \/ \E h \in DOMAIN b : h < k /\ b[h] = s[i]
  <2>1. CASE k \in DOMAIN toBroker
    <3>1. b[k] = toBroker[k]
      BY <1>3, <2>1
    <3>2. PICK j \in DOMAIN store : store[j] = toBroker[k]
      BY <1>5, <2>1, <3>1 DEF FlowInv, UnderWay, Sent, IsIn
    <3>3. IsIn(store, s[i])
      BY <1>5, <3>1, <3>2
    <3>4. Comes(issued, s[i].req, toBroker[k].req)
      <4>1. WasIssued(store[j].req)
        BY StoredBegun
      <4> QED BY <1>2, <1>5, <3>1, <3>2, <4>1, ComesKept
    <3>5. Settled(s[i].req) \/ \E h \in DOMAIN toBroker : h < k /\ toBroker[h] = s[i]
      BY <1>5, <2>1, <3>1, <3>3, <3>4 DEF SentInOrder, IsIn
    <3> QED BY <1>3, <3>5
  <2>2. CASE k \notin DOMAIN toBroker
    <3>1. b = Append(toBroker, p) /\ b[k] = p /\ \A h \in DOMAIN toBroker : h < k
      BY <1>3, <2>2
    <3>2. toBroker' # toBroker
      BY <1>1, <2>2
    <3>3. Settled(s[i].req) \/ IsIn(toBroker, s[i])
      BY <1>5, <3>1, <3>2
    <3> QED BY <1>3, <3>1, <3>3 DEF IsIn
  <2> QED BY <2>1, <2>2
<1> QED BY <1>1, <1>4, <1>5 DEF SentInOrder

\* What the broker has settled stays settled, and it settles the publish it takes.
LEMMA BrokerSettles ==
    ASSUME WireOK, NEW p, BrokerPublish(p) \/ BrokerRefuses(p) \/ BrokerPubrel(p)
    PROVE  /\ \A r \in Requests : Settled(r) => Settled(r)'
           /\ p.cmd = "publish" /\ p.req \in Requests /\ KindOf(p.req) \in {"qos1", "qos2"}
              /\ Noted(p) => (delivered[p.req] > 0 \/ p.req \in refused)'
<1>0. PICK d : d = delivered'
  OBVIOUS
<1>1. PICK f : f = refused'
  OBVIOUS
<1>2. delivered \in [Requests -> Nat]
  BY DEF WireOK
<1>3. /\ d = delivered \/ d = [delivered EXCEPT ![p.req] = @ + 1]
      /\ refused \subseteq f
  BY <1>0, <1>1 DEF BrokerPublish, BrokerRefuses, BrokerPubrel, Passes
<1>4. ASSUME NEW r \in Requests, Settled(r) PROVE Settled(r)'
  <2>1. delivered[r] > 0 => d[r] > 0
    BY <1>2, <1>3
  <2> QED BY <1>0, <1>1, <1>3, <1>4, <2>1 DEF Settled
<1>5. ASSUME p.cmd = "publish", p.req \in Requests, KindOf(p.req) \in {"qos1", "qos2"}, Noted(p)
      PROVE  d[p.req] > 0 \/ p.req \in f
  <2>1. PICK q : q = p.req
    OBVIOUS
  <2>2. CASE d = [delivered EXCEPT ![p.req] = @ + 1]
    <3>1. d = [delivered EXCEPT ![q] = @ + 1] /\ q \in Requests
      BY <1>5, <2>1, <2>2
    <3>2. d[q] = delivered[q] + 1 /\ delivered[q] \in Nat
      BY <1>2, <3>1
    <3> QED BY <2>1, <3>2
  <2>3. CASE BrokerRefuses(p)
    BY <1>1, <2>3 DEF BrokerRefuses
  <2>4. CASE BrokerPublish(p) /\ d = delivered /\ p.id \in received /\ KindOf(p.req) = "qos2"
    BY <1>5, <2>4 DEF Noted
  <2>5. ASSUME BrokerPublish(p)
        PROVE  \/ d = [delivered EXCEPT ![p.req] = @ + 1]
               \/ d = delivered /\ p.id \in received /\ KindOf(p.req) = "qos2"
    BY <1>0, <1>5, <2>5 DEF BrokerPublish, Passes
  <2>6. ~BrokerPubrel(p)
    BY <1>5 DEF BrokerPubrel
  <2> QED BY <2>2, <2>3, <2>4, <2>5, <2>6
<1> QED BY <1>0, <1>1, <1>4, <1>5

\* Nothing stored is forgotten.
LEMMA ForgetsNone ==
    ASSUME ClientInv, WireOK, FlowInv, Effects, NoneForgotten
    PROVE  NoneForgotten'
<1>0. TypeOK /\ StoredInv /\ store \in Seq(StoredPacket) /\ toBroker \in Seq(Packet)
  BY DEF ClientInv, TypeOK, WireOK
<1>1. PICK s : s = store'
  OBVIOUS
<1>2. PICK b : b = toBroker'
  OBVIOUS
<1>3. PICK u : u = rest'
  OBVIOUS
<1>4. SUFFICES ASSUME connected', ~reconnectTimer', NEW i \in DOMAIN s, s[i].cmd = "publish"
               PROVE  Settled(s[i].req)' \/ IsIn(b, s[i]) \/ IsIn(u, s[i])
  BY <1>1, <1>2, <1>3 DEF NoneForgotten, Settled, IsIn
<1>5. ASSUME connected, ~reconnectTimer, IsIn(store, s[i])
      PROVE  Settled(s[i].req) \/ IsIn(toBroker, s[i]) \/ IsIn(rest, s[i])
  BY <1>4, <1>5 DEF NoneForgotten, IsIn
<1>6. \A p \in Packet : b = toBroker \/ b = Append(toBroker, p) =>
        \A m : IsIn(toBroker, m) \/ (m = p /\ b = Append(toBroker, p)) => IsIn(b, m)
  BY <1>0, AppendIsIn DEF IsIn
<1>7. UNCHANGED <<delivered, refused>> => \A r : Settled(r)' <=> Settled(r)
  BY DEF Settled
<1>8. CASE Rests
  BY <1>1, <1>2, <1>3, <1>4, <1>5, <1>7, <1>8 DEF Rests, brokerVars, IsIn
<1>9. ASSUME NEW p, SendsQoS0(p) PROVE Settled(s[i].req)' \/ IsIn(b, s[i]) \/ IsIn(u, s[i])
  <2>1. s = store /\ u = rest /\ ~reconnectTimer /\ connected /\ UNCHANGED <<delivered, refused>>
    BY <1>1, <1>3, <1>4, <1>9 DEF SendsQoS0, brokerVars
  <2>2. \A m : IsIn(toBroker, m) => IsIn(b, m)
    BY <1>2, <1>6, <1>9 DEF SendsQoS0
  <2> QED BY <1>4, <1>5, <1>7, <2>1, <2>2 DEF IsIn
<1>10. ASSUME NEW p, Stores(p) PROVE Settled(s[i].req)' \/ IsIn(b, s[i]) \/ IsIn(u, s[i])
  <2>1. /\ s = Append(store, p) /\ u = rest /\ ~reconnectTimer /\ connected
        /\ b = Append(toBroker, p) /\ UNCHANGED <<delivered, refused>> /\ p \in Packet
        /\ p \in StoredPacket
    BY <1>1, <1>2, <1>3, <1>4, <1>10, StoresType DEF Stores, brokerVars
  <2>2. IsIn(store, s[i]) \/ s[i] = p
    BY <1>0, <1>4, <2>1, AppendAt DEF IsIn
  <2> QED BY <1>4, <1>5, <1>6, <1>7, <2>1, <2>2
<1>11. CASE Replays
  <2>1. /\ s = store /\ u = Tail(rest) /\ rest # <<>> /\ ~reconnectTimer /\ connected
        /\ b = Append(toBroker, Head(rest)) /\ UNCHANGED <<delivered, refused>>
        /\ rest \in Seq(StoredPacket)
    BY <1>0, <1>1, <1>2, <1>3, <1>4, <1>11 DEF Replays, brokerVars, TypeOK
  <2>2. Head(rest) \in Packet
    BY <2>1, SeqType DEF StoredPacket
  <2>3. IsIn(rest, s[i]) => IsIn(u, s[i]) \/ s[i] = Head(rest)
    BY <2>1, TailIsIn
  <2> QED BY <1>4, <1>5, <1>6, <1>7, <2>1, <2>2, <2>3 DEF IsIn
<1>12. ASSUME NEW k, Releases(k) PROVE Settled(s[i].req)' \/ IsIn(b, s[i]) \/ IsIn(u, s[i])
  <2>1. PICK p : p = [cmd |-> "pubrel", id |-> k.id, req |-> outgoing[k.id].req]
    OBVIOUS
  <2>2. p \in Packet /\ IsIn(store, s[i])
    BY <1>1, <1>4, <1>12, <2>1, ReleasesAt DEF IsIn
  <2>3. /\ u = rest /\ ~reconnectTimer /\ connected /\ UNCHANGED <<delivered, refused>>
        /\ b = toBroker \/ b = Append(toBroker, p)
    BY <1>2, <1>3, <1>4, <1>12, <2>1 DEF Releases, replayVars, brokerVars
  <2> QED BY <1>5, <1>6, <1>7, <2>2, <2>3
<1>13. ASSUME NEW k, Removes(k) PROVE Settled(s[i].req)' \/ IsIn(b, s[i]) \/ IsIn(u, s[i])
  <2>1. /\ u = rest /\ b = toBroker /\ ~reconnectTimer /\ connected
        /\ UNCHANGED <<delivered, refused>> /\ s = Del(store, k.id)
    BY <1>1, <1>2, <1>3, <1>4, <1>13 DEF Removes, replayVars, brokerVars
  <2>2. IsIn(store, s[i])
    BY <1>0, <1>4, <2>1, DelHeld DEF IsIn
  <2> QED BY <1>5, <1>7, <2>1, <2>2
<1>14. CASE Connected
  <2>1. u = s
    BY <1>1, <1>3, <1>14 DEF Connected, Connack
  <2> QED BY <1>4, <2>1 DEF IsIn
<1>15. CASE ConnectionLost
  BY <1>4, <1>15 DEF ConnectionLost, Close
<1>16. CASE BrokerHandles
  <2>1. PICK p : p = Head(toBroker)
    OBVIOUS
  <2>2. /\ toBroker # <<>> /\ b = Tail(toBroker) /\ UNCHANGED vars
        /\ BrokerPublish(p) \/ BrokerRefuses(p) \/ BrokerPubrel(p)
    BY <1>2, <1>16, <2>1 DEF BrokerHandles, BrokerPublish, BrokerRefuses, BrokerPubrel, BrokerTakes
  <2>3. s = store /\ u = rest /\ connected /\ ~reconnectTimer
    BY <1>1, <1>3, <1>4, <2>2 DEF vars, connVars, procVars, replayVars
  <2>4. \A r \in Requests : Settled(r) => Settled(r)'
    BY <2>2, BrokerSettles
  <2>5. s[i].req \in Requests /\ Noted(s[i]) /\ KindOf(s[i].req) \in {"qos1", "qos2"}
    BY <1>4, <2>3, StoredBegun DEF FlowInv, BrokerKnows, StoreHolds
  <2>6. s[i] = p => Settled(s[i].req)'
    <3>1. SUFFICES ASSUME s[i] = p PROVE (delivered[p.req] > 0 \/ p.req \in refused)'
      BY <1>1 DEF Settled
    <3>2. p.cmd = "publish" /\ p.req \in Requests /\ KindOf(p.req) \in {"qos1", "qos2"} /\ Noted(p)
      BY <1>4, <2>5, <3>1
    <3> QED BY <2>2, <3>2, BrokerSettles
  <2>7. IsIn(toBroker, s[i]) => IsIn(b, s[i]) \/ s[i] = p
    BY <1>0, <2>1, <2>2, TailIsIn
  <2>8. IsIn(store, s[i])
    BY <1>4, <2>3 DEF IsIn
  <2> QED BY <1>5, <2>3, <2>4, <2>5, <2>6, <2>7, <2>8
<1> QED BY <1>8, <1>9, <1>10, <1>11, <1>12, <1>13, <1>14, <1>15, <1>16 DEF Effects

\* The broker takes the first of the packets.
LEMMA SentTaken ==
    ASSUME ClientInv, WireOK, FlowInv, SentInOrder, BrokerHandles
    PROVE  SentInOrder'
<1>1. PICK p : p = Head(toBroker)
  OBVIOUS
<1>2. PICK b : b = toBroker'
  OBVIOUS
<1>3. /\ toBroker # <<>> /\ b = Tail(toBroker) /\ toBroker \in Seq(Packet) /\ UNCHANGED vars
      /\ BrokerPublish(p) \/ BrokerRefuses(p) \/ BrokerPubrel(p)
  BY <1>1, <1>2
  DEF BrokerHandles, BrokerPublish, BrokerRefuses, BrokerPubrel, BrokerTakes, WireOK
<1>a. toBroker \in Seq(Packet) /\ toBroker # <<>> /\ b = Tail(toBroker) /\ Len(toBroker) \in Nat
  BY <1>3
<1>b. DOMAIN toBroker = 1..Len(toBroker) /\ DOMAIN b = 1..(Len(toBroker) - 1) /\ Len(toBroker) # 0
  BY <1>a, TailAt
<1>c. \A k \in DOMAIN b : b[k] = toBroker[k + 1]
  BY <1>a, TailAt
<1>d. \A h \in DOMAIN toBroker : h \in Nat /\ (h # 1 => h - 1 \in DOMAIN b)
  BY <1>a, <1>b
<1>e. \A h \in DOMAIN toBroker : h # 1 => b[h - 1] = toBroker[h]
  BY <1>c, <1>d
<1>4. /\ 1 \in DOMAIN toBroker /\ toBroker[1] = p
      /\ \A k \in DOMAIN b : k + 1 \in DOMAIN toBroker /\ b[k] = toBroker[k + 1] /\ k \in Nat
      /\ \A h \in DOMAIN toBroker : h \in Nat /\ (h # 1 => h - 1 \in DOMAIN b /\ b[h - 1] = toBroker[h])
  BY <1>1, <1>a, <1>b, <1>c, <1>d, <1>e
<1>5. ASSUME NEW i \in DOMAIN store, store[i].cmd = "publish"
      PROVE  /\ Settled(store[i].req) => Settled(store[i].req)'
             /\ store[i] = p => Settled(store[i].req)'
  <2>1. PICK m : m = store[i]
    OBVIOUS
  <2>2. m.req \in Requests /\ Noted(m) /\ KindOf(m.req) \in {"qos1", "qos2"} /\ m.cmd = "publish"
    BY <1>5, <2>1, StoredBegun DEF FlowInv, BrokerKnows, StoreHolds
  <2>3. Settled(m.req) => Settled(m.req)'
    BY <1>3, <2>2, BrokerSettles
  <2>4. m = p => (delivered[p.req] > 0 \/ p.req \in refused)'
    BY <1>3, <2>2, BrokerSettles
  <2>5. store' = store
    BY <1>3 DEF vars, procVars
  <2> QED BY <2>1, <2>3, <2>4, <2>5 DEF Settled
<1>6. ASSUME NEW k \in DOMAIN b, b[k].id # 0, b[k].cmd = "publish",
             NEW i \in DOMAIN store, store[i].cmd = "publish",
             Comes(issued, store[i].req, b[k].req)
      PROVE  Settled(store[i].req)' \/ \E h \in DOMAIN b : h < k /\ b[h] = store[i]
  <2>1. Settled(store[i].req) \/ \E h \in DOMAIN toBroker : h < k + 1 /\ toBroker[h] = store[i]
    BY <1>4, <1>6 DEF SentInOrder
  <2>2. ASSUME NEW h \in DOMAIN toBroker, h < k + 1, toBroker[h] = store[i]
        PROVE  Settled(store[i].req)' \/ \E g \in DOMAIN b : g < k /\ b[g] = store[i]
    <3>1. CASE h = 1
      <4>1. store[i] = p /\ Settled(store[i].req)'
        BY <1>4, <1>5, <1>6, <2>2, <3>1
      <4>2. store' = store
        BY <1>3 DEF vars, procVars
      <4> QED BY <4>1, <4>2
    <3>2. CASE h # 1
      <4>1. h - 1 \in DOMAIN b /\ b[h - 1] = store[i] /\ h - 1 < k
        BY <1>4, <2>2, <3>2
      <4> QED BY <4>1
    <3> QED BY <3>1, <3>2
  <2> QED BY <1>5, <1>6, <2>1, <2>2
<1>7. store' = store /\ issued' = issued
  BY <1>3 DEF vars, procVars
<1> QED BY <1>2, <1>6, <1>7 DEF SentInOrder

\* What is sent is sent after every earlier message not yet settled.
LEMMA SentKept ==
    ASSUME ClientInv, ClientInv', WireOK, FlowInv, Effects, [Next]_vars, SentInOrder, NoneForgotten,
           stream = "open" => InOrder(issued, rest)
    PROVE  SentInOrder'
<1>0. TypeOK /\ StoredInv /\ IssuedOnce' /\ store \in Seq(StoredPacket) /\ toBroker \in Seq(Packet)
  BY DEF ClientInv, TypeOK, WireOK
<1>1. PICK s : s = store'
  OBVIOUS
<1>2. CASE Rests \/ \E p : SendsQoS0(p)
  <2>1. s = store /\ UNCHANGED <<delivered, refused>>
    BY <1>1, <1>2 DEF Rests, SendsQoS0, brokerVars
  <2>2. \A i \in DOMAIN s : IsIn(store, s[i])
    BY <2>1 DEF IsIn
  <2>3. CASE Rests
    BY <1>0, <1>1, <2>1, <2>2, <2>3, SentGrows DEF Rests
  <2>4. ASSUME NEW p, SendsQoS0(p) PROVE SentInOrder'
    BY <1>0, <1>1, <2>1, <2>2, <2>4, SentGrows DEF SendsQoS0
  <2> QED BY <1>2, <2>3, <2>4
<1>3. ASSUME NEW p, Stores(p) PROVE SentInOrder'
  <2>1. /\ s = Append(store, p) /\ UNCHANGED <<delivered, refused>> /\ p \in StoredPacket
        /\ p \in Packet /\ p.req \in Requests /\ Kind[p.req] # "qos0" /\ rest = <<>>
    BY <1>1, <1>3, StoresType DEF Stores, brokerVars
  <2>2. \A i \in DOMAIN s : IsIn(store, s[i]) \/ s[i] = p
    BY <1>0, <2>1, AppendAt DEF IsIn
  <2>3. ASSUME NEW j \in DOMAIN store PROVE ~Comes(issued', p.req, store[j].req)
    <3>1. PICK q : q = store[j].req
      OBVIOUS
    <3>2. ~Comes(issued, p.req, q)'
      BY <1>3, <2>1, <3>1, BeginsLast DEF Stores
    <3> QED BY <3>1, <3>2
  <2>4. toBroker' = toBroker \/ (connected /\ ~reconnectTimer /\ toBroker' = Append(toBroker, p))
    BY <1>3 DEF Stores
  <2>5. ASSUME connected, ~reconnectTimer, NEW i \in DOMAIN s, s[i].cmd = "publish",
               Comes(issued, s[i].req, p.req)'
        PROVE  Settled(s[i].req) \/ IsIn(toBroker, s[i])
    <3>1. s[i] # p
      BY <1>0, <2>5, ComesKept
    <3>2. IsIn(store, s[i])
      BY <2>2, <2>5, <3>1
    <3>3. ~IsIn(rest, s[i])
      BY <2>1, EmptySeq DEF IsIn
    <3> QED BY <2>5, <3>2, <3>3 DEF NoneForgotten, IsIn
  <2>6. \A i \in DOMAIN s : s[i].cmd = "publish" =>
          IsIn(store, s[i]) \/ \A j \in DOMAIN store : ~Comes(issued', s[i].req, store[j].req)
    BY <2>2, <2>3
  <2>7. \/ toBroker' = toBroker
        \/ /\ p \in Packet /\ toBroker' = Append(toBroker, p)
           /\ \A i \in DOMAIN s :
                s[i].cmd = "publish" /\ Comes(issued, s[i].req, p.req)' =>
                  Settled(s[i].req) \/ IsIn(toBroker, s[i])
    BY <2>1, <2>4, <2>5
  <2> QED BY <1>0, <1>1, <2>1, <2>6, <2>7, SentGrows
<1>4. CASE Replays
  <2>1. PICK p : p = Head(rest)
    OBVIOUS
  <2>2. /\ s = store /\ UNCHANGED <<delivered, refused>> /\ rest # <<>> /\ connected /\ ~reconnectTimer
        /\ toBroker' = Append(toBroker, p) /\ rest \in Seq(StoredPacket) /\ InOrder(issued, rest)
    BY <1>0, <1>1, <1>4, <2>1 DEF Replays, brokerVars, TypeOK
  <2>3. \A i \in DOMAIN s : IsIn(store, s[i])
    BY <2>2 DEF IsIn
  <2>4. p \in Packet
    BY <2>1, <2>2, SeqType DEF StoredPacket
  <2>5. /\ 1 \in DOMAIN rest /\ rest[1] = p
        /\ \A j \in DOMAIN rest : j = 1 \/ Comes(issued, p.req, rest[j].req)
    <3>1. \A j \in DOMAIN rest : j \in 1..Len(rest) /\ Len(rest) \in Nat
      BY <2>2
    <3> QED BY <2>1, <2>2, <3>1, TailAt DEF InOrder
  <2>6. ASSUME NEW i \in DOMAIN s, s[i].cmd = "publish", Comes(issued, s[i].req, p.req)'
        PROVE  Settled(s[i].req) \/ IsIn(toBroker, s[i])
    <3>1. ~IsIn(rest, s[i])
      <4> SUFFICES ASSUME NEW j \in DOMAIN rest, rest[j] = s[i] PROVE FALSE
        BY DEF IsIn
      <4>1. s[i].req # p.req
        BY <1>0, <2>6, ComesKept
      <4>2. Comes(issued, p.req, s[i].req)
        BY <2>5, <4>1
      <4>3. PICK q : q = s[i].req
        OBVIOUS
      <4> QED BY <1>0, <2>6, <4>2, <4>3, ComesKept
    <3> QED BY <2>2, <2>3, <2>6, <3>1 DEF NoneForgotten
  <2> QED BY <1>0, <1>1, <2>2, <2>3, <2>4, <2>6, SentGrows
<1>5. ASSUME NEW k, Releases(k) PROVE SentInOrder'
  <2>1. PICK p : p = [cmd |-> "pubrel", id |-> k.id, req |-> outgoing[k.id].req]
    OBVIOUS
  <2>2. p \in Packet /\ \A i \in DOMAIN s : s[i].cmd = "publish" => IsIn(store, s[i])
    BY <1>1, <1>5, <2>1, ReleasesAt DEF IsIn
  <2>3. /\ UNCHANGED <<delivered, refused>> /\ p.cmd # "publish"
        /\ toBroker' = toBroker \/ toBroker' = Append(toBroker, p)
    BY <1>5, <2>1 DEF Releases, brokerVars
  <2> QED BY <1>0, <1>1, <2>2, <2>3, SentGrows
<1>6. ASSUME NEW k, Removes(k) PROVE SentInOrder'
  <2>1. toBroker' = toBroker /\ UNCHANGED <<delivered, refused>> /\ s = Del(store, k.id)
    BY <1>1, <1>6 DEF Removes, brokerVars
  <2>2. \A i \in DOMAIN s : IsIn(store, s[i])
    BY <1>0, <2>1, DelHeld DEF IsIn
  <2> QED BY <1>0, <1>1, <2>1, <2>2, SentGrows
<1>7. CASE Connected \/ ConnectionLost
  <2>1. toBroker' = <<>>
    BY <1>7 DEF Connected, Connack, ConnectionLost, FlowInv, UnderWay
  <2>2. DOMAIN <<>> = {}
    BY EmptySeq
  <2> QED BY <2>1, <2>2 DEF SentInOrder
<1>8. CASE BrokerHandles
  BY <1>8, SentTaken
<1> QED BY <1>2, <1>3, <1>4, <1>5, <1>6, <1>7, <1>8 DEF Effects

\* Whatever the effect, the order of what is sent is kept.
LEMMA SendKept ==
    ASSUME OnlyPublishes, LateAcks = 0, ClientInv, ClientInv', WireOK, FlowInv, SendInv,
           Effects, [Next]_vars
    PROVE  SendInv'
<1>1. \A q \in Requests : NotBegun(q)' => NotBegun(q)
  BY NotBegunKept DEF ClientInv
<1>2. Fresh'
  BY <1>1, FreshKept DEF SendInv
<1>3. InOrder(issued, store)' /\ (stream' = "open" => InOrder(issued, rest)')
  BY StoreInOrder, RestInOrder DEF SendInv
<1>4. NoneForgotten' /\ SentInOrder'
  BY ForgetsNone, SentKept DEF SendInv
<1> QED BY <1>2, <1>3, <1>4 DEF SendInv

-----------------------------------------------------------------------------
(***************************************************************************)
(* The invariant of the path, as long as no identifier in flight passes to *)
(* another request.                                                        *)
(***************************************************************************)
LEMMA FlowStarts == ASSUME FlowInit PROVE FlowInv /\ SendInv
<1>1. DOMAIN <<>> = {} /\ DOMAIN Empty = {}
  BY EmptySeq DEF Empty
<1>2. /\ store = <<>> /\ rest = <<>> /\ outgoing = Empty /\ toBroker = <<>> /\ toClient = <<>>
      /\ received = {} /\ delivered = [r \in Requests |-> 0] /\ stream = "none" /\ ~connected
  BY DEF FlowInit, Init
<1>3. StoreHolds /\ RestHolds /\ RestWaits
  BY <1>1, <1>2 DEF StoreHolds, RestHolds, RestWaits
<1>4. UnderWay /\ AcksAnswer /\ BrokerKnows
  BY <1>1, <1>2 DEF UnderWay, Alone, AcksAnswer, BrokerKnows
<1>5. Fresh /\ NoneForgotten /\ SentInOrder
  BY <1>1, <1>2 DEF Fresh, NoneForgotten, SentInOrder, In
<1>6. InOrder(issued, store)
  BY <1>1, <1>2 DEF InOrder
<1> QED BY <1>2, <1>3, <1>4, <1>5, <1>6 DEF FlowInv, SendInv

\* A step of the path has an effect, and keeps both parts of the invariant.
LEMMA FlowStep ==
    ASSUME OnlyPublishes, LateAcks = 0, ClientInv, ClientInv', WireOK, WireOK', FlowInv, SendInv,
           FlowNext, IdsKept
    PROVE  Effects /\ FlowInv' /\ SendInv'
<1>1. Effects
  BY FlowEffects DEF ClientInv
<1>2. FlowInv'
  BY <1>1, FlowKept DEF SendInv
<1>3. [Next]_vars
  BY FlowIsClient DEF ClientInv
<1> QED BY <1>1, <1>2, <1>3, SendKept

\* A step of nobody keeps them.
LEMMA FlowStands ==
    ASSUME FlowInv, SendInv, UNCHANGED allVars
    PROVE  FlowInv' /\ SendInv'
<1> USE DEF allVars, flowVars, brokerVars, vars, connVars, procVars, replayVars, idVars, cbVars
<1>1. FlowInv'
  BY DEF FlowInv, StoreHolds, RestHolds, RestWaits, UnderWay, AcksAnswer, BrokerKnows,
      HasId, IsIn, DistinctIds, NotUnderWay, Alone, Sent, AckOf, Noted
<1>2. SendInv'
  BY DEF SendInv, InOrder, Comes, Fresh, NotBegun, WasIssued, In, NoneForgotten, SentInOrder,
      Settled, IsIn
<1> QED BY <1>1, <1>2

\* Both parts hold in every state of the path.
LEMMA FlowAlways ==
    ASSUME OnlyPublishes, LateAcks = 0
    PROVE  FlowSpec /\ IdIsNotStolen => [](FlowInv /\ SendInv)
<1>1. FlowInit => FlowInv /\ SendInv
  BY FlowStarts
<1>2. /\ ClientInv /\ ClientInv' /\ WireOK /\ WireOK' /\ FlowInv /\ SendInv
      /\ [FlowNext]_allVars /\ [IdsKept]_vars
      => FlowInv' /\ SendInv'
  <2>1. UNCHANGED vars => IdsKept
    BY DEF vars, procVars, IdsKept
  <2> QED BY <2>1, FlowStep, FlowStands
<1>3. [\A id \in DOMAIN outgoing \cap DOMAIN outgoing' :
         outgoing'[id].req = outgoing[id].req]_vars => [IdsKept]_vars
  BY DEF IdsKept
<1> QED BY <1>1, <1>2, <1>3, ClientAlways, PTL DEF FlowSpec, IdIsNotStolen

\* What the broker holds back is stored, hence in flight.
LEMMA ReceivedNow ==
    ASSUME ClientInv, WireOK, FlowInv
    PROVE  ReceivedIsInFlight
<1>1. ASSUME NEW id \in received
      PROVE  id \in Ids /\ id \in DOMAIN outgoing /\ KindOf(outgoing[id].req) = "qos2"
  <2>1. PICK i \in DOMAIN store : store[i].id = id
    BY <1>1 DEF FlowInv, BrokerKnows, HasId
  <2>2. id \in DOMAIN outgoing /\ outgoing[id].req = store[i].req
    BY <2>1, StoredIds DEF ClientInv
  <2>3. KindOf(store[i].req) = "qos2"
    BY <1>1, <2>1 DEF FlowInv, BrokerKnows, Noted
  <2> QED BY <2>2, <2>3 DEF ClientInv, TypeOK
<1>2. ASSUME NEW j \in DOMAIN toClient PROVE toClient[j] \in Acknowledgement
  <2>1. toClient[j] \in Reply
    BY <1>2, SeqType DEF WireOK
  <2>2. PICK i \in DOMAIN store : AckOf(toClient[j], store[i])
    BY <1>2 DEF FlowInv, AcksAnswer
  <2>3. toClient[j].id \in Ids
    BY <2>2, StoredIds DEF ClientInv, AckOf, TypeOK
  <2> QED BY <2>1, <2>3 DEF Reply, Acknowledgement
<1>3. toClient \in Seq(Acknowledgement)
  <2>1. toClient \in Seq(Reply)
    BY DEF WireOK
  <2>2. Len(toClient) \in Nat /\ DOMAIN toClient = 1..Len(toClient)
        /\ toClient = [j \in 1..Len(toClient) |-> toClient[j]]
    BY <2>1
  <2> QED BY <1>2, <2>2
<1> QED BY <1>1, <1>3 DEF ReceivedIsInFlight, FlowTypeOK, WireOK

(***************************************************************************)
(* The broker holds back a QoS 2 identifier only while the client has a    *)
(* QoS 2 publish in flight under it: the next message of the identifier is *)
(* not taken for a duplicate.                                              *)
(***************************************************************************)
THEOREM BrokerHoldsInFlight ==
    ASSUME OnlyPublishes, LateAcks = 0
    PROVE  FlowSpec /\ IdIsNotStolen => []ReceivedIsInFlight
BY FlowAlways, ClientAlways, ReceivedNow, PTL

-----------------------------------------------------------------------------
(***************************************************************************)
(* The path implements the contract: each step of it is one of the         *)
(* contract, or leaves what the contract speaks of alone.                  *)
(***************************************************************************)
ContractStep == Contract!Next \/ UNCHANGED <<issued, delivered, called, succeeded, refused>>

\* The contract's degree of a message is that of the call.
LEMMA ContractQoS ==
    ASSUME NEW q,
           q = [r \in Requests |-> CASE Kind[r] = "qos0" -> 0
                                     [] Kind[r] = "qos1" -> 1
                                     [] OTHER -> 2]
    PROVE  \A r \in Requests : /\ q[r] = 0 <=> Kind[r] = "qos0"
                               /\ q[r] = 1 <=> Kind[r] = "qos1"
BY "qos0" # "qos1"

\* A callback runs.
LEMMA AnswerStep ==
    ASSUME TypeOK, NEW r \in Requests, NEW good \in BOOLEAN, CallBack(r, good),
           UNCHANGED <<issued, delivered, refused>>, called[r] = 0, WasIssued(r),
           \/ Kind[r] = "qos0"
           \/ IF good THEN delivered[r] > 0 ELSE delivered[r] = 0 \/ r \in refused
    PROVE  ContractStep
<1>1. r # Nobody
  BY Parameters
<1>2. called' = [called EXCEPT ![r] = 1]
  BY <1>1 DEF CallBack
<1>3. succeeded' = IF good THEN succeeded \cup {r} ELSE succeeded
  BY <1>1 DEF CallBack
<1>4. PICK q : q = [m \in Requests |-> CASE Kind[m] = "qos0" -> 0
                                         [] Kind[m] = "qos1" -> 1
                                         [] OTHER -> 2]
  OBVIOUS
<1>5. q[r] = 0 <=> Kind[r] = "qos0"
  BY <1>4, ContractQoS
<1>6. Contract!Pending(r)
  BY DEF Contract!Pending, Contract!WasPublished, WasIssued
<1>7. Contract!Answer(r, good)
  BY <1>2, <1>3, <1>4, <1>5, <1>6 DEF Contract!Answer
<1> QED BY <1>7 DEF ContractStep, Contract!Next

\* A call is made, and a publish of QoS 0 may be answered at once.
LEMMA PublishStep ==
    ASSUME TypeOK, NEW r \in Requests, ~WasIssued(r), issued' = Append(issued, r),
           UNCHANGED <<delivered, refused>>,
           \/ UNCHANGED cbVars
           \/ Kind[r] = "qos0" /\ called[r] = 0 /\ \E good \in BOOLEAN : CallBack(r, good)
    PROVE  ContractStep
<1>1. r # Nobody
  BY Parameters
<1>2. PICK q : q = [m \in Requests |-> CASE Kind[m] = "qos0" -> 0
                                         [] Kind[m] = "qos1" -> 1
                                         [] OTHER -> 2]
  OBVIOUS
<1>3. q[r] = 0 <=> Kind[r] = "qos0"
  BY <1>2, ContractQoS
<1>4. ~Contract!WasPublished(r)
  BY DEF Contract!WasPublished, WasIssued
<1>5. CASE UNCHANGED cbVars
  <2>1. Contract!Publish(r)
    BY <1>4, <1>5 DEF Contract!Publish, cbVars
  <2> QED BY <2>1 DEF ContractStep, Contract!Next
<1>6. ASSUME Kind[r] = "qos0", called[r] = 0, NEW good \in BOOLEAN, CallBack(r, good)
      PROVE  ContractStep
  <2>1. called' = [called EXCEPT ![r] = 1]
    BY <1>1, <1>6 DEF CallBack
  <2>2. succeeded' = IF good THEN succeeded \cup {r} ELSE succeeded
    BY <1>1, <1>6 DEF CallBack
  <2>3. Contract!PublishAndAnswer(r, good)
    BY <1>2, <1>3, <1>4, <1>6, <2>1, <2>2 DEF Contract!PublishAndAnswer
  <2> QED BY <2>3 DEF ContractStep, Contract!Next
<1> QED BY <1>5, <1>6

\* A call begins: only a publish of QoS 0 may be called back.
LEMMA BeginAnswers ==
    ASSUME OnlyPublishes, NEW w, w.req \in Requests, Begin(w)
    PROVE  \/ UNCHANGED cbVars
           \/ Kind[w.req] = "qos0" /\ \E good \in BOOLEAN : CallBack(w.req, good)
<1>1. KindOf(w.req) = Kind[w.req] /\ Kind[w.req] \in {"qos0", "qos1", "qos2"}
  BY Parameters DEF KindOf, OnlyPublishes
<1>2. CASE PublishQoS0(w.req) /\ Kind[w.req] = "qos0"
  <2>1. CallBack(w.req, TRUE) \/ CallBack(w.req, FALSE) \/ UNCHANGED cbVars
    BY <1>2 DEF PublishQoS0
  <2> QED BY <1>2, <2>1
<1>3. CASE PublishStored(w.req)
  BY <1>3 DEF PublishStored
<1> QED BY <1>1, <1>2, <1>3 DEF Begin

\* A call.
LEMMA CallContract ==
    ASSUME OnlyPublishes, ClientInv, NEW r \in Requests, Call(r), UNCHANGED brokerVars
    PROVE  ContractStep
<1>1. PICK w : w = [req |-> r, topics |-> Topics[r]]
  OBVIOUS
<1>2. w.req = r /\ Kind[r] \in {"qos0", "qos1", "qos2"}
  BY <1>1 DEF OnlyPublishes
<1>3. BeginOrWait(w) /\ ~WasIssued(r) /\ issued' = Append(issued, r) /\ TypeOK
  BY <1>1, <1>2 DEF Call, WasIssued, ClientInv
<1>4. called[r] = 0
  BY <1>3 DEF ClientInv, OneHolder, HeldOnce
<1>5. \/ UNCHANGED cbVars
      \/ Kind[r] = "qos0" /\ \E good \in BOOLEAN : CallBack(r, good)
  BY <1>2, <1>3, BeginAnswers DEF BeginOrWait
<1> QED BY <1>3, <1>4, <1>5, PublishStep DEF brokerVars

\* A waiting call begins: a publish of QoS 0 may be answered.
LEMMA InvokeContract ==
    ASSUME OnlyPublishes, ClientInv, InvokeStoreProcessingQueue, UNCHANGED brokerVars
    PROVE  ContractStep
<1>1. UNCHANGED <<issued, delivered, refused>> /\ TypeOK
  BY DEF InvokeStoreProcessingQueue, brokerVars, ClientInv
<1>2. CASE UNCHANGED cbVars
  BY <1>1, <1>2 DEF ContractStep, cbVars
<1>3. CASE spq # <<>> /\ Begin(Head(spq))
  <2>1. PICK w : w = Head(spq)
    OBVIOUS
  <2>2. w.req \in Requests /\ In(spq, w.req)
    <3>1. \E j \in DOMAIN spq : Head(spq) = spq[j]
      BY <1>1, <1>3, TailHeld DEF TypeOK
    <3> QED BY <2>1, <3>1 DEF ClientInv, OnlyMessages, In
  <2>3. called[w.req] = 0 /\ WasIssued(w.req)
    BY <2>2 DEF ClientInv, OneHolder, HeldOnce
  <2>4. \/ UNCHANGED cbVars
        \/ Kind[w.req] = "qos0" /\ \E good \in BOOLEAN : CallBack(w.req, good)
    BY <1>3, <2>1, <2>2, BeginAnswers
  <2> QED BY <1>1, <1>2, <2>2, <2>3, <2>4, AnswerStep
<1> QED BY <1>2, <1>3 DEF InvokeStoreProcessingQueue

\* A queued publish of QoS 0 is answered.
LEMMA DeliverContract ==
    ASSUME ClientInv, Deliver, UNCHANGED brokerVars
    PROVE  ContractStep
<1>1. UNCHANGED <<issued, delivered, refused>> /\ TypeOK
  BY DEF Deliver, brokerVars, ClientInv
<1>2. CASE UNCHANGED cbVars
  BY <1>1, <1>2 DEF ContractStep, cbVars
<1>3. CASE queue = <<>>
  BY <1>2, <1>3 DEF Deliver, Resubscribe, ClientInv, OnlyMessages
<1>4. CASE queue # <<>>
  <2>1. PICK p : p = Head(queue)
    OBVIOUS
  <2>2. p \in Packet /\ p.cmd = "publish" /\ KindOf(p.req) = "qos0" /\ In(queue, p.req)
    <3>1. 1 \in DOMAIN queue /\ queue[1] = p
      BY <1>1, <1>4, <2>1, TailAt DEF TypeOK
    <3> QED BY <1>1, <3>1 DEF TypeOK, ClientInv, QueuedQoS0, In
  <2>3. p.req \in Requests /\ Kind[p.req] = "qos0"
    BY <2>2 DEF Packet, Owners, KindOf
  <2>4. called[p.req] = 0 /\ WasIssued(p.req)
    BY <2>2, <2>3 DEF ClientInv, OneHolder, HeldOnce, Begun
  <2>5. UNCHANGED cbVars \/ CallBack(p.req, TRUE)
    BY <1>4, <2>1, <2>2 DEF Deliver, SendQueued
  <2> QED BY <1>1, <1>2, <2>3, <2>4, <2>5, AnswerStep
<1> QED BY <1>3, <1>4

\* A publish of QoS 0 that waited for 'drain' is answered.
LEMMA DrainContract ==
    ASSUME ClientInv, Drain, UNCHANGED brokerVars
    PROVE  ContractStep
<1>1. /\ UNCHANGED <<issued, delivered, refused>> /\ TypeOK
      /\ parked # <<>> /\ CallBack(Head(parked).req, TRUE)
  BY DEF Drain, brokerVars, ClientInv
<1>2. PICK r : r = Head(parked).req
  OBVIOUS
<1>3. r \in Owners /\ KindOf(r) \in {"internal", "qos0"} /\ In(parked, r)
  <2>1. 1 \in DOMAIN parked /\ parked[1] = Head(parked)
    BY <1>1, TailAt DEF TypeOK
  <2>2. parked[1] \in Parked
    BY <1>1, <2>1 DEF TypeOK
  <2> QED BY <1>2, <2>1, <2>2 DEF ClientInv, OneHolder, RightKinds, In, Parked
<1>4. CASE r = Nobody
  BY <1>1, <1>2, <1>4 DEF CallBack, ContractStep
<1>5. CASE r \in Requests
  <2>1. Kind[r] = "qos0"
    BY <1>3, <1>5, Parameters DEF KindOf, Kinds
  <2>2. called[r] = 0 /\ WasIssued(r)
    BY <1>3, <1>5, <2>1 DEF ClientInv, OneHolder, HeldOnce, Begun
  <2> QED BY <1>1, <1>2, <1>5, <2>1, <2>2, AnswerStep
<1> QED BY <1>3, <1>4, <1>5 DEF Owners

\* What waits when the connection is lost has not been sent.
LEMMA FlushContract ==
    ASSUME ClientInv, Fresh, FlushStoreProcessingQueue, UNCHANGED brokerVars
    PROVE  ContractStep
<1>1. UNCHANGED <<issued, delivered, refused>> /\ TypeOK
  BY DEF FlushStoreProcessingQueue, brokerVars, ClientInv
<1>2. CASE UNCHANGED cbVars
  BY <1>1, <1>2 DEF ContractStep, cbVars
<1>3. CASE spq # <<>> /\ CallBack(Head(spq).req, FALSE)
  <2>1. PICK r : r = Head(spq).req
    OBVIOUS
  <2>2. r \in Requests /\ In(spq, r)
    <3>1. \E j \in DOMAIN spq : Head(spq) = spq[j]
      BY <1>1, <1>3, TailHeld DEF TypeOK
    <3> QED BY <2>1, <3>1 DEF ClientInv, OnlyMessages, In
  <2>3. called[r] = 0 /\ WasIssued(r) /\ delivered[r] = 0
    BY <2>2 DEF ClientInv, OneHolder, HeldOnce, Fresh, NotBegun
  <2> QED BY <1>1, <1>3, <2>1, <2>2, <2>3, AnswerStep
<1> QED BY <1>2, <1>3 DEF FlushStoreProcessingQueue

\* The broker delivered what it accepted, and refused what it did not.
LEMMA AckContract ==
    ASSUME ClientInv, WireOK, FlowInv, ClientHandlesAck
    PROVE  ContractStep
<1>1. PICK k : k = Head(toClient)
  OBVIOUS
<1>2. TypeOK /\ StoredInv
  BY DEF ClientInv
<1>3. toClient # <<>> /\ UNCHANGED <<delivered, refused>>
  BY DEF ClientHandlesAck, brokerVars
<1>4. k \in Reply /\ k.id \in DOMAIN outgoing /\ \E i \in DOMAIN store : AckOf(k, store[i])
  BY <1>1, <1>2, <1>3, AckedMessage
<1>5. PICK i \in DOMAIN store : AckOf(k, store[i])
  BY <1>4
<1>6. PICK r : r = store[i].req
  OBVIOUS
<1>7. r \in Requests /\ called[r] = 0 /\ WasIssued(r)
  BY <1>6, StoredBegun
<1>8. outgoing[k.id].req = r /\ store[i].id = k.id /\ delivered[r] \in Nat
  BY <1>2, <1>5, <1>6, <1>7, StoredIds DEF AckOf, WireOK
<1>9. /\ k.cmd \in {"puback", "pubcomp"} =>
           IF k.good THEN delivered[r] > 0 ELSE r \in refused
      /\ k.cmd = "pubrec" /\ ~k.good => r \in refused
  BY <1>5, <1>6 DEF AckOf, FlowInv, BrokerKnows, Noted
<1>10. k.good \in BOOLEAN
  BY <1>4 DEF Reply
<1>11. Handles(k)
  BY <1>1, <1>4 DEF ClientHandlesAck
<1>12. ASSUME NEW good \in BOOLEAN, RemoveOutgoingAndStoreMessage(k.id, good),
              IF good THEN delivered[r] > 0 ELSE r \in refused
       PROVE  ContractStep
  <2>1. CallBack(r, good) /\ issued' = issued
    <3>1. (good /\ \E j \in DOMAIN store : store[j].id = k.id) = good
      BY <1>8
    <3> QED BY <1>8, <1>12, <3>1 DEF RemoveOutgoingAndStoreMessage
  <2> QED BY <1>2, <1>3, <1>7, <1>12, <2>1, AnswerStep
<1>13. CASE k.cmd \in {"puback", "pubcomp"} /\ HandlePuback(k.id, k.good)
  BY <1>9, <1>10, <1>12, <1>13 DEF HandlePuback
<1>14. CASE k.cmd = "pubrec" /\ HandlePubrec(k.id, k.good)
  <2>1. CASE ~k.good
    BY <1>9, <1>12, <1>14, <2>1 DEF HandlePubrec
  <2>2. CASE k.good
    BY <1>3, <1>14, <2>2 DEF HandlePubrec, ContractStep, cbVars
  <2> QED BY <2>1, <2>2
<1> QED BY <1>11, <1>13, <1>14 DEF Handles

\* An earlier call that is pending, and neither delivered nor refused, was
\* sent earlier: the broker takes it first.
LEMMA TakesInOrder ==
    ASSUME ClientInv, AllHeld, WireOK, FlowInv, SentInOrder, toBroker # <<>>,
           NEW p, p = Head(toBroker), p.id # 0, p.cmd = "publish", HasBegun(p.req),
           p.req \in Requests,
           NEW n \in Requests, Comes(issued, n, p.req), Kind[n] # "qos0", called[n] = 0,
           WasIssued(n), ~Settled(n)
    PROVE  FALSE
<1>1. InOutgoing(n) \/ In(spq, n)
  BY DEF AllHeld, Held, Answerable
<1>2. ~In(spq, n)
  BY DEF ClientInv, OrderInv, NoneOvertakes
<1>3. PICK id \in DOMAIN outgoing : outgoing[id].req = n
  BY <1>1, <1>2 DEF InOutgoing
<1>4. PICK i \in DOMAIN store : store[i].id = id
  BY DEF FlowInv, StoreHolds, HasId
<1>5. store[i].req = n /\ store[i] \in StoredPacket
  BY <1>3, <1>4, StoredIds DEF ClientInv
<1>6. store[i].cmd = "publish"
  <2>1. store[i].cmd = "pubrel" => delivered[n] > 0
    BY <1>5 DEF FlowInv, BrokerKnows, Noted
  <2> QED BY <1>5, <2>1 DEF StoredPacket, Settled
<1>7. /\ 1 \in DOMAIN toBroker /\ toBroker[1] = p
      /\ \A h \in DOMAIN toBroker : h \in Nat /\ ~(h < 1)
  <2>1. toBroker \in Seq(Packet)
    BY DEF WireOK
  <2>2. 1 \in DOMAIN toBroker /\ toBroker[1] = p
    BY <2>1, TailAt
  <2>3. \A h \in DOMAIN toBroker : h \in 1..Len(toBroker) /\ Len(toBroker) \in Nat
    BY <2>1
  <2> QED BY <2>2, <2>3
<1> QED BY <1>5, <1>6, <1>7 DEF SentInOrder

\* The broker passes a publish on.
LEMMA PassStep ==
    ASSUME ClientInv, AllHeld, WireOK, FlowInv, SendInv, toBroker # <<>>,
           NEW p, p = Head(toBroker), p.cmd = "publish", Passes(p),
           KindOf(p.req) \in {"qos0", "qos1", "qos2"},
           KindOf(p.req) = "qos2" => p.id \notin received,
           UNCHANGED <<issued, called, succeeded, refused>>
    PROVE  ContractStep
<1>1. PICK q : q = [m \in Requests |-> CASE Kind[m] = "qos0" -> 0
                                         [] Kind[m] = "qos1" -> 1
                                         [] OTHER -> 2]
  OBVIOUS
<1>2. PICK r : r = p.req
  OBVIOUS
<1>3. p \in Packet /\ toBroker \in Seq(Packet) /\ 1 \in DOMAIN toBroker /\ toBroker[1] = p
  <2>1. toBroker \in Seq(Packet)
    BY DEF WireOK
  <2>2. 1 \in DOMAIN toBroker /\ toBroker[1] = p
    BY <2>1, TailAt
  <2> QED BY <2>1, <2>2, SeqType
<1>4. r \in Requests /\ KindOf(r) = Kind[r] /\ delivered[r] \in Nat
  <2>1. r \in Owners /\ r # Nobody
    BY <1>2, <1>3 DEF Packet, KindOf
  <2> QED BY <2>1 DEF Owners, KindOf, WireOK
<1>5. (q[r] = 0 <=> Kind[r] = "qos0") /\ (q[r] = 1 <=> Kind[r] = "qos1")
  BY <1>1, <1>4, ContractQoS
<1>6. CASE Kind[r] = "qos0"
  <2>1. p.id = 0
    BY <1>2, <1>3, <1>4, <1>6, StoredIds DEF FlowInv, UnderWay, Sent, IsIn, StoreHolds
  <2>2. In(toBroker, r) /\ delivered[r] = 0
    BY <1>2, <1>3, <2>1 DEF In, SendInv, Fresh
  <2>3. WasIssued(r)
    BY <1>4, <2>2 DEF SendInv, Fresh, NotBegun
  <2>4. Contract!MayDeliver(r)
    BY <1>1, <1>5, <1>6, <2>2, <2>3 DEF Contract!MayDeliver, Contract!WasPublished, WasIssued
  <2> QED BY <1>2, <1>4, <2>4 DEF Contract!Deliver, Passes, Contract!Next, ContractStep
<1>7. CASE Kind[r] # "qos0"
  <2>1. p.id # 0 /\ IsIn(store, p)
    BY <1>2, <1>3, <1>4, <1>7 DEF FlowInv, UnderWay, Sent
  <2>2. called[r] = 0 /\ WasIssued(r) /\ HasBegun(r) /\ Noted(p)
    BY <1>2, <2>1, StoredBegun DEF IsIn, FlowInv, BrokerKnows
  <2>3. Kind[r] = "qos2" => delivered[r] = 0
    BY <1>2, <1>4, <2>2 DEF Noted
  <2>4. ~Contract!Overtakes(r)
    <3> SUFFICES ASSUME NEW n \in Contract!Before(r),
                        q[n] # 0, called[n] = 0, delivered[n] = 0, n \notin refused
                 PROVE  FALSE
      BY <1>1 DEF Contract!Overtakes
    <3>1. PICK i \in DOMAIN issued : n = issued[i] /\ \E j \in DOMAIN issued : i < j /\ issued[j] = r
      BY DEF Contract!Before
    <3>2. n \in Requests /\ WasIssued(n) /\ Comes(issued, n, r)
      <4>1. issued \in Seq(Requests)
        BY DEF ClientInv, TypeOK
      <4> QED BY <3>1, <4>1, SeqType DEF WasIssued, Comes
    <3>3. Kind[n] # "qos0"
      BY <1>1, <3>2, ContractQoS
    <3>4. ~Settled(n)
      BY DEF Settled
    <3> QED BY <1>2, <1>4, <2>1, <2>2, <3>2, <3>3, <3>4, TakesInOrder DEF SendInv
  <2>5. q[r] # 1 => delivered[r] = 0
    BY <1>2, <1>4, <1>5, <1>7, <2>3
  <2>6. Contract!MayDeliver(r)
    BY <1>1, <2>2, <2>4, <2>5 DEF Contract!MayDeliver, Contract!WasPublished, WasIssued
  <2> QED BY <1>2, <1>4, <2>6 DEF Contract!Deliver, Passes, Contract!Next, ContractStep
<1> QED BY <1>6, <1>7

\* A step of the broker.
LEMMA BrokerContract ==
    ASSUME ClientInv, AllHeld, WireOK, FlowInv, SendInv, BrokerHandles
    PROVE  ContractStep
<1>1. PICK p : p = Head(toBroker)
  OBVIOUS
<1>2. /\ toBroker # <<>> /\ UNCHANGED <<issued, called, succeeded>>
      /\ BrokerPublish(p) \/ BrokerRefuses(p) \/ BrokerPubrel(p)
  BY <1>1
  DEF BrokerHandles, BrokerPublish, BrokerRefuses, BrokerPubrel, BrokerTakes, vars, procVars, cbVars
<1>3. CASE BrokerPublish(p)
  <2>1. p.cmd = "publish" /\ UNCHANGED refused
    BY <1>3 DEF BrokerPublish
  <2>2. CASE Passes(p) /\ KindOf(p.req) \in {"qos0", "qos1"}
    BY <1>1, <1>2, <2>1, <2>2, PassStep
  <2>3. CASE Passes(p) /\ KindOf(p.req) = "qos2" /\ p.id \notin received
    BY <1>1, <1>2, <2>1, <2>3, PassStep
  <2>4. CASE UNCHANGED delivered
    BY <1>2, <2>1, <2>4 DEF ContractStep
  <2> QED BY <1>3, <2>2, <2>3, <2>4 DEF BrokerPublish
<1>4. CASE BrokerRefuses(p)
  <2>1. /\ p.cmd = "publish" /\ KindOf(p.req) \in {"qos1", "qos2"}
        /\ refused' = refused \cup {p.req} /\ UNCHANGED delivered
    BY <1>4 DEF BrokerRefuses
  <2>2. PICK q : q = [m \in Requests |-> CASE Kind[m] = "qos0" -> 0
                                           [] Kind[m] = "qos1" -> 1
                                           [] OTHER -> 2]
    OBVIOUS
  <2>3. IsIn(store, p)
    BY <1>1, <1>2, <2>1, TakenPacket DEF ClientInv
  <2>4. p.req \in Requests /\ called[p.req] = 0 /\ WasIssued(p.req)
    BY <2>3, StoredBegun DEF IsIn
  <2>5. q[p.req] # 0
    BY <2>1, <2>2, <2>4, Parameters, ContractQoS DEF KindOf
  <2>6. Contract!Refuse(p.req)
    BY <1>2, <2>1, <2>2, <2>4, <2>5
    DEF Contract!Refuse, Contract!Pending, Contract!WasPublished, WasIssued
  <2> QED BY <2>4, <2>6 DEF Contract!Next, ContractStep
<1>5. CASE BrokerPubrel(p)
  BY <1>2, <1>5 DEF BrokerPubrel, ContractStep
<1> QED BY <1>2, <1>3, <1>4, <1>5

\* A step of the path.
LEMMA StepContract ==
    ASSUME OnlyPublishes, ClientInv, AllHeld, WireOK, FlowInv, SendInv, [FlowNext]_allVars
    PROVE  ContractStep
<1>1. CASE ClientCalls
  BY <1>1, CallContract DEF ClientCalls
<1>2. CASE ClientRuns
  <2>1. UNCHANGED brokerVars
    BY <1>2 DEF ClientRuns
  <2>2. CASE StoreDeliver \/ StreamEnd
    BY <2>1, <2>2 DEF StoreDeliver, StreamEnd, ContractStep, brokerVars, cbVars
  <2>3. CASE InvokeStoreProcessingQueue
    BY <2>1, <2>3, InvokeContract
  <2>4. CASE Deliver
    BY <2>1, <2>4, DeliverContract
  <2>5. CASE FlushVolatile
    <3>1. \A id \in DOMAIN outgoing : ~outgoing[id].volatile
      <4> SUFFICES ASSUME NEW id \in DOMAIN outgoing PROVE ~outgoing[id].volatile
        OBVIOUS
      <4>1. PICK i \in DOMAIN store : store[i].id = id
        BY DEF FlowInv, StoreHolds, HasId
      <4> QED BY <4>1 DEF ClientInv, StoredInv, EntryIn
    <3> QED BY <2>1, <2>5, <3>1 DEF FlushVolatile, ContractStep, brokerVars, cbVars
  <2>6. CASE FlushStoreProcessingQueue
    BY <2>1, <2>6, FlushContract DEF SendInv
  <2> QED BY <1>2, <2>2, <2>3, <2>4, <2>5, <2>6 DEF ClientRuns, Run
<1>3. CASE ClientDrains
  BY <1>3, DrainContract DEF ClientDrains
<1>4. CASE ClientHandlesAck
  BY <1>4, AckContract
<1>5. CASE Connected
  BY <1>5 DEF Connected, Connack, ContractStep, cbVars
<1>6. CASE PingsLost
  BY <1>6 DEF PingsLost, KeepaliveTimeout, ContractStep, cbVars, flowVars, brokerVars
<1>7. CASE ConnectionLost
  BY <1>7 DEF ConnectionLost, Close, ContractStep, cbVars, brokerVars
<1>8. CASE BrokerHandles
  BY <1>8, BrokerContract
<1>9. CASE UNCHANGED allVars
  BY <1>9 DEF allVars, flowVars, brokerVars, vars, procVars, cbVars, ContractStep
<1> QED BY <1>1, <1>2, <1>3, <1>4, <1>5, <1>6, <1>7, <1>8, <1>9 DEF FlowNext

(***************************************************************************)
(* The client, the connection and the broker together keep what publish()  *)
(* promises, over any losses of the connection: QoS 2 is delivered at most *)
(* once, QoS 1 and 2 in the order of the calls and never after their       *)
(* callback, and a callback without an error means a delivery.             *)
(***************************************************************************)
THEOREM FlowImplementsContract ==
    ASSUME OnlyPublishes, LateAcks = 0
    PROVE  FlowSpec /\ IdIsNotStolen => ImplementsContract
<1>1. FlowInit => Contract!Init
  BY DEF FlowInit, Init, Contract!Init
<1>2. ClientInv /\ AllHeld /\ WireOK /\ FlowInv /\ SendInv /\ [FlowNext]_allVars
      => [Contract!Next]_(Contract!vars)
  BY StepContract DEF ContractStep, Contract!vars
<1>3. FlowSpec /\ IdIsNotStolen => []AllHeld
  BY FlowHasClient, HeldAlways, PTL
<1> QED BY <1>1, <1>2, <1>3, ClientAlways, FlowAlways, PTL
        DEF FlowSpec, ImplementsContract, Contract!Spec

-----------------------------------------------------------------------------
(***************************************************************************)
(* UniqueMessageIdProvider: the identifiers of the stored messages are     *)
(* taken, or still to be registered by the replay, so that a call that     *)
(* begins gets one that is not in flight.                                  *)
(***************************************************************************)
AllUsed == \A i \in DOMAIN store : store[i].id \in used
UsedCovers ==
    connected /\ stream # "destroyed" =>
      \A i \in DOMAIN store : store[i].id \in used \/ HasId(rest, store[i].id)
TasksOnline ==
    /\ task = "invokeOne" => connected
    /\ task \in {"flushVolatile", "flushQueue"} => ~connected
UsedInv == TasksOnline /\ UsedCovers

\* A call that begins takes an identifier of no stored message, and registers it.
LEMMA BeginCovers ==
    ASSUME UniqueIds, OnlyPublishes, ClientInv, FlowInv, AllUsed, NEW w, w.req \in Requests, Begin(w)
    PROVE  IdsKept /\ AllUsed'
<1>1. KindOf(w.req) \in {"qos0", "qos1", "qos2"}
  BY Parameters DEF OnlyPublishes, KindOf
<1>2. CASE PublishQoS0(w.req)
  BY <1>2 DEF PublishQoS0, AllUsed, IdsKept, idVars
<1>3. CASE PublishStored(w.req)
  <2>1. PICK id \in Ids :
          /\ Allocates(id)
          /\ outgoing' = With(outgoing, id, [req |-> w.req, volatile |-> FALSE, replay |-> FALSE])
          /\ store' = Put(store, [cmd |-> "publish", id |-> id, req |-> w.req])
    BY <1>3 DEF PublishStored
  <2>2. id \notin used /\ used' = used \cup {id}
    BY <2>1 DEF Allocates
  <2>3. id \notin DOMAIN outgoing
    BY <2>2 DEF AllUsed, FlowInv, StoreHolds, HasId
  <2>4. IdsKept
    BY <2>1, <2>3 DEF IdsKept, With
  <2>5. PICK p : p = [cmd |-> "publish", id |-> id, req |-> w.req]
    OBVIOUS
  <2>6. p \in StoredPacket /\ p.id = id
    <3>1. id # 0 /\ w.req \in Owners
      BY <2>1, Parameters DEF Ids, Owners
    <3> QED BY <2>1, <2>5, <3>1 DEF StoredPacket, Packet
  <2>7. PICK s : s = store'
    OBVIOUS
  <2>8. \A i \in DOMAIN s : s[i] = p \/ \E j \in DOMAIN store : s[i] = store[j]
    BY <2>1, <2>5, <2>6, <2>7, PutHeld DEF ClientInv, TypeOK
  <2> QED BY <2>2, <2>4, <2>6, <2>7, <2>8 DEF AllUsed
<1> QED BY <1>1, <1>2, <1>3 DEF Begin

\* A step that neither stores nor frees.
LEMMA UsedRests ==
    ASSUME UsedInv, UNCHANGED <<store, rest, outgoing, connected>>, used \subseteq used',
           stream' # "destroyed" => stream # "destroyed",
           task' = "invokeOne" => task = "invokeOne",
           task' \in {"flushVolatile", "flushQueue"} => task \in {"flushVolatile", "flushQueue"}
    PROVE  IdsKept /\ UsedInv'
BY DEF UsedInv, TasksOnline, UsedCovers, IdsKept, HasId

\* A call that waits or takes no identifier, and one that takes it while every
\* stored message has its own.
LEMMA CallCovers ==
    ASSUME UniqueIds, OnlyPublishes, ClientInv, FlowInv, UsedInv,
           NEW r \in Requests, ~(Exposed /\ TakesId(r)), Call(r)
    PROVE  IdsKept /\ UsedInv'
<1>1. PICK w : w = [req |-> r, topics |-> Topics[r]]
  OBVIOUS
<1>2. w.req = r /\ Kind[r] \in {"qos0", "qos1", "qos2"}
  BY <1>1 DEF OnlyPublishes
<1>3. BeginOrWait(w) /\ UNCHANGED <<connVars, replayVars, task>>
  BY <1>1, <1>2 DEF Call
<1>4. CASE ~MustWait(r) /\ Kind[r] # "qos0"
  <2>1. AllUsed
    BY <1>4 DEF Exposed, TakesId, AllUsed
  <2>2. Begin(w)
    BY <1>2, <1>3, <1>4 DEF BeginOrWait
  <2>3. IdsKept /\ AllUsed'
    BY <1>2, <2>1, <2>2, BeginCovers
  <2> QED BY <1>3, <2>3 DEF UsedInv, TasksOnline, UsedCovers, AllUsed, connVars
<1>5. CASE MustWait(r) \/ Kind[r] = "qos0"
  <2>1. UNCHANGED <<outgoing, store, used>>
    <3>1. CASE MustWait(r)
      BY <1>2, <1>3, <3>1 DEF BeginOrWait, idVars
    <3>2. CASE ~MustWait(r) /\ Kind[r] = "qos0"
      <4>1. Begin(w) /\ KindOf(w.req) = "qos0"
        BY <1>2, <1>3, <3>2, Parameters DEF BeginOrWait, KindOf
      <4>2. PublishQoS0(w.req)
        BY <4>1 DEF Begin
      <4> QED BY <4>2 DEF PublishQoS0, idVars
    <3> QED BY <1>5, <3>1, <3>2
  <2> QED BY <1>3, <2>1, UsedRests DEF connVars, replayVars
<1> QED BY <1>4, <1>5

\* A waiting call begins only when nothing is left to replay.
LEMMA InvokeCovers ==
    ASSUME UniqueIds, OnlyPublishes, ClientInv, FlowInv, UsedInv, InvokeStoreProcessingQueue
    PROVE  IdsKept /\ UsedInv'
<1>1. UNCHANGED <<connVars, replayVars>> /\ task' \in {"deliver", "idle", "invokeAll"}
  BY DEF InvokeStoreProcessingQueue, AfterBegin
<1>2. CASE storeProcessing \/ spq = <<>> \/ CannotBegin(Head(spq).req)
  <2>1. UNCHANGED <<outgoing, store, used>>
    BY <1>2 DEF InvokeStoreProcessingQueue, idVars
  <2> QED BY <1>1, <2>1, UsedRests DEF connVars, replayVars
<1>3. CASE ~(storeProcessing \/ spq = <<>> \/ CannotBegin(Head(spq).req))
  <2>1. spq # <<>> /\ Begin(Head(spq)) /\ ~storeProcessing /\ task \in {"invokeOne", "invokeAll"}
    BY <1>3 DEF InvokeStoreProcessingQueue
  <2>2. PICK w : w = Head(spq)
    OBVIOUS
  <2>3. w.req \in Requests
    <3>1. \E j \in DOMAIN spq : Head(spq) = spq[j]
      BY <2>1, TailHeld DEF ClientInv, TypeOK
    <3> QED BY <2>2, <3>1 DEF ClientInv, OnlyMessages
  <2>4. connected /\ stream # "destroyed" /\ rest = <<>>
    <3>1. connected
      BY <2>1 DEF ClientInv, ReplayInv, LoopsAreOnline, UsedInv, TasksOnline
    <3>2. stream \notin {"open", "destroyed"}
      BY <2>1 DEF FlowInv, RestHolds
    <3> QED BY <3>1, <3>2 DEF FlowInv, RestHolds, ClientInv, TypeOK
  <2>5. AllUsed
    <3>1. \A id : ~HasId(rest, id)
      BY <2>4, EmptySeq DEF HasId
    <3> QED BY <2>4, <3>1 DEF UsedInv, UsedCovers, AllUsed
  <2>6. IdsKept /\ AllUsed'
    BY <2>1, <2>2, <2>3, <2>5, BeginCovers
  <2> QED BY <1>1, <2>4, <2>6 DEF UsedInv, TasksOnline, UsedCovers, AllUsed, connVars
<1> QED BY <1>2, <1>3

\* A step of the replay registers the packet's identifier.
LEMMA ReplayCovers ==
    ASSUME UniqueIds, ClientInv, FlowInv, UsedInv, StoreDeliver
    PROVE  IdsKept /\ UsedInv'
<1>1. UNCHANGED <<connVars, store>> /\ task' = "idle" /\ stream = "open"
      /\ rest \in Seq(StoredPacket)
  BY DEF StoreDeliver, ClientInv, ReplayInv, LoopsAreOnline, TypeOK
<1>2. CASE rest = <<>>
  BY <1>1, <1>2, UsedRests DEF StoreDeliver, connVars
<1>3. CASE rest # <<>> /\ reconnectTimer
  BY <1>1, <1>3 DEF StoreDeliver, UsedInv, TasksOnline, UsedCovers, IdsKept
<1>4. CASE rest # <<>> /\ ~reconnectTimer
  <2>1. PICK p : p = Head(rest)
    OBVIOUS
  <2>2. Replay(p) /\ rest' = Tail(rest)
    BY <1>4, <2>1 DEF StoreDeliver
  <2>3. p.id # 0
    <3>1. p \in StoredPacket
      BY <1>1, <1>4, <2>1, SeqType
    <3> QED BY <3>1 DEF StoredPacket
  <2>4. used' = used \cup {p.id}
    BY <2>2, <2>3 DEF Replay, Register
  <2>5. IdsKept
    BY <2>2 DEF Replay, With, IdsKept
  <2>6. PICK u : u = rest'
    OBVIOUS
  <2>7. \A id : HasId(rest, id) => HasId(u, id) \/ id = p.id
    <3>1. u = Tail(rest)
      BY <2>2, <2>6
    <3>2. rest[1] = p /\ \A i \in DOMAIN rest : i # 1 => i - 1 \in DOMAIN u /\ u[i - 1] = rest[i]
      BY <1>1, <1>4, <2>1, <3>1, TailAt
    <3> QED BY <3>2 DEF HasId
  <2>8. UsedCovers'
    BY <1>1, <2>4, <2>6, <2>7 DEF UsedInv, UsedCovers, HasId, connVars
  <2> QED BY <1>1, <2>5, <2>8 DEF UsedInv, TasksOnline
<1> QED BY <1>2, <1>3, <1>4

\* deliver registers and frees no identifier: what is queued has none.
LEMMA DeliverCovers ==
    ASSUME ClientInv, FlowInv, UsedInv, Deliver
    PROVE  IdsKept /\ UsedInv'
<1>1. UNCHANGED <<connected, replayVars>> /\ task = "deliver" /\ task' \in {"idle", "deliver"}
      /\ queue \in Seq(Packet)
  BY DEF Deliver, SendQueued, ClientInv, TypeOK
<1>2. UNCHANGED <<store, outgoing>> /\ used \subseteq used'
  <2>1. CASE queue = <<>>
    BY <2>1 DEF Deliver, Resubscribe, ClientInv, OnlyMessages, idVars
  <2>2. CASE queue # <<>>
    <3>1. Head(queue).cmd = "publish"
      BY <1>1, <2>2, TailAt DEF ClientInv, QueuedQoS0
    <3> QED BY <2>2, <3>1 DEF Deliver, SendQueued, Register
  <2> QED BY <2>1, <2>2
<1> QED BY <1>1, <1>2, UsedRests DEF replayVars

\* An acknowledgement frees the identifier of the message it removes.
LEMMA AckCovers ==
    ASSUME ClientInv, WireOK, FlowInv, UsedInv, ClientHandlesAck
    PROVE  IdsKept /\ UsedInv'
<1>1. PICK k : k = Head(toClient)
  OBVIOUS
<1>2. TypeOK /\ StoredInv /\ store \in Seq(StoredPacket)
  BY DEF ClientInv, TypeOK
<1>3. toClient # <<>> /\ connected
  BY DEF ClientHandlesAck
<1>4. k \in Reply /\ k.id \in DOMAIN outgoing /\ k.id \in Ids
  BY <1>1, <1>2, <1>3, AckedMessage
<1>5. Handles(k)
  BY <1>1, <1>4 DEF ClientHandlesAck
<1>6. ASSUME NEW good, RemoveOutgoingAndStoreMessage(k.id, good) PROVE IdsKept /\ UsedInv'
  <2>1. /\ outgoing' = Without(outgoing, k.id) /\ store' = Del(store, k.id)
        /\ used' = used \ {k.id} /\ UNCHANGED <<connVars, replayVars>>
        /\ task' \in {"storeDeliver", "invokeOne"}
    BY <1>6 DEF RemoveOutgoingAndStoreMessage, Resume
  <2>2. IdsKept
    BY <2>1 DEF IdsKept, Without
  <2>3. PICK s : s = store'
    OBVIOUS
  <2>4. \A i \in DOMAIN s : s[i].id # k.id /\ \E j \in DOMAIN store : s[i] = store[j]
    BY <1>2, <2>1, <2>3, DelHeld DEF StoredInv
  <2>5. UsedCovers'
    BY <2>1, <2>3, <2>4 DEF UsedInv, UsedCovers, HasId, connVars, replayVars
  <2> QED BY <1>3, <2>1, <2>2, <2>5 DEF UsedInv, TasksOnline, connVars
<1>7. CASE HandlePuback(k.id, k.good)
  BY <1>6, <1>7 DEF HandlePuback
<1>8. CASE HandlePubrec(k.id, k.good)
  <2>1. CASE ~k.good
    BY <1>6, <1>8, <2>1 DEF HandlePubrec
  <2>2. CASE k.good
    <3>1. PICK p : p = [cmd |-> "pubrel", id |-> k.id, req |-> outgoing[k.id].req]
      OBVIOUS
    <3>2. /\ store' = Put(store, p) /\ UNCHANGED <<connVars, outgoing, idVars, replayVars, task>>
      BY <1>3, <1>8, <2>2, <3>1 DEF HandlePubrec
    <3>3. p \in StoredPacket /\ p.id = k.id
      <4>1. outgoing[k.id].req \in Owners /\ k.id # 0
        BY <1>2, <1>4, InFlightType, Parameters DEF Ids
      <4> QED BY <1>4, <3>1, <4>1 DEF Packet, StoredPacket
    <3>4. PICK s : s = store'
      OBVIOUS
    <3>5. \A i \in DOMAIN s : s[i] = p \/ \E j \in DOMAIN store : s[i] = store[j]
      BY <1>2, <3>2, <3>3, <3>4, PutHeld
    <3>6. HasId(store, k.id)
      BY <1>4 DEF FlowInv, StoreHolds
    <3>7. UsedCovers'
      BY <3>2, <3>3, <3>4, <3>5, <3>6
      DEF UsedInv, UsedCovers, HasId, connVars, idVars, replayVars
    <3> QED BY <3>2, <3>7 DEF UsedInv, TasksOnline, connVars, IdsKept
  <2> QED BY <2>1, <2>2
<1> QED BY <1>5, <1>7, <1>8 DEF Handles

\* Every step keeps the invariant, and every identifier in flight its call.
LEMMA UsedKept ==
    ASSUME UniqueIds, OnlyPublishes, ClientInv, WireOK, FlowInv, UsedInv, [FlowNext]_allVars
    PROVE  IdsKept /\ UsedInv'
<1>1. CASE ClientCalls
  BY <1>1, CallCovers DEF ClientCalls
<1>2. CASE StoreDeliver \/ InvokeStoreProcessingQueue \/ Deliver
  BY <1>2, ReplayCovers, InvokeCovers, DeliverCovers
<1>3. CASE StreamEnd
  BY <1>3, UsedRests DEF StreamEnd, connVars, idVars
<1>4. CASE FlushVolatile
  <2>1. UNCHANGED <<connVars, store, idVars, replayVars, outgoing>> /\ task = "flushVolatile"
        /\ task' \in {"idle", "flushVolatile", "flushQueue"}
    BY <1>4 DEF FlushVolatile, ClientInv, OnlyMessages
  <2> QED BY <2>1, UsedRests DEF connVars, idVars, replayVars
<1>5. CASE FlushStoreProcessingQueue
  <2>1. /\ UNCHANGED <<connVars, store, idVars, outgoing>> /\ task = "flushQueue"
        /\ task' \in {"idle", "flushQueue"}
    BY <1>5 DEF FlushStoreProcessingQueue
  <2>2. ~connected
    BY <2>1 DEF UsedInv, TasksOnline
  <2> QED BY <2>1, <2>2 DEF UsedInv, TasksOnline, UsedCovers, IdsKept, connVars
<1>6. CASE Drain
  BY <1>6, UsedRests DEF Drain, connVars, idVars, replayVars
<1>7. CASE ClientHandlesAck
  BY <1>7, AckCovers
<1>8. CASE Connected
  BY <1>8 DEF Connected, Connack, UsedInv, TasksOnline, UsedCovers, HasId, IdsKept
<1>9. CASE PingsLost
  BY <1>9, UsedRests DEF PingsLost, KeepaliveTimeout, idVars, replayVars
<1>10. CASE ConnectionLost
  <2>1. /\ ~connected' /\ task' = "flushVolatile"
        /\ outgoing' = [id \in DOMAIN outgoing |-> [outgoing[id] EXCEPT !.replay = FALSE]]
    BY <1>10 DEF ConnectionLost, Close
  <2>2. IdsKept
    <3>1. ASSUME NEW id \in DOMAIN outgoing PROVE outgoing'[id].req = outgoing[id].req
      <4>1. outgoing[id] \in InFlight
        BY InFlightType DEF ClientInv
      <4> QED BY <2>1, <4>1 DEF InFlight
    <3> QED BY <3>1 DEF IdsKept
  <2> QED BY <2>1, <2>2 DEF UsedInv, TasksOnline, UsedCovers
<1>11. CASE BrokerHandles \/ UNCHANGED allVars
  <2>1. UNCHANGED vars
    BY <1>11 DEF BrokerHandles, BrokerPublish, BrokerRefuses, BrokerPubrel, BrokerTakes, allVars
  <2> QED BY <2>1, UsedRests DEF vars, connVars, procVars, replayVars, idVars
<1> QED
  BY <1>1, <1>2, <1>3, <1>4, <1>5, <1>6, <1>7, <1>8, <1>9, <1>10, <1>11
  DEF FlowNext, ClientRuns, Run, ClientDrains

(***************************************************************************)
(* With UniqueMessageIdProvider no identifier in flight passes to another  *)
(* call: they are freed and registered again at every connection, and      *)
(* ClientCalls leaves out the calls that would take one after the replay   *)
(* that registers them was cut short.                                      *)
(***************************************************************************)
THEOREM UniqueIdsNotStolen ==
    ASSUME UniqueIds, OnlyPublishes, LateAcks = 0
    PROVE  FlowSpec => IdIsNotStolen
<1>1. FlowInit => FlowInv /\ SendInv /\ UsedInv
  <2>1. FlowInit => UsedInv
    BY DEF FlowInit, Init, UsedInv, TasksOnline, UsedCovers
  <2> QED BY <2>1, FlowStarts
<1>2. /\ ClientInv /\ ClientInv' /\ WireOK /\ WireOK' /\ FlowInv /\ SendInv /\ UsedInv
      /\ [FlowNext]_allVars
      => FlowInv' /\ SendInv' /\ UsedInv' /\ IdsKept
  BY UsedKept, FlowStep, FlowStands
<1>3. IdsKept => [\A id \in DOMAIN outgoing \cap DOMAIN outgoing' :
                    outgoing'[id].req = outgoing[id].req]_vars
  BY DEF IdsKept
<1> QED BY <1>1, <1>2, <1>3, ClientAlways, PTL DEF FlowSpec, IdIsNotStolen

(***************************************************************************)
(* With that provider the path implements the contract, and the broker     *)
(* holds back nothing but what is in flight, unconditionally.              *)
(***************************************************************************)
THEOREM UniqueImplementsContract ==
    ASSUME UniqueIds, OnlyPublishes, LateAcks = 0
    PROVE  FlowSpec => ImplementsContract /\ []ReceivedIsInFlight
BY UniqueIdsNotStolen, FlowImplementsContract, BrokerHoldsInFlight, PTL

(***************************************************************************)
(* With the default provider, in the behaviours in which the identifiers   *)
(* it gives are free.                                                      *)
(***************************************************************************)
THEOREM NextIdImplementsContract ==
    ASSUME ~UniqueIds, MaxId > 1, OnlyPublishes, LateAcks = 0
    PROVE  FlowSpec /\ [][OnlyFreeGiven]_vars => ImplementsContract /\ []ReceivedIsInFlight
BY FlowHasClient, FreeIdsKept, FlowImplementsContract, BrokerHoldsInFlight, PTL
=============================================================================
