----------------------- MODULE OutgoingSession_proofs -----------------------
(***************************************************************************)
(* Proofs about OutgoingSession, for every set of calls, every number of   *)
(* identifiers and an unconstrained broker: who holds a callback, and that *)
(* the table of calls in flight and the store agree.                       *)
(***************************************************************************)
EXTENDS OutgoingSession, SequenceTheorems, TLAPS

-----------------------------------------------------------------------------
(* The data. *)

\* An entry added to or taken from a table of identifiers leaves a table.
LEMMA WithType ==
    ASSUME NEW S, NEW f, DOMAIN f \subseteq Ids, f \in [DOMAIN f -> S],
           NEW id \in Ids, NEW v \in S
    PROVE  /\ DOMAIN With(f, id, v) \subseteq Ids
           /\ With(f, id, v) \in [DOMAIN With(f, id, v) -> S]
BY DEF With

LEMMA WithoutType ==
    ASSUME NEW S, NEW f, DOMAIN f \subseteq Ids, f \in [DOMAIN f -> S], NEW id
    PROVE  /\ DOMAIN Without(f, id) \subseteq Ids
           /\ Without(f, id) \in [DOMAIN Without(f, id) -> S]
BY DEF Without

\* The sequences the client builds one element at a time.
LEMMA SeqType ==
    ASSUME NEW S
    PROVE  /\ <<>> \in Seq(S)
           /\ \A e \in S : <<e>> \in Seq(S)
           /\ \A s \in Seq(S), e \in S : Append(s, e) \in Seq(S)
           /\ \A s \in Seq(S) : s # <<>> => Head(s) \in S /\ Tail(s) \in Seq(S)
<1>1. \A s \in Seq(S), e \in S : Append(s, e) \in Seq(S)
  BY AppendProperties
<1>2. \A s \in Seq(S) : s # <<>> => Head(s) \in S /\ Tail(s) \in Seq(S)
  BY HeadTailProperties
<1> QED BY <1>1, <1>2

\* put and del keep the store a sequence of stored packets.
LEMMA PutType ==
    ASSUME NEW s \in Seq(StoredPacket), NEW p \in StoredPacket
    PROVE  Put(s, p) \in Seq(StoredPacket)
BY AppendProperties DEF Put

LEMMA DelType ==
    ASSUME NEW s \in Seq(StoredPacket), NEW id
    PROVE  Del(s, id) \in Seq(StoredPacket)
<1> DEFINE k == CHOOSE i \in DOMAIN s : s[i].id = id
<1>1. CASE \E i \in DOMAIN s : s[i].id = id
  <2>1. k \in 1..Len(s) /\ Len(s) \in Nat /\ \A i \in 1..Len(s) : s[i] \in StoredPacket
    BY <1>1
  <2> HIDE DEF k
  <2>2. SubSeq(s, 1, k - 1) \in Seq(StoredPacket)
    BY <2>1, SubSeqProperties
  <2>3. SubSeq(s, k + 1, Len(s)) \in Seq(StoredPacket)
    BY <2>1, SubSeqProperties
  <2>4. RemoveAt(s, k) \in Seq(StoredPacket)
    BY <2>2, <2>3 DEF RemoveAt
  <2> QED BY <1>1, <2>4 DEF Del, k
<1>2. CASE ~\E i \in DOMAIN s : s[i].id = id
  BY <1>2 DEF Del
<1> QED BY <1>1, <1>2

\* A callback of one of the client's packets is counted for a request.
LEMMA CallBackType ==
    ASSUME TypeOK, NEW r \in Owners, NEW good, CallBack(r, good)
    PROVE  called' \in [Requests -> Nat] /\ succeeded' \subseteq Requests
BY DEF TypeOK, CallBack, Owners

-----------------------------------------------------------------------------
(***************************************************************************)
(* Type correctness.  The part of TypeOK that the procs disturb, and what  *)
(* each of them leaves true of it.                                         *)
(***************************************************************************)
ProcTypeOK ==
    /\ DOMAIN outgoing \subseteq Ids /\ outgoing \in [DOMAIN outgoing -> InFlight]
    /\ store \in Seq(StoredPacket)
    /\ queue \in Seq(Packet)
    /\ used \subseteq Ids /\ nextId \in Ids
    /\ resub \subseteq TopicFilter
    /\ DOMAIN topicsOf \subseteq Ids
    /\ topicsOf \in [DOMAIN topicsOf -> SUBSET TopicFilter]
    /\ parked \in Seq(Parked)
    /\ written \in Seq(Packet)
    /\ called \in [Requests -> Nat]
    /\ succeeded \subseteq Requests

\* A packet the client builds is a packet; written alone it is a sequence.
LEMMA WriteType ==
    ASSUME NEW p \in Packet, Write(p) \/ WriteNothing
    PROVE  written' \in Seq(Packet)
BY SeqType DEF Write, WriteNothing

LEMMA AllocatesType ==
    ASSUME TypeOK, NEW id \in Ids, Allocates(id)
    PROVE  used' \subseteq Ids /\ nextId' \in Ids
BY Parameters DEF TypeOK, Allocates, Ids

LEMMA PublishQoS0Type ==
    ASSUME TypeOK, NEW r \in Requests, PublishQoS0(r)
    PROVE  ProcTypeOK'
<1> DEFINE p == [cmd |-> "publish", id |-> 0, req |-> r]
<1>1. p \in Packet /\ r \in Owners
  BY DEF Packet, Owners
<1>2. called' \in [Requests -> Nat] /\ succeeded' \subseteq Requests
  BY <1>1, CallBackType DEF TypeOK, PublishQoS0, cbVars
<1>3. written' \in Seq(Packet)
  BY <1>1, WriteType DEF PublishQoS0
<1>4. parked' \in Seq(Parked)
  <2>1. [req |-> r, deliver |-> FALSE] \in Parked
    BY <1>1 DEF Parked
  <2>2. parked' = parked \/ parked' = Append(parked, [req |-> r, deliver |-> FALSE])
    BY DEF PublishQoS0
  <2>3. parked \in Seq(Parked)
    BY DEF TypeOK
  <2> QED BY <2>1, <2>2, <2>3, SeqType
<1>5. queue' \in Seq(Packet)
  <2>1. queue' = queue \/ queue' = Append(queue, p)
    BY DEF PublishQoS0
  <2>2. queue \in Seq(Packet)
    BY DEF TypeOK
  <2> HIDE DEF p
  <2> QED BY <1>1, <2>1, <2>2, SeqType
<1> QED BY <1>2, <1>3, <1>4, <1>5 DEF TypeOK, ProcTypeOK, PublishQoS0, idVars, subVars

LEMMA PublishStoredType ==
    ASSUME TypeOK, NEW r \in Requests, PublishStored(r)
    PROVE  ProcTypeOK'
<1>1. PICK id \in Ids :
        /\ Allocates(id)
        /\ outgoing' = With(outgoing, id, [req |-> r, volatile |-> FALSE, replay |-> FALSE])
        /\ store' = Put(store, [cmd |-> "publish", id |-> id, req |-> r])
        /\ Write([cmd |-> "publish", id |-> id, req |-> r]) \/ WriteNothing
        /\ UNCHANGED <<queue, subVars, parked, cbVars>>
  BY DEF PublishStored
<1> DEFINE p == [cmd |-> "publish", id |-> id, req |-> r]
<1>2. p \in StoredPacket /\ p \in Packet
  BY Parameters DEF StoredPacket, Packet, Owners, Ids
<1>3. store' \in Seq(StoredPacket)
  BY <1>1, <1>2, PutType DEF TypeOK
<1>4. written' \in Seq(Packet)
  BY <1>1, <1>2, WriteType
<1>5. used' \subseteq Ids /\ nextId' \in Ids
  BY <1>1, AllocatesType
<1>6. [req |-> r, volatile |-> FALSE, replay |-> FALSE] \in InFlight
  BY DEF InFlight, Owners
<1>7. DOMAIN outgoing' \subseteq Ids /\ outgoing' \in [DOMAIN outgoing' -> InFlight]
  BY <1>1, <1>6, WithType DEF TypeOK
<1> QED BY <1>1, <1>3, <1>4, <1>5, <1>7 DEF TypeOK, ProcTypeOK, subVars, cbVars

\* The packet, the entry and the table of a SUBSCRIBE or UNSUBSCRIBE.
LEMMA SendVolatileType ==
    ASSUME TypeOK, NEW r \in Owners, NEW id \in Ids,
           NEW cmd \in {"subscribe", "unsubscribe"}, SendVolatile(cmd, id, r)
    PROVE  /\ DOMAIN outgoing' \subseteq Ids /\ outgoing' \in [DOMAIN outgoing' -> InFlight]
           /\ queue' \in Seq(Packet) /\ written' \in Seq(Packet)
           /\ UNCHANGED <<store, parked, cbVars>>
<1> DEFINE p == [cmd |-> cmd, id |-> id, req |-> r]
<1>1. p \in Packet
  BY Parameters DEF Packet, Ids
<1>2. [req |-> r, volatile |-> TRUE, replay |-> FALSE] \in InFlight
  BY DEF InFlight
<1>3. DOMAIN outgoing' \subseteq Ids /\ outgoing' \in [DOMAIN outgoing' -> InFlight]
  BY <1>2, WithType DEF TypeOK, SendVolatile
<1>4. queue' \in Seq(Packet)
  <2>1. queue' = queue \/ queue' = Append(queue, p)
    BY DEF SendVolatile
  <2>2. queue \in Seq(Packet)
    BY DEF TypeOK
  <2> HIDE DEF p
  <2> QED BY <1>1, <2>1, <2>2, SeqType
<1>5. written' \in Seq(Packet)
  BY <1>1, WriteType DEF SendVolatile
<1> QED BY <1>3, <1>4, <1>5 DEF SendVolatile

LEMMA SubscribeType ==
    ASSUME TypeOK, NEW w \in Waiting, SubscribeProc(w) \/ UnsubscribeProc(w)
    PROVE  ProcTypeOK'
<1>1. w.req \in Owners /\ w.topics \subseteq TopicFilter
  BY DEF Waiting
<1>2. CASE SubscribeProc(w)
  <2>1. PICK id \in Ids :
          /\ Allocates(id)
          /\ resub' = resub \cup w.topics
          /\ topicsOf' = With(topicsOf, id, w.topics)
          /\ SendVolatile("subscribe", id, w.req)
    BY <1>2 DEF SubscribeProc
  <2>2. DOMAIN topicsOf' \subseteq Ids /\ topicsOf' \in [DOMAIN topicsOf' -> SUBSET TopicFilter]
    BY <1>1, <2>1, WithType DEF TypeOK
  <2> QED
    BY <1>1, <2>1, <2>2, AllocatesType, SendVolatileType DEF TypeOK, ProcTypeOK, cbVars
<1>3. CASE UnsubscribeProc(w)
  <2>1. PICK id \in Ids :
          /\ Allocates(id)
          /\ resub' = resub \ w.topics
          /\ UNCHANGED topicsOf
          /\ SendVolatile("unsubscribe", id, w.req)
    BY <1>3 DEF UnsubscribeProc
  <2> QED
    BY <1>1, <2>1, AllocatesType, SendVolatileType DEF TypeOK, ProcTypeOK, cbVars
<1> QED BY <1>2, <1>3

LEMMA BeginType ==
    ASSUME TypeOK, NEW w \in Waiting, Begin(w)
    PROVE  ProcTypeOK'
<1>1. w.req \in Owners
  BY DEF Waiting
<1>2. w.req # Nobody => w.req \in Requests
  BY <1>1 DEF Owners
<1> QED
  BY <1>2, PublishQoS0Type, PublishStoredType, SubscribeType DEF Begin, KindOf

LEMMA BeginOrWaitType ==
    ASSUME TypeOK, NEW w \in Waiting, BeginOrWait(w)
    PROVE  ProcTypeOK' /\ spq' \in Seq(Waiting)
<1>1. CASE MustWait(w.req)
  <2>1. spq' \in Seq(Waiting)
    <3>1. spq' = Append(spq, w) /\ spq \in Seq(Waiting)
      BY <1>1 DEF BeginOrWait, TypeOK
    <3> QED BY <3>1, SeqType
  <2>2. written' \in Seq(Packet)
    BY <1>1 DEF BeginOrWait, WriteNothing
  <2> QED
    BY <1>1, <2>1, <2>2 DEF TypeOK, ProcTypeOK, BeginOrWait, idVars, subVars, cbVars
<1>2. CASE ~MustWait(w.req)
  BY <1>2, BeginType DEF TypeOK, BeginOrWait
<1> QED BY <1>1, <1>2

\* The entry of an identifier in flight.
LEMMA InFlightType ==
    ASSUME TypeOK, NEW id \in DOMAIN outgoing
    PROVE  id \in Ids /\ outgoing[id] \in InFlight /\ outgoing[id].req \in Owners
BY DEF TypeOK, InFlight

LEMMA CallType ==
    ASSUME TypeOK, NEW r \in Requests, Call(r)
    PROVE  TypeOK'
<1> DEFINE new == IF Kind[r] = "sub" THEN Topics[r] \ resub ELSE Topics[r]
           w   == [req |-> r, topics |-> new]
<1>1. w \in Waiting /\ r \in Owners
  BY Parameters DEF Waiting, Owners
<1>2. issued' \in Seq(Requests)
  <2>1. issued' = Append(issued, r) /\ issued \in Seq(Requests)
    BY DEF Call, TypeOK
  <2> QED BY <2>1, SeqType
<1>3. ProcTypeOK' /\ spq' \in Seq(Waiting)
  <2>1. CASE Kind[r] = "sub" /\ new = {}
    <3>1. CallBack(r, TRUE) /\ WriteNothing
          /\ UNCHANGED <<outgoing, store, queue, idVars, subVars, parked, spq>>
      BY <2>1 DEF Call
    <3>2. called' \in [Requests -> Nat] /\ succeeded' \subseteq Requests
      BY <1>1, <3>1, CallBackType
    <3> QED BY <3>1, <3>2, SeqType DEF TypeOK, ProcTypeOK, WriteNothing, idVars, subVars
  <2>2. CASE ~(Kind[r] = "sub" /\ new = {})
    <3>1. BeginOrWait(w)
      BY <2>2 DEF Call
    <3> HIDE DEF w
    <3> QED BY <1>1, <3>1, BeginOrWaitType
  <2> QED BY <2>1, <2>2
<1> QED BY <1>2, <1>3 DEF TypeOK, ProcTypeOK, Call, connVars, replayVars

LEMMA RemoveType ==
    ASSUME TypeOK, NEW id \in DOMAIN outgoing, NEW good,
           RemoveOutgoingAndStoreMessage(id, good)
    PROVE  TypeOK'
<1>1. called' \in [Requests -> Nat] /\ succeeded' \subseteq Requests
  BY InFlightType, CallBackType DEF RemoveOutgoingAndStoreMessage
<1>2. DOMAIN outgoing' \subseteq Ids /\ outgoing' \in [DOMAIN outgoing' -> InFlight]
  BY WithoutType DEF TypeOK, RemoveOutgoingAndStoreMessage
<1>3. store' \in Seq(StoredPacket)
  BY DelType DEF TypeOK, RemoveOutgoingAndStoreMessage
<1>4. task' \in Tasks /\ written' \in Seq(Packet)
  BY SeqType DEF RemoveOutgoingAndStoreMessage, Resume, Tasks, WriteNothing
<1> QED
  BY <1>1, <1>2, <1>3, <1>4
  DEF TypeOK, RemoveOutgoingAndStoreMessage, connVars, replayVars, subVars

LEMMA PubrecType ==
    ASSUME TypeOK, NEW id \in Ids, NEW good, HandlePubrec(id, good)
    PROVE  TypeOK'
<1>1. id \in DOMAIN outgoing
  BY DEF HandlePubrec, Acknowledged
<1>2. CASE ~good
  BY <1>1, <1>2, RemoveType DEF HandlePubrec
<1>3. CASE good
  <2> DEFINE p == [cmd |-> "pubrel", id |-> id, req |-> outgoing[id].req]
  <2>1. p \in StoredPacket /\ p \in Packet
    BY <1>1, InFlightType, Parameters DEF StoredPacket, Packet, Ids
  <2>2. /\ (Write(p) \/ WriteNothing)
        /\ (store' = store \/ store' = Put(store, p))
        /\ (queue' = queue \/ queue' = Append(queue, p))
        /\ UNCHANGED <<connVars, outgoing, idVars, replayVars, subVars, spq, parked,
                       task, issued, cbVars>>
    BY <1>3 DEF HandlePubrec
  <2> HIDE DEF p
  <2>3. written' \in Seq(Packet)
    BY <2>1, <2>2, WriteType
  <2>4. store' \in Seq(StoredPacket)
    BY <2>1, <2>2, PutType DEF TypeOK
  <2>5. queue' \in Seq(Packet)
    <3>1. queue \in Seq(Packet)
      BY DEF TypeOK
    <3> QED BY <3>1, <2>1, <2>2, SeqType
  <2> QED
    BY <2>2, <2>3, <2>4, <2>5 DEF TypeOK, connVars, idVars, replayVars, subVars, cbVars
<1> QED BY <1>2, <1>3

LEMMA FinishVolatileType ==
    ASSUME TypeOK, NEW id \in DOMAIN outgoing, NEW good, FinishVolatile(id, good),
           resub' \subseteq TopicFilter,
           DOMAIN topicsOf' \subseteq Ids,
           topicsOf' \in [DOMAIN topicsOf' -> SUBSET TopicFilter]
    PROVE  TypeOK'
<1>1. called' \in [Requests -> Nat] /\ succeeded' \subseteq Requests
  BY InFlightType, CallBackType DEF FinishVolatile
<1>2. DOMAIN outgoing' \subseteq Ids /\ outgoing' \in [DOMAIN outgoing' -> InFlight]
  BY WithoutType DEF TypeOK, FinishVolatile
<1>3. task' \in Tasks /\ written' \in Seq(Packet)
  BY SeqType DEF FinishVolatile, Tasks, WriteNothing
<1> QED
  BY <1>1, <1>2, <1>3 DEF TypeOK, FinishVolatile, connVars, replayVars

LEMMA AckType ==
    ASSUME TypeOK, Ack
    PROVE  TypeOK'
<1>1. ASSUME NEW id \in Ids, NEW good \in BOOLEAN, HandlePuback(id, good)
      PROVE  TypeOK'
  BY <1>1, RemoveType DEF HandlePuback, Acknowledged
<1>2. ASSUME NEW id \in Ids, NEW good \in BOOLEAN, HandlePubrec(id, good)
      PROVE  TypeOK'
  BY <1>2, PubrecType
<1>3. ASSUME NEW id \in Ids, NEW good \in BOOLEAN, HandleSuback(id, good)
      PROVE  TypeOK'
  <2>1. id \in DOMAIN outgoing /\ FinishVolatile(id, good)
    BY <1>3 DEF HandleSuback, Acknowledged
  <2>2. resub' \subseteq TopicFilter
    BY <1>3 DEF HandleSuback, TypeOK
  <2>3. DOMAIN topicsOf' \subseteq Ids /\ topicsOf' \in [DOMAIN topicsOf' -> SUBSET TopicFilter]
    BY <1>3, WithoutType DEF HandleSuback, TypeOK
  <2> QED BY <2>1, <2>2, <2>3, FinishVolatileType
<1>4. ASSUME NEW id \in Ids, HandleUnsuback(id)
      PROVE  TypeOK'
  <2>1. id \in DOMAIN outgoing /\ FinishVolatile(id, TRUE) /\ UNCHANGED subVars
    BY <1>4 DEF HandleUnsuback, Acknowledged
  <2> QED BY <2>1, FinishVolatileType DEF TypeOK, subVars
<1> QED BY <1>1, <1>2, <1>3, <1>4 DEF Ack

LEMMA StoreDeliverType ==
    ASSUME TypeOK, StoreDeliver
    PROVE  TypeOK'
<1>1. /\ task' \in Tasks
      /\ UNCHANGED <<connVars, store, queue, spq, nextId, subVars, parked, issued, cbVars>>
  BY DEF StoreDeliver, Tasks
<1>2. CASE rest = <<>>
  BY <1>1, <1>2, SeqType
  DEF TypeOK, StoreDeliver, WriteNothing, connVars, subVars, cbVars
<1>3. CASE rest # <<>>
  <2>1. Head(rest) \in StoredPacket /\ rest' \in Seq(StoredPacket)
    <3>1. rest \in Seq(StoredPacket) /\ rest' = Tail(rest)
      BY <1>3 DEF StoreDeliver, TypeOK
    <3> QED BY <1>3, <3>1, SeqType
  <2>2. storeProcessing' \in BOOLEAN
    BY <1>3 DEF StoreDeliver
  <2>3. CASE reconnectTimer
    BY <1>1, <1>3, <2>1, <2>2, <2>3, SeqType
    DEF TypeOK, StoreDeliver, WriteNothing, connVars, subVars, cbVars
  <2>4. CASE ~reconnectTimer
    <3> DEFINE p == Head(rest)
               owner == IF p.id \in DOMAIN outgoing THEN outgoing[p.id].req ELSE Nobody
    <3>1. Replay(p)
      BY <1>3, <2>4 DEF StoreDeliver
    <3>2. p \in Packet /\ p.id \in Ids
      BY <2>1 DEF StoredPacket, Packet
    <3>3. owner \in Owners
      BY InFlightType DEF Owners
    <3> HIDE DEF p
    <3>4. [req |-> owner, volatile |-> FALSE, replay |-> TRUE] \in InFlight
      BY <3>3 DEF InFlight
    <3>5. DOMAIN outgoing' \subseteq Ids /\ outgoing' \in [DOMAIN outgoing' -> InFlight]
      BY <3>1, <3>2, <3>4, WithType DEF Replay, TypeOK
    <3>6. used' \subseteq Ids /\ stream' = stream
      BY <3>1, <3>2 DEF Replay, Register, TypeOK
    <3>7. written' \in Seq(Packet)
      BY <3>1, <3>2, WriteType DEF Replay
    <3> QED
      BY <1>1, <2>1, <2>2, <3>5, <3>6, <3>7 DEF TypeOK, connVars, subVars, cbVars
  <2> QED BY <2>3, <2>4
<1> QED BY <1>2, <1>3

LEMMA InvokeType ==
    ASSUME TypeOK, InvokeStoreProcessingQueue
    PROVE  TypeOK'
<1> DEFINE stops == storeProcessing \/ spq = <<>> \/ CannotBegin(Head(spq).req)
<1>1. task' \in Tasks /\ UNCHANGED <<connVars, replayVars, issued>>
  BY DEF InvokeStoreProcessingQueue, AfterBegin, Tasks
<1>2. CASE stops
  BY <1>1, <1>2, SeqType
  DEF TypeOK, InvokeStoreProcessingQueue, WriteNothing, connVars, replayVars, idVars,
      subVars, cbVars
<1>3. CASE ~stops
  <2>1. spq \in Seq(Waiting) /\ spq # <<>> /\ Begin(Head(spq)) /\ spq' = Tail(spq)
    BY <1>3 DEF InvokeStoreProcessingQueue, TypeOK
  <2>2. Head(spq) \in Waiting /\ spq' \in Seq(Waiting)
    BY <2>1, SeqType
  <2>3. ProcTypeOK'
    BY <2>1, <2>2, BeginType
  <2> QED BY <1>1, <2>2, <2>3 DEF TypeOK, ProcTypeOK, connVars, replayVars
<1> QED BY <1>2, <1>3

LEMMA ResubscribeType ==
    ASSUME TypeOK, Resubscribe
    PROVE  ProcTypeOK' /\ spq' \in Seq(Waiting) /\ firstConnection' \in BOOLEAN
<1> DEFINE w == [req |-> Nobody, topics |-> resub]
<1>1. w \in Waiting
  BY DEF TypeOK, Waiting, Owners
<1>2. CASE ~firstConnection /\ connackPacket = "new" /\ resub # {}
  <2>1. BeginOrWait(w) /\ firstConnection' = FALSE
    BY <1>2 DEF Resubscribe
  <2> HIDE DEF w
  <2> QED BY <1>1, <2>1, BeginOrWaitType
<1>3. CASE ~(~firstConnection /\ connackPacket = "new" /\ resub # {})
  BY <1>3, SeqType
  DEF TypeOK, ProcTypeOK, Resubscribe, WriteNothing, idVars, subVars, cbVars
<1> QED BY <1>2, <1>3

LEMMA DeliverType ==
    ASSUME TypeOK, Deliver
    PROVE  TypeOK'
<1>1. UNCHANGED <<connected, reconnectTimer, connackPacket, drops, replayVars, issued>>
  BY DEF Deliver
<1>2. CASE queue = <<>>
  <2>1. Resubscribe /\ task' = "idle"
    BY <1>2 DEF Deliver
  <2> QED
    BY <1>1, <2>1, ResubscribeType DEF TypeOK, ProcTypeOK, Tasks, replayVars
<1>3. CASE queue # <<>>
  <2> DEFINE p == Head(queue)
             owner == IF p.cmd = "publish" THEN p.req ELSE Nobody
  <2>1. p \in Packet /\ queue' \in Seq(Packet)
    <3>1. queue \in Seq(Packet) /\ queue' = Tail(queue)
      BY <1>3 DEF Deliver, TypeOK
    <3> QED BY <1>3, <3>1, SeqType
  <2>2. UNCHANGED <<firstConnection, outgoing, nextId, subVars, spq>>
    BY <1>3 DEF Deliver
  <2>3. CASE Registered(p.id)
    BY <1>1, <1>3, <2>1, <2>2, <2>3, SeqType
    DEF TypeOK, Deliver, WriteNothing, replayVars, subVars, cbVars
  <2>4. CASE ~Registered(p.id)
    <3>1. SendQueued(p)
      BY <1>3, <2>4 DEF Deliver
    <3> HIDE DEF p
    <3>2. owner \in Owners /\ p.id \in Ids \cup {0}
      BY <2>1 DEF Packet, Owners
    <3>3. used' \subseteq Ids
      BY <3>1, <3>2 DEF SendQueued, Register, TypeOK
    <3>4. written' \in Seq(Packet)
      BY <2>1, <3>1, WriteType DEF SendQueued
    <3>5. store' \in Seq(StoredPacket)
      <4>1. CASE p.cmd = "pubrel"
        <5>1. p \in StoredPacket
          BY <2>1, <4>1 DEF StoredPacket, Packet
        <5> QED BY <3>1, <4>1, <5>1, PutType DEF SendQueued, TypeOK
      <4>2. CASE p.cmd # "pubrel"
        BY <3>1, <4>2 DEF SendQueued, TypeOK
      <4> QED BY <4>1, <4>2
    <3>6. called' \in [Requests -> Nat] /\ succeeded' \subseteq Requests
      BY <3>1, <3>2, CallBackType DEF SendQueued, TypeOK, cbVars
    <3>7. parked' \in Seq(Parked) /\ task' \in Tasks
      <4>1. [req |-> owner, deliver |-> TRUE] \in Parked
        BY <3>2 DEF Parked
      <4>2. parked \in Seq(Parked) /\ task \in Tasks /\ "idle" \in Tasks
        BY DEF TypeOK, Tasks
      <4>3. \/ parked' = parked /\ task' = task
            \/ parked' = Append(parked, [req |-> owner, deliver |-> TRUE]) /\ task' = "idle"
        BY <3>1 DEF SendQueued
      <4> QED BY <4>1, <4>2, <4>3, SeqType
    <3> QED
      BY <1>1, <2>1, <2>2, <3>3, <3>4, <3>5, <3>6, <3>7
      DEF TypeOK, replayVars, subVars
  <2> QED BY <2>3, <2>4
<1> QED BY <1>2, <1>3

\* Drain, a close and the flushes that follow it.
LEMMA CloseType ==
    ASSUME TypeOK,
           Drain \/ KeepaliveTimeout \/ Close \/ FlushVolatile \/ FlushStoreProcessingQueue
    PROVE  TypeOK'
<1>1. CASE Drain
  <2>1. parked \in Seq(Parked) /\ parked # <<>> /\ parked' = Tail(parked)
    BY <1>1 DEF Drain, TypeOK
  <2>2. Head(parked).req \in Owners /\ parked' \in Seq(Parked)
    <3>1. Head(parked) \in Parked /\ parked' \in Seq(Parked)
      BY <2>1, SeqType
    <3> QED BY <3>1 DEF Parked
  <2>3. called' \in [Requests -> Nat] /\ succeeded' \subseteq Requests
    BY <1>1, <2>2, CallBackType DEF Drain
  <2> QED
    BY <1>1, <2>2, <2>3, SeqType
    DEF TypeOK, Drain, Tasks, WriteNothing, connVars, idVars, replayVars, subVars
<1>2. CASE KeepaliveTimeout
  BY <1>2, SeqType
  DEF TypeOK, KeepaliveTimeout, WriteNothing, idVars, replayVars, subVars, cbVars
<1>3. CASE Close
  <2>1. DOMAIN outgoing' \subseteq Ids /\ outgoing' \in [DOMAIN outgoing' -> InFlight]
    BY <1>3 DEF TypeOK, Close, InFlight
  <2>2. drops' \in 0..MaxDrops
    BY <1>3, Parameters DEF TypeOK, Close
  <2>3. parked' \in Seq(Parked) /\ written' \in Seq(Packet)
    BY <1>3, SeqType DEF Close, WriteNothing
  <2> QED
    BY <1>3, <2>1, <2>2, <2>3
    DEF TypeOK, Close, Tasks, idVars, replayVars, subVars, cbVars
<1>4. CASE FlushVolatile
  <2>1. CASE \E id \in DOMAIN outgoing : outgoing[id].volatile
    <3>1. PICK id \in DOMAIN outgoing :
            /\ outgoing' = Without(outgoing, id)
            /\ CallBack(outgoing[id].req, FALSE)
            /\ UNCHANGED task
      BY <1>4, <2>1 DEF FlushVolatile
    <3>2. DOMAIN outgoing' \subseteq Ids /\ outgoing' \in [DOMAIN outgoing' -> InFlight]
      BY <3>1, WithoutType DEF TypeOK
    <3>3. called' \in [Requests -> Nat] /\ succeeded' \subseteq Requests
      BY <3>1, InFlightType, CallBackType
    <3> QED
      BY <1>4, <3>1, <3>2, <3>3, SeqType
      DEF TypeOK, FlushVolatile, WriteNothing, connVars, idVars, replayVars, subVars
  <2>2. CASE ~\E id \in DOMAIN outgoing : outgoing[id].volatile
    BY <1>4, <2>2, SeqType
    DEF TypeOK, FlushVolatile, Tasks, WriteNothing, connVars, idVars, replayVars, subVars,
        cbVars
  <2> QED BY <2>1, <2>2
<1>5. CASE FlushStoreProcessingQueue
  <2>1. CASE spq # <<>>
    <3>1. Head(spq).req \in Owners /\ spq' \in Seq(Waiting)
      <4>1. spq \in Seq(Waiting) /\ spq' = Tail(spq)
        BY <1>5, <2>1 DEF FlushStoreProcessingQueue, TypeOK
      <4>2. Head(spq) \in Waiting /\ spq' \in Seq(Waiting)
        BY <2>1, <4>1, SeqType
      <4> QED BY <4>2 DEF Waiting
    <3>2. called' \in [Requests -> Nat] /\ succeeded' \subseteq Requests
      BY <1>5, <2>1, <3>1, CallBackType DEF FlushStoreProcessingQueue
    <3> QED
      BY <1>5, <2>1, <3>1, <3>2, SeqType
      DEF TypeOK, FlushStoreProcessingQueue, WriteNothing, connVars, idVars, replayVars,
          subVars
  <2>2. CASE spq = <<>>
    BY <1>5, <2>2, SeqType
    DEF TypeOK, FlushStoreProcessingQueue, Tasks, WriteNothing, connVars, idVars, subVars,
        cbVars
  <2> QED BY <2>1, <2>2
<1> QED BY <1>1, <1>2, <1>3, <1>4, <1>5

\* No step, of the user, of the broker or of the network, takes a table or a
\* queue out of its type.
LEMMA TypeKept ==
    ASSUME TypeOK, [Next]_vars
    PROVE  TypeOK'
<1>1. ASSUME NEW r \in Requests, Call(r) PROVE TypeOK'
  BY <1>1, CallType
<1>2. ASSUME NEW id \in Ids, RemoveOutgoingMessage(id) PROVE TypeOK'
  BY <1>2, RemoveType DEF RemoveOutgoingMessage
<1>3. CASE Ack
  BY <1>3, AckType
<1>4. CASE StoreDeliver
  BY <1>4, StoreDeliverType
<1>5. CASE StreamEnd
  BY <1>5, SeqType
  DEF TypeOK, StreamEnd, Tasks, WriteNothing, connVars, idVars, subVars, cbVars
<1>6. CASE InvokeStoreProcessingQueue
  BY <1>6, InvokeType
<1>7. CASE Deliver
  BY <1>7, DeliverType
<1>8. ASSUME NEW present \in BOOLEAN, Connack(present) PROVE TypeOK'
  BY <1>8, SeqType DEF TypeOK, Connack, Tasks, WriteNothing, subVars, cbVars
<1>9. CASE Drain \/ KeepaliveTimeout \/ Close \/ FlushVolatile \/ FlushStoreProcessingQueue
  BY <1>9, CloseType
<1>10. CASE UNCHANGED vars
  BY <1>10
  DEF TypeOK, vars, connVars, idVars, replayVars, subVars, cbVars, procVars
<1> QED
  BY <1>1, <1>2, <1>3, <1>4, <1>5, <1>6, <1>7, <1>8, <1>9, <1>10
  DEF Next, User, Run, Network

\* The client begins well formed.
LEMMA InitType ==
    ASSUME Init
    PROVE  TypeOK
<1>1. /\ store \in Seq(StoredPacket) /\ rest \in Seq(StoredPacket)
      /\ queue \in Seq(Packet) /\ written \in Seq(Packet) /\ spq \in Seq(Waiting)
      /\ parked \in Seq(Parked) /\ issued \in Seq(Requests)
  BY SeqType DEF Init
<1>2. \A S : DOMAIN Empty = {} /\ Empty \in [DOMAIN Empty -> S]
  BY DEF Empty
<1>3. called \in [Requests -> Nat] /\ succeeded \subseteq Requests
  BY DEF Init
<1>4. drops \in 0..MaxDrops
  BY Parameters DEF Init
<1>5. /\ DOMAIN outgoing \subseteq Ids /\ outgoing \in [DOMAIN outgoing -> InFlight]
      /\ DOMAIN topicsOf \subseteq Ids
      /\ topicsOf \in [DOMAIN topicsOf -> SUBSET TopicFilter]
  BY <1>2 DEF Init
<1> QED BY <1>1, <1>3, <1>4, <1>5 DEF Init, TypeOK, Tasks

\* Every state of the client is well formed.
THEOREM TypeCorrect == Spec => []TypeOK
<1>1. Init => TypeOK
  BY InitType
<1>2. TypeOK /\ [Next]_vars => TypeOK'
  BY TypeKept
<1> QED BY <1>1, <1>2, PTL DEF Spec

-----------------------------------------------------------------------------
(***************************************************************************)
(* A callback has one holder.  First, what appending to a queue and taking *)
(* its head does to the calls in it.                                       *)
(***************************************************************************)
LEMMA AppendHeld ==
    ASSUME NEW S, NEW s \in Seq(S), NEW e \in S, NEW r
    PROVE  /\ In(Append(s, e), r) => In(s, r) \/ e.req = r
           /\ Once(s, r) /\ (e.req = r => ~In(s, r)) => Once(Append(s, e), r)
           /\ \A i \in DOMAIN Append(s, e) : Append(s, e)[i] = e \/ \E j \in DOMAIN s : Append(s, e)[i] = s[j]
<1> DEFINE t == Append(s, e)
<1>1. /\ Len(s) \in Nat /\ DOMAIN s = 1..Len(s) /\ DOMAIN t = 1..(Len(s) + 1)
      /\ \A i \in 1..Len(s) : t[i] = s[i]
      /\ t[Len(s) + 1] = e
  BY AppendProperties
<1> HIDE DEF t
<1>2. \A i \in DOMAIN t : (i \in DOMAIN s /\ t[i] = s[i]) \/ (i = Len(s) + 1 /\ t[i] = e)
  BY <1>1
<1>3. In(t, r) => In(s, r) \/ e.req = r
  BY <1>2 DEF In
<1>4. Once(s, r) /\ (e.req = r => ~In(s, r)) => Once(t, r)
  BY <1>2 DEF In, Once
<1>5. \A i \in DOMAIN t : t[i] = e \/ \E j \in DOMAIN s : t[i] = s[j]
  BY <1>2
<1> QED BY <1>3, <1>4, <1>5 DEF t

LEMMA TailHeld ==
    ASSUME NEW S, NEW s \in Seq(S), s # <<>>, NEW r
    PROVE  /\ In(Tail(s), r) => In(s, r)
           /\ Head(s).req = r => In(s, r)
           /\ Once(s, r) => Once(Tail(s), r)
           /\ Once(s, r) /\ Head(s).req = r => ~In(Tail(s), r)
           /\ \A i \in DOMAIN Tail(s) : \E j \in DOMAIN s : Tail(s)[i] = s[j]
           /\ \E j \in DOMAIN s : Head(s) = s[j]
<1> DEFINE t == Tail(s)
           h == Head(s)
<1>1. /\ Len(s) \in Nat \ {0} /\ DOMAIN s = 1..Len(s) /\ DOMAIN t = 1..(Len(s) - 1)
      /\ \A i \in 1..(Len(s) - 1) : t[i] = s[i + 1]
      /\ h = s[1]
  BY HeadTailProperties, EmptySeq
<1> HIDE DEF t, h
<1>2. \A i \in DOMAIN t : i + 1 \in DOMAIN s /\ t[i] = s[i + 1] /\ i + 1 # 1
  BY <1>1
<1>3. 1 \in DOMAIN s /\ h = s[1]
  BY <1>1
<1>4. \A i, j \in DOMAIN t : i + 1 = j + 1 => i = j
  BY <1>1
<1>5. In(t, r) => In(s, r)
  BY <1>2 DEF In
<1>6. h.req = r => In(s, r)
  BY <1>3 DEF In
<1>7. Once(s, r) => Once(t, r)
  BY <1>2, <1>4 DEF Once
<1>8. Once(s, r) /\ h.req = r => ~In(t, r)
  BY <1>2, <1>3 DEF Once, In
<1>9. (\A i \in DOMAIN t : \E j \in DOMAIN s : t[i] = s[j]) /\ \E j \in DOMAIN s : h = s[j]
  BY <1>2, <1>3
<1> QED BY <1>5, <1>6, <1>7, <1>8, <1>9 DEF t, h

\* Running a callback counts for its owner only.
LEMMA CallBackCounts ==
    ASSUME TypeOK, NEW r \in Owners, NEW good, CallBack(r, good), NEW q \in Requests
    PROVE  called'[q] = IF q = r THEN called[q] + 1 ELSE called[q]
BY Parameters DEF TypeOK, CallBack, Owners

\* What a table with one entry more or less holds.
LEMMA TableHeld ==
    ASSUME NEW id, NEW r, NEW v,
           outgoing' = With(outgoing, id, v) \/ outgoing' = Without(outgoing, id)
    PROVE  /\ InOutgoing(r)' => InOutgoing(r) \/ v.req = r
           /\ OnceInOutgoing(r) /\ (v.req = r => ~InOutgoing(r)) => OnceInOutgoing(r)'
BY DEF With, Without, InOutgoing, OnceInOutgoing

-----------------------------------------------------------------------------
(***************************************************************************)
(* What beginning a call does: the call begins, or its callback runs, and  *)
(* nothing changes for the others.                                         *)
(***************************************************************************)
BeginsOnly(r) ==
    /\ RightKinds'
    /\ \A q \in Requests \ {r} :
         /\ called'[q] = called[q]
         /\ Begun(q)' => Begun(q)
         /\ BegunOnce(q)'
    /\ r \in Requests =>
         /\ called'[r] \in {0, 1}
         /\ Begun(r)' => called'[r] = 0
         /\ BegunOnce(r)'

MayBegin(r) ==
    /\ RightKinds /\ \A q \in Requests : BegunOnce(q)
    /\ r \in Requests => called[r] = 0 /\ ~Begun(r)

LEMMA PublishQoS0Holds ==
    ASSUME TypeOK, NEW r \in Requests, Kind[r] = "qos0", MayBegin(r), PublishQoS0(r)
    PROVE  BeginsOnly(r)
<1> DEFINE p == [cmd |-> "publish", id |-> 0, req |-> r]
           w == [req |-> r, deliver |-> FALSE]
<1>1. /\ r # Nobody /\ r \in Owners /\ p \in Packet /\ w \in Parked
      /\ queue \in Seq(Packet) /\ parked \in Seq(Parked)
      /\ KindOf(r) = "qos0" /\ called \in [Requests -> Nat]
  BY Parameters DEF TypeOK, Owners, Packet, Parked, KindOf
<1>2. UNCHANGED outgoing
  BY DEF PublishQoS0
<1>3. \A q \in Requests : Kind[q] # "qos0" =>
         (Begun(q)' <=> Begun(q)) /\ (BegunOnce(q)' <=> BegunOnce(q))
  BY <1>2 DEF Begun, BegunOnce, InOutgoing, OnceInOutgoing
<1>4. ~In(queue, r) /\ ~In(parked, r)
  BY DEF MayBegin, Begun
<1>5. CASE UNCHANGED <<queue, parked>> /\ \E good \in BOOLEAN : CallBack(r, good)
  <2>1. \A q \in Requests : called'[q] = IF q = r THEN called[q] + 1 ELSE called[q]
    BY <1>1, <1>5, CallBackCounts
  <2>2. \A q \in Requests : (Begun(q)' <=> Begun(q)) /\ (BegunOnce(q)' <=> BegunOnce(q))
    BY <1>3, <1>5 DEF Begun, BegunOnce, In, Once
  <2>3. RightKinds'
    BY <1>2, <1>5 DEF RightKinds, MayBegin
  <2> QED BY <2>1, <2>2, <2>3 DEF BeginsOnly, MayBegin
<1>6. CASE queue' = Append(queue, p) /\ UNCHANGED <<parked, cbVars>>
  <2>1. \A q \in Requests : /\ In(queue, q)' => In(queue, q) \/ q = r
                            /\ Once(queue, q) => Once(queue, q)'
    <3> SUFFICES ASSUME NEW q \in Requests
                 PROVE  /\ In(Append(queue, p), q) => In(queue, q) \/ q = r
                        /\ Once(queue, q) => Once(Append(queue, p), q)
      BY <1>6 DEF In, Once
    <3> HIDE DEF p
    <3>1. p.req = r
      BY DEF p
    <3> QED BY <1>1, <1>4, <3>1, AppendHeld
  <2>2. \A q \in Requests : (In(parked, q)' <=> In(parked, q)) /\ (Once(parked, q)' <=> Once(parked, q))
    BY <1>6 DEF In, Once
  <2>3. RightKinds'
    <3> HIDE DEF p
    <3>1. \A i \in DOMAIN queue' : queue'[i] = p \/ \E j \in DOMAIN queue : queue'[i] = queue[j]
      BY <1>1, <1>6, AppendHeld
    <3>2. p.cmd = "publish" /\ p.req = r
      BY DEF p
    <3> QED BY <1>1, <1>2, <1>6, <3>1, <3>2 DEF RightKinds, MayBegin
  <2>4. called' = called
    BY <1>6 DEF cbVars
  <2>5. \A q \in Requests : Kind[q] = "qos0" =>
           /\ BegunOnce(q)'
           /\ q # r => (Begun(q)' => Begun(q))
    BY <1>4, <2>1, <2>2 DEF Begun, BegunOnce, MayBegin
  <2> QED BY <1>3, <2>3, <2>4, <2>5 DEF BeginsOnly, MayBegin
<1>7. CASE parked' = Append(parked, w) /\ UNCHANGED <<queue, cbVars>>
  <2>1. \A q \in Requests : /\ In(parked, q)' => In(parked, q) \/ q = r
                            /\ Once(parked, q) => Once(parked, q)'
    <3> SUFFICES ASSUME NEW q \in Requests
                 PROVE  /\ In(Append(parked, w), q) => In(parked, q) \/ q = r
                        /\ Once(parked, q) => Once(Append(parked, w), q)
      BY <1>7 DEF In, Once
    <3> HIDE DEF w
    <3>1. w.req = r
      BY DEF w
    <3> QED BY <1>1, <1>4, <3>1, AppendHeld
  <2>2. \A q \in Requests : (In(queue, q)' <=> In(queue, q)) /\ (Once(queue, q)' <=> Once(queue, q))
    BY <1>7 DEF In, Once
  <2>3. RightKinds'
    <3> HIDE DEF w
    <3>1. \A i \in DOMAIN parked' : parked'[i] = w \/ \E j \in DOMAIN parked : parked'[i] = parked[j]
      BY <1>1, <1>7, AppendHeld
    <3>2. w.req = r
      BY DEF w
    <3> QED BY <1>1, <1>2, <1>7, <3>1, <3>2 DEF RightKinds, MayBegin
  <2>4. called' = called
    BY <1>7 DEF cbVars
  <2>5. \A q \in Requests : Kind[q] = "qos0" =>
           /\ BegunOnce(q)'
           /\ q # r => (Begun(q)' => Begun(q))
    BY <1>4, <2>1, <2>2 DEF Begun, BegunOnce, MayBegin
  <2> QED BY <1>3, <2>3, <2>4, <2>5 DEF BeginsOnly, MayBegin
<1> QED BY <1>5, <1>6, <1>7 DEF PublishQoS0

\* Queues for other calls and packets that carry no QoS 0 publish.
LEMMA QueueHolds ==
    ASSUME TypeOK, RightKinds, NEW p \in Packet, p.cmd # "publish", KindOf(p.req) # "qos0",
           queue' = queue \/ queue' = Append(queue, p)
    PROVE  /\ \A i \in DOMAIN queue' :
                queue'[i].cmd = "publish" <=> KindOf(queue'[i].req) = "qos0"
           /\ \A q \in Requests : Kind[q] = "qos0" =>
                /\ In(queue, q)' => In(queue, q)
                /\ Once(queue, q) => Once(queue, q)'
<1>1. queue \in Seq(Packet)
  BY DEF TypeOK
<1>2. CASE queue' = queue
  BY <1>2 DEF RightKinds, In, Once
<1>3. CASE queue' = Append(queue, p)
  <2>1. \A i \in DOMAIN queue' : queue'[i] = p \/ \E j \in DOMAIN queue : queue'[i] = queue[j]
    BY <1>1, <1>3, AppendHeld
  <2>2. ASSUME NEW q \in Requests, Kind[q] = "qos0"
        PROVE  (In(queue, q)' => In(queue, q)) /\ (Once(queue, q) => Once(queue, q)')
    <3>1. p.req # q
      BY <2>2, Parameters DEF KindOf
    <3>2. (In(Append(queue, p), q) => In(queue, q)) /\ (Once(queue, q) => Once(Append(queue, p), q))
      BY <1>1, <3>1, AppendHeld
    <3> QED BY <1>3, <3>2 DEF In, Once
  <2> QED BY <2>1, <2>2 DEF RightKinds
<1> QED BY <1>2, <1>3

LEMMA TableBegins ==
    ASSUME TypeOK, NEW r \in Owners, KindOf(r) # "qos0", MayBegin(r),
           NEW id \in Ids, NEW v, v.req = r, outgoing' = With(outgoing, id, v),
           NEW p \in Packet, p.cmd # "publish", p.req = r,
           queue' = queue \/ queue' = Append(queue, p),
           UNCHANGED <<parked, called>>
    PROVE  BeginsOnly(r)
<1>1. \A q \in Requests : Kind[q] = "qos0" => q # r
  BY Parameters DEF KindOf
<1>2. /\ \A i \in DOMAIN queue' :
           queue'[i].cmd = "publish" <=> KindOf(queue'[i].req) = "qos0"
      /\ \A q \in Requests : Kind[q] = "qos0" =>
           /\ In(queue, q)' => In(queue, q)
           /\ Once(queue, q) => Once(queue, q)'
  BY QueueHolds DEF MayBegin
<1>3. \A q \in Requests : Kind[q] # "qos0" =>
         /\ InOutgoing(q)' => InOutgoing(q) \/ q = r
         /\ (q = r => ~InOutgoing(q))
         /\ OnceInOutgoing(q) => OnceInOutgoing(q)'
  BY TableHeld DEF MayBegin, Begun
<1>4. RightKinds'
  BY <1>2 DEF RightKinds, MayBegin, With
<1>5. \A q \in Requests : (In(parked, q)' <=> In(parked, q)) /\ (Once(parked, q)' <=> Once(parked, q))
  BY DEF In, Once
<1>6. ASSUME NEW q \in Requests
      PROVE  BegunOnce(q)' /\ (q # r => (Begun(q)' => Begun(q)))
  BY <1>1, <1>2, <1>3, <1>5 DEF Begun, BegunOnce, MayBegin
<1> QED BY <1>4, <1>6 DEF BeginsOnly, MayBegin

LEMMA BeginHolds ==
    ASSUME TypeOK, NEW w \in Waiting, MayBegin(w.req), Begin(w)
    PROVE  BeginsOnly(w.req)
<1> DEFINE r == w.req
<1>1. r \in Owners
  BY DEF Waiting
<1>2. CASE KindOf(r) = "qos0" /\ PublishQoS0(r)
  <2>1. r \in Requests /\ Kind[r] = "qos0"
    BY <1>1, <1>2 DEF KindOf, Owners
  <2> QED BY <1>2, <2>1, PublishQoS0Holds
<1>3. CASE KindOf(r) \in {"qos1", "qos2"} /\ PublishStored(r)
  <2>1. PICK id \in Ids :
          /\ outgoing' = With(outgoing, id, [req |-> r, volatile |-> FALSE, replay |-> FALSE])
          /\ UNCHANGED <<queue, parked, cbVars>>
    BY <1>3 DEF PublishStored
  <2>2. [cmd |-> "pubrel", id |-> id, req |-> r] \in Packet
    BY <1>1, Parameters DEF Packet, Ids
  <2> QED BY <1>1, <1>3, <2>1, <2>2, TableBegins DEF cbVars
<1>4. ASSUME NEW cmd \in {"subscribe", "unsubscribe"}, NEW id \in Ids, SendVolatile(cmd, id, r),
             KindOf(r) # "qos0"
      PROVE  BeginsOnly(r)
  <2> DEFINE p == [cmd |-> cmd, id |-> id, req |-> r]
  <2>1. p \in Packet /\ p.cmd # "publish" /\ p.req = r
    BY <1>1, Parameters DEF Packet, Ids
  <2>2. /\ outgoing' = With(outgoing, id, [req |-> r, volatile |-> TRUE, replay |-> FALSE])
        /\ queue' = queue \/ queue' = Append(queue, p)
        /\ UNCHANGED <<parked, cbVars>>
    BY <1>4 DEF SendVolatile
  <2> HIDE DEF p
  <2> QED BY <1>1, <1>4, <2>1, <2>2, TableBegins DEF cbVars
<1>5. CASE KindOf(r) \in {"internal", "sub"} /\ SubscribeProc(w)
  BY <1>4, <1>5 DEF SubscribeProc
<1>6. CASE KindOf(r) = "unsub" /\ UnsubscribeProc(w)
  BY <1>4, <1>6 DEF UnsubscribeProc
<1> QED BY <1>2, <1>3, <1>5, <1>6 DEF Begin

\* A call of the user, or one of the client's own subscriptions, that nobody
\* holds yet: afterwards it is held once, waiting or begun.
LEMMA BeginOrWaitHolds ==
    ASSUME TypeOK, OneHolder, NEW w \in Waiting, BeginOrWait(w),
           issued' = issued \/ \E r \in Requests : issued' = Append(issued, r),
           w.req \in Requests =>
             /\ called[w.req] = 0 /\ ~In(spq, w.req) /\ ~Begun(w.req)
             /\ WasIssued(w.req)'
    PROVE  OneHolder'
<1> DEFINE r == w.req
<1>1. r \in Owners /\ spq \in Seq(Waiting)
  BY DEF TypeOK, Waiting
<1>2. \A q \in Requests : WasIssued(q) => WasIssued(q)'
  <2>1. CASE issued' = issued
    BY <2>1 DEF WasIssued
  <2>2. ASSUME NEW x \in Requests, issued' = Append(issued, x)
        PROVE  \A q \in Requests : WasIssued(q) => WasIssued(q)'
    <3>1. issued \in Seq(Requests)
      BY DEF TypeOK
    <3>2. /\ DOMAIN issued = 1..Len(issued) /\ DOMAIN issued' = 1..(Len(issued) + 1)
          /\ Len(issued) \in Nat /\ \A i \in 1..Len(issued) : issued'[i] = issued[i]
      BY <2>2, <3>1, AppendProperties
    <3> QED BY <3>2 DEF WasIssued
  <2> QED BY <2>1, <2>2
<1>3. CASE MustWait(r)
  <2>1. spq' = Append(spq, w) /\ UNCHANGED <<outgoing, queue, parked, called>>
    BY <1>3 DEF BeginOrWait, cbVars
  <2>2. \A q \in Requests : (Begun(q)' <=> Begun(q)) /\ (BegunOnce(q)' <=> BegunOnce(q))
    BY <2>1 DEF Begun, BegunOnce, In, Once, InOutgoing, OnceInOutgoing
  <2>3. RightKinds'
    BY <2>1 DEF OneHolder, RightKinds
  <2>4. ASSUME NEW q \in Requests PROVE HeldOnce(q)'
    <3>1. /\ In(Append(spq, w), q) => In(spq, q) \/ w.req = q
          /\ Once(spq, q) /\ (w.req = q => ~In(spq, q)) => Once(Append(spq, w), q)
      BY <1>1, AppendHeld
    <3>2. /\ In(spq, q)' => In(spq, q) \/ w.req = q
          /\ Once(spq, q) /\ (w.req = q => ~In(spq, q)) => Once(spq, q)'
      BY <2>1, <3>1 DEF In, Once
    <3>3. HeldOnce(q)
      BY DEF OneHolder
    <3> QED BY <1>2, <2>1, <2>2, <3>2, <3>3 DEF HeldOnce
  <2> QED BY <2>3, <2>4 DEF OneHolder
<1>4. CASE ~MustWait(r)
  <2>1. Begin(w) /\ UNCHANGED spq
    BY <1>4 DEF BeginOrWait
  <2>2. MayBegin(r)
    BY DEF MayBegin, OneHolder, HeldOnce
  <2>3. BeginsOnly(r)
    BY <2>1, <2>2, BeginHolds
  <2>4. ASSUME NEW q \in Requests PROVE HeldOnce(q)'
    <3>1. (In(spq, q)' <=> In(spq, q)) /\ (Once(spq, q)' <=> Once(spq, q))
      BY <2>1 DEF In, Once
    <3>2. HeldOnce(q)
      BY DEF OneHolder
    <3> QED BY <1>2, <2>3, <3>1, <3>2 DEF HeldOnce, BeginsOnly
  <2> QED BY <2>3, <2>4 DEF OneHolder, BeginsOnly
<1> QED BY <1>3, <1>4

-----------------------------------------------------------------------------
(***************************************************************************)
(* The other steps hand no call over: a holder stays, or lets go of a call *)
(* without running its callback, or runs it and lets go.                   *)
(***************************************************************************)
LetsGo(q) ==
    /\ In(spq, q)' => In(spq, q)
    /\ Once(spq, q)'
    /\ Begun(q)' => Begun(q)
    /\ BegunOnce(q)'
    /\ \/ called'[q] = called[q]
       \/ /\ called'[q] = called[q] + 1
          /\ In(spq, q) \/ Begun(q)
          /\ ~In(spq, q)' /\ ~Begun(q)'

LEMMA LetsGoHolds ==
    ASSUME OneHolder, RightKinds', UNCHANGED issued, \A q \in Requests : LetsGo(q)
    PROVE  OneHolder'
<1> SUFFICES ASSUME NEW q \in Requests PROVE HeldOnce(q)'
  BY DEF OneHolder
<1>1. HeldOnce(q) /\ LetsGo(q)
  BY DEF OneHolder
<1>2. WasIssued(q)' <=> WasIssued(q)
  BY DEF WasIssued
<1> QED BY <1>1, <1>2 DEF HeldOnce, LetsGo

LEMMA UnchangedHolds ==
    ASSUME OneHolder, UNCHANGED <<spq, queue, parked, outgoing, called, issued>>
    PROVE  OneHolder'
BY DEF OneHolder, RightKinds, HeldOnce, Begun, BegunOnce, In, Once, InOutgoing,
       OnceInOutgoing, WasIssued

\* An entry leaves the in-flight table and its callback runs.
LEMMA EntryReleased ==
    ASSUME TypeOK, OneHolder, NEW id \in DOMAIN outgoing, NEW good,
           outgoing' = Without(outgoing, id), CallBack(outgoing[id].req, good),
           UNCHANGED <<spq, queue, parked, issued>>
    PROVE  OneHolder'
<1> DEFINE r == outgoing[id].req
<1>1. r \in Owners /\ KindOf(r) # "qos0"
  BY InFlightType DEF OneHolder, RightKinds
<1>2. \A q \in Requests : called'[q] = IF q = r THEN called[q] + 1 ELSE called[q]
  BY <1>1, CallBackCounts
<1>3. RightKinds'
  BY DEF OneHolder, RightKinds, Without
<1>4. \A q \in Requests : (In(spq, q)' <=> In(spq, q)) /\ (Once(spq, q)' <=> Once(spq, q))
  BY DEF In, Once
<1>5. \A q \in Requests : Kind[q] = "qos0" =>
        /\ q # r
        /\ (Begun(q)' <=> Begun(q)) /\ (BegunOnce(q)' <=> BegunOnce(q))
  BY <1>1, Parameters DEF Begun, BegunOnce, In, Once, KindOf
<1>6. \A q \in Requests : Kind[q] # "qos0" =>
        /\ Begun(q)' => Begun(q)
        /\ OnceInOutgoing(q) => BegunOnce(q)'
        /\ q = r => Begun(q) /\ (OnceInOutgoing(q) => ~Begun(q)')
  BY DEF Begun, BegunOnce, InOutgoing, OnceInOutgoing, Without
<1>7. ASSUME NEW q \in Requests PROVE LetsGo(q)
  <2>1. HeldOnce(q)
    BY DEF OneHolder
  <2>2. CASE Kind[q] = "qos0"
    BY <1>2, <1>4, <1>5, <2>1, <2>2 DEF LetsGo, HeldOnce
  <2>3. CASE Kind[q] # "qos0"
    <3>1. OnceInOutgoing(q)
      BY <2>1, <2>3 DEF HeldOnce, BegunOnce
    <3> QED BY <1>2, <1>4, <1>6, <2>1, <2>3, <3>1 DEF LetsGo, HeldOnce
  <2> QED BY <2>2, <2>3
<1> QED BY <1>3, <1>7, LetsGoHolds

\* The entries of the in-flight table keep their owners.
LEMMA OwnersKept ==
    ASSUME OneHolder,
           \A id \in DOMAIN outgoing' :
             \/ id \in DOMAIN outgoing /\ outgoing'[id].req = outgoing[id].req
             \/ outgoing'[id].req = Nobody,
           UNCHANGED <<spq, queue, called, issued>>,
           parked' = parked \/ parked' = <<>>
    PROVE  OneHolder'
<1>1. RightKinds'
  BY DEF OneHolder, RightKinds, KindOf
<1>2. ASSUME NEW q \in Requests PROVE LetsGo(q)
  <2>1. q # Nobody /\ HeldOnce(q)
    BY Parameters DEF OneHolder
  <2>2. /\ In(spq, q)' <=> In(spq, q) /\ (Once(spq, q)' <=> Once(spq, q))
        /\ In(queue, q)' <=> In(queue, q) /\ (Once(queue, q)' <=> Once(queue, q))
    BY DEF In, Once
  <2>3. In(parked, q)' => In(parked, q) /\ (Once(parked, q) => Once(parked, q)')
    BY DEF In, Once
  <2>4. InOutgoing(q)' => InOutgoing(q)
    BY <2>1 DEF InOutgoing
  <2>5. OnceInOutgoing(q) => OnceInOutgoing(q)'
    BY <2>1 DEF OnceInOutgoing
  <2> QED
    BY <2>1, <2>2, <2>3, <2>4, <2>5 DEF LetsGo, HeldOnce, Begun, BegunOnce, In, Once
<1> QED BY <1>1, <1>2, LetsGoHolds

LEMMA CallHolds ==
    ASSUME TypeOK, OneHolder, NEW r \in Requests, Call(r)
    PROVE  OneHolder'
<1> DEFINE new == IF Kind[r] = "sub" THEN Topics[r] \ resub ELSE Topics[r]
           w   == [req |-> r, topics |-> new]
<1>1. ~WasIssued(r) /\ issued' = Append(issued, r) /\ issued \in Seq(Requests)
  BY DEF Call, WasIssued, TypeOK
<1>2. /\ DOMAIN issued = 1..Len(issued) /\ DOMAIN issued' = 1..(Len(issued) + 1)
      /\ Len(issued) \in Nat /\ \A i \in 1..Len(issued) : issued'[i] = issued[i]
      /\ issued'[Len(issued) + 1] = r
  BY <1>1, AppendProperties
<1>3. WasIssued(r)' /\ \A q \in Requests : WasIssued(q) => WasIssued(q)'
  BY <1>2 DEF WasIssued
<1>4. called[r] = 0 /\ ~In(spq, r) /\ ~Begun(r)
  BY <1>1 DEF OneHolder, HeldOnce
<1>5. CASE Kind[r] = "sub" /\ new = {}
  <2>1. CallBack(r, TRUE) /\ UNCHANGED <<outgoing, queue, parked, spq>>
    BY <1>5 DEF Call
  <2>2. \A q \in Requests : called'[q] = IF q = r THEN called[q] + 1 ELSE called[q]
    BY <2>1, CallBackCounts DEF Owners
  <2>3. \A q \in Requests :
          /\ (Begun(q)' <=> Begun(q)) /\ (BegunOnce(q)' <=> BegunOnce(q))
          /\ (In(spq, q)' <=> In(spq, q)) /\ (Once(spq, q)' <=> Once(spq, q))
    BY <2>1 DEF Begun, BegunOnce, In, Once, InOutgoing, OnceInOutgoing
  <2>4. RightKinds'
    BY <2>1 DEF OneHolder, RightKinds
  <2>5. ASSUME NEW q \in Requests PROVE HeldOnce(q)'
    <3>1. HeldOnce(q)
      BY DEF OneHolder
    <3> QED BY <1>3, <1>4, <2>2, <2>3, <3>1 DEF HeldOnce
  <2> QED BY <2>4, <2>5 DEF OneHolder
<1>6. CASE ~(Kind[r] = "sub" /\ new = {})
  <2>1. BeginOrWait(w)
    BY <1>6 DEF Call
  <2>2. w \in Waiting /\ w.req = r
    BY Parameters DEF Waiting, Owners
  <2>3. PICK x \in Waiting : x = w
    BY <2>2
  <2> HIDE DEF w
  <2> QED BY <1>1, <1>3, <1>4, <2>1, <2>2, <2>3, BeginOrWaitHolds
<1> QED BY <1>5, <1>6

LEMMA AckHolds ==
    ASSUME TypeOK, OneHolder, Ack
    PROVE  OneHolder'
<1>1. ASSUME NEW id \in DOMAIN outgoing, NEW good, RemoveOutgoingAndStoreMessage(id, good)
      PROVE  OneHolder'
  BY <1>1, EntryReleased DEF RemoveOutgoingAndStoreMessage
<1>2. ASSUME NEW id \in DOMAIN outgoing, NEW good, FinishVolatile(id, good)
      PROVE  OneHolder'
  BY <1>2, EntryReleased DEF FinishVolatile
<1>3. ASSUME NEW id \in Ids, NEW good \in BOOLEAN, HandlePubrec(id, good)
      PROVE  OneHolder'
  <2> DEFINE p == [cmd |-> "pubrel", id |-> id, req |-> outgoing[id].req]
  <2>1. id \in DOMAIN outgoing
    BY <1>3 DEF HandlePubrec, Acknowledged
  <2>2. CASE good
    <3>1. /\ queue' = queue \/ queue' = Append(queue, p)
          /\ UNCHANGED <<outgoing, spq, parked, issued, called>>
      BY <1>3, <2>2 DEF HandlePubrec, cbVars
    <3>2. p \in Packet /\ p.cmd # "publish" /\ KindOf(p.req) # "qos0"
      BY <2>1, InFlightType, Parameters DEF Packet, Ids, OneHolder, RightKinds
    <3> HIDE DEF p
    <3>3. /\ \A i \in DOMAIN queue' :
               queue'[i].cmd = "publish" <=> KindOf(queue'[i].req) = "qos0"
          /\ \A q \in Requests : Kind[q] = "qos0" =>
               /\ In(queue, q)' => In(queue, q)
               /\ Once(queue, q) => Once(queue, q)'
      BY <3>1, <3>2, QueueHolds DEF OneHolder
    <3>4. RightKinds'
      BY <3>1, <3>3 DEF OneHolder, RightKinds
    <3>5. ASSUME NEW q \in Requests PROVE LetsGo(q)
      <4>1. HeldOnce(q)
        BY DEF OneHolder
      <4>2. /\ (In(spq, q)' <=> In(spq, q)) /\ (Once(spq, q)' <=> Once(spq, q))
            /\ (In(parked, q)' <=> In(parked, q)) /\ (Once(parked, q)' <=> Once(parked, q))
            /\ (InOutgoing(q)' <=> InOutgoing(q)) /\ (OnceInOutgoing(q)' <=> OnceInOutgoing(q))
        BY <3>1 DEF In, Once, InOutgoing, OnceInOutgoing
      <4> QED BY <3>1, <3>3, <4>1, <4>2 DEF LetsGo, HeldOnce, Begun, BegunOnce
    <3> QED BY <3>1, <3>4, <3>5, LetsGoHolds
  <2>3. CASE ~good
    BY <1>1, <1>3, <2>1, <2>3 DEF HandlePubrec
  <2> QED BY <2>2, <2>3
<1> QED
  BY <1>1, <1>2, <1>3
  DEF Ack, HandlePuback, HandleSuback, HandleUnsuback, Acknowledged

LEMMA StoreDeliverHolds ==
    ASSUME OneHolder, StoreDeliver
    PROVE  OneHolder'
<1>1. UNCHANGED <<spq, queue, parked, called, issued>>
  BY DEF StoreDeliver, cbVars
<1>2. outgoing' = outgoing \/ Replay(Head(rest))
  BY DEF StoreDeliver
<1>3. CASE outgoing' = outgoing
  BY <1>1, <1>3, UnchangedHolds
<1>4. CASE Replay(Head(rest))
  <2>1. \A id \in DOMAIN outgoing' :
             \/ id \in DOMAIN outgoing /\ outgoing'[id].req = outgoing[id].req
             \/ outgoing'[id].req = Nobody
    BY <1>4 DEF Replay, With
  <2> QED BY <1>1, <2>1, OwnersKept
<1> QED BY <1>2, <1>3, <1>4

\* The head of the waiting calls begins: it was held there and nowhere else.
LEMMA InvokeHolds ==
    ASSUME TypeOK, OneHolder, InvokeStoreProcessingQueue
    PROVE  OneHolder'
<1>1. CASE storeProcessing \/ spq = <<>> \/ CannotBegin(Head(spq).req)
  BY <1>1, UnchangedHolds DEF InvokeStoreProcessingQueue, cbVars
<1>2. CASE ~(storeProcessing \/ spq = <<>> \/ CannotBegin(Head(spq).req))
  <2>1. spq # <<>> /\ Begin(Head(spq)) /\ spq' = Tail(spq) /\ UNCHANGED issued
    BY <1>2 DEF InvokeStoreProcessingQueue
  <2>2. spq \in Seq(Waiting) /\ Head(spq) \in Waiting
    BY <2>1, HeadTailProperties DEF TypeOK
  <2>3. PICK w \in Waiting : w = Head(spq)
    BY <2>2
  <2>4. PICK r \in Owners : r = w.req
    BY DEF Waiting
  <2>5. In(spq, r) /\ Begin(w)
    BY <2>1, <2>2, <2>3, <2>4, TailHeld
  <2>6. MayBegin(r)
    BY <2>5 DEF MayBegin, OneHolder, HeldOnce
  <2>7. BeginsOnly(r)
    BY <2>4, <2>5, <2>6, BeginHolds
  <2>8. ASSUME NEW q \in Requests PROVE HeldOnce(q)'
    <3>1. /\ In(spq, q)' => In(spq, q)
          /\ Once(spq, q) => Once(spq, q)'
          /\ Once(spq, q) /\ r = q => ~In(spq, q)'
      <4>1. /\ In(Tail(spq), q) => In(spq, q)
            /\ Once(spq, q) => Once(Tail(spq), q)
            /\ Once(spq, q) /\ Head(spq).req = q => ~In(Tail(spq), q)
        BY <2>1, <2>2, TailHeld
      <4> QED BY <2>1, <2>3, <2>4, <4>1 DEF In, Once
    <3>2. HeldOnce(q) /\ (WasIssued(q)' <=> WasIssued(q))
      BY <2>1 DEF OneHolder, WasIssued
    <3>3. CASE q = r
      BY <2>5, <2>7, <3>1, <3>2, <3>3 DEF HeldOnce, BeginsOnly
    <3>4. CASE q # r
      BY <2>7, <3>1, <3>2, <3>4 DEF HeldOnce, BeginsOnly
    <3> QED BY <3>3, <3>4
  <2> QED BY <2>7, <2>8 DEF OneHolder, BeginsOnly
<1> QED BY <1>1, <1>2

LEMMA ResubscribeHolds ==
    ASSUME TypeOK, OneHolder, UNCHANGED issued, Resubscribe
    PROVE  OneHolder'
<1> DEFINE w == [req |-> Nobody, topics |-> resub]
<1>1. w \in Waiting /\ w.req \notin Requests
  BY Parameters DEF TypeOK, Waiting, Owners
<1>2. \A q \in Requests : WasIssued(q) => WasIssued(q)'
  BY DEF WasIssued
<1>3. BeginOrWait(w) \/ UNCHANGED <<outgoing, queue, parked, cbVars, spq>>
  BY DEF Resubscribe
<1> HIDE DEF w
<1>4. CASE BeginOrWait(w)
  <2>1. PICK x \in Waiting : x = w
    BY <1>1
  <2> QED BY <1>1, <1>2, <1>4, <2>1, BeginOrWaitHolds
<1>5. CASE UNCHANGED <<outgoing, queue, parked, cbVars, spq>>
  BY <1>5, UnchangedHolds DEF cbVars
<1> QED BY <1>3, <1>4, <1>5

\* A packet leaves the offline queue: it is dropped, or written and its
\* callback runs, or written and its callback waits for 'drain'.
LEMMA DeliverHolds ==
    ASSUME TypeOK, OneHolder, Deliver
    PROVE  OneHolder'
<1>1. CASE queue = <<>>
  BY <1>1, ResubscribeHolds DEF Deliver
<1>2. CASE queue # <<>>
  <2>1. /\ queue' = Tail(queue) /\ UNCHANGED <<outgoing, spq, issued>>
        /\ \/ Registered(Head(queue).id) /\ UNCHANGED <<parked, cbVars>>
           \/ SendQueued(Head(queue))
    BY <1>2 DEF Deliver
  <2>2. queue \in Seq(Packet) /\ Head(queue) \in Packet /\ parked \in Seq(Parked)
    BY <1>2, HeadTailProperties DEF TypeOK
  <2>3. PICK p \in Packet : p = Head(queue)
    BY <2>2
  <2>4. /\ p.cmd = "publish" <=> KindOf(p.req) = "qos0"
        /\ p.req \in Owners
    BY <1>2, <2>2, <2>3, TailHeld DEF OneHolder, RightKinds, Packet
  <2>5. PICK r \in Owners : r = IF p.cmd = "publish" THEN p.req ELSE Nobody
    BY <2>4 DEF Owners
  <2>6. PICK w \in Parked : w = [req |-> r, deliver |-> TRUE]
    BY DEF Parked
  <2>7. r \in Requests => Kind[r] = "qos0" /\ In(queue, r)
    <3>1. Head(queue).req = r => In(queue, r)
      BY <1>2, <2>2, TailHeld
    <3> QED BY <2>3, <2>4, <2>5, <3>1, Parameters DEF KindOf, Owners
  <2>8. \A q \in Requests :
          /\ In(queue, q)' => In(queue, q)
          /\ Once(queue, q) => Once(queue, q)'
          /\ Once(queue, q) /\ q = r => ~In(queue, q)'
    <3> SUFFICES ASSUME NEW q \in Requests
                 PROVE  /\ In(Tail(queue), q) => In(queue, q)
                        /\ Once(queue, q) => Once(Tail(queue), q)
                        /\ Once(queue, q) /\ q = r => ~In(Tail(queue), q)
      BY <2>1 DEF In, Once
    <3>1. q = r => Head(queue).req = q
      BY <2>3, <2>5, Parameters
    <3> QED BY <1>2, <2>2, <3>1, TailHeld
  <2>9. \A i \in DOMAIN queue' :
          queue'[i].cmd = "publish" <=> KindOf(queue'[i].req) = "qos0"
    BY <1>2, <2>1, <2>2, TailHeld DEF OneHolder, RightKinds
  <2>10. \A q \in Requests :
           /\ (In(spq, q)' <=> In(spq, q)) /\ (Once(spq, q)' <=> Once(spq, q))
           /\ (InOutgoing(q)' <=> InOutgoing(q)) /\ (OnceInOutgoing(q)' <=> OnceInOutgoing(q))
           /\ WasIssued(q)' <=> WasIssued(q)
    BY <2>1 DEF In, Once, InOutgoing, OnceInOutgoing, WasIssued
  <2>11. CASE UNCHANGED <<parked, called>>
    <3>1. RightKinds'
      BY <2>1, <2>9, <2>11 DEF OneHolder, RightKinds
    <3>2. ASSUME NEW q \in Requests PROVE LetsGo(q)
      <4>1. HeldOnce(q) /\ (In(parked, q)' <=> In(parked, q)) /\ (Once(parked, q)' <=> Once(parked, q))
        BY <2>11 DEF OneHolder, In, Once
      <4> QED BY <2>8, <2>10, <2>11, <4>1 DEF LetsGo, HeldOnce, Begun, BegunOnce
    <3> QED BY <2>1, <3>1, <3>2, LetsGoHolds
  <2>12. CASE CallBack(r, TRUE) /\ UNCHANGED parked
    <3>1. RightKinds'
      BY <2>1, <2>9, <2>12 DEF OneHolder, RightKinds
    <3>2. \A q \in Requests : called'[q] = IF q = r THEN called[q] + 1 ELSE called[q]
      BY <2>12, CallBackCounts
    <3>3. ASSUME NEW q \in Requests PROVE LetsGo(q)
      <4>1. HeldOnce(q) /\ (In(parked, q)' <=> In(parked, q)) /\ (Once(parked, q)' <=> Once(parked, q))
        BY <2>12 DEF OneHolder, In, Once
      <4> QED BY <2>7, <2>8, <2>10, <3>2, <4>1 DEF LetsGo, HeldOnce, Begun, BegunOnce
    <3> QED BY <2>1, <3>1, <3>3, LetsGoHolds
  <2>13. CASE parked' = Append(parked, w) /\ UNCHANGED cbVars
    <3>1. \A i \in DOMAIN parked' : parked'[i] = w \/ \E j \in DOMAIN parked : parked'[i] = parked[j]
      BY <2>2, <2>13, AppendHeld
    <3>2. w.req = r /\ KindOf(r) \in {"internal", "qos0"}
      BY <2>4, <2>5, <2>6 DEF KindOf
    <3>3. RightKinds'
      BY <2>1, <2>9, <3>1, <3>2 DEF OneHolder, RightKinds
    <3>4. ASSUME NEW q \in Requests PROVE LetsGo(q)
      <4>1. HeldOnce(q) /\ called' = called
        BY <2>13 DEF OneHolder, cbVars
      <4>2. /\ In(parked, q)' => In(parked, q) \/ r = q
            /\ Once(parked, q) /\ (r = q => ~In(parked, q)) => Once(parked, q)'
        <5>1. /\ In(Append(parked, w), q) => In(parked, q) \/ w.req = q
              /\ Once(parked, q) /\ (w.req = q => ~In(parked, q)) => Once(Append(parked, w), q)
          BY <2>2, AppendHeld
        <5> QED BY <2>13, <3>2, <5>1 DEF In, Once
      <4> QED BY <2>7, <2>8, <2>10, <4>1, <4>2 DEF LetsGo, HeldOnce, Begun, BegunOnce
    <3> QED BY <2>1, <3>3, <3>4, LetsGoHolds
  <2> QED BY <2>1, <2>3, <2>5, <2>6, <2>11, <2>12, <2>13 DEF SendQueued, cbVars
<1> QED BY <1>1, <1>2

\* The first 'drain' listener runs its callback.
LEMMA DrainHolds ==
    ASSUME TypeOK, OneHolder, Drain
    PROVE  OneHolder'
<1>1. /\ parked # <<>> /\ parked' = Tail(parked) /\ CallBack(Head(parked).req, TRUE)
      /\ UNCHANGED <<outgoing, queue, spq, issued>>
  BY DEF Drain
<1>2. parked \in Seq(Parked) /\ Head(parked) \in Parked
  BY <1>1, HeadTailProperties DEF TypeOK
<1>3. PICK r \in Owners : r = Head(parked).req
  BY <1>2 DEF Parked
<1>4. In(parked, r) /\ KindOf(r) \in {"internal", "qos0"}
  BY <1>1, <1>2, <1>3, TailHeld DEF OneHolder, RightKinds
<1>5. \A q \in Requests :
        /\ In(parked, q)' => In(parked, q)
        /\ Once(parked, q) => Once(parked, q)'
        /\ Once(parked, q) /\ q = r => ~In(parked, q)'
  <2> SUFFICES ASSUME NEW q \in Requests
               PROVE  /\ In(Tail(parked), q) => In(parked, q)
                      /\ Once(parked, q) => Once(Tail(parked), q)
                      /\ Once(parked, q) /\ q = r => ~In(Tail(parked), q)
    BY <1>1 DEF In, Once
  <2> QED BY <1>1, <1>2, <1>3, TailHeld
<1>6. RightKinds'
  BY <1>1, <1>2, TailHeld DEF OneHolder, RightKinds
<1>7. \A q \in Requests : called'[q] = IF q = r THEN called[q] + 1 ELSE called[q]
  BY <1>1, <1>3, CallBackCounts
<1>8. ASSUME NEW q \in Requests PROVE LetsGo(q)
  <2>1. /\ (In(spq, q)' <=> In(spq, q)) /\ (Once(spq, q)' <=> Once(spq, q))
        /\ (In(queue, q)' <=> In(queue, q)) /\ (Once(queue, q)' <=> Once(queue, q))
        /\ (InOutgoing(q)' <=> InOutgoing(q)) /\ (OnceInOutgoing(q)' <=> OnceInOutgoing(q))
    BY <1>1 DEF In, Once, InOutgoing, OnceInOutgoing
  <2>2. HeldOnce(q)
    BY DEF OneHolder
  <2>3. q = r => Kind[q] = "qos0"
    <3>1. q # Nobody /\ Kind[q] # "internal"
      BY Parameters DEF Kinds
    <3> QED BY <1>4, <3>1 DEF KindOf
  <2>4. CASE q = r
    <3>1. In(parked, q) /\ ~In(queue, q) /\ Once(parked, q) /\ Once(queue, q) /\ Once(spq, q)
      BY <1>4, <2>2, <2>3, <2>4 DEF HeldOnce, BegunOnce
    <3> QED BY <1>5, <1>7, <2>1, <2>2, <2>3, <2>4, <3>1 DEF LetsGo, HeldOnce, Begun, BegunOnce
  <2>5. CASE q # r
    BY <1>5, <1>7, <2>1, <2>2, <2>5 DEF LetsGo, HeldOnce, Begun, BegunOnce
  <2> QED BY <2>4, <2>5
<1> QED BY <1>1, <1>6, <1>8, LetsGoHolds

LEMMA CloseHolds ==
    ASSUME TypeOK, OneHolder, Close
    PROVE  OneHolder'
<1>1. \A id \in DOMAIN outgoing' :
        id \in DOMAIN outgoing /\ outgoing'[id].req = outgoing[id].req
  BY DEF Close, TypeOK, InFlight
<1> QED BY <1>1, OwnersKept DEF Close, cbVars

LEMMA FlushHolds ==
    ASSUME TypeOK, OneHolder, FlushVolatile \/ FlushStoreProcessingQueue
    PROVE  OneHolder'
<1>1. CASE FlushVolatile
  <2>1. ASSUME NEW id \in DOMAIN outgoing, outgoing' = Without(outgoing, id),
               CallBack(outgoing[id].req, FALSE)
        PROVE  OneHolder'
    BY <1>1, <2>1, EntryReleased DEF FlushVolatile
  <2>2. CASE UNCHANGED <<outgoing, cbVars>>
    BY <1>1, <2>2, UnchangedHolds DEF FlushVolatile, cbVars
  <2> QED BY <1>1, <2>1, <2>2 DEF FlushVolatile
<1>2. CASE FlushStoreProcessingQueue /\ spq = <<>>
  BY <1>2, UnchangedHolds DEF FlushStoreProcessingQueue, cbVars
<1>3. CASE FlushStoreProcessingQueue /\ spq # <<>>
  <2>1. /\ spq' = Tail(spq) /\ CallBack(Head(spq).req, FALSE)
        /\ UNCHANGED <<outgoing, queue, parked, issued>>
    BY <1>3 DEF FlushStoreProcessingQueue
  <2>2. spq \in Seq(Waiting) /\ Head(spq) \in Waiting
    BY <1>3, HeadTailProperties DEF TypeOK
  <2>3. PICK r \in Owners : r = Head(spq).req
    BY <2>2 DEF Waiting
  <2>4. In(spq, r)
    BY <1>3, <2>2, <2>3, TailHeld
  <2>5. \A q \in Requests :
          /\ In(spq, q)' => In(spq, q)
          /\ Once(spq, q) => Once(spq, q)'
          /\ Once(spq, q) /\ q = r => ~In(spq, q)'
    <3> SUFFICES ASSUME NEW q \in Requests
                 PROVE  /\ In(Tail(spq), q) => In(spq, q)
                        /\ Once(spq, q) => Once(Tail(spq), q)
                        /\ Once(spq, q) /\ q = r => ~In(Tail(spq), q)
      BY <2>1 DEF In, Once
    <3> QED BY <1>3, <2>2, <2>3, TailHeld
  <2>6. RightKinds'
    BY <2>1 DEF OneHolder, RightKinds
  <2>7. \A q \in Requests : called'[q] = IF q = r THEN called[q] + 1 ELSE called[q]
    BY <2>1, <2>3, CallBackCounts
  <2>8. ASSUME NEW q \in Requests PROVE LetsGo(q)
    <3>1. (Begun(q)' <=> Begun(q)) /\ (BegunOnce(q)' <=> BegunOnce(q))
      BY <2>1 DEF Begun, BegunOnce, In, Once, InOutgoing, OnceInOutgoing
    <3>2. HeldOnce(q)
      BY DEF OneHolder
    <3> QED BY <2>4, <2>5, <2>7, <3>1, <3>2 DEF LetsGo, HeldOnce
  <2> QED BY <2>1, <2>6, <2>8, LetsGoHolds
<1> QED BY <1>1, <1>2, <1>3

-----------------------------------------------------------------------------
(***************************************************************************)
(* Whatever is acknowledged, in whatever order connections break and are   *)
(* made, the callback of a call has one holder, and none once it has run:  *)
(* OneHolder is inductive relative to the types.                           *)
(***************************************************************************)
THEOREM OneHolderAlways == Spec => []OneHolder
<1>1. Init => OneHolder
  <2> SUFFICES ASSUME Init PROVE OneHolder
    OBVIOUS
  <2>1. /\ spq = <<>> /\ queue = <<>> /\ parked = <<>> /\ DOMAIN outgoing = {}
        /\ called = [r \in Requests |-> 0]
    BY DEF Init, Empty
  <2>2. DOMAIN <<>> = {}
    BY EmptySeq
  <2> QED
    BY <2>1, <2>2
    DEF OneHolder, RightKinds, HeldOnce, Begun, BegunOnce, In, Once, InOutgoing, OnceInOutgoing
<1>2. TypeOK /\ OneHolder /\ [Next]_vars => OneHolder'
  <2> SUFFICES ASSUME TypeOK, OneHolder, [Next]_vars PROVE OneHolder'
    OBVIOUS
  <2>1. ASSUME NEW r \in Requests, Call(r) PROVE OneHolder'
    BY <2>1, CallHolds
  <2>2. ASSUME NEW id \in Ids, RemoveOutgoingMessage(id) PROVE OneHolder'
    BY <2>2, EntryReleased DEF RemoveOutgoingMessage, RemoveOutgoingAndStoreMessage
  <2>3. CASE Ack
    BY <2>3, AckHolds
  <2>4. CASE StoreDeliver
    BY <2>4, StoreDeliverHolds
  <2>5. CASE StreamEnd
    BY <2>5, UnchangedHolds DEF StreamEnd, cbVars
  <2>6. CASE InvokeStoreProcessingQueue
    BY <2>6, InvokeHolds
  <2>7. CASE Deliver
    BY <2>7, DeliverHolds
  <2>8. ASSUME NEW present \in BOOLEAN, Connack(present) PROVE OneHolder'
    BY <2>8, UnchangedHolds DEF Connack, cbVars
  <2>9. CASE Drain
    BY <2>9, DrainHolds
  <2>10. CASE KeepaliveTimeout
    BY <2>10, UnchangedHolds DEF KeepaliveTimeout, cbVars
  <2>11. CASE Close
    BY <2>11, CloseHolds
  <2>12. CASE FlushVolatile \/ FlushStoreProcessingQueue
    BY <2>12, FlushHolds
  <2>13. CASE UNCHANGED vars
    BY <2>13, UnchangedHolds DEF vars, procVars, cbVars
  <2> QED
    BY <2>1, <2>2, <2>3, <2>4, <2>5, <2>6, <2>7, <2>8, <2>9, <2>10, <2>11, <2>12, <2>13
    DEF Next, User, Run, Network
<1> QED BY <1>1, <1>2, TypeCorrect, PTL DEF Spec

(***************************************************************************)
(* The callback a user passes to publish, subscribe or unsubscribe runs at *)
(* most once.                                                              *)
(***************************************************************************)
THEOREM CallbackOnce == Spec => []CallbackAtMostOnce
<1>1. OneHolder => CallbackAtMostOnce
  BY DEF OneHolder, HeldOnce, CallbackAtMostOnce
<1> QED BY <1>1, OneHolderAlways, PTL

-----------------------------------------------------------------------------
(***************************************************************************)
(* A call that needs an answer is held until its callback runs.  The steps *)
(* that take the holder away run the callback or hand the call from the    *)
(* waiting ones to the table; what could lose it is a new call with its    *)
(* identifier.                                                             *)
(***************************************************************************)
Answerable(r) == Kind[r] # "qos0"
Held(r) ==
    WasIssued(r) /\ called[r] = 0 /\ Answerable(r) => InOutgoing(r) \/ In(spq, r)
AllHeld == \A r \in Requests : Held(r)

\* The step of IdIsNotStolen.
IdsKept ==
    \A id \in DOMAIN outgoing \cap DOMAIN outgoing' : outgoing'[id].req = outgoing[id].req

\* What a queue loses and gains.
LEMMA TailKeeps ==
    ASSUME NEW S, NEW s \in Seq(S), s # <<>>, NEW r, In(s, r)
    PROVE  In(Tail(s), r) \/ Head(s).req = r
<1> DEFINE t == Tail(s)
<1>1. /\ Len(s) \in Nat \ {0} /\ DOMAIN s = 1..Len(s) /\ DOMAIN t = 1..(Len(s) - 1)
      /\ \A i \in 1..(Len(s) - 1) : t[i] = s[i + 1]
      /\ Head(s) = s[1]
  BY HeadTailProperties, EmptySeq
<1> HIDE DEF t
<1>2. PICK i \in DOMAIN s : s[i].req = r
  BY DEF In
<1>3. CASE i = 1
  BY <1>1, <1>2, <1>3
<1>4. CASE i # 1
  <2>1. i - 1 \in DOMAIN t /\ (i - 1) + 1 = i
    BY <1>1, <1>4
  <2>2. t[i - 1].req = r
    BY <1>1, <1>2, <2>1
  <2> QED BY <2>1, <2>2 DEF In, t
<1> QED BY <1>3, <1>4

LEMMA AppendKeeps ==
    ASSUME NEW S, NEW s \in Seq(S), NEW e \in S, NEW r, In(s, r) \/ e.req = r
    PROVE  In(Append(s, e), r)
<1> DEFINE t == Append(s, e)
<1>1. /\ Len(s) \in Nat /\ DOMAIN s = 1..Len(s) /\ DOMAIN t = 1..(Len(s) + 1)
      /\ \A i \in 1..Len(s) : t[i] = s[i]
      /\ t[Len(s) + 1] = e
  BY AppendProperties
<1> HIDE DEF t
<1>2. In(t, r)
  BY <1>1 DEF In
<1> QED BY <1>2 DEF t

\* A step that makes no call: whoever held a call still does, or its callback
\* has run.
StillHeld(q) ==
    /\ called'[q] = 0 => called[q] = 0
    /\ called'[q] = 0 /\ Answerable(q) /\ (InOutgoing(q) \/ In(spq, q)) =>
         (InOutgoing(q) \/ In(spq, q))'

LEMMA StillHeldHolds ==
    ASSUME AllHeld, UNCHANGED issued, \A q \in Requests : StillHeld(q)
    PROVE  AllHeld'
<1> SUFFICES ASSUME NEW q \in Requests PROVE Held(q)'
  BY DEF AllHeld
<1>1. Held(q) /\ StillHeld(q) /\ (WasIssued(q)' <=> WasIssued(q))
  BY DEF AllHeld, WasIssued
<1> QED BY <1>1 DEF Held, StillHeld, Answerable

\* A table that keeps its entries and their owners keeps the calls it holds.
LEMMA TableKeeps ==
    ASSUME IdsKept, DOMAIN outgoing \subseteq DOMAIN outgoing', NEW q, InOutgoing(q)
    PROVE  InOutgoing(q)'
BY DEF IdsKept, InOutgoing

\* An entry that leaves the table has its callback run.
LEMMA TableReleases ==
    ASSUME TypeOK, NEW id \in DOMAIN outgoing, NEW good,
           outgoing' = Without(outgoing, id), CallBack(outgoing[id].req, good),
           UNCHANGED spq
    PROVE  \A q \in Requests : StillHeld(q)
<1>1. \A q \in Requests : called'[q] = IF q = outgoing[id].req THEN called[q] + 1 ELSE called[q]
  BY InFlightType, CallBackCounts
<1>2. \A q \in Requests : called[q] \in Nat
  BY DEF TypeOK
<1>3. ASSUME NEW q \in Requests PROVE StillHeld(q)
  <2>1. In(spq, q)' <=> In(spq, q)
    BY DEF In
  <2>2. InOutgoing(q) => InOutgoing(q)' \/ q = outgoing[id].req
    BY DEF InOutgoing, Without
  <2>3. q = outgoing[id].req => called'[q] # 0
    BY <1>1, <1>2
  <2>4. called'[q] = 0 => called[q] = 0
    BY <1>1, <1>2
  <2> QED BY <2>1, <2>2, <2>3, <2>4 DEF StillHeld
<1> QED BY <1>3

\* Callbacks only count up.
LEMMA CallBackOnly ==
    ASSUME TypeOK, NEW r \in Owners, UNCHANGED called \/ \E good : CallBack(r, good),
           NEW q \in Requests
    PROVE  called'[q] = 0 => called[q] = 0
<1>1. called[q] \in Nat
  BY DEF TypeOK
<1>2. ASSUME NEW good, CallBack(r, good) PROVE called'[q] = 0 => called[q] = 0
  <2>1. called'[q] = IF q = r THEN called[q] + 1 ELSE called[q]
    BY <1>2, CallBackCounts
  <2> QED BY <1>1, <2>1
<1> QED BY <1>2

\* A call that begins, unless it is of QoS 0, has an entry.
LEMMA BeginHeld ==
    ASSUME TypeOK, IdsKept, NEW w \in Waiting, Begin(w)
    PROVE  /\ DOMAIN outgoing \subseteq DOMAIN outgoing'
           /\ w.req \in Requests /\ Answerable(w.req) => InOutgoing(w.req)'
           /\ \A q \in Requests : called'[q] = 0 => called[q] = 0
<1> DEFINE r == w.req
<1>1. r \in Owners
  BY DEF Waiting
<1>2. CASE KindOf(r) = "qos0" /\ PublishQoS0(r)
  <2>1. r \in Requests => ~Answerable(r)
    BY <1>2, Parameters DEF KindOf, Answerable
  <2>2. UNCHANGED outgoing /\ (UNCHANGED called \/ \E good : CallBack(r, good))
    BY <1>2 DEF PublishQoS0, cbVars
  <2> QED BY <1>1, <2>1, <2>2, CallBackOnly
<1>3. ASSUME NEW id, NEW v, v.req = r, outgoing' = With(outgoing, id, v), UNCHANGED called
      PROVE  /\ DOMAIN outgoing \subseteq DOMAIN outgoing' /\ InOutgoing(r)'
             /\ \A q \in Requests : called'[q] = 0 => called[q] = 0
  BY <1>3 DEF With, InOutgoing
<1>4. CASE PublishStored(r)
  <2>1. PICK id \in Ids :
          /\ outgoing' = With(outgoing, id, [req |-> r, volatile |-> FALSE, replay |-> FALSE])
          /\ UNCHANGED cbVars
    BY <1>4 DEF PublishStored
  <2> QED BY <1>3, <2>1 DEF cbVars
<1>5. CASE SubscribeProc(w) \/ UnsubscribeProc(w)
  <2>1. PICK id \in Ids :
          /\ outgoing' = With(outgoing, id, [req |-> r, volatile |-> TRUE, replay |-> FALSE])
          /\ UNCHANGED cbVars
    BY <1>5 DEF SubscribeProc, UnsubscribeProc, SendVolatile
  <2> QED BY <1>3, <2>1 DEF cbVars
<1> QED BY <1>2, <1>4, <1>5 DEF Begin

LEMMA BeginOrWaitHeld ==
    ASSUME TypeOK, IdsKept, NEW w \in Waiting, BeginOrWait(w)
    PROVE  /\ \A q \in Requests : StillHeld(q)
           /\ w.req \in Requests /\ Answerable(w.req) => (InOutgoing(w.req) \/ In(spq, w.req))'
<1>1. spq \in Seq(Waiting)
  BY DEF TypeOK
<1>2. CASE MustWait(w.req)
  <2>1. spq' = Append(spq, w) /\ UNCHANGED <<outgoing, called>>
    BY <1>2 DEF BeginOrWait, cbVars
  <2>2. \A q : In(spq, q) \/ w.req = q => In(Append(spq, w), q)
    BY <1>1, AppendKeeps
  <2>3. \A q : In(spq, q) \/ w.req = q => In(spq, q)'
    BY <2>1, <2>2 DEF In
  <2>4. \A q : InOutgoing(q)' <=> InOutgoing(q)
    BY <2>1 DEF InOutgoing
  <2> QED BY <2>1, <2>3, <2>4 DEF StillHeld
<1>3. CASE ~MustWait(w.req)
  <2>1. Begin(w) /\ UNCHANGED spq
    BY <1>3 DEF BeginOrWait
  <2>2. \A q : In(spq, q)' <=> In(spq, q)
    BY <2>1 DEF In
  <2> QED BY <2>1, <2>2, BeginHeld, TableKeeps DEF StillHeld
<1> QED BY <1>2, <1>3

LEMMA CallHeld ==
    ASSUME TypeOK, AllHeld, IdsKept, NEW r \in Requests, Call(r)
    PROVE  AllHeld'
<1> DEFINE new == IF Kind[r] = "sub" THEN Topics[r] \ resub ELSE Topics[r]
<1>0. [req |-> r, topics |-> new] \in Waiting
  BY Parameters DEF Waiting, Owners
<1>1. PICK w \in Waiting : w = [req |-> r, topics |-> new]
  BY <1>0
<1>2. w.req = r /\ r \in Owners
  BY <1>1 DEF Owners
<1>3. ASSUME NEW q \in Requests PROVE WasIssued(q)' => WasIssued(q) \/ q = r
  <2>1. issued' = Append(issued, r) /\ issued \in Seq(Requests)
    BY DEF Call, TypeOK
  <2>2. /\ DOMAIN issued = 1..Len(issued) /\ DOMAIN issued' = 1..(Len(issued) + 1)
        /\ Len(issued) \in Nat /\ \A i \in 1..Len(issued) : issued'[i] = issued[i]
        /\ issued'[Len(issued) + 1] = r
    BY <2>1, AppendProperties
  <2> QED BY <2>2 DEF WasIssued
<1>4. (\A q \in Requests : StillHeld(q)) /\ Held(r)'
  <2>1. CASE BeginOrWait(w)
    BY <1>2, <2>1, BeginOrWaitHeld DEF Held
  <2>2. CASE ~BeginOrWait(w)
    <3>1. CallBack(r, TRUE) /\ UNCHANGED <<outgoing, spq>>
      BY <1>1, <2>2 DEF Call
    <3>2. \A q \in Requests : called'[q] = IF q = r THEN called[q] + 1 ELSE called[q]
      BY <1>2, <3>1, CallBackCounts
    <3>3. \A q : (InOutgoing(q)' <=> InOutgoing(q)) /\ (In(spq, q)' <=> In(spq, q))
      BY <3>1 DEF InOutgoing, In
    <3>4. \A q \in Requests : called[q] \in Nat
      BY DEF TypeOK
    <3>5. called'[r] # 0 /\ \A q \in Requests : called'[q] = 0 => called[q] = 0
      BY <3>2, <3>4
    <3> QED BY <3>3, <3>5 DEF StillHeld, Held
  <2> QED BY <2>1, <2>2
<1>5. ASSUME NEW q \in Requests, q # r PROVE Held(q)'
  <2>1. Held(q) /\ StillHeld(q) /\ (WasIssued(q)' => WasIssued(q))
    BY <1>3, <1>4, <1>5 DEF AllHeld
  <2> QED BY <2>1 DEF Held, StillHeld, Answerable
<1> QED BY <1>4, <1>5 DEF AllHeld

\* A step that leaves the waiting calls and the table's identifiers alone.
LEMMA QuietHeld ==
    ASSUME TypeOK, AllHeld, IdsKept, DOMAIN outgoing \subseteq DOMAIN outgoing',
           UNCHANGED <<spq, issued>>,
           UNCHANGED called \/ \E r \in Owners, good \in BOOLEAN : CallBack(r, good)
    PROVE  AllHeld'
<1>1. \A q \in Requests : called'[q] = 0 => called[q] = 0
  BY CallBackOnly
<1>2. \A q : In(spq, q)' <=> In(spq, q)
  BY DEF In
<1> QED BY <1>1, <1>2, TableKeeps, StillHeldHolds DEF StillHeld

LEMMA InvokeHeld ==
    ASSUME TypeOK, AllHeld, IdsKept, InvokeStoreProcessingQueue
    PROVE  AllHeld'
<1>1. CASE storeProcessing \/ spq = <<>> \/ CannotBegin(Head(spq).req)
  <2>1. UNCHANGED <<outgoing, spq, issued, called>>
    BY <1>1 DEF InvokeStoreProcessingQueue, cbVars
  <2> QED BY <2>1, QuietHeld
<1>2. CASE ~(storeProcessing \/ spq = <<>> \/ CannotBegin(Head(spq).req))
  <2>1. spq # <<>> /\ Begin(Head(spq)) /\ spq' = Tail(spq) /\ UNCHANGED issued
    BY <1>2 DEF InvokeStoreProcessingQueue
  <2>2. spq \in Seq(Waiting) /\ Head(spq) \in Waiting
    BY <2>1, HeadTailProperties DEF TypeOK
  <2>3. PICK w \in Waiting : w = Head(spq)
    BY <2>2
  <2>4. /\ DOMAIN outgoing \subseteq DOMAIN outgoing'
        /\ w.req \in Requests /\ Answerable(w.req) => InOutgoing(w.req)'
        /\ \A q \in Requests : called'[q] = 0 => called[q] = 0
    BY <2>1, <2>3, BeginHeld
  <2>5. ASSUME NEW q \in Requests PROVE StillHeld(q)
    <3>1. In(spq, q) => In(Tail(spq), q) \/ w.req = q
      BY <2>1, <2>2, <2>3, TailKeeps
    <3>2. In(spq, q) => In(spq, q)' \/ w.req = q
      BY <2>1, <3>1 DEF In
    <3>3. InOutgoing(q) => InOutgoing(q)'
      BY <2>4, TableKeeps
    <3> QED BY <2>4, <3>2, <3>3 DEF StillHeld
  <2> QED BY <2>1, <2>5, StillHeldHolds
<1> QED BY <1>1, <1>2

LEMMA DeliverHeld ==
    ASSUME TypeOK, AllHeld, IdsKept, Deliver
    PROVE  AllHeld'
<1>1. UNCHANGED issued
  BY DEF Deliver
<1>2. CASE queue = <<>>
  <2>1. PICK w \in Waiting : w = [req |-> Nobody, topics |-> resub]
    BY DEF Waiting, Owners, TypeOK
  <2>2. BeginOrWait(w) \/ UNCHANGED <<outgoing, cbVars, spq>>
    BY <1>2, <2>1 DEF Deliver, Resubscribe
  <2>3. CASE BeginOrWait(w)
    BY <1>1, <2>3, BeginOrWaitHeld, StillHeldHolds
  <2>4. CASE UNCHANGED <<outgoing, cbVars, spq>>
    BY <1>1, <2>4, QuietHeld DEF cbVars
  <2> QED BY <2>2, <2>3, <2>4
<1>3. CASE queue # <<>>
  <2>1. Head(queue) \in Packet
    BY <1>3, HeadTailProperties DEF TypeOK
  <2>2. PICK r \in Owners : r = IF Head(queue).cmd = "publish" THEN Head(queue).req ELSE Nobody
    BY <2>1 DEF Packet, Owners
  <2>3. UNCHANGED <<outgoing, spq>> /\ (UNCHANGED called \/ CallBack(r, TRUE))
    BY <1>3, <2>2 DEF Deliver, SendQueued, cbVars
  <2> QED BY <1>1, <2>3, QuietHeld
<1> QED BY <1>2, <1>3

LEMMA FlushHeld ==
    ASSUME TypeOK, AllHeld, IdsKept, FlushVolatile \/ FlushStoreProcessingQueue
    PROVE  AllHeld'
<1>1. CASE FlushVolatile
  <2>1. UNCHANGED <<spq, issued>>
    BY <1>1 DEF FlushVolatile
  <2>2. ASSUME NEW id \in DOMAIN outgoing, outgoing' = Without(outgoing, id),
               CallBack(outgoing[id].req, FALSE)
        PROVE  AllHeld'
    BY <2>1, <2>2, TableReleases, StillHeldHolds
  <2>3. CASE UNCHANGED <<outgoing, cbVars>>
    BY <2>1, <2>3, QuietHeld DEF cbVars
  <2> QED BY <1>1, <2>2, <2>3 DEF FlushVolatile
<1>2. CASE FlushStoreProcessingQueue /\ spq = <<>>
  <2>1. UNCHANGED <<outgoing, spq, issued, called>>
    BY <1>2 DEF FlushStoreProcessingQueue, cbVars
  <2> QED BY <2>1, QuietHeld
<1>3. CASE FlushStoreProcessingQueue /\ spq # <<>>
  <2>1. /\ spq' = Tail(spq) /\ CallBack(Head(spq).req, FALSE)
        /\ UNCHANGED <<outgoing, issued>>
    BY <1>3 DEF FlushStoreProcessingQueue
  <2>2. spq \in Seq(Waiting) /\ Head(spq) \in Waiting
    BY <1>3, HeadTailProperties DEF TypeOK
  <2>3. PICK r \in Owners : r = Head(spq).req
    BY <2>2 DEF Waiting
  <2>4. \A q \in Requests : called'[q] = IF q = r THEN called[q] + 1 ELSE called[q]
    BY <2>1, <2>3, CallBackCounts
  <2>5. \A q \in Requests : called[q] \in Nat
    BY DEF TypeOK
  <2>6. ASSUME NEW q \in Requests PROVE StillHeld(q)
    <3>1. In(spq, q) => In(Tail(spq), q) \/ r = q
      BY <1>3, <2>2, <2>3, TailKeeps
    <3>2. In(spq, q) => In(spq, q)' \/ r = q
      BY <2>1, <3>1 DEF In
    <3>3. InOutgoing(q)' <=> InOutgoing(q)
      BY <2>1 DEF InOutgoing
    <3>4. (called'[q] = 0 => called[q] = 0) /\ (r = q => called'[q] # 0)
      BY <2>4, <2>5
    <3> QED BY <3>2, <3>3, <3>4 DEF StillHeld
  <2> QED BY <2>1, <2>6, StillHeldHolds
<1> QED BY <1>1, <1>2, <1>3

LEMMA AckHeld ==
    ASSUME TypeOK, AllHeld, IdsKept, Ack \/ \E id \in Ids : RemoveOutgoingMessage(id)
    PROVE  AllHeld'
<1>1. ASSUME NEW id \in DOMAIN outgoing, NEW good, RemoveOutgoingAndStoreMessage(id, good)
      PROVE  AllHeld'
  <2>1. \A q \in Requests : StillHeld(q)
    BY <1>1, TableReleases DEF RemoveOutgoingAndStoreMessage
  <2> QED BY <1>1, <2>1, StillHeldHolds DEF RemoveOutgoingAndStoreMessage
<1>2. ASSUME NEW id \in DOMAIN outgoing, NEW good, FinishVolatile(id, good)
      PROVE  AllHeld'
  BY <1>2, TableReleases, StillHeldHolds DEF FinishVolatile
<1>3. ASSUME NEW id \in Ids, NEW good \in BOOLEAN, HandlePubrec(id, good)
      PROVE  AllHeld'
  <2>1. CASE good
    <3>1. UNCHANGED <<outgoing, spq, issued, called>>
      BY <1>3, <2>1 DEF HandlePubrec, cbVars
    <3> QED BY <3>1, QuietHeld
  <2>2. CASE ~good
    BY <1>1, <1>3, <2>2 DEF HandlePubrec, Acknowledged
  <2> QED BY <2>1, <2>2
<1> QED
  BY <1>1, <1>2, <1>3
  DEF Ack, HandlePuback, HandleSuback, HandleUnsuback, Acknowledged, RemoveOutgoingMessage

\* Every call that needs an answer is held, in every state.
LEMMA HeldAlways == Spec /\ IdIsNotStolen => []AllHeld
<1>1. Init => AllHeld
  <2> SUFFICES ASSUME Init PROVE AllHeld
    OBVIOUS
  <2>1. issued = <<>> /\ DOMAIN <<>> = {}
    BY EmptySeq DEF Init
  <2> QED BY <2>1 DEF AllHeld, Held, WasIssued
<1>2. TypeOK /\ AllHeld /\ IdsKept /\ [Next]_vars => AllHeld'
  <2> SUFFICES ASSUME TypeOK, AllHeld, IdsKept, [Next]_vars PROVE AllHeld'
    OBVIOUS
  <2>1. ASSUME NEW r \in Requests, Call(r) PROVE AllHeld'
    BY <2>1, CallHeld
  <2>2. CASE Ack \/ \E id \in Ids : RemoveOutgoingMessage(id)
    BY <2>2, AckHeld
  <2>3. CASE StoreDeliver
    <3>1. UNCHANGED <<spq, issued, called>>
          /\ (UNCHANGED outgoing \/ \E id, v : outgoing' = With(outgoing, id, v))
      BY <2>3 DEF StoreDeliver, Replay, cbVars
    <3>2. DOMAIN outgoing \subseteq DOMAIN outgoing'
      BY <3>1 DEF With
    <3> QED BY <3>1, <3>2, QuietHeld
  <2>4. CASE StreamEnd \/ KeepaliveTimeout \/ Close \/ \E present \in BOOLEAN : Connack(present)
    <3>1. UNCHANGED <<spq, issued, called>> /\ DOMAIN outgoing \subseteq DOMAIN outgoing'
      BY <2>4 DEF StreamEnd, KeepaliveTimeout, Close, Connack, cbVars
    <3> QED BY <3>1, QuietHeld
  <2>5. CASE InvokeStoreProcessingQueue
    BY <2>5, InvokeHeld
  <2>6. CASE Deliver
    BY <2>6, DeliverHeld
  <2>7. CASE Drain
    <3>1. Head(parked).req \in Owners
      <4>1. parked \in Seq(Parked) /\ parked # <<>>
        BY <2>7 DEF Drain, TypeOK
      <4>2. Head(parked) \in Parked
        BY <4>1, HeadTailProperties
      <4> QED BY <4>2 DEF Parked
    <3>2. UNCHANGED <<outgoing, spq, issued>> /\ CallBack(Head(parked).req, TRUE)
      BY <2>7 DEF Drain
    <3> QED BY <3>1, <3>2, QuietHeld
  <2>8. CASE FlushVolatile \/ FlushStoreProcessingQueue
    BY <2>8, FlushHeld
  <2>9. CASE UNCHANGED vars
    <3>1. UNCHANGED <<outgoing, spq, issued, called>>
      BY <2>9 DEF vars, procVars, cbVars
    <3> QED BY <3>1, QuietHeld
  <2> QED
    BY <2>1, <2>2, <2>3, <2>4, <2>5, <2>6, <2>7, <2>8, <2>9 DEF Next, User, Run, Network
<1>3. [IdsKept]_vars /\ [Next]_vars /\ TypeOK /\ AllHeld => AllHeld'
  <2>1. UNCHANGED vars => IdsKept
    BY DEF vars, procVars, IdsKept
  <2> QED BY <1>2, <2>1
<1>4. [\A id \in DOMAIN outgoing \cap DOMAIN outgoing' :
         outgoing'[id].req = outgoing[id].req]_vars => [IdsKept]_vars
  BY DEF IdsKept
<1> QED BY <1>1, <1>3, <1>4, TypeCorrect, PTL DEF Spec, IdIsNotStolen

(***************************************************************************)
(* As long as no identifier in flight is given to another request, no call *)
(* is forgotten: with either provider, whatever is lost, removed, replayed *)
(* or acknowledged, a call of QoS 1 or 2, a subscribe or an unsubscribe is *)
(* held until its callback has run.                                        *)
(***************************************************************************)
THEOREM PendingHeld == Spec /\ IdIsNotStolen => []PendingIsHeld
<1>1. TypeOK /\ AllHeld => PendingIsHeld
  BY DEF TypeOK, AllHeld, Held, Answerable, WasIssued, PendingIsHeld
<1> QED BY <1>1, HeldAlways, TypeCorrect, PTL

-----------------------------------------------------------------------------
(***************************************************************************)
(* The store.  What put and del do to it, packet by packet.                *)
(***************************************************************************)
DistinctIds(s) == \A i, j \in DOMAIN s : s[i].id = s[j].id => i = j

\* put replaces the packet with the same identifier or appends.
LEMMA PutHeld ==
    ASSUME NEW s \in Seq(StoredPacket), NEW p \in StoredPacket, NEW t, t = Put(s, p)
    PROVE  /\ \A i \in DOMAIN t : t[i] = p \/ (t[i].id # p.id /\ \E j \in DOMAIN s : t[i] = s[j])
           /\ \E i \in DOMAIN t : t[i] = p
           /\ \A j \in DOMAIN s : s[j].id # p.id => \E i \in DOMAIN t : t[i] = s[j]
           /\ DistinctIds(s) => DistinctIds(t)
<1>1. CASE \E i \in DOMAIN s : s[i].id = p.id
  <2>1. t = [i \in DOMAIN s |-> IF s[i].id = p.id THEN p ELSE s[i]]
    BY <1>1 DEF Put
  <2>2. DOMAIN t = DOMAIN s /\ \A i \in DOMAIN s : t[i] = IF s[i].id = p.id THEN p ELSE s[i]
    BY <2>1
  <2>3. \A i \in DOMAIN s : t[i].id = s[i].id
    BY <2>2
  <2> QED BY <1>1, <2>2, <2>3 DEF DistinctIds
<1>2. CASE ~\E i \in DOMAIN s : s[i].id = p.id
  <2>1. t = Append(s, p)
    BY <1>2 DEF Put
  <2>2. /\ Len(s) \in Nat /\ DOMAIN s = 1..Len(s) /\ DOMAIN t = 1..(Len(s) + 1)
        /\ \A i \in 1..Len(s) : t[i] = s[i]
        /\ t[Len(s) + 1] = p
    BY <2>1, AppendProperties
  <2>3. \A i \in DOMAIN t : (i \in DOMAIN s /\ t[i] = s[i] /\ t[i].id # p.id)
                            \/ (i = Len(s) + 1 /\ t[i] = p)
    BY <1>2, <2>2
  <2>4. \A i \in DOMAIN s : i \in DOMAIN t /\ t[i] = s[i]
    BY <2>2
  <2>5. Len(s) + 1 \in DOMAIN t
    BY <2>2
  <2>6. DistinctIds(s) => DistinctIds(t)
    BY <2>3 DEF DistinctIds
  <2> QED BY <2>2, <2>3, <2>4, <2>5, <2>6
<1> QED BY <1>1, <1>2

\* del takes out the packet with the identifier, and no other.
LEMMA DelHeld ==
    ASSUME NEW s \in Seq(StoredPacket), NEW id, NEW t, t = Del(s, id)
    PROVE  /\ \A i \in DOMAIN t : \E j \in DOMAIN s : t[i] = s[j]
           /\ \A j \in DOMAIN s : s[j].id # id => \E i \in DOMAIN t : t[i] = s[j]
           /\ DistinctIds(s) => DistinctIds(t) /\ \A i \in DOMAIN t : t[i].id # id
           /\ \A i, j \in DOMAIN t : i < j => \E g, h \in DOMAIN s : g < h /\ t[i] = s[g] /\ t[j] = s[h]
<1>1. CASE ~\E i \in DOMAIN s : s[i].id = id
  BY <1>1 DEF Del
<1>2. CASE \E i \in DOMAIN s : s[i].id = id
  <2>1. PICK k \in DOMAIN s : s[k].id = id /\ t = RemoveAt(s, k)
    BY <1>2 DEF Del
  <2>2. Len(s) \in Nat /\ DOMAIN s = 1..Len(s) /\ k \in 1..Len(s)
        /\ \A i \in 1..Len(s) : s[i] \in StoredPacket
    BY <2>1
  <2>3. PICK u : u = SubSeq(s, 1, k - 1)
    OBVIOUS
  <2>4. PICK v : v = SubSeq(s, k + 1, Len(s))
    OBVIOUS
  <2>5. /\ u \in Seq(StoredPacket) /\ Len(u) = k - 1
        /\ \A i \in 1..(k - 1) : u[i] = s[i]
    <3>1. \A i \in 1..(k - 1) : s[i] \in StoredPacket
      BY <2>2
    <3>2. 1 \in Int /\ k - 1 \in Int
      BY <2>2
    <3>3. /\ u \in Seq(StoredPacket)
          /\ Len(u) = IF 1 <= k - 1 THEN (k - 1) - 1 + 1 ELSE 0
          /\ \A i \in 1..((k - 1) - 1 + 1) : u[i] = s[1 + i - 1]
      BY <2>3, <3>1, <3>2, SubSeqProperties
    <3> QED BY <2>2, <3>3
  <2>6. /\ v \in Seq(StoredPacket) /\ Len(v) = Len(s) - k
        /\ \A i \in 1..(Len(s) - k) : v[i] = s[k + i]
    <3>1. \A i \in (k + 1)..Len(s) : s[i] \in StoredPacket
      BY <2>2
    <3>2. k + 1 \in Int /\ Len(s) \in Int
      BY <2>2
    <3>3. /\ v \in Seq(StoredPacket)
          /\ Len(v) = IF k + 1 <= Len(s) THEN Len(s) - (k + 1) + 1 ELSE 0
          /\ \A i \in 1..(Len(s) - (k + 1) + 1) : v[i] = s[(k + 1) + i - 1]
      BY <2>4, <3>1, <3>2, SubSeqProperties
    <3>4. Len(s) - (k + 1) + 1 = Len(s) - k /\ (k + 1 <= Len(s) \/ Len(s) - k = 0)
      BY <2>2
    <3>5. ASSUME NEW i \in 1..(Len(s) - k) PROVE v[i] = s[k + i]
      <4>1. (k + 1) + i - 1 = k + i
        BY <2>2
      <4> QED BY <3>3, <3>4, <4>1
    <3> QED BY <3>3, <3>4, <3>5
  <2>7. /\ t \in Seq(StoredPacket) /\ Len(t) = Len(s) - 1
        /\ \A i \in 1..(Len(s) - 1) : t[i] = IF i < k THEN s[i] ELSE s[i + 1]
    <3>1. t = u \o v
      BY <2>1, <2>3, <2>4 DEF RemoveAt
    <3>2. /\ t \in Seq(StoredPacket) /\ Len(t) = Len(u) + Len(v)
          /\ \A i \in 1..(Len(u) + Len(v)) : t[i] = IF i <= Len(u) THEN u[i] ELSE v[i - Len(u)]
      BY <2>5, <2>6, <3>1, ConcatProperties
    <3>3. Len(u) + Len(v) = Len(s) - 1
      BY <2>2, <2>5, <2>6
    <3>4. ASSUME NEW i \in 1..(Len(s) - 1) PROVE t[i] = IF i < k THEN s[i] ELSE s[i + 1]
      <4>1. CASE i < k
        <5>1. i \in 1..(k - 1) /\ i <= Len(u)
          BY <2>2, <2>5, <4>1
        <5>2. u[i] = s[i]
          BY <2>5, <5>1
        <5>3. t[i] = u[i]
          BY <3>2, <3>3, <5>1
        <5> QED BY <4>1, <5>2, <5>3
      <4>2. CASE ~(i < k)
        <5>1. i - (k - 1) \in 1..(Len(s) - k) /\ ~(i <= Len(u)) /\ k + (i - (k - 1)) = i + 1
          BY <2>2, <2>5, <4>2
        <5>2. v[i - (k - 1)] = s[i + 1]
          BY <2>6, <5>1
        <5>3. t[i] = v[i - (k - 1)]
          BY <2>5, <3>2, <3>3, <5>1
        <5> QED BY <4>2, <5>2, <5>3
      <4> QED BY <4>1, <4>2
    <3> QED BY <3>2, <3>3, <3>4
  <2>8. DOMAIN t = 1..(Len(s) - 1)
    BY <2>7
  <2>9. \A i \in DOMAIN t :
          \/ i < k /\ i \in DOMAIN s /\ t[i] = s[i]
          \/ ~(i < k) /\ i + 1 \in DOMAIN s /\ t[i] = s[i + 1]
    BY <2>2, <2>7, <2>8
  <2>10. ASSUME NEW j \in DOMAIN s, s[j].id # id PROVE \E i \in DOMAIN t : t[i] = s[j]
    <3>1. j # k
      BY <2>1, <2>10
    <3>2. CASE j < k
      <4>1. j \in DOMAIN t /\ t[j] = s[j]
        BY <2>2, <2>7, <2>8, <3>2
      <4> QED BY <4>1
    <3>3. CASE ~(j < k)
      <4>1. j - 1 \in DOMAIN t /\ ~(j - 1 < k) /\ (j - 1) + 1 = j
        BY <2>2, <2>8, <3>1, <3>3
      <4>2. t[j - 1] = s[j]
        BY <2>7, <2>8, <4>1
      <4> QED BY <4>1, <4>2
    <3> QED BY <3>2, <3>3
  <2>11. ASSUME DistinctIds(s)
         PROVE  DistinctIds(t) /\ \A i \in DOMAIN t : t[i].id # id
    <3>1. \A i \in DOMAIN t : i \in Nat
      BY <2>2, <2>8
    <3>2. \A i \in DOMAIN t : t[i].id # id
      BY <2>1, <2>2, <2>9, <2>11, <3>1 DEF DistinctIds
    <3>3. ASSUME NEW i \in DOMAIN t, NEW j \in DOMAIN t, t[i].id = t[j].id PROVE i = j
      <4>1. PICK a \in DOMAIN s :
              t[i] = s[a] /\ ((i < k /\ a = i) \/ (~(i < k) /\ a = i + 1))
        BY <2>9
      <4>2. PICK b \in DOMAIN s :
              t[j] = s[b] /\ ((j < k /\ b = j) \/ (~(j < k) /\ b = j + 1))
        BY <2>9
      <4>3. a = b
        BY <2>11, <3>3, <4>1, <4>2 DEF DistinctIds
      <4> QED BY <2>2, <3>1, <4>1, <4>2, <4>3
    <3> QED BY <3>2, <3>3 DEF DistinctIds
  <2>12. \A i \in DOMAIN t : \E j \in DOMAIN s : t[i] = s[j]
    BY <2>9
  <2>13. ASSUME NEW i \in DOMAIN t, NEW j \in DOMAIN t, i < j
         PROVE  \E g, h \in DOMAIN s : g < h /\ t[i] = s[g] /\ t[j] = s[h]
    <3>1. i \in Nat /\ j \in Nat /\ k \in Nat
      BY <2>2, <2>8
    <3>2. CASE j < k
      BY <2>9, <2>13, <3>1, <3>2
    <3>3. CASE i < k /\ ~(j < k)
      <4>1. i < j + 1
        BY <2>13, <3>1
      <4> QED BY <2>9, <3>3, <4>1
    <3>4. CASE ~(i < k) /\ ~(j < k)
      <4>1. i + 1 < j + 1
        BY <2>13, <3>1
      <4> QED BY <2>9, <3>4, <4>1
    <3> QED BY <2>13, <3>1, <3>2, <3>3, <3>4
  <2> QED BY <2>10, <2>11, <2>12, <2>13
<1> QED BY <1>1, <1>2

-----------------------------------------------------------------------------
(***************************************************************************)
(* A stored message has its entry.  The store and the table change         *)
(* together in every run; what could part them is an ack handled after the *)
(* close, whose pubrel is stored when the entry may be gone (LateAcks = 0  *)
(* leaves it out), and a subscription that is given the identifier of a    *)
(* message.                                                                *)
(***************************************************************************)
\* A packet of the store and the entry of its message.
EntryIn(f, p) == p.id \in DOMAIN f /\ ~f[p.id].volatile /\ f[p.id].req = p.req
NoPubrel == \A i \in DOMAIN queue : queue[i].cmd # "pubrel"
StoredInv ==
    /\ DistinctIds(store)
    /\ \A i \in DOMAIN store : EntryIn(outgoing, store[i])
    /\ NoPubrel

\* No identifier passes from a message to a subscribe or unsubscribe.
MessageIdsKept ==
    \A id \in DOMAIN outgoing \cap DOMAIN outgoing' :
      outgoing'[id].volatile => outgoing[id].volatile

\* A step that leaves the store, and the entries of its messages, alone.
LEMMA EntriesStored ==
    ASSUME StoredInv, UNCHANGED store, NoPubrel',
           \A i \in DOMAIN store : EntryIn(outgoing, store[i]) => EntryIn(outgoing', store[i])
    PROVE  StoredInv'
<1>1. DistinctIds(store)'
  BY DEF StoredInv, DistinctIds
<1>2. \A i \in DOMAIN store' : EntryIn(outgoing', store'[i])
  BY DEF StoredInv
<1> QED BY <1>1, <1>2 DEF StoredInv

LEMMA SameStored ==
    ASSUME StoredInv, UNCHANGED <<store, outgoing>>, NoPubrel'
    PROVE  StoredInv'
BY EntriesStored DEF EntryIn

\* A queue that grows by another packet than a pubrel.
LEMMA QueueStored ==
    ASSUME TypeOK, NoPubrel, NEW p \in Packet, p.cmd # "pubrel",
           queue' = queue \/ queue' = Append(queue, p)
    PROVE  NoPubrel'
<1>1. queue \in Seq(Packet)
  BY DEF TypeOK
<1>2. CASE queue' = queue
  BY <1>2 DEF NoPubrel
<1>3. CASE queue' = Append(queue, p)
  <2>1. \A i \in DOMAIN queue' : queue'[i] = p \/ \E j \in DOMAIN queue : queue'[i] = queue[j]
    BY <1>1, <1>3, AppendHeld
  <2> QED BY <2>1 DEF NoPubrel
<1> QED BY <1>2, <1>3

\* A message that is put in the store has the entry it is put there with.
LEMMA PutStored ==
    ASSUME TypeOK, StoredInv, NEW p \in StoredPacket, store' = Put(store, p), EntryIn(outgoing', p),
           \A i \in DOMAIN store :
             store[i].id # p.id /\ EntryIn(outgoing, store[i]) => EntryIn(outgoing', store[i]),
           NoPubrel'
    PROVE  StoredInv'
<1>1. PICK t : t = store'
  OBVIOUS
<1>2. /\ \A i \in DOMAIN t : t[i] = p \/ (t[i].id # p.id /\ \E j \in DOMAIN store : t[i] = store[j])
      /\ DistinctIds(store) => DistinctIds(t)
  BY <1>1, PutHeld DEF TypeOK
<1>3. DistinctIds(store)'
  BY <1>1, <1>2 DEF StoredInv, DistinctIds
<1>4. \A i \in DOMAIN t : EntryIn(outgoing', t[i])
  BY <1>2 DEF StoredInv
<1> QED BY <1>1, <1>3, <1>4 DEF StoredInv

LEMMA BeginStored ==
    ASSUME TypeOK, StoredInv, MessageIdsKept, NEW w \in Waiting, Begin(w)
    PROVE  StoredInv'
<1> DEFINE r == w.req
<1>1. r \in Owners
  BY DEF Waiting
<1>2. CASE KindOf(r) = "qos0" /\ PublishQoS0(r)
  <2>1. PICK p : p = [cmd |-> "publish", id |-> 0, req |-> r]
    OBVIOUS
  <2>2. p \in Packet /\ p.cmd # "pubrel"
    BY <1>1, <2>1 DEF Packet
  <2>3. (queue' = queue \/ queue' = Append(queue, p)) /\ UNCHANGED <<store, outgoing>>
    BY <1>2, <2>1 DEF PublishQoS0
  <2>4. NoPubrel'
    BY <2>2, <2>3, QueueStored DEF StoredInv
  <2> QED BY <2>3, <2>4, SameStored
<1>3. CASE PublishStored(r)
  <2>1. PICK id \in Ids :
          /\ outgoing' = With(outgoing, id, [req |-> r, volatile |-> FALSE, replay |-> FALSE])
          /\ store' = Put(store, [cmd |-> "publish", id |-> id, req |-> r])
          /\ UNCHANGED queue
    BY <1>3 DEF PublishStored
  <2>2. PICK p : p = [cmd |-> "publish", id |-> id, req |-> r]
    OBVIOUS
  <2>3. p \in StoredPacket /\ p.id = id /\ p.req = r
    BY <1>1, <2>2, Parameters DEF StoredPacket, Packet, Ids
  <2>4. EntryIn(outgoing', p)
    BY <2>1, <2>3 DEF EntryIn, With
  <2>5. \A i \in DOMAIN store :
          store[i].id # id /\ EntryIn(outgoing, store[i]) => EntryIn(outgoing', store[i])
    BY <2>1 DEF EntryIn, With
  <2>6. NoPubrel'
    BY <2>1 DEF StoredInv, NoPubrel
  <2> QED BY <2>1, <2>2, <2>3, <2>4, <2>5, <2>6, PutStored
<1>4. ASSUME NEW cmd \in {"subscribe", "unsubscribe"}, NEW id \in Ids, SendVolatile(cmd, id, r)
      PROVE  StoredInv'
  <2>1. PICK p : p = [cmd |-> cmd, id |-> id, req |-> r]
    OBVIOUS
  <2>2. p \in Packet /\ p.cmd # "pubrel"
    BY <1>1, <2>1, Parameters DEF Packet, Ids
  <2>3. /\ queue' = queue \/ queue' = Append(queue, p)
        /\ outgoing' = With(outgoing, id, [req |-> r, volatile |-> TRUE, replay |-> FALSE])
        /\ UNCHANGED store
    BY <1>4, <2>1 DEF SendVolatile
  <2>4. NoPubrel'
    BY <2>2, <2>3, QueueStored DEF StoredInv
  <2>5. ASSUME NEW i \in DOMAIN store, EntryIn(outgoing, store[i]) PROVE EntryIn(outgoing', store[i])
    <3>1. store[i].id # id
      BY <2>3, <2>5 DEF EntryIn, MessageIdsKept, With
    <3> QED BY <2>3, <2>5, <3>1 DEF EntryIn, With
  <2> QED BY <2>3, <2>4, <2>5, EntriesStored
<1>5. CASE SubscribeProc(w)
  BY <1>4, <1>5 DEF SubscribeProc
<1>6. CASE UnsubscribeProc(w)
  BY <1>4, <1>6 DEF UnsubscribeProc
<1> QED BY <1>2, <1>3, <1>5, <1>6 DEF Begin

LEMMA BeginOrWaitStored ==
    ASSUME TypeOK, StoredInv, MessageIdsKept, NEW w \in Waiting, BeginOrWait(w)
    PROVE  StoredInv'
<1>1. CASE MustWait(w.req)
  BY <1>1, SameStored DEF BeginOrWait, StoredInv, NoPubrel
<1>2. CASE ~MustWait(w.req)
  BY <1>2, BeginStored DEF BeginOrWait
<1> QED BY <1>1, <1>2

\* An entry leaves the table: with its message, or it had none.
LEMMA RemoveStored ==
    ASSUME TypeOK, StoredInv, NEW id \in DOMAIN outgoing, NEW good,
           RemoveOutgoingAndStoreMessage(id, good)
    PROVE  StoredInv'
<1>1. outgoing' = Without(outgoing, id) /\ store' = Del(store, id) /\ UNCHANGED queue
  BY DEF RemoveOutgoingAndStoreMessage
<1>2. PICK t : t = store'
  OBVIOUS
<1>3. /\ \A i \in DOMAIN t : \E j \in DOMAIN store : t[i] = store[j]
      /\ DistinctIds(t) /\ \A i \in DOMAIN t : t[i].id # id
  BY <1>1, <1>2, DelHeld DEF TypeOK, StoredInv
<1>4. ASSUME NEW i \in DOMAIN t PROVE EntryIn(outgoing', t[i])
  <2>1. t[i].id # id /\ EntryIn(outgoing, t[i])
    BY <1>3 DEF StoredInv
  <2> QED BY <1>1, <2>1 DEF EntryIn, Without
<1>5. DistinctIds(store)'
  BY <1>2, <1>3 DEF DistinctIds
<1> QED BY <1>1, <1>2, <1>4, <1>5 DEF StoredInv, NoPubrel

LEMMA VolatileStored ==
    ASSUME StoredInv, NEW id \in DOMAIN outgoing, outgoing[id].volatile,
           outgoing' = Without(outgoing, id), UNCHANGED <<store, queue>>
    PROVE  StoredInv'
<1>1. \A i \in DOMAIN store : EntryIn(outgoing, store[i]) => EntryIn(outgoing', store[i])
  BY DEF EntryIn, Without
<1> QED BY <1>1, EntriesStored DEF StoredInv, NoPubrel

LEMMA AckStored ==
    ASSUME TypeOK, StoredInv, LateAcks = 0, Ack
    PROVE  StoredInv'
<1>1. ASSUME NEW id \in Ids, Acknowledged(id) PROVE connected
  <2>1. Len(queue) \in Nat
    BY LenProperties DEF TypeOK
  <2> QED BY <1>1, <2>1 DEF Acknowledged
<1>2. ASSUME NEW id \in Ids, NEW good \in BOOLEAN, HandlePuback(id, good) PROVE StoredInv'
  BY <1>2, RemoveStored DEF HandlePuback, Acknowledged
<1>3. ASSUME NEW id \in Ids, NEW good \in BOOLEAN, HandlePubrec(id, good) PROVE StoredInv'
  <2>1. CASE good
    <3>1. PICK p : p = [cmd |-> "pubrel", id |-> id, req |-> outgoing[id].req]
      OBVIOUS
    <3>2. id \in DOMAIN outgoing /\ ~outgoing[id].volatile /\ connected
      BY <1>1, <1>3 DEF HandlePubrec, Acknowledged
    <3>3. p \in StoredPacket /\ p.id = id /\ p.req = outgoing[id].req
      BY <3>1, <3>2, InFlightType, Parameters DEF StoredPacket, Packet, Ids
    <3>4. store' = Put(store, p) /\ UNCHANGED <<queue, outgoing>>
      BY <1>3, <2>1, <3>1, <3>2 DEF HandlePubrec
    <3>5. EntryIn(outgoing', p) /\ NoPubrel' /\ \A i \in DOMAIN store : EntryIn(outgoing, store[i]) => EntryIn(outgoing', store[i])
      BY <3>2, <3>3, <3>4 DEF EntryIn, StoredInv, NoPubrel
    <3> QED BY <3>3, <3>4, <3>5, PutStored
  <2>2. CASE ~good
    BY <1>3, <2>2, RemoveStored DEF HandlePubrec, Acknowledged
  <2> QED BY <2>1, <2>2
<1>4. ASSUME NEW id \in Ids, NEW good \in BOOLEAN, HandleSuback(id, good) PROVE StoredInv'
  BY <1>4, VolatileStored DEF HandleSuback, FinishVolatile, Acknowledged
<1>5. ASSUME NEW id \in Ids, HandleUnsuback(id) PROVE StoredInv'
  BY <1>5, VolatileStored DEF HandleUnsuback, FinishVolatile, Acknowledged
<1> QED BY <1>2, <1>3, <1>4, <1>5 DEF Ack

\* What is delivered of the offline queue touches neither store nor table.
LEMMA DeliverStored ==
    ASSUME TypeOK, StoredInv, MessageIdsKept, Deliver
    PROVE  StoredInv'
<1>1. CASE queue = <<>>
  <2>1. PICK w \in Waiting : w = [req |-> Nobody, topics |-> resub]
    BY DEF Waiting, Owners, TypeOK
  <2>2. BeginOrWait(w) \/ UNCHANGED <<outgoing, store, queue>>
    BY <1>1, <2>1 DEF Deliver, Resubscribe
  <2> QED BY <2>2, BeginOrWaitStored, SameStored DEF StoredInv, NoPubrel
<1>2. CASE queue # <<>>
  <2>1. queue \in Seq(Packet)
    BY DEF TypeOK
  <2>2. /\ \A i \in DOMAIN Tail(queue) : \E j \in DOMAIN queue : Tail(queue)[i] = queue[j]
        /\ \E j \in DOMAIN queue : Head(queue) = queue[j]
    BY <1>2, <2>1, TailHeld
  <2>3. queue' = Tail(queue) /\ UNCHANGED <<outgoing, store>>
    BY <1>2, <2>2 DEF Deliver, SendQueued, StoredInv, NoPubrel
  <2>4. NoPubrel'
    BY <2>2, <2>3 DEF StoredInv, NoPubrel
  <2> QED BY <2>3, <2>4, SameStored
<1> QED BY <1>1, <1>2

LEMMA StoredKept ==
    ASSUME LateAcks = 0, TypeOK, StoredInv, MessageIdsKept, [Next]_vars
    PROVE  StoredInv'
<1>1. ASSUME NEW r \in Requests, Call(r) PROVE StoredInv'
  <2> DEFINE new == IF Kind[r] = "sub" THEN Topics[r] \ resub ELSE Topics[r]
  <2>1. [req |-> r, topics |-> new] \in Waiting
    BY Parameters DEF Waiting, Owners
  <2>2. PICK w \in Waiting : w = [req |-> r, topics |-> new]
    BY <2>1
  <2>3. BeginOrWait(w) \/ UNCHANGED <<outgoing, store, queue>>
    BY <1>1, <2>2 DEF Call
  <2> QED BY <2>3, BeginOrWaitStored, SameStored DEF StoredInv, NoPubrel
<1>2. ASSUME NEW id \in Ids, RemoveOutgoingMessage(id) PROVE StoredInv'
  BY <1>2, RemoveStored DEF RemoveOutgoingMessage
<1>3. CASE Ack
  BY <1>3, AckStored
<1>4. CASE StoreDeliver
  <2>1. UNCHANGED <<store, queue>> /\ (UNCHANGED outgoing \/ Replay(Head(rest)))
    BY <1>4 DEF StoreDeliver
  <2>2. \A i \in DOMAIN store : EntryIn(outgoing, store[i]) => EntryIn(outgoing', store[i])
    BY <2>1 DEF Replay, EntryIn, With
  <2> QED BY <2>1, <2>2, EntriesStored DEF StoredInv, NoPubrel
<1>5. CASE InvokeStoreProcessingQueue
  <2>1. spq # <<>> => Head(spq) \in Waiting
    BY HeadTailProperties DEF TypeOK
  <2>2. UNCHANGED <<outgoing, store, queue>> \/ (spq # <<>> /\ Begin(Head(spq)))
    BY <1>5 DEF InvokeStoreProcessingQueue
  <2> QED BY <2>1, <2>2, BeginStored, SameStored DEF StoredInv, NoPubrel
<1>6. CASE Deliver
  BY <1>6, DeliverStored
<1>7. CASE Close
  <2>1. \A i \in DOMAIN store : EntryIn(outgoing, store[i]) => EntryIn(outgoing', store[i])
    BY <1>7 DEF Close, EntryIn, TypeOK, InFlight
  <2> QED BY <1>7, <2>1, EntriesStored DEF Close, StoredInv, NoPubrel
<1>8. CASE FlushVolatile
  <2>1. ASSUME NEW id \in DOMAIN outgoing, outgoing[id].volatile, outgoing' = Without(outgoing, id)
        PROVE  StoredInv'
    BY <1>8, <2>1, VolatileStored DEF FlushVolatile
  <2>2. CASE UNCHANGED outgoing
    BY <1>8, <2>2, SameStored DEF FlushVolatile, StoredInv, NoPubrel
  <2> QED BY <1>8, <2>1, <2>2 DEF FlushVolatile
<1>9. CASE \/ StreamEnd \/ FlushStoreProcessingQueue \/ Drain \/ KeepaliveTimeout
           \/ (\E present \in BOOLEAN : Connack(present)) \/ UNCHANGED vars
  <2>1. UNCHANGED <<outgoing, store, queue>>
    BY <1>9
    DEF StreamEnd, FlushStoreProcessingQueue, Drain, KeepaliveTimeout, Connack, vars, procVars
  <2> QED BY <2>1, SameStored DEF StoredInv, NoPubrel
<1> QED
  BY <1>1, <1>2, <1>3, <1>4, <1>5, <1>6, <1>7, <1>8, <1>9 DEF Next, User, Run, Network

\* The store and the table of the messages agree, in every state.
LEMMA StoredAlways ==
    ASSUME LateAcks = 0
    PROVE  Spec /\ [][MessageIdsKept]_vars => []StoredInv
<1>1. Init => StoredInv
  <2> SUFFICES ASSUME Init PROVE StoredInv
    OBVIOUS
  <2>1. store = <<>> /\ queue = <<>> /\ DOMAIN <<>> = {}
    BY EmptySeq DEF Init
  <2> QED BY <2>1 DEF StoredInv, DistinctIds, NoPubrel
<1>2. TypeOK /\ StoredInv /\ [Next]_vars /\ [MessageIdsKept]_vars => StoredInv'
  <2>1. UNCHANGED vars => MessageIdsKept
    BY DEF vars, procVars, MessageIdsKept
  <2> QED BY <2>1, StoredKept
<1> QED BY <1>1, <1>2, TypeCorrect, PTL DEF Spec

(***************************************************************************)
(* Every stored message has its entry, of the same request, as long as no  *)
(* subscription is given the identifier of a message in flight.            *)
(***************************************************************************)
THEOREM StoredInFlight ==
    ASSUME LateAcks = 0
    PROVE  Spec /\ [][MessageIdsKept]_vars => []StoredIsInFlight
<1>1. StoredInv => StoredIsInFlight
  BY DEF StoredInv, EntryIn, StoredIsInFlight
<1> QED BY <1>1, StoredAlways, PTL

-----------------------------------------------------------------------------
(***************************************************************************)
(* A client that only publishes has no volatile entry and subscribes to    *)
(* nothing by itself, so nothing needs to be assumed of the identifiers.   *)
(***************************************************************************)
OnlyPublishes == Kind \in [Requests -> {"qos0", "qos1", "qos2"}]
OnlyMessages ==
    /\ resub = {}
    /\ \A id \in DOMAIN outgoing : ~outgoing[id].volatile
    /\ \A i \in DOMAIN spq : spq[i].req \in Requests

LEMMA PublishBegins ==
    ASSUME OnlyPublishes, OnlyMessages, NEW w, w.req \in Requests, Begin(w)
    PROVE  resub' = {} /\ \A id \in DOMAIN outgoing' : ~outgoing'[id].volatile
<1>1. KindOf(w.req) \in {"qos0", "qos1", "qos2"}
  BY Parameters DEF OnlyPublishes, KindOf
<1>2. PublishQoS0(w.req) \/ PublishStored(w.req)
  BY <1>1 DEF Begin
<1>3. CASE PublishQoS0(w.req)
  BY <1>3 DEF OnlyMessages, PublishQoS0, subVars
<1>4. CASE PublishStored(w.req)
  <2>1. PICK id \in Ids, v \in [req : {w.req}, volatile : {FALSE}, replay : {FALSE}] :
          outgoing' = With(outgoing, id, v)
    BY <1>4 DEF PublishStored
  <2>2. UNCHANGED resub
    BY <1>4 DEF PublishStored, subVars
  <2> QED BY <2>1, <2>2 DEF OnlyMessages, With
<1> QED BY <1>2, <1>3, <1>4

LEMMA OnlyMessagesKept ==
    ASSUME OnlyPublishes, TypeOK, OnlyMessages, [Next]_vars
    PROVE  OnlyMessages'
<1>1. ASSUME resub' = {}, \A id \in DOMAIN outgoing' : ~outgoing'[id].volatile,
             \/ spq' = spq
             \/ spq # <<>> /\ spq' = Tail(spq)
             \/ \E w \in Waiting : w.req \in Requests /\ spq' = Append(spq, w)
      PROVE  OnlyMessages'
  <2>1. spq \in Seq(Waiting)
    BY DEF TypeOK
  <2>2. CASE spq # <<>> /\ spq' = Tail(spq)
    <3>1. \A i \in DOMAIN spq' : \E j \in DOMAIN spq : spq'[i] = spq[j]
      BY <2>1, <2>2, TailHeld
    <3> QED BY <1>1, <3>1 DEF OnlyMessages
  <2>3. ASSUME NEW w \in Waiting, w.req \in Requests, spq' = Append(spq, w)
        PROVE  OnlyMessages'
    <3>1. \A i \in DOMAIN spq' : spq'[i] = w \/ \E j \in DOMAIN spq : spq'[i] = spq[j]
      BY <2>1, <2>3, AppendHeld
    <3> QED BY <1>1, <2>3, <3>1 DEF OnlyMessages
  <2>4. CASE spq' = spq
    BY <1>1, <2>4 DEF OnlyMessages
  <2> QED BY <1>1, <2>2, <2>3, <2>4
<1>2. ASSUME NEW r \in Requests, Call(r) PROVE OnlyMessages'
  <2> DEFINE new == IF Kind[r] = "sub" THEN Topics[r] \ resub ELSE Topics[r]
  <2>1. [req |-> r, topics |-> new] \in Waiting
    BY Parameters DEF Waiting, Owners
  <2>2. PICK w \in Waiting : w = [req |-> r, topics |-> new]
    BY <2>1
  <2>3. w.req \in Requests
    BY <2>2
  <2>4. BeginOrWait(w) \/ UNCHANGED <<outgoing, subVars, spq>>
    BY <1>2, <2>2 DEF Call
  <2>5. CASE BeginOrWait(w) /\ ~MustWait(w.req)
    BY <1>1, <2>3, <2>5, PublishBegins DEF BeginOrWait
  <2>6. CASE BeginOrWait(w) /\ MustWait(w.req)
    BY <1>1, <2>3, <2>6 DEF BeginOrWait, OnlyMessages, subVars
  <2>7. CASE UNCHANGED <<outgoing, subVars, spq>>
    BY <1>1, <2>7 DEF OnlyMessages, subVars
  <2> QED BY <2>4, <2>5, <2>6, <2>7
<1>3. ASSUME NEW id \in DOMAIN outgoing, NEW good, RemoveOutgoingAndStoreMessage(id, good)
      PROVE  OnlyMessages'
  BY <1>3, <1>1 DEF RemoveOutgoingAndStoreMessage, OnlyMessages, Without, subVars
<1>4. CASE Ack \/ \E id \in Ids : RemoveOutgoingMessage(id)
  <2>1. ASSUME NEW id \in Ids, NEW good \in BOOLEAN, HandlePubrec(id, good) PROVE OnlyMessages'
    BY <1>1, <1>3, <2>1 DEF HandlePubrec, Acknowledged, OnlyMessages, subVars
  <2> QED
    BY <1>3, <1>4, <2>1
    DEF Ack, HandlePuback, HandleSuback, HandleUnsuback, Acknowledged, RemoveOutgoingMessage,
        OnlyMessages
<1>5. CASE InvokeStoreProcessingQueue
  <2>1. CASE storeProcessing \/ spq = <<>> \/ CannotBegin(Head(spq).req)
    BY <1>1, <1>5, <2>1 DEF InvokeStoreProcessingQueue, OnlyMessages, subVars
  <2>2. CASE ~(storeProcessing \/ spq = <<>> \/ CannotBegin(Head(spq).req))
    <3>1. spq # <<>> /\ Begin(Head(spq)) /\ spq' = Tail(spq)
      BY <1>5, <2>2 DEF InvokeStoreProcessingQueue
    <3>2. Head(spq).req \in Requests
      <4>1. \E j \in DOMAIN spq : Head(spq) = spq[j]
        BY <3>1, TailHeld DEF TypeOK
      <4> QED BY <4>1 DEF OnlyMessages
    <3> QED BY <1>1, <3>1, <3>2, PublishBegins
  <2> QED BY <2>1, <2>2
<1>6. CASE Deliver
  <2>1. UNCHANGED <<outgoing, subVars, spq>>
    BY <1>6 DEF Deliver, Resubscribe, OnlyMessages
  <2> QED BY <1>1, <2>1 DEF OnlyMessages, subVars
<1>7. CASE StoreDeliver
  <2>1. \A id \in DOMAIN outgoing' : ~outgoing'[id].volatile
    BY <1>7 DEF StoreDeliver, Replay, With, OnlyMessages
  <2> QED BY <1>1, <1>7, <2>1 DEF StoreDeliver, OnlyMessages, subVars
<1>8. CASE Close
  <2>1. \A id \in DOMAIN outgoing' : ~outgoing'[id].volatile
    BY <1>8 DEF Close, TypeOK, InFlight, OnlyMessages
  <2> QED BY <1>1, <1>8, <2>1 DEF Close, OnlyMessages, subVars
<1>9. CASE FlushVolatile
  BY <1>1, <1>9 DEF FlushVolatile, OnlyMessages, subVars
<1>10. CASE \/ StreamEnd \/ FlushStoreProcessingQueue \/ Drain \/ KeepaliveTimeout
            \/ (\E present \in BOOLEAN : Connack(present)) \/ UNCHANGED vars
  <2>1. UNCHANGED <<outgoing, resub>> /\ (spq' = spq \/ (spq # <<>> /\ spq' = Tail(spq)))
    BY <1>10
    DEF StreamEnd, FlushStoreProcessingQueue, Drain, KeepaliveTimeout, Connack, vars, procVars,
        subVars
  <2> QED BY <1>1, <2>1 DEF OnlyMessages
<1> QED
  BY <1>2, <1>4, <1>5, <1>6, <1>7, <1>8, <1>9, <1>10 DEF Next, User, Run, Network

\* Such a client has only the entries of its messages, in every state.
LEMMA MessagesAlways ==
    ASSUME OnlyPublishes
    PROVE  Spec => []OnlyMessages /\ [][MessageIdsKept]_vars
<1>1. Init => OnlyMessages
  <2> SUFFICES ASSUME Init PROVE OnlyMessages
    OBVIOUS
  <2>1. spq = <<>> /\ DOMAIN <<>> = {} /\ DOMAIN outgoing = {} /\ resub = {}
    BY EmptySeq DEF Init, Empty
  <2> QED BY <2>1 DEF OnlyMessages
<1>2. TypeOK /\ OnlyMessages /\ [Next]_vars => OnlyMessages' /\ MessageIdsKept
  BY OnlyMessagesKept DEF OnlyMessages, MessageIdsKept
<1>3. TypeOK /\ OnlyMessages /\ [Next]_vars => OnlyMessages' /\ [MessageIdsKept]_vars
  BY <1>2
<1> QED BY <1>1, <1>3, TypeCorrect, PTL DEF Spec

\* Every message a publishing client stores has its entry, with either
\* provider: no ack of it is ignored, and it is not sent again for ever.
THEOREM PublishedInFlight ==
    ASSUME LateAcks = 0, OnlyPublishes
    PROVE  Spec => []StoredIsInFlight
BY MessagesAlways, StoredInFlight, PTL

-----------------------------------------------------------------------------
(***************************************************************************)
(* The default provider gives nextId, wherever it started and however      *)
(* often it wrapped, without looking at what is in flight.  These theorems *)
(* are about the behaviours in which what it gives is free: nothing in the *)
(* table, the store, a replay or the queue bears it (OnlyFreeGiven), as    *)
(* with a client that never has 65535 identifiers in use.  They say what   *)
(* still has to be right then: that the store keeps what is in flight and  *)
(* that no call is forgotten.  The invariant says what a packet that is    *)
(* stored, to be replayed or to be delivered finds in the table: the entry *)
(* of a message, of its own request, or none.                              *)
(***************************************************************************)
Bears(s, id) == \E i \in DOMAIN s : s[i].id = id
Borne(id) ==
    id \in DOMAIN outgoing \/ Bears(store, id) \/ Bears(rest, id) \/ Bears(queue, id)
OnlyFreeGiven == nextId' # nextId => ~Borne(nextId)

OfMessages(s, f) == \A i \in DOMAIN s : s[i].id \in DOMAIN f => ~f[s[i].id].volatile
PubrelsOwned(q, f) ==
    \A i \in DOMAIN q :
      q[i].cmd = "pubrel" /\ q[i].id \in DOMAIN f =>
        ~f[q[i].id].volatile /\ f[q[i].id].req \in {q[i].req, Nobody}
MessagesKept(f, s) ==
    \A id \in DOMAIN f :
      ~f[id].volatile /\ f[id].req # Nobody =>
        \E i \in DOMAIN s : s[i].id = id /\ s[i].req = f[id].req
TableInv ==
    /\ OfMessages(store, outgoing) /\ OfMessages(rest, outgoing)
    /\ PubrelsOwned(queue, outgoing)
    /\ MessagesKept(outgoing, store)

\* The identifiers a step leaves in the table keep their owners.
TableKept == TableInv' /\ IdsKept /\ MessageIdsKept

\* A step that takes entries, with their messages, and packets away, starts a
\* replay of the store, or queues a packet that is no pubrel.
LEMMA TableLess ==
    ASSUME TypeOK, TypeOK', TableInv,
           \A id \in DOMAIN outgoing' :
             /\ id \in DOMAIN outgoing
             /\ outgoing'[id].req = outgoing[id].req
             /\ outgoing'[id].volatile <=> outgoing[id].volatile,
           \A i \in DOMAIN store' : \E j \in DOMAIN store : store'[i] = store[j],
           \A j \in DOMAIN store : store[j].id \in DOMAIN outgoing' =>
             \E i \in DOMAIN store' : store'[i] = store[j],
           \A i \in DOMAIN rest' : \/ \E j \in DOMAIN rest : rest'[i] = rest[j]
                                   \/ \E j \in DOMAIN store : rest'[i] = store[j],
           \A i \in DOMAIN queue' : \/ \E j \in DOMAIN queue : queue'[i] = queue[j]
                                    \/ queue'[i].cmd # "pubrel"
    PROVE  TableKept
<1>3. OfMessages(store', outgoing')
  BY DEF TableInv, OfMessages
<1>4. OfMessages(rest', outgoing')
  BY DEF TableInv, OfMessages
<1>5. PubrelsOwned(queue', outgoing')
  BY DEF TableInv, PubrelsOwned
<1>6. MessagesKept(outgoing', store')
  BY DEF TableInv, MessagesKept
<1>7. IdsKept /\ MessageIdsKept
  BY DEF IdsKept, MessageIdsKept
<1> QED BY <1>3, <1>4, <1>5, <1>6, <1>7 DEF TableKept, TableInv

\* A request is given the next identifier.
LEMMA TableTakes ==
    ASSUME TypeOK, TypeOK', TableInv,
           ~Borne(nextId),
           NEW v, outgoing' = With(outgoing, nextId, v), UNCHANGED rest,
           \/ v.volatile /\ UNCHANGED store
           \/ \E p \in StoredPacket :
                /\ ~v.volatile /\ p.id = nextId /\ p.req = v.req
                /\ store' = Put(store, p),
           \A i \in DOMAIN queue' : \/ \E j \in DOMAIN queue : queue'[i] = queue[j]
                                    \/ queue'[i].cmd # "pubrel" /\ queue'[i].id = nextId
    PROVE  TableKept
<1>2. nextId \notin DOMAIN outgoing
  BY DEF Borne
<1>3. /\ \A id \in DOMAIN outgoing : outgoing'[id] = outgoing[id]
      /\ DOMAIN outgoing' = DOMAIN outgoing \cup {nextId} /\ outgoing'[nextId] = v
  BY <1>2 DEF With
<1>4. /\ \A i \in DOMAIN store : store[i].id # nextId
      /\ \A i \in DOMAIN rest : rest[i].id # nextId
      /\ \A i \in DOMAIN queue : queue[i].id # nextId
  BY DEF Borne, Bears
<1>5. /\ \A i \in DOMAIN store' :
           \/ \E j \in DOMAIN store : store'[i] = store[j]
           \/ store'[i].id = nextId /\ ~v.volatile
      /\ \A j \in DOMAIN store : \E i \in DOMAIN store' : store'[i] = store[j]
      /\ ~v.volatile => \E i \in DOMAIN store' : store'[i].id = nextId /\ store'[i].req = v.req
  <2>1. CASE v.volatile /\ UNCHANGED store
    BY <2>1
  <2>2. ASSUME NEW p \in StoredPacket, ~v.volatile, p.id = nextId, p.req = v.req,
               store' = Put(store, p)
        PROVE  /\ \A i \in DOMAIN store' :
                    \/ \E j \in DOMAIN store : store'[i] = store[j]
                    \/ store'[i].id = nextId /\ ~v.volatile
               /\ \A j \in DOMAIN store : \E i \in DOMAIN store' : store'[i] = store[j]
               /\ \E i \in DOMAIN store' : store'[i].id = nextId /\ store'[i].req = v.req
    <3>1. PICK t : t = store'
      OBVIOUS
    <3>2. store \in Seq(StoredPacket)
      BY DEF TypeOK
    <3>3. /\ \A i \in DOMAIN t : t[i] = p \/ (t[i].id # p.id /\ \E j \in DOMAIN store : t[i] = store[j])
          /\ \E i \in DOMAIN t : t[i] = p
          /\ \A j \in DOMAIN store : store[j].id # p.id => \E i \in DOMAIN t : t[i] = store[j]
      BY <2>2, <3>1, <3>2, PutHeld
    <3> QED BY <1>4, <2>2, <3>1, <3>3
  <2> QED BY <2>1, <2>2
<1>7. OfMessages(store', outgoing')
  BY <1>3, <1>4, <1>5 DEF TableInv, OfMessages
<1>8. OfMessages(rest', outgoing')
  BY <1>3, <1>4 DEF TableInv, OfMessages
<1>9. PubrelsOwned(queue', outgoing')
  BY <1>3, <1>4 DEF TableInv, PubrelsOwned
<1>10. MessagesKept(outgoing', store')
  BY <1>2, <1>3, <1>5 DEF TableInv, MessagesKept
<1>11. IdsKept /\ MessageIdsKept
  BY <1>2, <1>3 DEF IdsKept, MessageIdsKept
<1> QED BY <1>7, <1>8, <1>9, <1>10, <1>11 DEF TableKept, TableInv

\* A step that changes none of it, and one that only queues a packet.
LEMMA TableSame ==
    ASSUME TypeOK, TypeOK', TableInv,
           UNCHANGED <<outgoing, store, queue>>,
           \A i \in DOMAIN rest' : \/ \E j \in DOMAIN rest : rest'[i] = rest[j]
                                   \/ \E j \in DOMAIN store : rest'[i] = store[j]
    PROVE  TableKept
BY TableLess

LEMMA QueueTable ==
    ASSUME TypeOK, TypeOK', TableInv,
           UNCHANGED <<outgoing, store, rest>>,
           NEW p \in Packet, p.cmd # "pubrel",
           queue' = queue \/ queue' = Append(queue, p)
    PROVE  TableKept
<1>1. queue \in Seq(Packet)
  BY DEF TypeOK
<1>2. \A i \in DOMAIN queue' : \/ \E j \in DOMAIN queue : queue'[i] = queue[j]
                               \/ queue'[i].cmd # "pubrel"
  <2>1. CASE queue' = queue
    BY <2>1
  <2>2. CASE queue' = Append(queue, p)
    <3>1. \A i \in DOMAIN queue' : queue'[i] = p \/ \E j \in DOMAIN queue : queue'[i] = queue[j]
      BY <1>1, <2>2, AppendHeld
    <3> QED BY <3>1
  <2> QED BY <2>1, <2>2
<1> QED BY <1>2, TableLess

\* The identifier that is allocated is nextId, and nextId moves on: with one
\* identifier it would not (MaxId > 1).
LEMMA NextIsTaken ==
    ASSUME ~UniqueIds, MaxId > 1, TypeOK, OnlyFreeGiven, NEW id \in Ids, Allocates(id)
    PROVE  id = nextId /\ ~Borne(nextId)
<1>1. id = nextId /\ nextId' = IF nextId = MaxId THEN 1 ELSE nextId + 1
  BY DEF Allocates
<1>2. nextId \in Int /\ nextId' # nextId
  BY <1>1, Parameters DEF TypeOK, Ids
<1> QED BY <1>1, <1>2 DEF OnlyFreeGiven

LEMMA BeginTable ==
    ASSUME ~UniqueIds, MaxId > 1, TypeOK, TypeOK', TableInv, OnlyFreeGiven,
           UNCHANGED rest,
           NEW w \in Waiting, Begin(w)
    PROVE  TableKept
<1> DEFINE r == w.req
<1>1. r \in Owners
  BY DEF Waiting
<1>2. CASE KindOf(r) = "qos0" /\ PublishQoS0(r)
  <2>1. PICK p : p = [cmd |-> "publish", id |-> 0, req |-> r]
    OBVIOUS
  <2>2. p \in Packet /\ p.cmd # "pubrel"
    BY <1>1, <2>1 DEF Packet, Ids
  <2>3. (queue' = queue \/ queue' = Append(queue, p)) /\ UNCHANGED <<store, outgoing>>
    BY <1>2, <2>1 DEF PublishQoS0
  <2> QED BY <2>2, <2>3, QueueTable
<1>3. CASE PublishStored(r)
  <2>1. PICK id \in Ids :
          /\ Allocates(id)
          /\ outgoing' = With(outgoing, id, [req |-> r, volatile |-> FALSE, replay |-> FALSE])
          /\ store' = Put(store, [cmd |-> "publish", id |-> id, req |-> r])
          /\ UNCHANGED queue
    BY <1>3 DEF PublishStored
  <2>2. id = nextId /\ ~Borne(nextId)
    BY <2>1, NextIsTaken
  <2>3. PICK p \in StoredPacket : p = [cmd |-> "publish", id |-> id, req |-> r]
    BY <1>1, <2>1, Parameters DEF StoredPacket, Packet, Ids
  <2>4. PICK v : v = [req |-> r, volatile |-> FALSE, replay |-> FALSE]
    OBVIOUS
  <2>5. ~v.volatile /\ p.id = nextId /\ p.req = v.req
    BY <2>2, <2>3, <2>4
  <2> QED BY <2>1, <2>2, <2>3, <2>4, <2>5, TableTakes
<1>4. ASSUME NEW cmd \in {"subscribe", "unsubscribe"}, NEW id \in Ids, Allocates(id),
             SendVolatile(cmd, id, r)
      PROVE  TableKept
  <2>1. PICK p : p = [cmd |-> cmd, id |-> id, req |-> r]
    OBVIOUS
  <2>2. id = nextId /\ ~Borne(nextId)
    BY <1>4, NextIsTaken
  <2>3. p \in Packet /\ p.cmd # "pubrel" /\ p.id = nextId
    BY <1>1, <2>1, <2>2, Parameters DEF Packet, Ids
  <2>4. PICK v : v = [req |-> r, volatile |-> TRUE, replay |-> FALSE]
    OBVIOUS
  <2>5. /\ queue' = queue \/ queue' = Append(queue, p)
        /\ outgoing' = With(outgoing, nextId, v) /\ v.volatile
        /\ UNCHANGED store
    BY <1>4, <2>1, <2>2, <2>4 DEF SendVolatile
  <2>6. queue \in Seq(Packet)
    BY DEF TypeOK
  <2>7. \A i \in DOMAIN queue' : \/ \E j \in DOMAIN queue : queue'[i] = queue[j]
                                 \/ queue'[i].cmd # "pubrel" /\ queue'[i].id = nextId
    <3>1. CASE queue' = queue
      BY <3>1
    <3>2. CASE queue' = Append(queue, p)
      <4>1. \A i \in DOMAIN queue' : queue'[i] = p \/ \E j \in DOMAIN queue : queue'[i] = queue[j]
        BY <2>3, <2>6, <3>2, AppendHeld
      <4> QED BY <2>3, <4>1
    <3> QED BY <2>5, <3>1, <3>2
  <2> QED BY <2>2, <2>5, <2>7, TableTakes
<1>5. CASE SubscribeProc(w)
  BY <1>4, <1>5 DEF SubscribeProc
<1>6. CASE UnsubscribeProc(w)
  BY <1>4, <1>6 DEF UnsubscribeProc
<1> QED BY <1>2, <1>3, <1>5, <1>6 DEF Begin

LEMMA BeginOrWaitTable ==
    ASSUME ~UniqueIds, MaxId > 1, TypeOK, TypeOK', TableInv, OnlyFreeGiven,
           UNCHANGED rest,
           NEW w \in Waiting, BeginOrWait(w)
    PROVE  TableKept
<1>1. CASE MustWait(w.req)
  BY <1>1, TableSame DEF BeginOrWait
<1>2. CASE ~MustWait(w.req)
  BY <1>2, BeginTable DEF BeginOrWait
<1> QED BY <1>1, <1>2

\* An entry leaves the table, and its packet the store.
LEMMA RemoveTable ==
    ASSUME TypeOK, TypeOK', TableInv,
           NEW id \in DOMAIN outgoing,
           outgoing' = Without(outgoing, id), store' = store \/ store' = Del(store, id),
           UNCHANGED <<queue, rest>>
    PROVE  TableKept
<1>1. PICK t : t = store'
  OBVIOUS
<1>2. /\ \A i \in DOMAIN t : \E j \in DOMAIN store : t[i] = store[j]
      /\ \A j \in DOMAIN store : store[j].id # id => \E i \in DOMAIN t : t[i] = store[j]
  BY <1>1, DelHeld DEF TypeOK
<1>3. \A i \in DOMAIN outgoing' : i \in DOMAIN outgoing /\ i # id /\ outgoing'[i] = outgoing[i]
  BY DEF Without
<1> QED BY <1>1, <1>2, <1>3, TableLess

\* The pubrel of a message takes its place in the store.
LEMMA PubrelTable ==
    ASSUME TypeOK, TypeOK', TableInv,
           UNCHANGED <<outgoing, rest>>,
           NEW p \in StoredPacket, store' = Put(store, p),
           p.id \in DOMAIN outgoing =>
             ~outgoing[p.id].volatile /\ outgoing[p.id].req \in {p.req, Nobody},
           \A i \in DOMAIN queue' : \E j \in DOMAIN queue : queue'[i] = queue[j]
    PROVE  TableKept
<1>1. PICK t : t = store'
  OBVIOUS
<1>2. /\ \A i \in DOMAIN t : t[i] = p \/ (t[i].id # p.id /\ \E j \in DOMAIN store : t[i] = store[j])
      /\ \E i \in DOMAIN t : t[i] = p
      /\ \A j \in DOMAIN store : store[j].id # p.id => \E i \in DOMAIN t : t[i] = store[j]
  <2>1. store \in Seq(StoredPacket)
    BY DEF TypeOK
  <2> QED BY <1>1, <2>1, PutHeld
<1>5. OfMessages(t, outgoing)
  BY <1>2 DEF TableInv, OfMessages
<1>6. PubrelsOwned(queue', outgoing)
  BY DEF TableInv, PubrelsOwned
<1>7. MessagesKept(outgoing, t)
  <2> SUFFICES ASSUME NEW id \in DOMAIN outgoing, ~outgoing[id].volatile, outgoing[id].req # Nobody
               PROVE  \E i \in DOMAIN t : t[i].id = id /\ t[i].req = outgoing[id].req
    BY DEF MessagesKept
  <2>1. CASE id = p.id
    BY <1>2, <2>1
  <2>2. CASE id # p.id
    BY <1>2, <2>2 DEF TableInv, MessagesKept
  <2> QED BY <2>1, <2>2
<1>8. IdsKept /\ MessageIdsKept
  BY DEF IdsKept, MessageIdsKept
<1> QED BY <1>1, <1>5, <1>6, <1>7, <1>8 DEF TableKept, TableInv

\* The ack of a message in flight, handled online or after the close.
LEMMA AckTable ==
    ASSUME TypeOK, TypeOK', TableInv,
           Ack \/ \E id \in Ids : RemoveOutgoingMessage(id)
    PROVE  TableKept
<1>1. ASSUME NEW id \in DOMAIN outgoing, NEW good, RemoveOutgoingAndStoreMessage(id, good)
      PROVE  TableKept
  BY <1>1, RemoveTable DEF RemoveOutgoingAndStoreMessage, replayVars
<1>2. ASSUME NEW id \in DOMAIN outgoing, NEW good, FinishVolatile(id, good)
      PROVE  TableKept
  BY <1>2, RemoveTable DEF FinishVolatile, replayVars
<1>3. ASSUME NEW id \in Ids, NEW good \in BOOLEAN, HandlePubrec(id, good)
      PROVE  TableKept
  <2>1. PICK p : p = [cmd |-> "pubrel", id |-> id, req |-> outgoing[id].req]
    OBVIOUS
  <2>2. id \in DOMAIN outgoing /\ ~outgoing[id].volatile
    BY <1>3 DEF HandlePubrec, Acknowledged
  <2>3. /\ p \in StoredPacket /\ p \in Packet
        /\ p.id = id /\ p.req = outgoing[id].req /\ p.cmd = "pubrel"
    BY <2>1, <2>2, InFlightType, Parameters DEF StoredPacket, Packet, Ids
  <2>5. CASE good /\ connected
    <3>1. store' = Put(store, p) /\ UNCHANGED <<queue, outgoing, rest>>
      BY <1>3, <2>1, <2>5 DEF HandlePubrec, replayVars
    <3> QED BY <2>2, <2>3, <3>1, PubrelTable
  <2>6. CASE good /\ ~connected
    <3>1. queue' = Append(queue, p) /\ UNCHANGED <<store, outgoing, rest>>
      BY <1>3, <2>1, <2>6 DEF HandlePubrec, replayVars
    <3>2. queue \in Seq(Packet)
      BY DEF TypeOK
    <3>3. \A i \in DOMAIN queue' : queue'[i] = p \/ \E j \in DOMAIN queue : queue'[i] = queue[j]
      BY <2>3, <3>1, <3>2, AppendHeld
    <3>7. PubrelsOwned(queue', outgoing)
      BY <2>2, <2>3, <3>3 DEF TableInv, PubrelsOwned
    <3>8. IdsKept /\ MessageIdsKept
      BY <3>1 DEF IdsKept, MessageIdsKept
    <3> QED BY <3>1, <3>7, <3>8 DEF TableKept, TableInv
  <2>7. CASE ~good
    BY <1>1, <1>3, <2>2, <2>7 DEF HandlePubrec
  <2> QED BY <2>5, <2>6, <2>7
<1> QED
  BY <1>1, <1>2, <1>3
  DEF Ack, HandlePuback, HandleSuback, HandleUnsuback, Acknowledged, RemoveOutgoingMessage

\* The entry of a replayed packet keeps its request, or is the client's own.
LEMMA StoreDeliverTable ==
    ASSUME TypeOK, TypeOK', TableInv,
           StoreDeliver
    PROVE  TableKept
<1>0. rest \in Seq(StoredPacket)
  BY DEF TypeOK
<1>1. CASE UNCHANGED outgoing
  <2>1. UNCHANGED <<store, queue>> /\ (rest' = rest \/ (rest # <<>> /\ rest' = Tail(rest)))
    BY DEF StoreDeliver
  <2>2. rest # <<>> /\ rest' = Tail(rest) =>
          \A i \in DOMAIN rest' : \E j \in DOMAIN rest : rest'[i] = rest[j]
    BY <1>0, TailHeld
  <2> QED BY <1>1, <2>1, <2>2, TableSame
<1>2. CASE rest # <<>> /\ rest' = Tail(rest) /\ Replay(Head(rest))
  <2>1. PICK t : t = rest'
    OBVIOUS
  <2>2. PICK k \in DOMAIN rest : Head(rest) = rest[k]
    BY <1>0, <1>2, TailHeld
  <2>3. \A i \in DOMAIN t : \E j \in DOMAIN rest : t[i] = rest[j]
    BY <1>0, <1>2, <2>1, TailHeld
  <2>4. PICK id : id = rest[k].id
    OBVIOUS
  <2>5. id \in DOMAIN outgoing => ~outgoing[id].volatile
    BY <2>4 DEF TableInv, OfMessages
  <2>6. PICK v : v = [req |-> IF id \in DOMAIN outgoing THEN outgoing[id].req ELSE Nobody,
                      volatile |-> FALSE, replay |-> TRUE]
    OBVIOUS
  <2>7. /\ v.req = IF id \in DOMAIN outgoing THEN outgoing[id].req ELSE Nobody
        /\ ~v.volatile
    BY <2>6
  <2>8. outgoing' = With(outgoing, id, v) /\ UNCHANGED <<store, queue, nextId>>
    BY <1>2, <2>2, <2>4, <2>6 DEF StoreDeliver, Replay
  <2>9. /\ DOMAIN outgoing' = DOMAIN outgoing \cup {id} /\ outgoing'[id] = v
        /\ \A i \in DOMAIN outgoing : i # id => outgoing'[i] = outgoing[i]
    BY <2>8 DEF With
  <2>11. OfMessages(store, outgoing')
    BY <2>7, <2>9 DEF TableInv, OfMessages
  <2>12. OfMessages(t, outgoing')
    BY <2>3, <2>7, <2>9 DEF TableInv, OfMessages
  <2>13. PubrelsOwned(queue, outgoing')
    BY <2>7, <2>9 DEF TableInv, PubrelsOwned
  <2>14. MessagesKept(outgoing', store)
    BY <2>5, <2>7, <2>9 DEF TableInv, MessagesKept
  <2>15. IdsKept /\ MessageIdsKept
    BY <2>7, <2>9 DEF IdsKept, MessageIdsKept
  <2> QED BY <2>1, <2>8, <2>11, <2>12, <2>13, <2>14, <2>15 DEF TableKept, TableInv
<1> QED BY <1>1, <1>2 DEF StoreDeliver

LEMMA DeliverTable ==
    ASSUME ~UniqueIds, MaxId > 1, TypeOK, TypeOK', TableInv, OnlyFreeGiven,
           Deliver
    PROVE  TableKept
<1>1. UNCHANGED rest
  BY DEF Deliver, replayVars
<1>2. CASE queue = <<>>
  <2>1. PICK w \in Waiting : w = [req |-> Nobody, topics |-> resub]
    BY DEF Waiting, Owners, TypeOK
  <2>2. BeginOrWait(w) \/ UNCHANGED <<outgoing, store, queue>>
    BY <1>2, <2>1 DEF Deliver, Resubscribe
  <2> QED BY <1>1, <2>2, BeginOrWaitTable, TableSame
<1>3. CASE queue # <<>>
  <2>1. queue \in Seq(Packet)
    BY DEF TypeOK
  <2>2. PICK p \in Packet : p = Head(queue)
    BY <1>3, <2>1, HeadTailProperties
  <2>3. PICK k \in DOMAIN queue : queue[k] = p
    BY <1>3, <2>1, <2>2, TailHeld
  <2>4. /\ queue' = Tail(queue) /\ UNCHANGED outgoing
        /\ store' = store \/ (p.cmd = "pubrel" /\ store' = Put(store, p))
    BY <1>3, <2>2 DEF Deliver, SendQueued
  <2>5. \A i \in DOMAIN queue' : \E j \in DOMAIN queue : queue'[i] = queue[j]
    BY <1>3, <2>1, <2>4, TailHeld
  <2>6. CASE UNCHANGED store
    BY <1>1, <2>4, <2>5, <2>6, TableLess
  <2>7. CASE p.cmd = "pubrel" /\ store' = Put(store, p)
    <3>1. p \in StoredPacket
      BY <2>2, <2>7 DEF StoredPacket, Packet
    <3>3. p.id \in DOMAIN outgoing =>
            ~outgoing[p.id].volatile /\ outgoing[p.id].req \in {p.req, Nobody}
      BY <2>3, <2>7 DEF TableInv, PubrelsOwned
    <3> QED BY <1>1, <2>4, <2>5, <2>7, <3>1, <3>3, PubrelTable
  <2> QED BY <2>4, <2>6, <2>7
<1> QED BY <1>2, <1>3

LEMMA TableStep ==
    ASSUME ~UniqueIds, MaxId > 1, TypeOK, TypeOK', TableInv, OnlyFreeGiven,
           [Next]_vars
    PROVE  TableKept
<1>1. ASSUME NEW r \in Requests, Call(r) PROVE TableKept
  <2> DEFINE new == IF Kind[r] = "sub" THEN Topics[r] \ resub ELSE Topics[r]
  <2>1. [req |-> r, topics |-> new] \in Waiting
    BY Parameters DEF Waiting, Owners
  <2>2. PICK w \in Waiting : w = [req |-> r, topics |-> new]
    BY <2>1
  <2>3. UNCHANGED rest /\ (BeginOrWait(w) \/ UNCHANGED <<outgoing, store, queue>>)
    BY <1>1, <2>2 DEF Call, replayVars
  <2> QED BY <2>3, BeginOrWaitTable, TableSame
<1>2. CASE Ack \/ \E id \in Ids : RemoveOutgoingMessage(id)
  BY <1>2, AckTable
<1>3. CASE StoreDeliver
  BY <1>3, StoreDeliverTable
<1>4. CASE InvokeStoreProcessingQueue
  <2>1. spq # <<>> => Head(spq) \in Waiting
    BY HeadTailProperties DEF TypeOK
  <2>2. UNCHANGED rest
        /\ (UNCHANGED <<outgoing, store, queue>> \/ (spq # <<>> /\ Begin(Head(spq))))
    BY <1>4 DEF InvokeStoreProcessingQueue, replayVars
  <2> QED BY <2>1, <2>2, BeginTable, TableSame
<1>5. CASE Deliver
  BY <1>5, DeliverTable
<1>6. CASE Close
  <2>1. \A id \in DOMAIN outgoing' :
          /\ id \in DOMAIN outgoing
          /\ outgoing'[id].req = outgoing[id].req
          /\ outgoing'[id].volatile <=> outgoing[id].volatile
    BY <1>6 DEF Close, TypeOK, InFlight
  <2>2. UNCHANGED <<store, queue, rest>>
    BY <1>6 DEF Close, replayVars
  <2> QED BY <2>1, <2>2, TableLess
<1>7. CASE FlushVolatile
  <2>1. UNCHANGED <<store, queue, rest>>
    BY <1>7 DEF FlushVolatile, replayVars
  <2>2. ASSUME NEW id \in DOMAIN outgoing, outgoing' = Without(outgoing, id)
        PROVE  TableKept
    BY <2>1, <2>2, RemoveTable
  <2>3. CASE UNCHANGED outgoing
    BY <2>1, <2>3, TableSame
  <2> QED BY <1>7, <2>2, <2>3 DEF FlushVolatile
<1>8. CASE \/ StreamEnd \/ FlushStoreProcessingQueue \/ Drain \/ KeepaliveTimeout
           \/ (\E present \in BOOLEAN : Connack(present)) \/ UNCHANGED vars
  <2>1. UNCHANGED <<outgoing, store, queue>> /\ (rest' = rest \/ rest' = store \/ rest' = <<>>)
    BY <1>8
    DEF StreamEnd, FlushStoreProcessingQueue, Drain, KeepaliveTimeout, Connack, vars, procVars,
        replayVars
  <2>2. DOMAIN <<>> = {}
    BY EmptySeq
  <2> QED BY <2>1, <2>2, TableSame
<1> QED
  BY <1>1, <1>2, <1>3, <1>4, <1>5, <1>6, <1>7, <1>8 DEF Next, User, Run, Network

\* In those behaviours the invariant holds, for every order of calls, acks
\* (late ones too), removals, losses and replays.
LEMMA TableAlways ==
    ASSUME ~UniqueIds, MaxId > 1
    PROVE  Spec /\ [][OnlyFreeGiven]_vars =>
             [](TypeOK /\ TableInv) /\ [][IdsKept /\ MessageIdsKept]_vars
<1>1. Init => TableInv
  <2> SUFFICES ASSUME Init PROVE TableInv
    OBVIOUS
  <2>1. /\ store = <<>> /\ rest = <<>> /\ queue = <<>> /\ DOMAIN <<>> = {}
        /\ DOMAIN outgoing = {}
    BY EmptySeq DEF Init, Empty
  <2> QED BY <2>1 DEF TableInv, OfMessages, PubrelsOwned, MessagesKept
<1>2. TypeOK /\ TypeOK' /\ TableInv /\ [OnlyFreeGiven]_vars /\ [Next]_vars => TableKept
  <2>1. UNCHANGED vars => OnlyFreeGiven
    BY DEF vars, procVars, idVars, OnlyFreeGiven
  <2> QED BY <2>1, TableStep
<1>3. TypeOK /\ TypeOK' /\ TableInv /\ [OnlyFreeGiven]_vars /\ [Next]_vars =>
        TableInv' /\ [IdsKept /\ MessageIdsKept]_vars
  BY <1>2 DEF TableKept
<1> QED BY <1>1, <1>3, TypeCorrect, PTL DEF Spec

\* An identifier that is given is then nobody's, and a replay, a queued packet
\* or a late ack puts none back under another request.
LEMMA FreeIdsKept ==
    ASSUME ~UniqueIds, MaxId > 1
    PROVE  Spec /\ [][OnlyFreeGiven]_vars => IdIsNotStolen
<1>1. [IdsKept /\ MessageIdsKept]_vars =>
        [\A id \in DOMAIN outgoing \cap DOMAIN outgoing' :
           outgoing'[id].req = outgoing[id].req]_vars
  BY DEF IdsKept
<1> QED BY <1>1, TableAlways, PTL DEF IdIsNotStolen

\* A published message whose callback is pending is in the store, and so
\* survives the loss of the connection.
THEOREM InFlightStored ==
    ASSUME ~UniqueIds, MaxId > 1
    PROVE  Spec /\ [][OnlyFreeGiven]_vars => []InFlightIsStored
<1>1. TableInv => InFlightIsStored
  BY DEF TableInv, MessagesKept, InFlightIsStored
<1> QED BY <1>1, TableAlways, PTL

\* No call that needs an answer is forgotten: it waits or is in flight until
\* its callback has run.
THEOREM NextIdPendingHeld ==
    ASSUME ~UniqueIds, MaxId > 1
    PROVE  Spec /\ [][OnlyFreeGiven]_vars => []PendingIsHeld
BY FreeIdsKept, PendingHeld, PTL

\* When no ack is handled after its connection has closed, every stored
\* message has its entry, beside any subscribe and unsubscribe.
THEOREM NextIdStoredInFlight ==
    ASSUME ~UniqueIds, MaxId > 1, LateAcks = 0
    PROVE  Spec /\ [][OnlyFreeGiven]_vars => []StoredIsInFlight
<1>1. [IdsKept /\ MessageIdsKept]_vars => [MessageIdsKept]_vars
  OBVIOUS
<1> QED BY <1>1, TableAlways, StoredInFlight, PTL
=============================================================================
