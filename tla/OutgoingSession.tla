-------------------------- MODULE OutgoingSession --------------------------
(***************************************************************************)
(* The outgoing half of an MqttClient (src/src/lib/client.ts): everything  *)
(* between a call of publish, subscribe or unsubscribe and its callback.   *)
(*                                                                         *)
(* JavaScript runs one task to completion.  A run that loops (replay of    *)
(* the store, flush of a queue, delivery of the offline queue) is a chain  *)
(* of steps here, one per iteration; "task" names the loop that is running *)
(* and no other action is enabled until it is "idle" again.                *)
(*                                                                         *)
(* The broker is unconstrained: any acknowledgement of the right type may  *)
(* arrive for any identifier in flight, whether or not it was sent.        *)
(* PublishFlow closes the system with a broker and a network.              *)
(*                                                                         *)
(* User callbacks do not call back into the client in the same run.        *)
(***************************************************************************)
EXTENDS Integers, SequencesExt

CONSTANTS
    Requests,      \* the calls the user makes, each at most once
    Kind,          \* [Requests -> Kinds]
    Topics,        \* [Requests -> SUBSET TopicFilter]; what a (un)subscribe names
    TopicFilter,   \* the topic filters in use
    Nobody,        \* owner of a packet whose callback is the client's own noop
    MaxId,         \* the largest message identifier (65535)
    UniqueIds,     \* TRUE: UniqueMessageIdProvider, FALSE: DefaultMessageIdProvider
    QueueQoSZero,  \* options.queueQoSZero
    Backpressure,  \* TRUE: the stream's write() may ask to wait for 'drain'
    LateAcks,      \* bound: an ack parsed before its stream closed is handled
                   \* offline only while the queue is shorter than this (0: never)
    MaxDrops       \* bound: how many times a stream closes

Kinds == {"qos0", "qos1", "qos2", "sub", "unsub"}
Ids == 1..MaxId
Owners == Requests \cup {Nobody}
KindOf(r) == IF r = Nobody THEN "internal" ELSE Kind[r]

ASSUME Parameters ==
    /\ Nobody \notin Requests
    /\ Kind \in [Requests -> Kinds]
    /\ Topics \in [Requests -> SUBSET TopicFilter]
    /\ MaxId \in Nat \ {0}
    /\ MaxDrops \in Nat /\ LateAcks \in Nat
    /\ {UniqueIds, QueueQoSZero, Backpressure} \subseteq BOOLEAN

VARIABLES
    connected,        \* client.connected
    reconnectTimer,   \* client.reconnectTimer # null
    connackPacket,    \* client.connackPacket, as far as its sessionPresent
    firstConnection,  \* client._firstConnection
    outgoing,         \* client.outgoing: id -> who waits for its ack
    store,            \* client.outgoingStore, in the Map's insertion order
    queue,            \* client.queue: packets kept while offline
    spq,              \* client._storeProcessingQueue: calls not yet begun
    used,             \* identifiers taken, for UniqueMessageIdProvider
    nextId,           \* DefaultMessageIdProvider.nextId
    stream,           \* the store's read stream of this connection
    rest,             \* what it has left to read
    storeProcessing,  \* client._storeProcessing
    resub,            \* the keys of client._resubscribeTopics
    topicsOf,         \* client.messageIdToTopic
    parked,           \* callbacks waiting for the stream's 'drain'
    task,             \* the loop that is running
    written,          \* the packet the last step put on the stream
    issued,           \* history: the calls made, in order
    called,           \* history: how often each request's callback ran
    succeeded,        \* history: the requests whose callback got no error
    drops             \* how many streams have closed

connVars   == <<connected, reconnectTimer, connackPacket, firstConnection, drops>>
idVars     == <<used, nextId>>
replayVars == <<stream, rest, storeProcessing>>
subVars    == <<resub, topicsOf>>
cbVars     == <<called, succeeded>>
procVars   == <<outgoing, store, queue, idVars, subVars, parked, cbVars, written>>
vars       == <<connVars, procVars, replayVars, spq, task, issued>>

(***************************************************************************)
(* The data.                                                               *)
(***************************************************************************)
\* Only a publish of QoS 0 has no identifier.
Packet == {p \in [cmd : {"publish", "pubrel", "subscribe", "unsubscribe"},
                  id : Ids \cup {0}, req : Owners] : p.cmd # "publish" => p.id # 0}
StoredPacket == {p \in Packet : p.cmd \in {"publish", "pubrel"} /\ p.id # 0}
InFlight == [req : Owners, volatile : BOOLEAN, replay : BOOLEAN]
Waiting == [req : Owners, topics : SUBSET TopicFilter]
Parked == [req : Owners, deliver : BOOLEAN]
Tasks == {"idle", "storeDeliver", "invokeOne", "invokeAll", "deliver",
          "flushVolatile", "flushQueue"}

TypeOK ==
    /\ connected \in BOOLEAN /\ reconnectTimer \in BOOLEAN
    /\ connackPacket \in {"none", "new", "present"} /\ firstConnection \in BOOLEAN
    /\ DOMAIN outgoing \subseteq Ids /\ outgoing \in [DOMAIN outgoing -> InFlight]
    /\ store \in Seq(StoredPacket)
    /\ queue \in Seq(Packet)
    /\ spq \in Seq(Waiting)
    /\ used \subseteq Ids /\ nextId \in Ids
    /\ stream \in {"none", "open", "ended", "destroyed"}
    /\ rest \in Seq(StoredPacket)
    /\ storeProcessing \in BOOLEAN
    /\ resub \subseteq TopicFilter
    /\ DOMAIN topicsOf \subseteq Ids
    /\ topicsOf \in [DOMAIN topicsOf -> SUBSET TopicFilter]
    /\ parked \in Seq(Parked)
    /\ task \in Tasks
    /\ written \in Seq(Packet)
    /\ issued \in Seq(Requests)
    /\ called \in [Requests -> Nat]
    /\ succeeded \subseteq Requests
    /\ drops \in 0..MaxDrops

Empty == [j \in {} |-> Nobody]

Init ==
    /\ connected = FALSE /\ reconnectTimer = FALSE
    /\ connackPacket = "none" /\ firstConnection = TRUE /\ drops = 0
    /\ outgoing = Empty /\ store = <<>> /\ queue = <<>> /\ spq = <<>>
    /\ used = {} /\ nextId \in Ids
    /\ stream = "none" /\ rest = <<>> /\ storeProcessing = FALSE
    /\ resub = {} /\ topicsOf = Empty
    /\ parked = <<>> /\ task = "idle" /\ written = <<>>
    /\ issued = <<>> /\ called = [r \in Requests |-> 0] /\ succeeded = {}

-----------------------------------------------------------------------------
(* Partial functions and the store. *)
\* Mutant: the entry is not deleted.
WithoutKept(f, id) == f
Without(f, id) == [j \in DOMAIN f \ {id} |-> f[j]]
With(f, id, v) == [j \in DOMAIN f \cup {id} |-> IF j = id THEN v ELSE f[j]]

\* Mutants: del forgets the packet; put does not replace the packet with the
\* same identifier; a pubrec takes the message out of the store.
DelKept(s, id) == s
PutAppends(s, p) == Append(s, p)
PutForgets(s, p) == IF p.cmd = "pubrel" THEN SelectSeq(s, LAMBDA q : q.id # p.id)
                    ELSE Append(s, p)

\* Map.set keeps the position of a key that is present.
Put(s, p) ==
    IF \E i \in DOMAIN s : s[i].id = p.id
    THEN [i \in DOMAIN s |-> IF s[i].id = p.id THEN p ELSE s[i]]
    ELSE Append(s, p)

Del(s, id) ==
    IF \E i \in DOMAIN s : s[i].id = id
    THEN RemoveAt(s, CHOOSE i \in DOMAIN s : s[i].id = id)
    ELSE s

(* Callbacks. *)
CallBackOnSuccess(r, good) ==   \* Mutant: errors are not reported.
    /\ called' = IF r = Nobody \/ ~good THEN called ELSE [called EXCEPT ![r] = @ + 1]
    /\ succeeded' = IF r # Nobody /\ good THEN succeeded \cup {r} ELSE succeeded
CallBack(r, good) ==
    /\ called' = IF r = Nobody THEN called ELSE [called EXCEPT ![r] = @ + 1]
    /\ succeeded' = IF r # Nobody /\ good THEN succeeded \cup {r} ELSE succeeded

(* Message identifiers. *)
Exhausted == UniqueIds /\ Ids \subseteq used
AllocatesLast(id) ==   \* Mutant: the identifier is not taken.
    /\ UNCHANGED idVars
    /\ IF UniqueIds THEN id \in Ids \ used /\ \A j \in Ids \ used : id <= j
       ELSE id = nextId
Allocates(id) ==
    IF UniqueIds
    THEN /\ id \in Ids \ used /\ \A j \in Ids \ used : id <= j
         /\ used' = used \cup {id} /\ UNCHANGED nextId
    ELSE /\ id = nextId /\ UNCHANGED used
         /\ nextId' = IF nextId = MaxId THEN 1 ELSE nextId + 1
Registered(id) == UniqueIds /\ id \in used
RegisterAny(id) == used' = IF UniqueIds THEN used \cup {id} ELSE used  \* Mutant: 0 too.
Register(id) == used' = IF UniqueIds /\ id # 0 THEN used \cup {id} ELSE used

(* The stream: destroyed but not yet closed, it accepts nothing. *)
Destroyed == connected /\ reconnectTimer
WriteResults == IF Destroyed THEN {FALSE} ELSE {TRUE, ~Backpressure}
Write(p) == written' = IF Destroyed THEN <<>> ELSE <<p>>
WriteNothing == written' = <<>>

\* A step that starts a new run: a user call, or (Turn) an I/O or timer event;
\* the 'end' of the store's stream is emitted before any of the latter.
Idle == task = "idle"
Turn == Idle /\ stream # "ended"

-----------------------------------------------------------------------------
(***************************************************************************)
(* publishProc, subscribeProc and unsubscribeProc: each begins a request   *)
(* and constrains all of procVars.                                         *)
(***************************************************************************)
CannotBegin(r) == KindOf(r) # "qos0" /\ Exhausted

PublishQoS0(r) ==
    /\ UNCHANGED <<outgoing, store, idVars, subVars>>
    /\ IF connected
       THEN /\ Write([cmd |-> "publish", id |-> 0, req |-> r])
            /\ UNCHANGED queue
            /\ \E result \in WriteResults :
                 IF result
                 THEN CallBack(r, TRUE) /\ UNCHANGED parked
                 ELSE /\ parked' = Append(parked, [req |-> r, deliver |-> FALSE])
                      /\ UNCHANGED cbVars
       ELSE /\ WriteNothing /\ UNCHANGED parked
            /\ IF QueueQoSZero
               THEN /\ queue' = Append(queue, [cmd |-> "publish", id |-> 0, req |-> r])
                    /\ UNCHANGED cbVars
               ELSE CallBack(r, FALSE) /\ UNCHANGED queue

\* Online the packet is stored and written, offline it is only stored.
PublishStored(r) == \E id \in Ids :
    /\ Allocates(id)
    /\ outgoing' = With(outgoing, id, [req |-> r, volatile |-> FALSE, replay |-> FALSE])
    /\ store' = Put(store, [cmd |-> "publish", id |-> id, req |-> r])
    /\ IF connected THEN Write([cmd |-> "publish", id |-> id, req |-> r]) ELSE WriteNothing
    /\ UNCHANGED <<queue, subVars, parked, cbVars>>

\* A SUBSCRIBE or UNSUBSCRIBE is written online and queued offline.
SendVolatile(cmd, id, r) ==
    /\ outgoing' = With(outgoing, id, [req |-> r, volatile |-> TRUE, replay |-> FALSE])
    /\ IF connected
       THEN Write([cmd |-> cmd, id |-> id, req |-> r]) /\ UNCHANGED queue
       ELSE WriteNothing /\ queue' = Append(queue, [cmd |-> cmd, id |-> id, req |-> r])
    /\ UNCHANGED <<store, parked, cbVars>>

SubscribeProc(w) == \E id \in Ids :
    /\ Allocates(id)
    /\ resub' = resub \cup w.topics
    /\ topicsOf' = With(topicsOf, id, w.topics)
    /\ SendVolatile("subscribe", id, w.req)

UnsubscribeProc(w) == \E id \in Ids :
    /\ Allocates(id)
    /\ resub' = resub \ w.topics
    /\ UNCHANGED topicsOf
    /\ SendVolatile("unsubscribe", id, w.req)

Begin(w) ==
    \/ KindOf(w.req) = "qos0" /\ PublishQoS0(w.req)
    \/ KindOf(w.req) \in {"qos1", "qos2"} /\ PublishStored(w.req)
    \/ KindOf(w.req) \in {"internal", "sub"} /\ SubscribeProc(w)
    \/ KindOf(w.req) = "unsub" /\ UnsubscribeProc(w)

\* Mutants: a call overtakes the waiting ones; a call interrupts the replay.
MustWaitNoQueue(r) == storeProcessing \/ CannotBegin(r)
MustWaitNoReplay(r) == spq # <<>> \/ CannotBegin(r)
MustWait(r) == storeProcessing \/ spq # <<>> \/ CannotBegin(r)

\* What publish, subscribe and unsubscribe do after their checks.
BeginOrWait(w) ==
    IF MustWait(w.req)
    THEN spq' = Append(spq, w) /\ WriteNothing
         /\ UNCHANGED <<outgoing, store, queue, idVars, subVars, parked, cbVars>>
    ELSE Begin(w) /\ UNCHANGED spq

-----------------------------------------------------------------------------
(* The user. *)

\* subscribe() leaves out the topics it already holds, and answers at once
\* when none is left.  All subscriptions have one QoS here: a topic that is
\* asked for again with a higher one would be sent again (client.ts:1175).
Call(r) ==
    /\ Idle
    /\ ~\E i \in DOMAIN issued : issued[i] = r
    /\ issued' = Append(issued, r)
    /\ LET new == IF Kind[r] = "sub" THEN Topics[r] \ resub ELSE Topics[r] IN
       IF Kind[r] = "sub" /\ new = {}
       THEN /\ CallBack(r, TRUE) /\ WriteNothing
            /\ UNCHANGED <<outgoing, store, queue, idVars, subVars, parked, spq>>
       ELSE BeginOrWait([req |-> r, topics |-> new])
    /\ UNCHANGED <<connVars, replayVars, task>>

\* _removeOutgoingAndStoreMessage: the callback, which resumes the replay when
\* the entry is a replayed one, then _invokeStoreProcessingQueue.
Resume(id) ==
    task' = IF outgoing[id].replay /\ stream = "open" THEN "storeDeliver" ELSE "invokeOne"

RemoveOutgoingAndStoreMessage(id, good) ==
    /\ outgoing' = Without(outgoing, id)
    /\ store' = Del(store, id)
    /\ used' = used \ {id}
    /\ CallBack(outgoing[id].req, good /\ \E i \in DOMAIN store : store[i].id = id)
    /\ Resume(id)
    /\ WriteNothing
    /\ UNCHANGED <<connVars, replayVars, subVars, queue, spq, nextId, parked, issued>>

RemoveOutgoingMessage(id) ==
    /\ Idle /\ id \in DOMAIN outgoing
    /\ RemoveOutgoingAndStoreMessage(id, FALSE)

-----------------------------------------------------------------------------
(* Acknowledgements (handleAck).  Offline only one that an earlier connection left. *)
Acknowledged(id) ==
    /\ Turn /\ (connected \/ (connackPacket # "none" /\ Len(queue) < LateAcks))
    /\ id \in DOMAIN outgoing

\* puback for QoS 1 and pubcomp for QoS 2; "good" is a reason code of success.
HandlePuback(id, good) ==
    /\ Acknowledged(id) /\ ~outgoing[id].volatile
    /\ RemoveOutgoingAndStoreMessage(id, good)

\* A refusal ends the flow; otherwise the pubrel takes the message's place in
\* the store and is written, or queued when the ack is handled offline.
HandlePubrecEnds(id, good) ==   \* Mutant: every pubrec ends the flow.
    /\ Acknowledged(id) /\ KindOf(outgoing[id].req) \in {"internal", "qos2"}
    /\ RemoveOutgoingAndStoreMessage(id, good)
HandlePubrec(id, good) ==
    /\ Acknowledged(id) /\ ~outgoing[id].volatile
    /\ KindOf(outgoing[id].req) \in {"internal", "qos2"}
    /\ IF ~good
       THEN RemoveOutgoingAndStoreMessage(id, FALSE)
       ELSE LET pubrel == [cmd |-> "pubrel", id |-> id, req |-> outgoing[id].req] IN
            /\ IF connected
               THEN store' = Put(store, pubrel) /\ Write(pubrel) /\ UNCHANGED queue
               ELSE queue' = Append(queue, pubrel) /\ WriteNothing /\ UNCHANGED store
            /\ UNCHANGED <<connVars, outgoing, idVars, replayVars, subVars, spq, parked,
                           task, issued, cbVars>>

\* Suback and unsuback release the identifier; a refused subscription is
\* forgotten for the next connection.  The callback runs last in the code,
\* after the release of a waiting call, and first here: same run, same effect.
FinishVolatile(id, good) ==
    /\ outgoing' = Without(outgoing, id)
    /\ used' = used \ {id}
    /\ CallBack(outgoing[id].req, good)
    /\ task' = "invokeOne" /\ WriteNothing
    /\ UNCHANGED <<connVars, replayVars, store, queue, spq, nextId, parked, issued>>

HandleSuback(id, good) ==
    /\ Acknowledged(id) /\ outgoing[id].volatile
    /\ KindOf(outgoing[id].req) \in {"internal", "sub"}
    /\ resub' = IF good \/ id \notin DOMAIN topicsOf THEN resub ELSE resub \ topicsOf[id]
    /\ topicsOf' = Without(topicsOf, id)
    /\ FinishVolatile(id, good)

HandleUnsuback(id) ==
    /\ Acknowledged(id) /\ outgoing[id].volatile
    /\ KindOf(outgoing[id].req) = "unsub"
    /\ UNCHANGED subVars
    /\ FinishVolatile(id, TRUE)

-----------------------------------------------------------------------------
(* A connection begins: _onConnect replays the store, one packet at a time. *)
Connack(present) ==
    /\ Idle /\ ~connected
    /\ connected' = TRUE /\ reconnectTimer' = FALSE
    /\ connackPacket' = IF present THEN "present" ELSE "new"
    /\ used' = {}
    /\ stream' = "open" /\ rest' = store
    /\ task' = "storeDeliver" /\ WriteNothing
    /\ UNCHANGED <<firstConnection, drops, outgoing, store, queue, spq, nextId,
                   storeProcessing, subVars, parked, issued, cbVars>>

\* The replayed packet's entry calls the original callback and resumes here;
\* the packet of a removed message has no callback left.
Replay(p) ==
    /\ outgoing' = With(outgoing, p.id,
         [req |-> IF p.id \in DOMAIN outgoing THEN outgoing[p.id].req ELSE Nobody,
          volatile |-> FALSE, replay |-> TRUE])
    /\ Register(p.id)
    /\ IF Registered(p.id) THEN WriteNothing ELSE Write(p)
    /\ UNCHANGED stream

StoreDeliver ==
    /\ task = "storeDeliver" /\ task' = "idle"
    /\ IF rest = <<>>
       THEN /\ stream' = "ended" /\ WriteNothing
            /\ UNCHANGED <<outgoing, used, rest, storeProcessing>>
       ELSE /\ rest' = Tail(rest)
            /\ storeProcessing' = TRUE
            /\ IF reconnectTimer
               THEN stream' = "destroyed" /\ WriteNothing /\ UNCHANGED <<outgoing, used>>
               ELSE Replay(Head(rest))
    /\ UNCHANGED <<connVars, store, queue, spq, nextId, subVars, parked, issued, cbVars>>

\* The stream's 'end': the waiting calls begin, then 'connect' is emitted.
StreamEndKeeps ==   \* Mutant: the waiting calls are not begun.
    /\ Idle /\ stream = "ended"
    /\ stream' = "none" /\ storeProcessing' = FALSE
    /\ task' = "deliver" /\ WriteNothing
    /\ UNCHANGED <<connVars, outgoing, store, queue, spq, idVars, rest, subVars, parked,
                   issued, cbVars>>
StreamEnd ==
    /\ Idle /\ stream = "ended"
    /\ stream' = "none" /\ storeProcessing' = FALSE
    /\ task' = "invokeAll" /\ WriteNothing
    /\ UNCHANGED <<connVars, outgoing, store, queue, spq, idVars, rest, subVars, parked,
                   issued, cbVars>>

AfterBegin == IF task = "invokeAll" THEN "invokeAll" ELSE "idle"

\* _invokeStoreProcessingQueue, once after an ack and until it fails at 'end'.
InvokeStoreProcessingQueue ==
    /\ task \in {"invokeOne", "invokeAll"}
    /\ IF storeProcessing \/ spq = <<>> \/ CannotBegin(Head(spq).req)
       THEN /\ task' = IF task = "invokeAll" THEN "deliver" ELSE "idle"
            /\ WriteNothing
            /\ UNCHANGED <<outgoing, store, queue, idVars, subVars, parked, cbVars, spq>>
       ELSE /\ Begin(Head(spq))
            /\ spq' = Tail(spq)
            /\ task' = AfterBegin
    /\ UNCHANGED <<connVars, replayVars, issued>>

\* _resubscribe: the topics of the last session, unless the broker kept them.
\* One SUBSCRIBE names them all, as with MQTT 3; the MQTT 5 branch sends one
\* for each topic (client.ts:2231), which is the same for a single topic.
Resubscribe ==
    /\ firstConnection' = FALSE
    /\ IF ~firstConnection /\ connackPacket = "new" /\ resub # {}
       THEN BeginOrWait([req |-> Nobody, topics |-> resub])
       ELSE WriteNothing /\ UNCHANGED <<outgoing, store, queue, idVars, subVars, parked,
                                        cbVars, spq>>

\* deliver: the packets queued offline.  One whose identifier is taken is
\* dropped.  A full stream parks the rest of the loop until 'drain'.
SendQueued(p) ==
    /\ Register(p.id) /\ Write(p)
    /\ store' = IF p.cmd = "pubrel" THEN Put(store, p) ELSE store
    /\ LET owner == IF p.cmd = "publish" THEN p.req ELSE Nobody IN
       \E result \in WriteResults :
         IF result
         THEN CallBack(owner, TRUE) /\ UNCHANGED <<parked, task>>
         ELSE /\ parked' = Append(parked, [req |-> owner, deliver |-> TRUE])
              /\ task' = "idle" /\ UNCHANGED cbVars

Deliver ==
    /\ task = "deliver"
    /\ IF queue = <<>>
       THEN Resubscribe /\ task' = "idle"
       ELSE /\ queue' = Tail(queue)
            /\ IF Registered(Head(queue).id)
               THEN WriteNothing /\ UNCHANGED <<store, used, parked, task, cbVars>>
               ELSE SendQueued(Head(queue))
            /\ UNCHANGED <<firstConnection, outgoing, nextId, subVars, spq>>
    /\ UNCHANGED <<connected, reconnectTimer, connackPacket, drops, replayVars, issued>>

Drain ==
    /\ Turn /\ connected /\ ~Destroyed /\ parked # <<>>
    /\ parked' = Tail(parked)
    /\ CallBack(Head(parked).req, TRUE)
    /\ task' = IF Head(parked).deliver THEN "deliver" ELSE "idle"
    /\ WriteNothing
    /\ UNCHANGED <<connVars, outgoing, store, queue, spq, idVars, replayVars, subVars, issued>>

-----------------------------------------------------------------------------
(* A connection ends. *)

\* onKeepaliveTimeout destroys the stream and arms the reconnect timer; the
\* stream's 'close' follows.
KeepaliveTimeout ==
    /\ Turn /\ connected /\ ~reconnectTimer /\ drops < MaxDrops
    /\ reconnectTimer' = TRUE /\ WriteNothing
    /\ UNCHANGED <<connected, connackPacket, firstConnection, drops, outgoing, store, queue,
                   spq, idVars, replayVars, subVars, parked, task, issued, cbVars>>

\* The stream's 'close', of a connection or of a failed attempt.  There is a
\* reconnectPeriod: without one, a forced _cleanUp of a clean client would flush
\* every callback at once (client.ts:1833).
Close ==
    /\ Turn /\ drops < MaxDrops /\ drops' = drops + 1
    /\ connected' = FALSE /\ reconnectTimer' = TRUE
    /\ parked' = <<>>
    /\ outgoing' = [id \in DOMAIN outgoing |-> [outgoing[id] EXCEPT !.replay = FALSE]]
    /\ task' = "flushVolatile" /\ WriteNothing
    /\ UNCHANGED <<connackPacket, firstConnection, store, queue, spq, idVars, replayVars,
                   subVars, issued, cbVars>>

\* _flushVolatile, then the 'close' listeners: those of a replay under way
\* flush the waiting calls.
FlushVolatile ==
    /\ task = "flushVolatile"
    /\ IF \E id \in DOMAIN outgoing : outgoing[id].volatile
       THEN \E id \in DOMAIN outgoing :
              /\ outgoing[id].volatile
              /\ outgoing' = Without(outgoing, id)
              /\ CallBack(outgoing[id].req, FALSE)
              /\ UNCHANGED task
       ELSE /\ task' = IF stream = "none" THEN "idle" ELSE "flushQueue"
            /\ UNCHANGED <<outgoing, cbVars>>
    /\ WriteNothing
    /\ UNCHANGED <<connVars, store, queue, spq, idVars, replayVars, subVars, parked, issued>>

FlushStoreProcessingQueue ==
    /\ task = "flushQueue"
    /\ IF spq # <<>>
       THEN /\ spq' = Tail(spq) /\ CallBack(Head(spq).req, FALSE)
            /\ UNCHANGED <<task, replayVars>>
       ELSE /\ stream' = "none" /\ rest' = <<>> /\ storeProcessing' = FALSE
            /\ task' = "idle" /\ UNCHANGED <<spq, cbVars>>
    /\ WriteNothing
    /\ UNCHANGED <<connVars, outgoing, store, queue, idVars, subVars, parked, issued>>

-----------------------------------------------------------------------------
Ack ==
    \/ \E id \in Ids, good \in BOOLEAN :
         HandlePuback(id, good) \/ HandlePubrec(id, good) \/ HandleSuback(id, good)
    \/ \E id \in Ids : HandleUnsuback(id)

Run ==
    \/ StoreDeliver \/ StreamEnd \/ InvokeStoreProcessingQueue \/ Deliver
    \/ FlushVolatile \/ FlushStoreProcessingQueue

User ==
    \/ \E r \in Requests : Call(r)
    \/ \E id \in Ids : RemoveOutgoingMessage(id)

Network ==
    \/ \E present \in BOOLEAN : Connack(present)
    \/ Drain \/ KeepaliveTimeout \/ Close

Next == User \/ Ack \/ Run \/ Network

Spec == Init /\ [][Next]_vars

-----------------------------------------------------------------------------
(* Where a request may be held. *)
In(s, r) == \E i \in DOMAIN s : s[i].req = r
Once(s, r) == \A i, j \in DOMAIN s : s[i].req = r /\ s[j].req = r => i = j
InOutgoing(r) == \E id \in DOMAIN outgoing : outgoing[id].req = r
OnceInOutgoing(r) ==
    \A i, j \in DOMAIN outgoing : outgoing[i].req = r /\ outgoing[j].req = r => i = j
WasIssued(r) == \E i \in DOMAIN issued : issued[i] = r

\* A call that has begun and whose callback is still to run: a QoS 0 publish
\* is queued or waits for 'drain', any other call is in flight.
Begun(r) ==
    IF Kind[r] = "qos0" THEN In(queue, r) \/ In(parked, r) ELSE InOutgoing(r)
BegunOnce(r) ==
    IF Kind[r] = "qos0"
    THEN Once(queue, r) /\ Once(parked, r) /\ ~(In(queue, r) /\ In(parked, r))
    ELSE OnceInOutgoing(r)

\* What is queued, parked and in flight is of the kind that belongs there.
RightKinds ==
    /\ \A i \in DOMAIN queue :
         queue[i].cmd = "publish" <=> KindOf(queue[i].req) = "qos0"
    /\ \A i \in DOMAIN parked : KindOf(parked[i].req) \in {"internal", "qos0"}
    /\ \A id \in DOMAIN outgoing : KindOf(outgoing[id].req) # "qos0"

(***************************************************************************)
(* The callback of a call has one holder at a time, among the calls that   *)
(* wait, the in-flight table, the offline queue and the 'drain' listeners, *)
(* and none once it has run.                                               *)
(***************************************************************************)
HeldOnce(r) ==
    /\ called[r] \in {0, 1}
    /\ Once(spq, r) /\ BegunOnce(r) /\ ~(In(spq, r) /\ Begun(r))
    /\ In(spq, r) \/ Begun(r) => called[r] = 0
    /\ In(spq, r) \/ Begun(r) \/ called[r] # 0 => WasIssued(r)
OneHolder == RightKinds /\ \A r \in Requests : HeldOnce(r)

(***************************************************************************)
(* The callback of publish, subscribe and unsubscribe runs at most once,   *)
(* whatever the broker acknowledges and wherever the connection breaks:    *)
(* an ack, a flush on close, a replay, a drain and a removal compete to    *)
(* run it.                                                                 *)
(***************************************************************************)
CallbackAtMostOnce == \A r \in Requests : called[r] <= 1

(***************************************************************************)
(* A call that needs an answer of the broker is never forgotten: until its *)
(* callback runs the client holds it, in flight or waiting to begin.       *)
(***************************************************************************)
PendingIsHeld ==
    Idle => \A i \in DOMAIN issued :
              LET r == issued[i] IN
              called[r] = 0 /\ Kind[r] # "qos0" => InOutgoing(r) \/ In(spq, r)

(***************************************************************************)
(* A stored message has its entry in "outgoing", of the same request:      *)
(* otherwise its ack is ignored and it is sent again on every connection.  *)
(***************************************************************************)
StoredIsInFlight ==
    Idle => \A i \in DOMAIN store :
              LET id == store[i].id IN
              /\ id \in DOMAIN outgoing /\ ~outgoing[id].volatile
              /\ outgoing[id].req = store[i].req

(***************************************************************************)
(* And a request in flight that was published is in the store, unless the  *)
(* user removed it: a message whose callback is pending survives a crash   *)
(* of the connection.                                                      *)
(***************************************************************************)
InFlightIsStored ==
    Idle => \A id \in DOMAIN outgoing :
              ~outgoing[id].volatile /\ outgoing[id].req # Nobody =>
                \E i \in DOMAIN store : store[i].id = id /\ store[i].req = outgoing[id].req

(***************************************************************************)
(* While the store is replayed nothing new is written: only the replayed   *)
(* packets, in the store's order, and answers to a pubrec (#1635).         *)
(***************************************************************************)
ReplayIsNotInterrupted ==
    [][storeProcessing /\ storeProcessing' =>
         \A i \in DOMAIN written' :
           \/ written'[i].cmd = "pubrel"
           \/ rest # <<>> /\ written'[i] = Head(rest)]_vars

(***************************************************************************)
(* While a call waits to begin, no call made after it has begun: neither   *)
(* on the wire, nor stored, nor queued.                                    *)
(***************************************************************************)
HasBegun(r) ==
    InOutgoing(r) \/ In(queue, r) \/ In(parked, r) \/ (r \in succeeded /\ Kind[r] # "sub")
CallsBeginInOrder ==
    \A i, j \in DOMAIN issued : i < j /\ In(spq, issued[i]) => ~HasBegun(issued[j])

(***************************************************************************)
(* A message identifier in flight is not given to another request: the     *)
(* ack of one would run the callback of the other.                         *)
(***************************************************************************)
IdIsNotStolen ==
    [][\A id \in DOMAIN outgoing \cap DOMAIN outgoing' :
         outgoing'[id].req = outgoing[id].req]_vars

(***************************************************************************)
(* A call waits on a connected client only while something in flight will  *)
(* begin it when acknowledged.                                             *)
(***************************************************************************)
WaitingIsReleased ==
    Idle /\ connected /\ stream = "none" /\ spq # <<>> => outgoing # Empty
=============================================================================
