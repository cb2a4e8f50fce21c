---------------------------- MODULE TopicAliases ----------------------------
(***************************************************************************)
(* Topic aliases of outgoing publishes (MQTT 5): the client's two tables   *)
(* (topic-alias-send.ts), what _applyTopicAlias makes of a packet, how the *)
(* topic comes back before a packet is stored, and the replay of stored    *)
(* packets on the next connection.  The broker keeps a table of its own,   *)
(* built from the packets it receives, and the two must agree although the *)
(* broker's lags behind.  The outgoing store is the default one, which     *)
(* keeps the packet objects it is given.                                   *)
(*                                                                         *)
(* External: the connection (in order, emptied when it breaks), the broker,*)
(* and lru-cache and number-allocator, by what the client asks of them.    *)
(***************************************************************************)
EXTENDS Integers, Sequences

CONSTANTS
    Topics,         \* topic names
    NoTopic,        \* the empty topic
    MaxAlias,       \* the most aliases a broker grants
    AutoUse,        \* options.autoUseTopicAlias
    AutoAssign,     \* options.autoAssignTopicAlias
    MaxPublishes,   \* bound: publishes the user makes
    MaxConns        \* bound: connections

ASSUME NoTopicAssumption == NoTopic \notin Topics
ASSUME MaxAliasAssumption == MaxAlias \in Nat
ASSUME OptionsAssumption == AutoUse \in BOOLEAN /\ AutoAssign \in BOOLEAN

Aliases == 1..MaxAlias
NoAlias == 0
Names == Topics \cup {NoTopic}

VARIABLES
    connected,      \* this.connected
    max,            \* topicAliasSend.max, 0 when there is no topicAliasSend
    aliasToTopic,   \* topicAliasSend.aliasToTopic
    topicToAlias,   \* topicAliasSend.topicToAlias
    queue,          \* this.queue: QoS 0 publishes made offline
    store,          \* the outgoing store: QoS 1 publishes
    rest,           \* what the replay has yet to read of the store
    replaying,      \* the replayed packet that waits for its ack, or 0
    wire,           \* packets under way to the broker
    table,          \* the broker's table
    heard,          \* the publishes the broker has received on this connection
    conns,          \* history: connections made
    published       \* history: publishes made

tableVars == <<aliasToTopic, topicToAlias>>
brokerVars == <<table, heard>>
vars == <<connected, max, tableVars, queue, store, rest, replaying, wire, brokerVars, conns,
          published>>

(***************************************************************************)
(* A publish: the n-th call, with the topic and the alias in the packet.   *)
(* For the properties, the topic its caller means (NoTopic if the caller   *)
(* gave an alias that is not registered) and the connection whose replay   *)
(* put the alias in it, 0 if no replay did.                                *)
(***************************************************************************)
Packet == [n : Nat, topic : Names, alias : Nat, means : Names, since : Nat]

TypeOK ==
    /\ connected \in BOOLEAN /\ max \in 0..MaxAlias
    /\ DOMAIN aliasToTopic \subseteq 1..max /\ aliasToTopic \in [DOMAIN aliasToTopic -> Topics]
    /\ DOMAIN topicToAlias \subseteq Topics /\ topicToAlias \in [DOMAIN topicToAlias -> 1..max]
    /\ queue \in Seq(Packet) /\ store \in Seq(Packet) /\ wire \in Seq(Packet)
    /\ rest \in Seq(Nat) /\ replaying \in Nat
    /\ DOMAIN table \subseteq Nat /\ table \in [DOMAIN table -> Topics]
    /\ heard \subseteq Nat
    /\ conns \in Nat /\ published \in Nat

Empty == [a \in {} |-> NoTopic]

Init ==
    /\ connected = FALSE /\ max = 0 /\ conns = 0 /\ published = 0
    /\ aliasToTopic = Empty /\ topicToAlias = Empty
    /\ queue = <<>> /\ store = <<>> /\ rest = <<>> /\ replaying = 0
    /\ wire = <<>> /\ table = Empty /\ heard = {}

-----------------------------------------------------------------------------
(* The tables of topic-alias-send.ts. *)
With(f, x, v) == [y \in DOMAIN f \cup {x} |-> IF y = x THEN v ELSE f[y]]
Without(f, x) == [y \in DOMAIN f \ {x} |-> f[y]]

\* The topic that held the alias loses it.
PutKeeps(topic, a) ==   \* Mutant: it does not.
    /\ aliasToTopic' = With(aliasToTopic, a, topic)
    /\ topicToAlias' = With(topicToAlias, topic, a)
Put(topic, a) ==
    /\ aliasToTopic' = With(aliasToTopic, a, topic)
    /\ topicToAlias' = With(IF a \in DOMAIN aliasToTopic
                            THEN Without(topicToAlias, aliasToTopic[a]) ELSE topicToAlias,
                            topic, a)

\* getLruAlias: the first vacant alias, else the least recently used, which
\* may be any: nothing here depends on the order of the cache.
Vacant == 1..max \ DOMAIN aliasToTopic
IsLruAlias(a) ==
    IF Vacant # {} THEN a \in Vacant /\ \A b \in Vacant : a <= b
                   ELSE a \in DOMAIN aliasToTopic

-----------------------------------------------------------------------------
(* _applyTopicAlias. *)
OutOfRange(p) == p.alias # NoAlias /\ (max = 0 \/ (p.topic # NoTopic /\ p.alias > max))
Registers(p) == p.alias # NoAlias /\ p.topic # NoTopic
Plain(p) == max > 0 /\ p.alias = NoAlias /\ p.topic # NoTopic
IsKnown(p) == p.topic \in DOMAIN topicToAlias

UsesAlias(p, q) ==
    /\ Plain(p) /\ (AutoUse \/ AutoAssign) /\ IsKnown(p)
    /\ q = [p EXCEPT !.topic = NoTopic, !.alias = topicToAlias[p.topic]]
    /\ UNCHANGED tableVars

AssignsAlias(p, q) ==
    /\ Plain(p) /\ AutoAssign /\ ~IsKnown(p)
    /\ IsLruAlias(q.alias) /\ q = [p EXCEPT !.alias = q.alias]
    /\ Put(p.topic, q.alias)

KeepsPacket(p, q) ==
    /\ q = p
    /\ \/ Registers(p) /\ Put(p.topic, p.alias)
       \/ /\ ~Registers(p)
          /\ ~(Plain(p) /\ (AutoAssign \/ (AutoUse /\ IsKnown(p))))
          /\ UNCHANGED tableVars

\* What is made of p, when it is not out of range.
ApplyTopicAlias(p, q) == UsesAlias(p, q) \/ AssignsAlias(p, q) \/ KeepsPacket(p, q)

\* The packets p can become.
Candidates(p) ==
    [n : {p.n}, topic : {p.topic, NoTopic}, alias : 0..MaxAlias \cup {p.alias},
     means : {p.means}, since : {p.since}]

\* _removeTopicAliasAndRecoverTopicName: what is stored in place of q, by the
\* tables as _applyTopicAlias leaves them.
Unregistered(q) == q.topic = NoTopic /\ q.alias \notin DOMAIN aliasToTopic'
RecoverNothing(q) == q   \* Mutant: the alias is stored.
Recover(q) ==
    [q EXCEPT !.topic = IF q.topic = NoTopic THEN aliasToTopic'[q.alias] ELSE q.topic,
              !.alias = NoAlias]

-----------------------------------------------------------------------------
(***************************************************************************)
(* publish().  While a replay is going on the calls wait, and a connected  *)
(* client has delivered its queue before the next one.  An error reaches   *)
(* the callback of a QoS 0 publish, and of no other.                       *)
(***************************************************************************)
Means(topic, alias) ==
    IF topic # NoTopic THEN topic
    ELSE IF alias \in DOMAIN aliasToTopic THEN aliasToTopic[alias] ELSE NoTopic

\* The packet sent bears its alias, the one stored does not.
StoreAndSendSame(q) ==   \* Mutant: the packet that is sent is stored.
    IF Unregistered(q) THEN UNCHANGED <<wire, store>>
    ELSE wire' = Append(wire, q) /\ store' = Append(store, q)
StoreAndSend(q) ==
    IF Unregistered(q) THEN UNCHANGED <<wire, store>>
    ELSE wire' = Append(wire, q) /\ store' = Append(store, Recover(q))

\* _storePacket: QoS 0 waits in the queue, QoS 1 in the store.
StorePacket(q) ==
    \/ queue' = (IF Unregistered(q) THEN queue ELSE Append(queue, Recover(q))) /\ UNCHANGED store
    \/ store' = (IF Unregistered(q) THEN store ELSE Append(store, Recover(q))) /\ UNCHANGED queue

Accepts(p) == ~OutOfRange(p) /\ \E q \in Candidates(p) :
    /\ ApplyTopicAlias(p, q)
    /\ \/ connected /\ wire' = Append(wire, q) /\ UNCHANGED <<queue, store>>   \* QoS 0
       \/ connected /\ StoreAndSend(q) /\ UNCHANGED queue                      \* QoS 1
       \/ ~connected /\ StorePacket(q) /\ UNCHANGED wire

Publish(topic, alias) ==
    /\ published < MaxPublishes /\ published' = published + 1
    /\ rest = <<>> /\ replaying = 0 /\ (connected => queue = <<>>)
    /\ topic # NoTopic \/ alias # NoAlias
    /\ LET p == [n |-> published + 1, topic |-> topic, alias |-> alias,
                 means |-> Means(topic, alias), since |-> 0] IN
       \/ OutOfRange(p) /\ UNCHANGED <<tableVars, queue, store, wire>>
       \/ Accepts(p)
    /\ UNCHANGED <<connected, max, rest, replaying, brokerVars, conns>>

-----------------------------------------------------------------------------
(***************************************************************************)
(* A connection: handleConnack makes the tables anew, _onConnect replays   *)
(* the store, and 'connect' delivers the queue.                            *)
(***************************************************************************)
ConnackKeeps(m) ==   \* Mutant: the tables are kept.
    /\ ~connected /\ conns < MaxConns
    /\ connected' = TRUE /\ conns' = conns + 1 /\ max' = m /\ m >= max
    /\ rest' = [i \in DOMAIN store |-> store[i].n]
    /\ table' = Empty /\ heard' = {}
    /\ UNCHANGED <<tableVars, queue, store, replaying, wire, published>>
Connack(m) ==
    /\ ~connected /\ conns < MaxConns
    /\ connected' = TRUE /\ conns' = conns + 1 /\ max' = m
    /\ aliasToTopic' = Empty /\ topicToAlias' = Empty
    /\ rest' = [i \in DOMAIN store |-> store[i].n]
    /\ table' = Empty /\ heard' = {}
    /\ UNCHANGED <<queue, store, replaying, wire, published>>

\* _applyTopicAlias works on the packet object that is in the store.  When it
\* fails nothing is sent, and nothing resumes the replay.
Replayed(p, q) ==
    [q EXCEPT !.since = IF p.alias = NoAlias /\ q.alias # NoAlias THEN conns ELSE p.since]
Replay ==
    /\ connected /\ rest # <<>> /\ replaying = 0
    /\ replaying' = Head(rest) /\ rest' = Tail(rest)
    /\ \E i \in DOMAIN store :
         /\ store[i].n = Head(rest)
         /\ \/ OutOfRange(store[i]) /\ UNCHANGED <<tableVars, store, wire>>
            \/ ~OutOfRange(store[i]) /\ \E q \in Candidates(store[i]) :
                 /\ ApplyTopicAlias(store[i], q)
                 /\ store' = [store EXCEPT ![i] = Replayed(store[i], q)]
                 /\ wire' = Append(wire, Replayed(store[i], q))
    /\ UNCHANGED <<connected, max, queue, brokerVars, conns, published>>

Deliver ==
    /\ connected /\ rest = <<>> /\ replaying = 0 /\ queue # <<>>
    /\ queue' = Tail(queue)
    /\ \E q \in Candidates(Head(queue)) :
         ApplyTopicAlias(Head(queue), q) /\ wire' = Append(wire, q)
    /\ UNCHANGED <<connected, max, store, rest, replaying, brokerVars, conns, published>>

\* A puback: the message leaves the store and the replay goes on.
Acknowledge(n) ==
    /\ connected /\ n \in heard
    /\ \E i \in DOMAIN store :
         /\ store[i].n = n
         /\ store' = [j \in 1..(Len(store) - 1) |-> IF j < i THEN store[j] ELSE store[j + 1]]
    /\ replaying' = IF replaying = n THEN 0 ELSE replaying
    /\ UNCHANGED <<connected, max, tableVars, queue, rest, wire, brokerVars, conns, published>>

Close ==
    /\ connected /\ connected' = FALSE
    /\ wire' = <<>> /\ rest' = <<>> /\ replaying' = 0
    /\ UNCHANGED <<max, tableVars, queue, store, brokerVars, conns, published>>

-----------------------------------------------------------------------------
\* An alias that was never registered is an error the broker does not ack.
BrokerReads ==
    /\ wire # <<>> /\ wire' = Tail(wire)
    /\ LET p == Head(wire) IN
       /\ table' = IF Registers(p) THEN With(table, p.alias, p.topic) ELSE table
       /\ heard' = IF p.topic # NoTopic \/ p.alias \in DOMAIN table THEN heard \cup {p.n}
                                                                   ELSE heard
    /\ UNCHANGED <<connected, max, tableVars, queue, store, rest, replaying, conns, published>>

Next ==
    \/ \E topic \in Names, alias \in 0..MaxAlias : Publish(topic, alias)
    \/ \E m \in 0..MaxAlias : Connack(m)
    \/ Replay \/ Deliver \/ Close
    \/ \E n \in heard : Acknowledge(n)
    \/ BrokerReads

Spec == Init /\ [][Next]_vars

-----------------------------------------------------------------------------
(* What the broker knows of an alias once it has read the first k packets. *)
RegistersAt(i, a) == wire[i].alias = a /\ Registers(wire[i])
Knows(k, a, t) ==
    \/ \E i \in 1..k : /\ RegistersAt(i, a) /\ wire[i].topic = t
                       /\ \A j \in (i + 1)..k : ~RegistersAt(j, a)
    \/ /\ \A i \in 1..k : ~RegistersAt(i, a)
       /\ a \in DOMAIN table /\ table[a] = t

(***************************************************************************)
(* When it has read what is under way, the broker knows every alias of the *)
(* client's table, under the same topic; and the two tables of the client  *)
(* agree.                                                                  *)
(***************************************************************************)
TablesAgree ==
    /\ connected => \A a \in DOMAIN aliasToTopic : Knows(Len(wire), a, aliasToTopic[a])
    /\ \A t \in DOMAIN topicToAlias :
         topicToAlias[t] \in DOMAIN aliasToTopic /\ aliasToTopic[topicToAlias[t]] = t

(***************************************************************************)
(* The broker understands a packet as its caller meant it: by its topic,   *)
(* or by an alias that stands for that topic when the packet is read.      *)
(***************************************************************************)
Understood(i) ==
    \/ wire[i].means = NoTopic
    \/ wire[i].topic = wire[i].means
    \/ wire[i].topic = NoTopic /\ Knows(i - 1, wire[i].alias, wire[i].means)

(***************************************************************************)
(* Of every packet, then: "Topic Alias must not be used after              *)
(* disconnected" (client.ts).  The replay does not keep it.                *)
(***************************************************************************)
AliasResolves == \A i \in DOMAIN wire : Understood(i)

(***************************************************************************)
(* It holds of every packet but those that a replay sends with the alias   *)
(* the replay of an earlier connection put in them.                        *)
(***************************************************************************)
FreshAliasResolves == \A i \in DOMAIN wire : wire[i].since \in {0, conns} => Understood(i)

(***************************************************************************)
(* What waits offline bears its topic and no alias, so that it can be sent *)
(* on any connection (client.ts:1897-1900); so does what is stored, but    *)
(* for the packets into which a replay has put an alias.                   *)
(***************************************************************************)
BearsTopic(p) == p.alias = NoAlias /\ p.topic = p.means
StoredBearsTopic ==
    /\ \A i \in DOMAIN queue : BearsTopic(queue[i])
    /\ \A i \in DOMAIN store : BearsTopic(store[i]) \/ store[i].since # 0
=============================================================================
