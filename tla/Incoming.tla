------------------------------ MODULE Incoming ------------------------------
(***************************************************************************)
(* Messages from the broker: the parser's work queue of client.ts (connect)*)
(* and the handlers of PUBLISH and PUBREL, with the incoming store, the    *)
(* topic aliases of the broker, customHandleAcks and handleMessage.  Each  *)
(* connection has a work queue of its own, a closure: what the client had  *)
(* parsed when the connection closed is handled after it, beside the       *)
(* packets of the next connection.                                         *)
(*                                                                         *)
(* External: the connection, in order and emptied when it breaks; and a    *)
(* broker that sends again what was not acknowledged.  The life cycle is   *)
(* reduced to Close and Connect.                                           *)
(***************************************************************************)
EXTENDS Integers, Sequences

CONSTANTS
    Messages,       \* messages for the client
    QoS,            \* [Messages -> 0..2]
    Id,             \* [Messages -> Nat], the identifier the broker gives each (of QoS 0, any)
    TopicOf,        \* [Messages -> topics]
    AliasOf,        \* [Messages -> Nat], the alias the broker uses, 0 for none
    NoTopic,        \* the empty topic
    Outcomes,       \* what customHandleAcks may answer: no reason code, 16, 128 or an error
    Async,          \* handleMessage may call back later, and with an error
    After,          \* [Messages -> sets of messages], what the broker sends first
    MaxConns        \* bound: connections

ASSUME AsyncAssumption == Async \in BOOLEAN
ASSUME OutcomesAssumption == Outcomes \subseteq {"accept", "decline", "refuse", "error"}
ASSUME MessagesAssumption ==
    /\ QoS \in [Messages -> 0..2] /\ Id \in [Messages -> Nat]
    /\ AliasOf \in [Messages -> Nat] /\ \A m \in Messages : TopicOf[m] # NoTopic
ASSUME ConnectionsAssumption == MaxConns \in Nat

Connections == 1..MaxConns

VARIABLES
    connected,      \* this.connected
    conn,           \* the number of the last connection
    packets,        \* of each connection: parsed and not yet handled
    handling,       \* of each connection: the packet being handled, and where it is
    incomingStore,  \* QoS 2 messages stored until their PUBREL, by identifier
    aliases,        \* topicAliasRecv.aliasToTopic
    queue,          \* this.queue: acks made offline, with their work queue
    toClient,       \* packets under way to the client
    toBroker,       \* acks under way to the broker
    table,          \* the aliases the broker has registered
    state,          \* the broker's view of each message
    sent,           \* what the broker has sent of it on this connection
    emitted,        \* history: the topics each message was emitted with
    leftOver,       \* history: identifiers of what a connection left unhandled
    failed          \* history: messages that customHandleAcks or handleMessage did not take

clientVars == <<connected, conn, packets, handling, incomingStore, aliases, queue>>
brokerVars == <<table, state, sent>>
historyVars == <<emitted, leftOver, failed>>
vars == <<clientVars, toClient, toBroker, brokerVars, historyVars>>

Ids == {Id[m] : m \in Messages}
Topics == {TopicOf[m] : m \in Messages} \cup {NoTopic}
Packet == [cmd : {"publish"}, id : Ids, msg : Messages, topic : Topics]
          \cup [cmd : {"pubrel"}, id : Ids]
AckPacket == [cmd : {"puback", "pubrec", "pubcomp"}, id : Ids, good : BOOLEAN]
Free == [at |-> "free"]
Queued == [at |-> "queued"]     \* done waits until the ack is sent
Stuck == [at |-> "stuck"]       \* done is never called
States == {"new", "sent", "released", "done"}

TypeOK ==
    /\ connected \in BOOLEAN /\ conn \in 0..MaxConns
    /\ packets \in [Connections -> Seq(Packet)]
    /\ handling \in [Connections -> {Free, Queued, Stuck}
                                    \cup [at : {"message"}, packet : Packet, good : BOOLEAN]]
    /\ DOMAIN incomingStore \subseteq Ids
    /\ \A id \in DOMAIN incomingStore : incomingStore[id] \in Packet
    /\ \A a \in DOMAIN aliases : aliases[a] \in Topics \ {NoTopic}
    /\ queue \in Seq([ack : AckPacket, by : Connections])
    /\ toClient \in Seq(Packet) /\ toBroker \in Seq(AckPacket)
    /\ state \in [Messages -> States] /\ sent \in [Messages -> {"nothing", "publish", "pubrel"}]
    /\ emitted \in [Messages -> Seq(Topics)]
    /\ leftOver \subseteq Ids /\ failed \subseteq Messages

Empty == [x \in {} |-> NoTopic]

Init ==
    /\ connected = FALSE /\ conn = 0
    /\ packets = [c \in Connections |-> <<>>] /\ handling = [c \in Connections |-> Free]
    /\ incomingStore = Empty /\ aliases = Empty /\ queue = <<>>
    /\ toClient = <<>> /\ toBroker = <<>> /\ table = Empty
    /\ state = [m \in Messages |-> "new"] /\ sent = [m \in Messages |-> "nothing"]
    /\ emitted = [m \in Messages |-> <<>>] /\ leftOver = {} /\ failed = {}

With(f, x, v) == [y \in DOMAIN f \cup {x} |-> IF y = x THEN v ELSE f[y]]
Without(f, x) == [y \in DOMAIN f \ {x} |-> f[y]]
-----------------------------------------------------------------------------
(* Handling a packet of connection c. *)
Emit(m, topic) == emitted' = [emitted EXCEPT ![m] = Append(@, topic)]

\* _sendPacket with done: written, or queued when the client is offline (an
\* ack is no publish, so _storePacket queues it whatever queueQoSZero says).
SendAck(c, cmd, id, good) ==
    LET ack == [cmd |-> cmd, id |-> id, good |-> good] IN
    IF connected
    THEN /\ toBroker' = Append(toBroker, ack)
         /\ handling' = [handling EXCEPT ![c] = Free] /\ UNCHANGED queue
    ELSE /\ queue' = Append(queue, [ack |-> ack, by |-> c])
         /\ handling' = [handling EXCEPT ![c] = Queued] /\ UNCHANGED toBroker

HandleMessage(c, p, good) ==
    /\ handling' = [handling EXCEPT ![c] = [at |-> "message", packet |-> p, good |-> good]]
    /\ UNCHANGED <<toBroker, queue>>

\* An error is emitted and done is not called.
Hang(c) ==
    /\ handling' = [handling EXCEPT ![c] = Stuck]
    /\ UNCHANGED <<incomingStore, toBroker, queue, emitted>>

\* The topic of p, or of its alias: unknown when the table has lost it.
Aliased(p) == AliasOf[p.msg] # 0
Unregistered(p) == Aliased(p) /\ p.topic = NoTopic /\ AliasOf[p.msg] \notin DOMAIN aliases
ResolvedTopic(p) == IF Aliased(p) /\ p.topic = NoTopic THEN aliases[AliasOf[p.msg]] ELSE p.topic
RegisterOnce(p) ==   \* Mutant: an alias keeps its first topic.
    aliases' = IF Aliased(p) /\ p.topic # NoTopic /\ AliasOf[p.msg] \notin DOMAIN aliases
               THEN With(aliases, AliasOf[p.msg], p.topic) ELSE aliases
RegisterAlias(p) ==
    aliases' = IF Aliased(p) /\ p.topic # NoTopic THEN With(aliases, AliasOf[p.msg], p.topic)
               ELSE aliases

HandleQoS0(c, p) ==
    /\ Emit(p.msg, ResolvedTopic(p)) /\ HandleMessage(c, p, TRUE)
    /\ UNCHANGED <<incomingStore, failed>>

\* The message is emitted unless there is a reason code, and handled anyway.
HandleQoS1(c, p, outcome) ==
    /\ IF outcome = "accept" THEN Emit(p.msg, ResolvedTopic(p)) /\ UNCHANGED failed
                            ELSE failed' = failed \cup {p.msg} /\ UNCHANGED emitted
    /\ HandleMessage(c, p, outcome # "refuse")
    /\ UNCHANGED incomingStore

\* The packet is stored as it came, and emitted at its PUBREL.
StoresNothing(p, outcome) == FALSE   \* Mutant.
Stores(p, outcome) == outcome = "accept"
HandleQoS2(c, p, outcome) ==
    /\ IF Stores(p, outcome)
       THEN incomingStore' = With(incomingStore, p.id, p) /\ UNCHANGED failed
       ELSE /\ failed' = failed \cup (IF outcome = "accept" THEN {} ELSE {p.msg})
            /\ UNCHANGED incomingStore
    /\ SendAck(c, "pubrec", p.id, outcome # "refuse")
    /\ UNCHANGED emitted

HandlePublish(c, p) ==
    /\ p.cmd = "publish" /\ RegisterAlias(p)
    /\ \/ Unregistered(p) /\ Hang(c) /\ UNCHANGED failed
       \/ ~Unregistered(p) /\ QoS[p.msg] = 0 /\ HandleQoS0(c, p)
       \/ /\ ~Unregistered(p) /\ QoS[p.msg] > 0
          /\ \E outcome \in Outcomes :
               \/ outcome = "error" /\ Hang(c) /\ failed' = failed \cup {p.msg}
               \/ outcome # "error" /\ QoS[p.msg] = 1 /\ HandleQoS1(c, p, outcome)
               \/ outcome # "error" /\ QoS[p.msg] = 2 /\ HandleQoS2(c, p, outcome)

\* The message has been handled before: the pubcomp was lost.
IgnoresUnknown(c, p) == UNCHANGED <<handling, toBroker, queue>>   \* Mutant.
CompletesUnknown(c, p) == SendAck(c, "pubcomp", p.id, TRUE)
HandlePubrel(c, p) ==
    /\ p.cmd = "pubrel"
    /\ IF p.id \in DOMAIN incomingStore
       THEN /\ Emit(incomingStore[p.id].msg, incomingStore[p.id].topic)
            /\ HandleMessage(c, p, TRUE)
       ELSE CompletesUnknown(c, p) /\ UNCHANGED emitted
    /\ UNCHANGED <<incomingStore, aliases, failed>>

Work(c) ==
    /\ handling[c] = Free /\ packets[c] # <<>>
    /\ packets' = [packets EXCEPT ![c] = Tail(@)]
    /\ HandlePublish(c, Head(packets[c])) \/ HandlePubrel(c, Head(packets[c]))
    /\ UNCHANGED <<connected, conn, toClient, brokerVars, leftOver>>

\* The callback of handleMessage.  An error ends the handling without an ack.
DelNothing(id) == UNCHANGED incomingStore   \* Mutant.
Del(id) == incomingStore' = Without(incomingStore, id)

Handled(c) ==
    LET p == handling[c].packet IN
    \/ /\ p.cmd = "publish" /\ QoS[p.msg] = 0
       /\ handling' = [handling EXCEPT ![c] = Free]
       /\ UNCHANGED <<incomingStore, toBroker, queue>>
    \/ /\ p.cmd = "publish" /\ QoS[p.msg] = 1
       /\ SendAck(c, "puback", p.id, handling[c].good) /\ UNCHANGED incomingStore
    \/ /\ p.cmd = "pubrel"
       /\ Del(p.id) /\ SendAck(c, "pubcomp", p.id, TRUE)

\* The message handleMessage was given: at a PUBREL the stored one.
MessageOf(p) ==
    IF p.cmd = "publish" THEN {p.msg}
    ELSE {incomingStore[id].msg : id \in DOMAIN incomingStore \cap {p.id}}

MessageHandled(c) ==
    /\ handling[c].at = "message"
    /\ \/ Handled(c) /\ UNCHANGED failed
       \/ /\ Async
          /\ handling' = [handling EXCEPT ![c] = Free]
          /\ failed' = failed \cup MessageOf(handling[c].packet)
          /\ UNCHANGED <<incomingStore, toBroker, queue>>
    /\ UNCHANGED <<connected, conn, packets, aliases, toClient, brokerVars, emitted, leftOver>>

-----------------------------------------------------------------------------
(***************************************************************************)
(* The connection.  What the client can do at once, it does before the     *)
(* next event (Turn): the packets of a chunk follow one another on         *)
(* process.nextTick.                                                       *)
(***************************************************************************)
Busy(c) == (handling[c] = Free /\ packets[c] # <<>>) \/ (~Async /\ handling[c].at = "message")
Turn == \A c \in Connections : ~Busy(c)

\* A chunk of n packets is parsed when the one before has been handled.
Receive(n) ==
    /\ Turn /\ connected /\ handling[conn] = Free
    /\ packets' = [packets EXCEPT ![conn] = SubSeq(toClient, 1, n)]
    /\ toClient' = SubSeq(toClient, n + 1, Len(toClient))
    /\ UNCHANGED <<connected, conn, handling, incomingStore, aliases, queue, toBroker,
                   brokerVars, historyVars>>

\* The queued acks are sent once the client is connected again.
Deliver ==
    /\ Turn /\ connected /\ queue # <<>>
    /\ queue' = Tail(queue)
    /\ toBroker' = Append(toBroker, Head(queue).ack)
    /\ handling' = [handling EXCEPT ![Head(queue).by] = Free]
    /\ UNCHANGED <<connected, conn, packets, incomingStore, aliases, toClient, brokerVars,
                   historyVars>>

Connect ==
    /\ Turn /\ ~connected /\ conn < MaxConns
    /\ connected' = TRUE /\ conn' = conn + 1
    /\ table' = Empty /\ sent' = [m \in Messages |-> "nothing"]
    /\ UNCHANGED <<packets, handling, incomingStore, aliases, queue, toClient, toBroker, state,
                   historyVars>>

\* topicAliasRecv is cleared; the work queue stays, and is handled later: but
\* what waits behind a stuck one never is.
Rest(c) == IF handling[c] = Stuck THEN <<>> ELSE packets[c]
Unhandled(c) ==
    {Rest(c)[i].id : i \in DOMAIN Rest(c)}
    \cup (IF handling[c].at = "message" THEN {handling[c].packet.id} ELSE {})
Close ==
    /\ Turn /\ connected /\ conn < MaxConns
    /\ connected' = FALSE /\ aliases' = Empty
    /\ toClient' = <<>> /\ toBroker' = <<>>
    /\ packets' = [packets EXCEPT ![conn] = Rest(conn)]
    /\ leftOver' = leftOver \cup Unhandled(conn)
    /\ UNCHANGED <<conn, handling, incomingStore, queue, brokerVars, emitted, failed>>

-----------------------------------------------------------------------------
(* The broker keeps the session and knows a message by its identifier. *)
InProgress(m) == state[m] \in {"sent", "released"}

BrokerPublish(m) ==
    /\ connected /\ sent[m] = "nothing" /\ state[m] \in {"new", "sent"}
    /\ \A n \in After[m] : state[n] # "new"
    /\ \A n \in Messages \ {m} : Id[n] = Id[m] => ~InProgress(n)
    /\ LET alias == AliasOf[m]
           known == alias \in DOMAIN table /\ table[alias] = TopicOf[m] IN
       /\ toClient' = Append(toClient, [cmd |-> "publish", id |-> Id[m], msg |-> m,
                                        topic |-> IF known THEN NoTopic ELSE TopicOf[m]])
       /\ table' = IF alias = 0 THEN table ELSE With(table, alias, TopicOf[m])
    /\ sent' = [sent EXCEPT ![m] = "publish"]
    /\ state' = [state EXCEPT ![m] = IF QoS[m] = 0 THEN "done" ELSE "sent"]
    /\ UNCHANGED <<clientVars, toBroker, historyVars>>

BrokerPubrel(m) ==
    /\ connected /\ state[m] = "released" /\ sent[m] # "pubrel"
    /\ toClient' = Append(toClient, [cmd |-> "pubrel", id |-> Id[m]])
    /\ sent' = [sent EXCEPT ![m] = "pubrel"]
    /\ UNCHANGED <<clientVars, toBroker, table, state, historyVars>>

\* A pubrec for an identifier that is not in use is answered, too.
BrokerReads ==
    /\ toBroker # <<>> /\ toBroker' = Tail(toBroker)
    /\ LET ack == Head(toBroker)
           Ends(m) == /\ Id[m] = ack.id
                      /\ \/ ack.cmd = "puback" /\ QoS[m] = 1 /\ state[m] = "sent"
                         \/ ack.cmd = "pubrec" /\ QoS[m] = 2 /\ state[m] = "sent" /\ ~ack.good
                         \/ ack.cmd = "pubcomp" /\ state[m] = "released"
           Goes(m) == Id[m] = ack.id /\ ack.cmd = "pubrec" /\ ack.good /\ QoS[m] = 2
                      /\ state[m] = "sent"
           unknown == ack.cmd = "pubrec" /\ ~\E m \in Messages : Id[m] = ack.id /\ InProgress(m) IN
       /\ state' = [m \in Messages |-> CASE Ends(m) -> "done" [] Goes(m) -> "released"
                                        [] OTHER -> state[m]]
       /\ toClient' = IF unknown THEN Append(toClient, [cmd |-> "pubrel", id |-> ack.id])
                      ELSE toClient
    /\ UNCHANGED <<clientVars, table, sent, historyVars>>

-----------------------------------------------------------------------------
ClientRuns == \E c \in Connections : Work(c)
HandlerAnswers == \E c \in Connections : MessageHandled(c)
ClientReceives == \E n \in 1..Len(toClient) : Receive(n)
BrokerSends == \E m \in Messages : BrokerPublish(m) \/ BrokerPubrel(m)

Next ==
    \/ ClientRuns \/ HandlerAnswers \/ ClientReceives \/ Deliver
    \/ Connect \/ Close \/ BrokerSends \/ BrokerReads

Spec == Init /\ [][Next]_vars

(***************************************************************************)
(* Fairness: the event loop, the broker, and a handleMessage that always   *)
(* calls back, as the README asks; a connection whose work queue is stuck  *)
(* reads no PINGRESP and is closed by the keepalive.                       *)
(***************************************************************************)
Fairness ==
    /\ WF_vars(ClientRuns) /\ WF_vars(HandlerAnswers) /\ WF_vars(ClientReceives)
    /\ WF_vars(Deliver) /\ WF_vars(Connect)
    /\ WF_vars(conn > 0 /\ handling[conn] = Stuck /\ Close)
    /\ WF_vars(BrokerSends) /\ WF_vars(BrokerReads)
FairSpec == Spec /\ Fairness

-----------------------------------------------------------------------------
\* No packet of its identifier was left over by a connection that closed, nor
\* did the user refuse it.
Undisturbed(m) == Id[m] \notin leftOver /\ m \notin failed

(***************************************************************************)
(* A QoS 1 or 2 message that the client has acknowledged was emitted: it   *)
(* is not lost between the store, the queue and a new connection.          *)
(***************************************************************************)
AckedIsEmitted == \A m \in Messages :
    QoS[m] > 0 /\ state[m] = "done" /\ Undisturbed(m) => emitted[m] # <<>>

(***************************************************************************)
(* A QoS 2 message is emitted once, however often the broker sends it and  *)
(* its PUBREL: unless a handler failed, or was still running when the      *)
(* connection closed.                                                      *)
(***************************************************************************)
ExactlyOnce == \A m \in Messages :
    QoS[m] = 2 /\ Undisturbed(m) => Len(emitted[m]) <= 1

(***************************************************************************)
(* The incoming store holds what the broker has not finished with, so that *)
(* a later message of the same identifier is not taken for it.             *)
(***************************************************************************)
StoredIsInProgress == \A id \in DOMAIN incomingStore :
    Undisturbed(incomingStore[id].msg) => InProgress(incomingStore[id].msg)

(***************************************************************************)
(* A message is emitted with the topic it was published to, by name or by  *)
(* alias, though the broker gives an alias one topic after another: unless *)
(* a connection closed with packets of that alias left over, which         *)
(* register it in the table of the next connection.                        *)
(***************************************************************************)
RightTopic(m) == \A i \in DOMAIN emitted[m] : emitted[m][i] = TopicOf[m]
AliasUndisturbed(a) == a # 0 => \A m \in Messages : AliasOf[m] = a => Id[m] \notin leftOver
EmittedTopic == \A m \in Messages : AliasUndisturbed(AliasOf[m]) => RightTopic(m)

(***************************************************************************)
(* A message the broker sends is answered in the end, though customHandle- *)
(* Acks may block the queue and connections may break: unless the queue of *)
(* the last connection (MaxConns) is blocked, which the bound keeps open.  *)
(***************************************************************************)
LastIsStuck == conn > 0 /\ conn = MaxConns /\ handling[conn] = Stuck
SentIsAnswered == \A m \in Messages :
    state[m] = "sent" ~> state[m] = "done" \/ ~Undisturbed(m) \/ LastIsStuck
=============================================================================
