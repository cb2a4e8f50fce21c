---------------------------- MODULE PublishFlow ----------------------------
(***************************************************************************)
(* The whole path of a publish: the client of OutgoingSession, unchanged,  *)
(* of which only publishes are asked (Kind is "qos0", "qos1" or "qos2"),   *)
(* a connection that keeps the order and loses what is under way when it   *)
(* breaks, and a broker that keeps the client's session.  What the client  *)
(* writes goes to the broker, and its acks are those the broker sends.     *)
(*                                                                         *)
(* It is shown to implement DeliveryContract.                              *)
(***************************************************************************)
EXTENDS OutgoingSession

CONSTANT MayRefuse     \* the broker may refuse a publish with a reason code

ASSUME Refusals == MayRefuse \in BOOLEAN

VARIABLES
    toBroker,      \* packets under way to the broker
    toClient,      \* acknowledgements under way to the client
    session,       \* the broker has a session of this client
    received,      \* ids of the QoS 2 publishes received and not yet released
    delivered,     \* history: how often the broker passed each publish on
    refused        \* history: the publishes the broker has refused

brokerVars == <<session, received, delivered, refused>>
flowVars == <<toBroker, toClient, brokerVars>>
allVars == <<vars, flowVars>>

Acknowledgement ==
    [cmd : {"puback", "pubrec", "pubcomp"}, id : Ids, good : BOOLEAN]

FlowTypeOK ==
    /\ toBroker \in Seq(Packet) /\ toClient \in Seq(Acknowledgement)
    /\ session \in BOOLEAN /\ received \subseteq Ids
    /\ delivered \in [Requests -> Nat] /\ refused \subseteq Requests

\* nextId is of no use to the unique provider.
FlowInit ==
    /\ Init /\ (UniqueIds => nextId = 1)
    /\ toBroker = <<>> /\ toClient = <<>>
    /\ session = FALSE /\ received = {} /\ delivered = [r \in Requests |-> 0]
    /\ refused = {}

-----------------------------------------------------------------------------
(* The client. *)

Sends == toBroker' = toBroker \o written'

\* The identifier of a stored message is free until the replay registers it.
Exposed == UniqueIds /\ \E i \in DOMAIN store : store[i].id \notin used
TakesId(r) == Kind[r] # "qos0" /\ ~MustWait(r)

\* Left out: a call that takes an identifier after a replay was cut short (the
\* counterexample of IdIsNotStolen).  Calls that wait, or need none, are made.
ClientCalls == \E r \in Requests :
    /\ ~(Exposed /\ TakesId(r))
    /\ Call(r) /\ Sends /\ UNCHANGED <<toClient, brokerVars>>

ClientRuns == Run /\ Sends /\ UNCHANGED <<toClient, brokerVars>>

ClientDrains == Drain /\ Sends /\ UNCHANGED <<toClient, brokerVars>>

\* An acknowledgement that nobody waits for is ignored.
Handles(ack) ==
    \/ ack.cmd \in {"puback", "pubcomp"} /\ HandlePuback(ack.id, ack.good)
    \/ ack.cmd = "pubrec" /\ HandlePubrec(ack.id, ack.good)

ClientHandlesAck ==
    /\ toClient # <<>> /\ Turn /\ connected
    /\ toClient' = Tail(toClient)
    /\ IF Head(toClient).id \in DOMAIN outgoing
       THEN Handles(Head(toClient)) /\ Sends
       ELSE UNCHANGED <<vars, toBroker>>
    /\ UNCHANGED brokerVars

-----------------------------------------------------------------------------
(* The connection. *)

\* A broker that keeps the session says so, and keeps what it received.
Connected ==
    /\ Connack(session) /\ session' = TRUE
    /\ UNCHANGED <<toBroker, toClient, received, delivered, refused>>

PingsLost == KeepaliveTimeout /\ UNCHANGED flowVars

ConnectionLost ==
    /\ Close
    /\ toBroker' = <<>> /\ toClient' = <<>>
    /\ UNCHANGED brokerVars

-----------------------------------------------------------------------------
(* The broker handles one packet at a time, in order. *)

Answers(cmd, id, good) ==
    toClient' = Append(toClient, [cmd |-> cmd, id |-> id, good |-> good])

Passes(p) == delivered' = [delivered EXCEPT ![p.req] = @ + 1]

BrokerTakes(p) ==
    /\ toBroker # <<>> /\ p = Head(toBroker)
    /\ toBroker' = Tail(toBroker)
    /\ UNCHANGED <<vars, session>>

BrokerPublish(p) ==
    /\ BrokerTakes(p) /\ p.cmd = "publish" /\ UNCHANGED refused
    /\ \/ /\ KindOf(p.req) = "qos0"
          /\ Passes(p) /\ UNCHANGED <<toClient, received>>
       \/ /\ KindOf(p.req) = "qos1"
          /\ Passes(p) /\ Answers("puback", p.id, TRUE) /\ UNCHANGED received
       \/ /\ KindOf(p.req) = "qos2" /\ p.id \notin received
          /\ Passes(p) /\ received' = received \cup {p.id} /\ Answers("pubrec", p.id, TRUE)
       \/ /\ KindOf(p.req) = "qos2" /\ p.id \in received
          /\ Answers("pubrec", p.id, TRUE) /\ UNCHANGED <<received, delivered>>

BrokerRefuses(p) ==
    /\ MayRefuse /\ BrokerTakes(p) /\ p.cmd = "publish"
    /\ \/ KindOf(p.req) = "qos1" /\ Answers("puback", p.id, FALSE)
       \/ KindOf(p.req) = "qos2" /\ p.id \notin received /\ Answers("pubrec", p.id, FALSE)
    /\ refused' = refused \cup {p.req}
    /\ UNCHANGED <<received, delivered>>

BrokerPubrel(p) ==
    /\ BrokerTakes(p) /\ p.cmd = "pubrel"
    /\ received' = received \ {p.id} /\ Answers("pubcomp", p.id, TRUE)
    /\ UNCHANGED <<delivered, refused>>

BrokerHandles == toBroker # <<>> /\ LET p == Head(toBroker) IN
    BrokerPublish(p) \/ BrokerRefuses(p) \/ BrokerPubrel(p)

-----------------------------------------------------------------------------
FlowNext ==
    \/ ClientCalls \/ ClientRuns \/ ClientDrains \/ ClientHandlesAck
    \/ Connected \/ PingsLost \/ ConnectionLost
    \/ BrokerHandles

FlowSpec == FlowInit /\ [][FlowNext]_allVars

(***************************************************************************)
(* Fairness: the event loop runs what it has begun and reads the socket; a *)
(* destroyed stream closes; a lost connection is made again; the broker    *)
(* handles what it gets.  Nothing makes the user call, and losses are      *)
(* bounded by MaxDrops.                                                    *)
(***************************************************************************)
FairFlowSpec ==
    /\ FlowSpec
    /\ WF_allVars(ClientRuns) /\ WF_allVars(ClientDrains)
    /\ WF_allVars(ClientHandlesAck) /\ WF_allVars(BrokerHandles)
    /\ WF_allVars(Connected) /\ WF_allVars(Destroyed /\ ConnectionLost)

-----------------------------------------------------------------------------
(***************************************************************************)
(* The broker holds back a QoS 2 identifier only while the client has a    *)
(* QoS 2 publish in flight under it.  Otherwise the next message with that *)
(* identifier would be taken for a duplicate and dropped.                  *)
(***************************************************************************)
ReceivedIsInFlight ==
    /\ FlowTypeOK
    /\ \A id \in received : id \in DOMAIN outgoing /\ KindOf(outgoing[id].req) = "qos2"

(***************************************************************************)
(* The contract.  QoS 2 is delivered at most once, over any losses of the  *)
(* connection, replays and reuse of identifiers; QoS 1 and 2 never after   *)
(* their callback, and in the order of the calls; a callback without an    *)
(* error means a delivery.                                                 *)
(***************************************************************************)
Contract == INSTANCE DeliveryContract WITH
    Messages  <- Requests,
    QoS       <- [r \in Requests |-> CASE Kind[r] = "qos0" -> 0
                                       [] Kind[r] = "qos1" -> 1
                                       [] OTHER -> 2],
    published <- issued,
    delivered <- delivered,
    answered  <- called,
    accepted  <- succeeded,
    refused   <- refused

ImplementsContract == Contract!Spec

(***************************************************************************)
(* Once connections stop breaking a publish of QoS 1 or 2 gets its answer: *)
(* it is neither lost in a queue nor forgotten by a replay.  The only other *)
(* end is the stall of _invokeStoreProcessingQueue (client.ts:2384): it    *)
(* begins one waiting call per ack, and when that is a publish of QoS 0 no *)
(* ack follows, so that the next one waits on an idle connection.          *)
(***************************************************************************)
Stalled(r) == Idle /\ connected /\ stream = "none" /\ In(spq, r) /\ outgoing = Empty
PublishIsAnswered == \A r \in Requests :
    Kind[r] \in {"qos1", "qos2"} => (WasIssued(r) ~> called[r] > 0 \/ Stalled(r))
=============================================================================
