---------------------------- MODULE Incoming_proofs ----------------------------
(***************************************************************************)
(* Proofs about Incoming, for any messages, identifiers shared between     *)
(* them, answers of the user's handlers and number of connections.         *)
(***************************************************************************)
EXTENDS Incoming, SequenceTheorems, TLAPS

-----------------------------------------------------------------------------
(***************************************************************************)
(* Which packets take part in the handshake of an identifier: all but a    *)
(* publish of QoS 0.                                                       *)
(***************************************************************************)
TakesPart(p, id) == p.id = id /\ (p.cmd # "publish" \/ QoS[p.msg] > 0)
Has(s, id) == \E p \in Range(s) : TakesPart(p, id)
Once(s, id) == \A i, j \in DOMAIN s :
    TakesPart(s[i], id) /\ TakesPart(s[j], id) => i = j

LEMMA AppendRange ==
    ASSUME NEW S, NEW s \in Seq(S), NEW x \in S
    PROVE  Append(s, x) \in Seq(S) /\ Range(Append(s, x)) = Range(s) \cup {x}
<1>1. /\ Append(s, x) \in Seq(S) /\ Len(Append(s, x)) = Len(s) + 1
      /\ \A i \in 1..Len(s) : Append(s, x)[i] = s[i]
      /\ Append(s, x)[Len(s) + 1] = x
  BY AppendProperties
<1>2. Len(s) \in Nat /\ DOMAIN s = 1..Len(s) /\ DOMAIN Append(s, x) = 1..Len(s) + 1
  BY <1>1, LenProperties
<1>3. ASSUME NEW y \in Range(Append(s, x)) PROVE y \in Range(s) \cup {x}
  BY <1>1, <1>2, <1>3 DEF Range
<1>4. ASSUME NEW y \in Range(s) PROVE y \in Range(Append(s, x))
  BY <1>1, <1>2 DEF Range
<1>5. x \in Range(Append(s, x))
  BY <1>1, <1>2 DEF Range
<1> QED BY <1>1, <1>3, <1>4, <1>5

LEMMA AppendOnce ==
    ASSUME NEW S, NEW s \in Seq(S), NEW x \in S, NEW id, Once(s, id),
           ~(Has(s, id) /\ TakesPart(x, id))
    PROVE  Once(Append(s, x), id)
<1>1. /\ \A i \in 1..Len(s) : Append(s, x)[i] = s[i]
      /\ Append(s, x)[Len(s) + 1] = x
      /\ Len(s) \in Nat /\ DOMAIN s = 1..Len(s) /\ DOMAIN Append(s, x) = 1..Len(s) + 1
  BY AppendProperties, LenProperties
<1>2. \A i \in DOMAIN s : s[i] \in Range(s)
  BY DEF Range
<1> QED BY <1>1, <1>2 DEF Once, Has

LEMMA HeadTailRange ==
    ASSUME NEW S, NEW s \in Seq(S), s # <<>>
    PROVE  /\ Head(s) \in S /\ Tail(s) \in Seq(S)
           /\ Head(s) \in Range(s) /\ Range(Tail(s)) \subseteq Range(s)
           /\ \A i \in DOMAIN Tail(s) : Tail(s)[i] = s[i + 1] /\ i + 1 \in DOMAIN s /\ i \in Nat
           /\ Head(s) = s[1] /\ 1 \in DOMAIN s
<1>1. /\ Head(s) \in S /\ Tail(s) \in Seq(S) /\ Len(Tail(s)) = Len(s) - 1
      /\ \A i \in 1..Len(Tail(s)) : Tail(s)[i] = s[i + 1]
  BY HeadTailProperties
<1>2. /\ Len(s) \in Nat \ {0} /\ DOMAIN s = 1..Len(s) /\ DOMAIN Tail(s) = 1..Len(s) - 1
      /\ Head(s) = s[1]
  BY <1>1, LenProperties, EmptySeq
<1>3. \A i \in DOMAIN Tail(s) : Tail(s)[i] = s[i + 1] /\ i + 1 \in DOMAIN s /\ i \in Nat
  BY <1>1, <1>2
<1>4. Head(s) \in Range(s)
  BY <1>2 DEF Range
<1>5. Range(Tail(s)) \subseteq Range(s)
  BY <1>3 DEF Range
<1> QED BY <1>1, <1>2, <1>3, <1>4, <1>5

LEMMA HeadTailOnce ==
    ASSUME NEW S, NEW s \in Seq(S), s # <<>>, NEW id, Once(s, id)
    PROVE  Once(Tail(s), id) /\ ~(TakesPart(Head(s), id) /\ Has(Tail(s), id))
<1>1. /\ \A i \in DOMAIN Tail(s) : Tail(s)[i] = s[i + 1] /\ i + 1 \in DOMAIN s /\ i \in Nat
      /\ Head(s) = s[1] /\ 1 \in DOMAIN s
  BY HeadTailRange
<1>2. Once(Tail(s), id)
  <2>1. SUFFICES ASSUME NEW i \in DOMAIN Tail(s), NEW j \in DOMAIN Tail(s),
                        TakesPart(s[i + 1], id), TakesPart(s[j + 1], id)
                 PROVE  i = j
    BY <1>1 DEF Once
  <2>2. i + 1 = j + 1
    BY <1>1, <2>1 DEF Once
  <2> QED BY <1>1, <2>2
<1>3. ASSUME TakesPart(Head(s), id), Has(Tail(s), id) PROVE FALSE
  <2>1. PICK i \in DOMAIN Tail(s) : TakesPart(Tail(s)[i], id)
    BY <1>3 DEF Has, Range
  <2>2. 1 = i + 1
    BY <1>1, <1>3, <2>1 DEF Once
  <2> QED BY <1>1, <2>2
<1> QED BY <1>2, <1>3

\* The first n packets and the others.
LEMMA SplitSeq ==
    ASSUME NEW S, NEW s \in Seq(S), NEW n \in 1..Len(s)
    PROVE  LET first == SubSeq(s, 1, n)
               last == SubSeq(s, n + 1, Len(s)) IN
           /\ first \in Seq(S) /\ last \in Seq(S)
           /\ Range(first) \subseteq Range(s) /\ Range(last) \subseteq Range(s)
           /\ \A id : Once(s, id) => /\ Once(first, id) /\ Once(last, id)
                                     /\ ~(Has(first, id) /\ Has(last, id))
<1> DEFINE first == SubSeq(s, 1, n)
           last == SubSeq(s, n + 1, Len(s))
<1>0. Len(s) \in Nat /\ n \in Nat /\ 1 <= n /\ n <= Len(s)
  BY LenProperties
<1>1. Len(s) \in Nat /\ DOMAIN s = 1..Len(s) /\ n \in Nat
      /\ \A i \in 1..Len(s) : s[i] \in S
  BY LenProperties, ElementOfSeq
<1>2. /\ first \in Seq(S) /\ Len(first) = n
      /\ \A i \in 1..n : first[i] = s[i]
  <2>1. \A i \in 1..n : s[i] \in S
    BY <1>1
  <2>2. 1 \in Int /\ n \in Int /\ 1 <= n
    BY <1>1
  <2>3. /\ first \in Seq(S) /\ Len(first) = IF 1 <= n THEN n - 1 + 1 ELSE 0
        /\ \A i \in 1..n - 1 + 1 : first[i] = s[1 + i - 1]
    BY <2>1, <2>2, SubSeqProperties
  <2> HIDE DEF first
  <2>4. n - 1 + 1 = n /\ \A i \in 1..n : 1 + i - 1 = i
    BY <1>1
  <2> QED BY <2>2, <2>3, <2>4
<1>3. /\ last \in Seq(S) /\ Len(last) = Len(s) - n
      /\ \A i \in 1..Len(s) - n : last[i] = s[n + i]
  <2>1. \A i \in n + 1..Len(s) : s[i] \in S
    BY <1>1
  <2>2. n + 1 \in Int /\ Len(s) \in Int
    BY <1>1
  <2>3. /\ last \in Seq(S) /\ Len(last) = IF n + 1 <= Len(s) THEN Len(s) - (n + 1) + 1 ELSE 0
        /\ \A i \in 1..Len(s) - (n + 1) + 1 : last[i] = s[n + 1 + i - 1]
    BY <2>1, <2>2, SubSeqProperties
  <2> HIDE DEF last
  <2>4. Len(s) - (n + 1) + 1 = Len(s) - n /\ \A i \in 1..Len(s) - n : n + 1 + i - 1 = n + i
    BY <1>1
  <2>5. CASE n = Len(s)
    <3>1. ~(n + 1 <= Len(s)) /\ Len(s) - n = 0
      BY <1>0, <2>5
    <3> QED BY <2>3, <2>4, <3>1
  <2>6. CASE n # Len(s)
    <3>1. n + 1 <= Len(s)
      BY <1>0, <2>6
    <3> QED BY <2>3, <2>4, <3>1
  <2> QED BY <2>5, <2>6
<1> HIDE DEF first, last
<1>4. /\ DOMAIN first = 1..n /\ DOMAIN last = 1..Len(s) - n
  BY <1>2, <1>3, LenProperties
<1>5. /\ \A i \in DOMAIN first : first[i] = s[i] /\ i \in DOMAIN s /\ i \in 1..n
      /\ \A i \in DOMAIN last : last[i] = s[n + i] /\ n + i \in DOMAIN s /\ i \in 1..Len(s)
  BY <1>1, <1>2, <1>3, <1>4
<1>6. Range(first) \subseteq Range(s) /\ Range(last) \subseteq Range(s)
  BY <1>5 DEF Range
<1>7. ASSUME NEW id, Once(s, id)
      PROVE  /\ Once(first, id) /\ Once(last, id)
             /\ ~(Has(first, id) /\ Has(last, id))
  <2>1. Once(first, id)
    BY <1>5, <1>7 DEF Once
  <2>2. ASSUME NEW i \in DOMAIN last, NEW j \in DOMAIN last,
               TakesPart(s[n + i], id), TakesPart(s[n + j], id)
        PROVE  i = j
    <3>1. n + i = n + j
      BY <1>5, <1>7, <2>2 DEF Once
    <3> QED BY <1>1, <1>5, <3>1
  <2>3. ASSUME Has(first, id), Has(last, id) PROVE FALSE
    <3>1. PICK i \in DOMAIN first : TakesPart(first[i], id)
      BY <2>3 DEF Has, Range
    <3>2. PICK j \in DOMAIN last : TakesPart(last[j], id)
      BY <2>3 DEF Has, Range
    <3>3. i = n + j
      BY <1>5, <1>7, <3>1, <3>2 DEF Once
    <3> QED BY <1>1, <1>5, <3>3
  <2> QED BY <1>5, <2>1, <2>2, <2>3 DEF Once
<1> QED BY <1>2, <1>3, <1>6, <1>7 DEF first, last

LEMMA EmptyRange == Range(<<>>) = {} /\ \A id : ~Has(<<>>, id) /\ Once(<<>>, id)
BY DEF Range, Has, Once

-----------------------------------------------------------------------------
(* Types, and what a packet says of its message. *)

WellFormed(p) == p.cmd = "publish" => p.id = Id[p.msg]
StoredPacket(id, p) == p.cmd = "publish" /\ p.id = id /\ Id[p.msg] = id /\ QoS[p.msg] = 2

PacketsWellFormed ==
    /\ \A c \in Connections : \A p \in Range(packets[c]) : WellFormed(p)
    /\ \A p \in Range(toClient) : WellFormed(p)
    /\ \A c \in Connections : handling[c].at = "message" =>
          /\ WellFormed(handling[c].packet)
          /\ handling[c].packet.cmd = "publish" => QoS[handling[c].packet.msg] < 2
    /\ \A id \in DOMAIN incomingStore : StoredPacket(id, incomingStore[id])

TypeInv == TypeOK /\ PacketsWellFormed /\ (connected => conn \in Connections)

Places == {Free, Queued, Stuck} \cup [at : {"message"}, packet : Packet, good : BOOLEAN]
Entry == [ack : AckPacket, by : Connections]

LEMMA PacketType ==
    ASSUME NEW p \in Packet
    PROVE  /\ p.cmd \in {"publish", "pubrel"} /\ p.id \in Ids
           /\ p.cmd = "publish" => p.msg \in Messages /\ p.topic \in Topics
BY DEF Packet

LEMMA PlaceType ==
    /\ Free \in Places /\ Queued \in Places /\ Stuck \in Places
    /\ Free.at # "message" /\ Queued.at # "message" /\ Stuck.at # "message"
    /\ \A p \in Packet : \A good \in BOOLEAN :
          LET h == [at |-> "message", packet |-> p, good |-> good] IN
          h \in Places /\ h.at = "message" /\ h.packet = p /\ h.good = good
    /\ \A h \in Places : h.at = "message" => h.packet \in Packet /\ h.good \in BOOLEAN
BY DEF Places, Free, Queued, Stuck

LEMMA MessageTypes ==
    ASSUME NEW m \in Messages
    PROVE  /\ QoS[m] \in 0..2 /\ Id[m] \in Ids /\ AliasOf[m] \in Nat
           /\ TopicOf[m] \in Topics \ {NoTopic}
BY MessagesAssumption DEF Ids, Topics

\* What the type invariant says of the client, of the connection and of the history.
ClientOK ==
    /\ connected \in BOOLEAN /\ conn \in 0..MaxConns
    /\ packets \in [Connections -> Seq(Packet)] /\ handling \in [Connections -> Places]
    /\ queue \in Seq(Entry)
StoresOK ==
    /\ DOMAIN incomingStore \subseteq Ids
    /\ \A id \in DOMAIN incomingStore : incomingStore[id] \in Packet
    /\ \A a \in DOMAIN aliases : aliases[a] \in Topics \ {NoTopic}
WireOK == toClient \in Seq(Packet) /\ toBroker \in Seq(AckPacket)
BrokerOK == state \in [Messages -> States] /\ sent \in [Messages -> {"nothing", "publish", "pubrel"}]
HistoryOK ==
    emitted \in [Messages -> Seq(Topics)] /\ leftOver \subseteq Ids /\ failed \subseteq Messages

LEMMA TypeParts == TypeOK <=> ClientOK /\ StoresOK /\ WireOK /\ BrokerOK /\ HistoryOK
BY DEF TypeOK, ClientOK, StoresOK, WireOK, BrokerOK, HistoryOK, Places, Entry

LEMMA TypePartsNext == TypeOK' <=> ClientOK' /\ StoresOK' /\ WireOK' /\ BrokerOK' /\ HistoryOK'
BY DEF TypeOK, ClientOK, StoresOK, WireOK, BrokerOK, HistoryOK, Places, Entry

\* A packet the client handles, or has handed to handleMessage.
LEMMA HeadType ==
    ASSUME TypeInv, NEW c \in Connections, packets[c] # <<>>
    PROVE  /\ Head(packets[c]) \in Packet /\ WellFormed(Head(packets[c]))
           /\ Head(packets[c]) \in Range(packets[c])
           /\ Tail(packets[c]) \in Seq(Packet)
           /\ Range(Tail(packets[c])) \subseteq Range(packets[c])
<1>1. packets[c] \in Seq(Packet) /\ packets \in [Connections -> Seq(Packet)]
  BY DEF TypeInv, TypeOK
<1> QED BY <1>1, HeadTailRange DEF TypeInv, PacketsWellFormed

LEMMA HandledType ==
    ASSUME TypeInv, NEW c \in Connections, handling[c].at = "message"
    PROVE  /\ handling[c].packet \in Packet /\ handling[c].good \in BOOLEAN
           /\ WellFormed(handling[c].packet)
           /\ handling[c].packet.cmd = "publish" => QoS[handling[c].packet.msg] < 2
<1>1. handling[c] \in Places
  BY DEF TypeInv, TypeOK, Places
<1> QED BY <1>1, PlaceType DEF TypeInv, PacketsWellFormed

-----------------------------------------------------------------------------
(* What the operators of the handlers do. *)

LEMMA SendAckDoes ==
    ASSUME TypeInv, NEW c \in Connections, NEW cmd \in {"puback", "pubrec", "pubcomp"},
           NEW id \in Ids, NEW good \in BOOLEAN, SendAck(c, cmd, id, good)
    PROVE  LET ack == [cmd |-> cmd, id |-> id, good |-> good] IN
           /\ ack \in AckPacket
           /\ handling' \in [Connections -> Places] /\ handling'[c].at # "message"
           /\ \A d \in Connections \ {c} : handling'[d] = handling[d]
           /\ queue' \in Seq(Entry) /\ toBroker' \in Seq(AckPacket)
           /\ connected => toBroker' = Append(toBroker, ack) /\ queue' = queue
           /\ ~connected => toBroker' = toBroker /\ queue' = Append(queue, [ack |-> ack, by |-> c])
<1> DEFINE ack == [cmd |-> cmd, id |-> id, good |-> good]
<1>1. ack \in AckPacket /\ [ack |-> ack, by |-> c] \in Entry
  BY DEF AckPacket, Entry
<1>2. handling \in [Connections -> Places] /\ queue \in Seq(Entry) /\ toBroker \in Seq(AckPacket)
  BY TypeParts DEF TypeInv, ClientOK, WireOK
<1>3. CASE connected
  <2>1. /\ toBroker' = Append(toBroker, ack) /\ queue' = queue
        /\ handling' = [handling EXCEPT ![c] = Free]
    BY <1>3 DEF SendAck
  <2> HIDE DEF ack
  <2> QED BY <1>1, <1>2, <1>3, <2>1, PlaceType, AppendRange DEF ack
<1>4. CASE ~connected
  <2>1. /\ toBroker' = toBroker /\ queue' = Append(queue, [ack |-> ack, by |-> c])
        /\ handling' = [handling EXCEPT ![c] = Queued]
    BY <1>4 DEF SendAck
  <2> HIDE DEF ack
  <2> QED BY <1>1, <1>2, <1>4, <2>1, PlaceType, AppendRange DEF ack
<1> QED BY <1>3, <1>4

LEMMA HandleMessageDoes ==
    ASSUME TypeInv, NEW c \in Connections, NEW p \in Packet, NEW good \in BOOLEAN,
           HandleMessage(c, p, good)
    PROVE  /\ handling' \in [Connections -> Places]
           /\ handling'[c].at = "message" /\ handling'[c].packet = p
           /\ \A d \in Connections \ {c} : handling'[d] = handling[d]
           /\ queue' = queue /\ toBroker' = toBroker
<1>1. handling \in [Connections -> Places]
  BY TypeParts DEF TypeInv, ClientOK
<1> QED BY <1>1, PlaceType DEF HandleMessage

LEMMA HangDoes ==
    ASSUME TypeInv, NEW c \in Connections, Hang(c)
    PROVE  /\ handling' \in [Connections -> Places] /\ handling'[c].at # "message"
           /\ \A d \in Connections \ {c} : handling'[d] = handling[d]
           /\ UNCHANGED <<incomingStore, toBroker, queue, emitted>>
<1>1. handling \in [Connections -> Places]
  BY TypeParts DEF TypeInv, ClientOK
<1> QED BY <1>1, PlaceType DEF Hang

LEMMA EmitDoes ==
    ASSUME TypeInv, NEW m \in Messages, NEW topic \in Topics, Emit(m, topic)
    PROVE  /\ emitted' \in [Messages -> Seq(Topics)]
           /\ emitted'[m] = Append(emitted[m], topic)
           /\ emitted'[m] # <<>> /\ Len(emitted'[m]) = Len(emitted[m]) + 1
           /\ \A n \in Messages \ {m} : emitted'[n] = emitted[n]
<1>1. emitted \in [Messages -> Seq(Topics)] /\ emitted[m] \in Seq(Topics)
  BY TypeParts DEF TypeInv, HistoryOK
<1>2. emitted'[m] = Append(emitted[m], topic)
      /\ \A n \in Messages \ {m} : emitted'[n] = emitted[n]
  BY <1>1 DEF Emit
<1>3. Append(emitted[m], topic) \in Seq(Topics)
      /\ Len(Append(emitted[m], topic)) = Len(emitted[m]) + 1
      /\ Append(emitted[m], topic) # <<>>
  BY <1>1, AppendProperties
<1> QED BY <1>1, <1>2, <1>3 DEF Emit

\* The type of the aliases, and of a topic they resolve.
LEMMA AliasType ==
    ASSUME TypeInv, NEW p \in Packet, p.cmd = "publish"
    PROVE  /\ ~Unregistered(p) => ResolvedTopic(p) \in Topics
           /\ RegisterAlias(p) =>
                \A a \in DOMAIN aliases' : aliases'[a] \in Topics \ {NoTopic}
<1>1. p.topic \in Topics /\ p.msg \in Messages
      /\ \A a \in DOMAIN aliases : aliases[a] \in Topics \ {NoTopic}
  BY PacketType, TypeParts DEF TypeInv, StoresOK
<1>2. ASSUME ~Unregistered(p) PROVE ResolvedTopic(p) \in Topics
  BY <1>1, <1>2 DEF Unregistered, ResolvedTopic
<1>3. ASSUME RegisterAlias(p), NEW a \in DOMAIN aliases' PROVE aliases'[a] \in Topics \ {NoTopic}
  <2>1. CASE Aliased(p) /\ p.topic # NoTopic
    <3>1. aliases' = With(aliases, AliasOf[p.msg], p.topic)
      BY <1>3, <2>1 DEF RegisterAlias
    <3>2. /\ DOMAIN aliases' = DOMAIN aliases \cup {AliasOf[p.msg]}
          /\ aliases'[AliasOf[p.msg]] = p.topic
          /\ \A b \in DOMAIN aliases : b # AliasOf[p.msg] => aliases'[b] = aliases[b]
      BY <3>1 DEF With
    <3> QED BY <1>1, <1>3, <2>1, <3>2
  <2>2. CASE ~(Aliased(p) /\ p.topic # NoTopic)
    BY <1>1, <1>3, <2>2 DEF RegisterAlias
  <2> QED BY <2>1, <2>2
<1> QED BY <1>2, <1>3

\* The store with a packet of QoS 2, and without an identifier.
LEMMA StoreType ==
    ASSUME TypeInv
    PROVE  /\ \A p \in Packet : p.cmd = "publish" /\ WellFormed(p) /\ QoS[p.msg] = 2
                  /\ incomingStore' = With(incomingStore, p.id, p) =>
                /\ DOMAIN incomingStore' \subseteq Ids
                /\ \A id \in DOMAIN incomingStore' :
                     incomingStore'[id] \in Packet /\ StoredPacket(id, incomingStore'[id])
           /\ \A id : incomingStore' = Without(incomingStore, id) \/ incomingStore' = incomingStore =>
                /\ DOMAIN incomingStore' \subseteq Ids
                /\ \A k \in DOMAIN incomingStore' :
                     incomingStore'[k] \in Packet /\ StoredPacket(k, incomingStore'[k])
<1>1. /\ DOMAIN incomingStore \subseteq Ids
      /\ \A id \in DOMAIN incomingStore :
           incomingStore[id] \in Packet /\ StoredPacket(id, incomingStore[id])
  BY TypeParts DEF TypeInv, StoresOK, PacketsWellFormed
<1>2. ASSUME NEW p \in Packet, p.cmd = "publish", WellFormed(p), QoS[p.msg] = 2,
             incomingStore' = With(incomingStore, p.id, p)
      PROVE  /\ DOMAIN incomingStore' \subseteq Ids
             /\ \A id \in DOMAIN incomingStore' :
                  incomingStore'[id] \in Packet /\ StoredPacket(id, incomingStore'[id])
  <2>1. p.id \in Ids /\ StoredPacket(p.id, p)
    BY <1>2, PacketType DEF StoredPacket, WellFormed
  <2>2. /\ DOMAIN incomingStore' = DOMAIN incomingStore \cup {p.id}
        /\ incomingStore'[p.id] = p
        /\ \A k \in DOMAIN incomingStore : k # p.id => incomingStore'[k] = incomingStore[k]
    BY <1>2 DEF With
  <2> QED BY <1>1, <1>2, <2>1, <2>2
<1>3. ASSUME NEW id, incomingStore' = Without(incomingStore, id) \/ incomingStore' = incomingStore
      PROVE  /\ DOMAIN incomingStore' \subseteq Ids
             /\ \A k \in DOMAIN incomingStore' :
                  incomingStore'[k] \in Packet /\ StoredPacket(k, incomingStore'[k])
  <2>1. /\ DOMAIN incomingStore' \subseteq DOMAIN incomingStore
        /\ \A k \in DOMAIN incomingStore' : incomingStore'[k] = incomingStore[k]
    BY <1>3 DEF Without
  <2> QED BY <1>1, <2>1
<1> QED BY <1>2, <1>3

\* The ways a packet is handled.
Answers == {"accept", "decline", "refuse"}
LEMMA WorkCases ==
    ASSUME TypeInv, NEW c \in Connections, Work(c), NEW p, p = Head(packets[c])
    PROVE  /\ handling[c].at # "message" /\ packets[c] # <<>>
           /\ packets' = [packets EXCEPT ![c] = Tail(@)]
           /\ UNCHANGED <<connected, conn, toClient, table, state, sent, leftOver>>
           /\ \/ /\ p.cmd = "publish" /\ RegisterAlias(p) /\ Hang(c)
                 /\ failed' = failed \/ failed' = failed \cup {p.msg}
              \/ /\ p.cmd = "publish" /\ RegisterAlias(p) /\ ~Unregistered(p)
                 /\ QoS[p.msg] = 0 /\ HandleQoS0(c, p)
              \/ /\ p.cmd = "publish" /\ RegisterAlias(p) /\ ~Unregistered(p)
                 /\ QoS[p.msg] = 1 /\ \E outcome \in Answers : HandleQoS1(c, p, outcome)
              \/ /\ p.cmd = "publish" /\ RegisterAlias(p) /\ ~Unregistered(p)
                 /\ QoS[p.msg] = 2 /\ \E outcome \in Answers : HandleQoS2(c, p, outcome)
              \/ HandlePubrel(c, p)
<1>1. /\ handling[c] = Free /\ packets[c] # <<>>
      /\ packets' = [packets EXCEPT ![c] = Tail(@)]
      /\ UNCHANGED <<connected, conn, toClient, table, state, sent, leftOver>>
      /\ HandlePublish(c, p) \/ HandlePubrel(c, p)
  BY DEF Work, brokerVars
<1>2. \A outcome \in Outcomes : outcome # "error" => outcome \in Answers
  BY OutcomesAssumption DEF Answers
<1> QED BY <1>1, <1>2, PlaceType DEF HandlePublish

-----------------------------------------------------------------------------
(* The types are kept. *)

\* What a step leaves to show when it only touches the client's own state.
LEMMA ClientStepType ==
    ASSUME TypeInv, UNCHANGED <<connected, conn, toClient, state, sent, leftOver>>,
           packets' \in [Connections -> Seq(Packet)],
           \A c \in Connections : Range(packets'[c]) \subseteq Range(packets[c]),
           handling' \in [Connections -> Places], queue' \in Seq(Entry),
           toBroker' \in Seq(AckPacket), failed' \subseteq Messages,
           emitted' \in [Messages -> Seq(Topics)],
           DOMAIN incomingStore' \subseteq Ids,
           \A id \in DOMAIN incomingStore' :
              incomingStore'[id] \in Packet /\ StoredPacket(id, incomingStore'[id]),
           \A a \in DOMAIN aliases' : aliases'[a] \in Topics \ {NoTopic},
           \A c \in Connections : handling'[c].at = "message" =>
              /\ WellFormed(handling'[c].packet)
              /\ handling'[c].packet.cmd = "publish" => QoS[handling'[c].packet.msg] < 2
    PROVE  TypeInv'
<1>1. ClientOK /\ WireOK /\ BrokerOK /\ HistoryOK
  BY TypeParts DEF TypeInv
<1>2. ClientOK' /\ StoresOK' /\ WireOK' /\ BrokerOK' /\ HistoryOK'
  BY <1>1 DEF ClientOK, StoresOK, WireOK, BrokerOK, HistoryOK
<1>3. PacketsWellFormed'
  BY DEF PacketsWellFormed, TypeInv
<1>4. connected' => conn' \in Connections'
  BY DEF TypeInv, Connections
<1> QED BY <1>2, <1>3, <1>4, TypePartsNext DEF TypeInv

LEMMA WorkType ==
    ASSUME TypeInv, NEW c \in Connections, Work(c)
    PROVE  TypeInv'
<1> DEFINE p == Head(packets[c])
<1>1. /\ handling[c].at # "message" /\ packets[c] # <<>>
      /\ packets' = [packets EXCEPT ![c] = Tail(@)]
      /\ UNCHANGED <<connected, conn, toClient, table, state, sent, leftOver>>
  BY WorkCases
<1>2. p \in Packet /\ WellFormed(p) /\ Tail(packets[c]) \in Seq(Packet)
      /\ Range(Tail(packets[c])) \subseteq Range(packets[c])
  BY <1>1, HeadType
<1>3. ClientOK /\ StoresOK /\ WireOK /\ HistoryOK
  BY TypeParts DEF TypeInv
<1>4. /\ packets' \in [Connections -> Seq(Packet)]
      /\ \A d \in Connections : Range(packets'[d]) \subseteq Range(packets[d])
  BY <1>1, <1>2, <1>3 DEF ClientOK
<1> HIDE DEF p
<1>5. \A d \in Connections : handling[d].at = "message" =>
          /\ WellFormed(handling[d].packet)
          /\ handling[d].packet.cmd = "publish" => QoS[handling[d].packet.msg] < 2
  BY DEF TypeInv, PacketsWellFormed
<1>6. \A id \in DOMAIN incomingStore : StoredPacket(id, incomingStore[id])
  BY DEF TypeInv, PacketsWellFormed
<1>7. CASE /\ p.cmd = "publish" /\ RegisterAlias(p) /\ Hang(c)
           /\ failed' = failed \/ failed' = failed \cup {p.msg}
  <2>1. p.msg \in Messages
    BY <1>2, <1>7, PacketType
  <2> QED BY <1>1, <1>2, <1>3, <1>4, <1>5, <1>6, <1>7, <2>1, HangDoes, AliasType, ClientStepType
          DEF ClientOK, StoresOK, WireOK, HistoryOK
<1>8. CASE /\ p.cmd = "publish" /\ RegisterAlias(p) /\ ~Unregistered(p)
           /\ QoS[p.msg] = 0 /\ HandleQoS0(c, p)
  <2>1. p.msg \in Messages /\ ResolvedTopic(p) \in Topics
    BY <1>2, <1>8, PacketType, AliasType
  <2>2. /\ Emit(p.msg, ResolvedTopic(p)) /\ HandleMessage(c, p, TRUE)
        /\ UNCHANGED <<incomingStore, failed>>
    BY <1>8 DEF HandleQoS0
  <2>3. emitted' \in [Messages -> Seq(Topics)]
    BY <2>1, <2>2, EmitDoes
  <2>4. \A a \in DOMAIN aliases' : aliases'[a] \in Topics \ {NoTopic}
    BY <1>2, <1>8, AliasType
  <2>5. /\ handling' \in [Connections -> Places]
        /\ handling'[c].at = "message" /\ handling'[c].packet = p
        /\ \A d \in Connections \ {c} : handling'[d] = handling[d]
        /\ queue' = queue /\ toBroker' = toBroker
    BY <1>2, <2>2, HandleMessageDoes
  <2>6. \A d \in Connections : handling'[d].at = "message" =>
          /\ WellFormed(handling'[d].packet)
          /\ handling'[d].packet.cmd = "publish" => QoS[handling'[d].packet.msg] < 2
    BY <1>2, <1>5, <1>8, <2>5
  <2>7. /\ DOMAIN incomingStore' \subseteq Ids /\ queue' \in Seq(Entry) /\ toBroker' \in Seq(AckPacket)
        /\ \A id \in DOMAIN incomingStore' :
             incomingStore'[id] \in Packet /\ StoredPacket(id, incomingStore'[id])
    BY <1>3, <1>6, <2>2, <2>5 DEF StoresOK, ClientOK, WireOK
  <2> QED BY <1>1, <1>3, <1>4, <2>2, <2>3, <2>4, <2>5, <2>6, <2>7, ClientStepType DEF HistoryOK
<1>9. CASE /\ p.cmd = "publish" /\ RegisterAlias(p) /\ ~Unregistered(p)
           /\ QoS[p.msg] = 1 /\ \E outcome \in Answers : HandleQoS1(c, p, outcome)
  <2>1. p.msg \in Messages /\ ResolvedTopic(p) \in Topics
    BY <1>2, <1>9, PacketType, AliasType
  <2>2. PICK outcome \in Answers : HandleQoS1(c, p, outcome)
    BY <1>9
  <2>3. /\ HandleMessage(c, p, outcome # "refuse") /\ UNCHANGED incomingStore
        /\ IF outcome = "accept" THEN Emit(p.msg, ResolvedTopic(p)) /\ UNCHANGED failed
           ELSE failed' = failed \cup {p.msg} /\ UNCHANGED emitted
    BY <2>2 DEF HandleQoS1
  <2>4. emitted' \in [Messages -> Seq(Topics)] /\ failed' \subseteq Messages
    BY <1>3, <2>1, <2>3, EmitDoes DEF HistoryOK
  <2>5. \A a \in DOMAIN aliases' : aliases'[a] \in Topics \ {NoTopic}
    BY <1>2, <1>9, AliasType
  <2>7. (outcome # "refuse") \in BOOLEAN
    OBVIOUS
  <2>6. /\ handling' \in [Connections -> Places]
        /\ handling'[c].at = "message" /\ handling'[c].packet = p
        /\ \A d \in Connections \ {c} : handling'[d] = handling[d]
        /\ queue' = queue /\ toBroker' = toBroker
    BY <1>2, <2>3, <2>7, HandleMessageDoes
  <2>8. \A d \in Connections : handling'[d].at = "message" =>
          /\ WellFormed(handling'[d].packet)
          /\ handling'[d].packet.cmd = "publish" => QoS[handling'[d].packet.msg] < 2
    BY <1>2, <1>5, <1>9, <2>6
  <2>9. /\ DOMAIN incomingStore' \subseteq Ids /\ queue' \in Seq(Entry) /\ toBroker' \in Seq(AckPacket)
        /\ \A id \in DOMAIN incomingStore' :
             incomingStore'[id] \in Packet /\ StoredPacket(id, incomingStore'[id])
    BY <1>3, <1>6, <2>3, <2>6 DEF StoresOK, ClientOK, WireOK
  <2> QED BY <1>1, <1>3, <1>4, <2>3, <2>4, <2>5, <2>6, <2>8, <2>9, ClientStepType DEF HistoryOK
<1>10. CASE /\ p.cmd = "publish" /\ RegisterAlias(p) /\ ~Unregistered(p)
            /\ QoS[p.msg] = 2 /\ \E outcome \in Answers : HandleQoS2(c, p, outcome)
  <2>1. p.msg \in Messages /\ p.id \in Ids
    BY <1>2, <1>10, PacketType
  <2>2. PICK outcome \in Answers : HandleQoS2(c, p, outcome)
    BY <1>10
  <2>3. /\ SendAck(c, "pubrec", p.id, outcome # "refuse") /\ UNCHANGED emitted
        /\ failed' = failed \/ failed' = failed \cup {p.msg} \/ failed' = failed \cup {}
        /\ incomingStore' = With(incomingStore, p.id, p) \/ incomingStore' = incomingStore
    BY <2>2 DEF HandleQoS2
  <2>4. /\ DOMAIN incomingStore' \subseteq Ids
        /\ \A id \in DOMAIN incomingStore' :
             incomingStore'[id] \in Packet /\ StoredPacket(id, incomingStore'[id])
    BY <1>2, <1>10, <2>3, StoreType
  <2>5. \A a \in DOMAIN aliases' : aliases'[a] \in Topics \ {NoTopic}
    BY <1>2, <1>10, AliasType
  <2>6. /\ handling' \in [Connections -> Places] /\ handling'[c].at # "message"
        /\ \A d \in Connections \ {c} : handling'[d] = handling[d]
        /\ queue' \in Seq(Entry) /\ toBroker' \in Seq(AckPacket)
    BY <2>1, <2>3, SendAckDoes
  <2> QED BY <1>1, <1>3, <1>4, <1>5, <2>1, <2>3, <2>4, <2>5, <2>6, ClientStepType DEF HistoryOK
<1>11. CASE HandlePubrel(c, p)
  <2>1. p.cmd = "pubrel" /\ p.id \in Ids /\ UNCHANGED <<incomingStore, aliases, failed>>
    BY <1>2, <1>11, PacketType DEF HandlePubrel, CompletesUnknown
  <2>2. CASE p.id \in DOMAIN incomingStore
    <3>1. /\ incomingStore[p.id].msg \in Messages /\ incomingStore[p.id].topic \in Topics
      BY <1>3, <1>6, <2>2, PacketType DEF StoresOK, StoredPacket
    <3>2. Emit(incomingStore[p.id].msg, incomingStore[p.id].topic) /\ HandleMessage(c, p, TRUE)
      BY <1>11, <2>2 DEF HandlePubrel
    <3>3. emitted' \in [Messages -> Seq(Topics)]
      BY <3>1, <3>2, EmitDoes
    <3> QED BY <1>1, <1>2, <1>3, <1>4, <1>5, <1>6, <2>1, <3>2, <3>3, HandleMessageDoes, ClientStepType
            DEF ClientOK, StoresOK, WireOK, HistoryOK
  <2>3. CASE p.id \notin DOMAIN incomingStore
    <3>1. SendAck(c, "pubcomp", p.id, TRUE) /\ UNCHANGED emitted
      BY <1>11, <2>3 DEF HandlePubrel, CompletesUnknown
    <3>2. /\ handling' \in [Connections -> Places] /\ handling'[c].at # "message"
          /\ \A d \in Connections \ {c} : handling'[d] = handling[d]
          /\ queue' \in Seq(Entry) /\ toBroker' \in Seq(AckPacket)
      BY <2>1, <3>1, SendAckDoes
    <3> QED BY <1>1, <1>3, <1>4, <1>5, <1>6, <2>1, <3>1, <3>2, ClientStepType DEF StoresOK, HistoryOK
  <2> QED BY <2>2, <2>3
<1> QED BY <1>7, <1>8, <1>9, <1>10, <1>11, WorkCases DEF p

\* The ways a handling ends.
LEMMA HandledCases ==
    ASSUME NEW c \in Connections, MessageHandled(c), NEW p, p = handling[c].packet
    PROVE  /\ handling[c].at = "message"
           /\ UNCHANGED <<connected, conn, packets, aliases, toClient, table, state, sent, emitted,
                          leftOver>>
           /\ \/ /\ p.cmd = "publish" /\ QoS[p.msg] = 0
                 /\ handling' = [handling EXCEPT ![c] = Free]
                 /\ UNCHANGED <<incomingStore, toBroker, queue, failed>>
              \/ /\ p.cmd = "publish" /\ QoS[p.msg] = 1
                 /\ SendAck(c, "puback", p.id, handling[c].good) /\ UNCHANGED <<incomingStore, failed>>
              \/ /\ p.cmd = "pubrel" /\ Del(p.id) /\ SendAck(c, "pubcomp", p.id, TRUE)
                 /\ UNCHANGED failed
              \/ /\ handling' = [handling EXCEPT ![c] = Free]
                 /\ failed' = failed \cup MessageOf(p)
                 /\ UNCHANGED <<incomingStore, toBroker, queue>>
BY DEF MessageHandled, Handled, brokerVars

LEMMA MessageHandledType ==
    ASSUME TypeInv, NEW c \in Connections, MessageHandled(c)
    PROVE  TypeInv'
<1> DEFINE p == handling[c].packet
<1>1. /\ handling[c].at = "message"
      /\ UNCHANGED <<connected, conn, packets, aliases, toClient, table, state, sent, emitted, leftOver>>
  BY HandledCases
<1>2. p \in Packet /\ handling[c].good \in BOOLEAN /\ p.id \in Ids
  BY <1>1, HandledType, PacketType
<1>3. ClientOK /\ StoresOK /\ WireOK /\ HistoryOK
  BY TypeParts DEF TypeInv
<1>4. \A d \in Connections : handling[d].at = "message" =>
          /\ WellFormed(handling[d].packet)
          /\ handling[d].packet.cmd = "publish" => QoS[handling[d].packet.msg] < 2
  BY DEF TypeInv, PacketsWellFormed
<1>5. \A id : incomingStore' = Without(incomingStore, id) \/ incomingStore' = incomingStore =>
         /\ DOMAIN incomingStore' \subseteq Ids
         /\ \A k \in DOMAIN incomingStore' :
              incomingStore'[k] \in Packet /\ StoredPacket(k, incomingStore'[k])
  BY StoreType
<1> HIDE DEF p
<1>9. MessageOf(p) \subseteq Messages
  <2>1. \A id \in DOMAIN incomingStore : incomingStore[id].msg \in Messages
    <3>1. SUFFICES ASSUME NEW id \in DOMAIN incomingStore
                   PROVE  incomingStore[id].msg \in Messages
      OBVIOUS
    <3>2. incomingStore[id] \in Packet /\ StoredPacket(id, incomingStore[id])
      BY <1>3, <3>1 DEF StoresOK, TypeInv, PacketsWellFormed
    <3> QED BY <3>2, PacketType DEF StoredPacket
  <2> QED BY <1>2, <2>1, PacketType DEF MessageOf
<1>6. ASSUME handling' = [handling EXCEPT ![c] = Free],
             UNCHANGED <<incomingStore, toBroker, queue>>, failed' \subseteq Messages
      PROVE  TypeInv'
  <2>1. /\ handling' \in [Connections -> Places] /\ handling'[c].at # "message"
        /\ \A d \in Connections \ {c} : handling'[d] = handling[d]
    BY <1>3, <1>6, PlaceType DEF ClientOK
  <2> QED BY <1>1, <1>3, <1>4, <1>5, <1>6, <2>1, ClientStepType
          DEF ClientOK, StoresOK, WireOK, HistoryOK
<1>7. ASSUME NEW cmd \in {"puback", "pubcomp"}, NEW good \in BOOLEAN, SendAck(c, cmd, p.id, good),
             UNCHANGED failed, UNCHANGED incomingStore \/ Del(p.id)
      PROVE  TypeInv'
  <2>1. /\ handling' \in [Connections -> Places] /\ handling'[c].at # "message"
        /\ \A d \in Connections \ {c} : handling'[d] = handling[d]
        /\ queue' \in Seq(Entry) /\ toBroker' \in Seq(AckPacket)
    BY <1>2, <1>7, SendAckDoes
  <2>2. incomingStore' = Without(incomingStore, p.id) \/ incomingStore' = incomingStore
    BY <1>7 DEF Del
  <2> QED BY <1>1, <1>3, <1>4, <1>5, <1>7, <2>1, <2>2, ClientStepType
          DEF ClientOK, StoresOK, WireOK, HistoryOK
<1>8. failed \subseteq Messages
  BY <1>3 DEF HistoryOK
<1> QED BY <1>2, <1>6, <1>7, <1>8, <1>9, HandledCases DEF p

LEMMA ReceiveType ==
    ASSUME TypeInv, NEW n \in 1..Len(toClient), Receive(n)
    PROVE  /\ TypeInv' /\ conn \in Connections
           /\ packets' \in [Connections -> Seq(Packet)]
           /\ packets'[conn] = SubSeq(toClient, 1, n)
           /\ \A c \in Connections \ {conn} : packets'[c] = packets[c]
<1>1. /\ ClientOK /\ StoresOK /\ WireOK /\ BrokerOK /\ HistoryOK /\ PacketsWellFormed
      /\ connected /\ conn \in Connections
  BY TypeParts DEF TypeInv, Receive
<1>2. /\ packets' = [packets EXCEPT ![conn] = SubSeq(toClient, 1, n)]
      /\ toClient' = SubSeq(toClient, n + 1, Len(toClient))
      /\ UNCHANGED <<connected, conn, handling, incomingStore, aliases, queue, toBroker,
                     state, sent, emitted, leftOver, failed>>
  BY DEF Receive, brokerVars, historyVars
<1>3. /\ SubSeq(toClient, 1, n) \in Seq(Packet) /\ toClient' \in Seq(Packet)
      /\ Range(SubSeq(toClient, 1, n)) \subseteq Range(toClient)
      /\ Range(toClient') \subseteq Range(toClient)
  BY <1>1, <1>2, SplitSeq DEF WireOK
<1>4. /\ packets' \in [Connections -> Seq(Packet)]
      /\ packets'[conn] = SubSeq(toClient, 1, n)
      /\ \A c \in Connections \ {conn} : packets'[c] = packets[c]
  BY <1>1, <1>2, <1>3 DEF ClientOK
<1>5. PacketsWellFormed'
  BY <1>1, <1>2, <1>3, <1>4 DEF PacketsWellFormed
<1>6. ClientOK' /\ StoresOK' /\ WireOK' /\ BrokerOK' /\ HistoryOK'
  BY <1>1, <1>2, <1>3, <1>4 DEF ClientOK, StoresOK, WireOK, BrokerOK, HistoryOK
<1>7. connected' => conn' \in Connections'
  BY <1>1, <1>2 DEF Connections
<1> QED BY <1>1, <1>4, <1>5, <1>6, <1>7, TypePartsNext DEF TypeInv

LEMMA DeliverType ==
    ASSUME TypeInv, Deliver
    PROVE  /\ TypeInv' /\ Head(queue) \in Entry /\ Head(queue) \in Range(queue)
           /\ Range(queue') \subseteq Range(queue)
           /\ toBroker' = Append(toBroker, Head(queue).ack)
           /\ handling'[Head(queue).by].at # "message"
           /\ \A c \in Connections \ {Head(queue).by} : handling'[c] = handling[c]
<1>1. ClientOK /\ StoresOK /\ WireOK /\ BrokerOK /\ HistoryOK
  BY TypeParts DEF TypeInv
<1>2. /\ queue # <<>> /\ queue' = Tail(queue)
      /\ toBroker' = Append(toBroker, Head(queue).ack)
      /\ handling' = [handling EXCEPT ![Head(queue).by] = Free]
      /\ UNCHANGED <<connected, conn, packets, incomingStore, aliases, toClient, state, sent,
                     emitted, leftOver, failed>>
  BY DEF Deliver, brokerVars, historyVars
<1>3. /\ Head(queue) \in Entry /\ Head(queue) \in Range(queue) /\ queue' \in Seq(Entry)
      /\ Range(queue') \subseteq Range(queue)
  BY <1>1, <1>2, HeadTailRange DEF ClientOK
<1>4. Head(queue).ack \in AckPacket /\ Head(queue).by \in Connections
  BY <1>3 DEF Entry
<1>5. toBroker' \in Seq(AckPacket)
  BY <1>1, <1>2, <1>4, AppendRange DEF WireOK
<1>6. /\ handling' \in [Connections -> Places] /\ handling'[Head(queue).by].at # "message"
      /\ \A c \in Connections \ {Head(queue).by} : handling'[c] = handling[c]
  BY <1>1, <1>2, <1>4, PlaceType DEF ClientOK
<1>7. \A c \in Connections : handling'[c].at = "message" =>
          /\ WellFormed(handling'[c].packet)
          /\ handling'[c].packet.cmd = "publish" => QoS[handling'[c].packet.msg] < 2
  BY <1>6 DEF TypeInv, PacketsWellFormed
<1>8. \A id \in DOMAIN incomingStore' :
         incomingStore'[id] \in Packet /\ StoredPacket(id, incomingStore'[id])
  BY <1>1, <1>2 DEF StoresOK, TypeInv, PacketsWellFormed
<1>9. TypeInv'
  BY <1>1, <1>2, <1>3, <1>5, <1>6, <1>7, <1>8, ClientStepType DEF ClientOK, StoresOK, HistoryOK
<1> QED BY <1>2, <1>3, <1>6, <1>9

LEMMA ConnectType ==
    ASSUME TypeInv, Connect
    PROVE  TypeInv'
<1>1. ClientOK /\ StoresOK /\ WireOK /\ BrokerOK /\ HistoryOK
  BY TypeParts DEF TypeInv
<1>2. /\ connected' = TRUE /\ conn' = conn + 1 /\ conn < MaxConns
      /\ sent' = [m \in Messages |-> "nothing"]
      /\ UNCHANGED <<packets, handling, incomingStore, aliases, queue, toClient, toBroker, state,
                     emitted, leftOver, failed>>
  BY DEF Connect, historyVars
<1>3. conn' \in Connections /\ conn' \in 0..MaxConns
  BY <1>1, <1>2, ConnectionsAssumption DEF ClientOK, Connections
<1>4. PacketsWellFormed'
  BY <1>2 DEF PacketsWellFormed, TypeInv
<1>5. ClientOK' /\ StoresOK' /\ WireOK' /\ BrokerOK' /\ HistoryOK'
  BY <1>1, <1>2, <1>3 DEF ClientOK, StoresOK, WireOK, BrokerOK, HistoryOK
<1> QED BY <1>3, <1>4, <1>5, TypePartsNext DEF TypeInv, Connections

\* A close leaves what waits in the work queues, or a stuck one empty.
LEMMA RestMoves ==
    ASSUME TypeInv, Close
    PROVE  /\ packets' \in [Connections -> Seq(Packet)]
           /\ packets'[conn] = Rest(conn)
           /\ \A c \in Connections \ {conn} : packets'[c] = packets[c]
           /\ \A c \in Connections : Range(packets'[c]) \subseteq Range(packets[c])
<1>1. packets \in [Connections -> Seq(Packet)] /\ conn \in Connections
  BY TypeParts DEF TypeInv, ClientOK, Close
<1>2. packets' = [packets EXCEPT ![conn] = Rest(conn)]
  BY DEF Close
<1>3. Rest(conn) \in Seq(Packet) /\ Range(Rest(conn)) \subseteq Range(packets[conn])
  BY <1>1, EmptySeq, EmptyRange DEF Rest
<1>4. /\ packets'[conn] = Rest(conn)
      /\ \A c \in Connections \ {conn} : packets'[c] = packets[c]
      /\ packets' \in [Connections -> Seq(Packet)]
  BY <1>1, <1>2, <1>3
<1> QED BY <1>3, <1>4

LEMMA CloseType ==
    ASSUME TypeInv, Close
    PROVE  TypeInv'
<1>1. /\ ClientOK /\ StoresOK /\ WireOK /\ BrokerOK /\ HistoryOK /\ conn \in Connections
  BY TypeParts DEF TypeInv, Close
<1>2. /\ connected' = FALSE /\ aliases' = Empty /\ toClient' = <<>> /\ toBroker' = <<>>
      /\ leftOver' = leftOver \cup Unhandled(conn)
      /\ UNCHANGED <<conn, handling, incomingStore, queue, state, sent, emitted, failed>>
  BY DEF Close, brokerVars
<1>7. /\ packets' \in [Connections -> Seq(Packet)]
      /\ \A c \in Connections : Range(packets'[c]) \subseteq Range(packets[c])
  BY RestMoves
<1>3. Unhandled(conn) \subseteq Ids
  <2>1. \A i \in DOMAIN Rest(conn) : Rest(conn)[i].id \in Ids
    <3>1. Rest(conn) \in Seq(Packet)
      BY <1>1, EmptySeq DEF ClientOK, Rest
    <3>2. \A i \in DOMAIN Rest(conn) : Rest(conn)[i] \in Packet
      BY <3>1, LenProperties, ElementOfSeq
    <3> QED BY <3>2, PacketType
  <2>2. handling[conn].at = "message" => handling[conn].packet.id \in Ids
    BY <1>1, HandledType, PacketType
  <2> QED BY <2>1, <2>2 DEF Unhandled
<1>4. PacketsWellFormed'
  BY <1>2, <1>7, EmptyRange DEF PacketsWellFormed, TypeInv
<1>5. DOMAIN Empty = {}
  BY DEF Empty
<1>6. ClientOK' /\ StoresOK' /\ WireOK' /\ BrokerOK' /\ HistoryOK'
  BY <1>1, <1>2, <1>3, <1>5, <1>7, EmptySeq DEF ClientOK, StoresOK, WireOK, BrokerOK, HistoryOK
<1> QED BY <1>2, <1>4, <1>6, TypePartsNext DEF TypeInv

\* What the broker's steps leave alone, and what they send to the client.
LEMMA BrokerStepType ==
    ASSUME TypeInv, UNCHANGED <<clientVars, emitted, leftOver, failed>>,
           toClient' = toClient \/ \E p \in Packet : WellFormed(p) /\ toClient' = Append(toClient, p),
           toBroker' \in Seq(AckPacket), state' \in [Messages -> States],
           sent' \in [Messages -> {"nothing", "publish", "pubrel"}]
    PROVE  TypeInv'
<1>1. /\ ClientOK /\ StoresOK /\ WireOK /\ HistoryOK
  BY TypeParts DEF TypeInv
<1>2. UNCHANGED <<connected, conn, packets, handling, incomingStore, aliases, queue>>
  BY DEF clientVars
<1>3. toClient' \in Seq(Packet) /\ \A p \in Range(toClient') : WellFormed(p)
  <2>1. \A p \in Range(toClient) : WellFormed(p)
    BY DEF TypeInv, PacketsWellFormed
  <2>2. CASE toClient' = toClient
    BY <1>1, <2>1, <2>2 DEF WireOK
  <2>3. CASE \E p \in Packet : WellFormed(p) /\ toClient' = Append(toClient, p)
    <3>1. PICK p \in Packet : WellFormed(p) /\ toClient' = Append(toClient, p)
      BY <2>3
    <3>2. toClient' \in Seq(Packet) /\ Range(toClient') = Range(toClient) \cup {p}
      BY <1>1, <3>1, AppendRange DEF WireOK
    <3> QED BY <2>1, <3>1, <3>2
  <2> QED BY <2>2, <2>3
<1>4. PacketsWellFormed'
  BY <1>2, <1>3 DEF PacketsWellFormed, TypeInv
<1>5. ClientOK' /\ StoresOK' /\ WireOK' /\ BrokerOK' /\ HistoryOK'
  BY <1>1, <1>2, <1>3 DEF ClientOK, StoresOK, WireOK, BrokerOK, HistoryOK
<1>6. connected' => conn' \in Connections'
  BY <1>2 DEF TypeInv, Connections
<1> QED BY <1>4, <1>5, <1>6, TypePartsNext DEF TypeInv

LEMMA BrokerPublishDoes ==
    ASSUME TypeInv, NEW m \in Messages, BrokerPublish(m)
    PROVE  /\ \E topic \in {TopicOf[m], NoTopic} :
                LET p == [cmd |-> "publish", id |-> Id[m], msg |-> m, topic |-> topic] IN
                p \in Packet /\ WellFormed(p) /\ toClient' = Append(toClient, p)
           /\ connected /\ sent[m] = "nothing" /\ state[m] \in {"new", "sent"}
           /\ \A n \in Messages \ {m} : Id[n] = Id[m] => ~InProgress(n)
           /\ sent' = [sent EXCEPT ![m] = "publish"]
           /\ state' = [state EXCEPT ![m] = IF QoS[m] = 0 THEN "done" ELSE "sent"]
           /\ UNCHANGED <<clientVars, toBroker, emitted, leftOver, failed>>
<1>1. PICK topic \in {TopicOf[m], NoTopic} :
        toClient' = Append(toClient, [cmd |-> "publish", id |-> Id[m], msg |-> m, topic |-> topic])
  BY DEF BrokerPublish
<1> DEFINE p == [cmd |-> "publish", id |-> Id[m], msg |-> m, topic |-> topic]
<1>2. p \in Packet /\ WellFormed(p)
  BY MessageTypes DEF Packet, Topics, WellFormed
<1> QED BY <1>1, <1>2 DEF BrokerPublish, historyVars

LEMMA BrokerPublishType ==
    ASSUME TypeInv, NEW m \in Messages, BrokerPublish(m)
    PROVE  TypeInv'
<1>1. /\ UNCHANGED <<clientVars, emitted, leftOver, failed>> /\ toBroker' = toBroker
      /\ \E p \in Packet : WellFormed(p) /\ toClient' = Append(toClient, p)
  BY BrokerPublishDoes
<1>2. BrokerOK /\ WireOK
  BY TypeParts DEF TypeInv
<1>3. /\ state' \in [Messages -> States]
      /\ sent' \in [Messages -> {"nothing", "publish", "pubrel"}]
  BY <1>2, BrokerPublishDoes DEF BrokerOK, States
<1> QED BY <1>1, <1>2, <1>3, BrokerStepType DEF WireOK

LEMMA BrokerPubrelDoes ==
    ASSUME TypeInv, NEW m \in Messages, BrokerPubrel(m)
    PROVE  LET p == [cmd |-> "pubrel", id |-> Id[m]] IN
           /\ p \in Packet /\ WellFormed(p) /\ toClient' = Append(toClient, p)
           /\ connected /\ state[m] = "released" /\ sent[m] # "pubrel"
           /\ sent' = [sent EXCEPT ![m] = "pubrel"]
           /\ UNCHANGED <<clientVars, toBroker, table, state, emitted, leftOver, failed>>
<1> DEFINE p == [cmd |-> "pubrel", id |-> Id[m]]
<1>1. p \in Packet /\ WellFormed(p)
  BY MessageTypes DEF Packet, WellFormed
<1> QED BY <1>1 DEF BrokerPubrel, historyVars

LEMMA BrokerPubrelType ==
    ASSUME TypeInv, NEW m \in Messages, BrokerPubrel(m)
    PROVE  TypeInv'
<1>1. /\ UNCHANGED <<clientVars, emitted, leftOver, failed>> /\ toBroker' = toBroker
      /\ state' = state /\ sent' = [sent EXCEPT ![m] = "pubrel"]
      /\ \E p \in Packet : WellFormed(p) /\ toClient' = Append(toClient, p)
  BY BrokerPubrelDoes
<1>2. BrokerOK /\ WireOK
  BY TypeParts DEF TypeInv
<1> QED BY <1>1, <1>2, BrokerStepType DEF WireOK, BrokerOK

\* What an ack tells the broker of message m.
EndsIt(ack, m) ==
    /\ Id[m] = ack.id
    /\ \/ ack.cmd = "puback" /\ QoS[m] = 1 /\ state[m] = "sent"
       \/ ack.cmd = "pubrec" /\ QoS[m] = 2 /\ state[m] = "sent" /\ ~ack.good
       \/ ack.cmd = "pubcomp" /\ state[m] = "released"
Goes(ack, m) ==
    Id[m] = ack.id /\ ack.cmd = "pubrec" /\ ack.good /\ QoS[m] = 2 /\ state[m] = "sent"

LEMMA BrokerReadsDoes ==
    ASSUME TypeInv, BrokerReads, NEW ack, ack = Head(toBroker)
    PROVE  /\ toBroker # <<>> /\ ack \in AckPacket /\ ack \in Range(toBroker)
           /\ toBroker' = Tail(toBroker) /\ toBroker' \in Seq(AckPacket)
           /\ Range(toBroker') \subseteq Range(toBroker)
           /\ state' \in [Messages -> States]
           /\ \A m \in Messages : /\ EndsIt(ack, m) => state'[m] = "done"
                                  /\ Goes(ack, m) => state'[m] = "released"
                                  /\ ~EndsIt(ack, m) /\ ~Goes(ack, m) => state'[m] = state[m]
           /\ \/ toClient' = toClient
              \/ LET p == [cmd |-> "pubrel", id |-> ack.id] IN
                 /\ p \in Packet /\ WellFormed(p) /\ toClient' = Append(toClient, p)
                 /\ ack.cmd = "pubrec"
                 /\ ~\E m \in Messages : Id[m] = ack.id /\ InProgress(m)
           /\ UNCHANGED <<clientVars, table, sent, emitted, leftOver, failed>>
<1>1. toBroker # <<>> /\ toBroker' = Tail(toBroker)
      /\ UNCHANGED <<clientVars, table, sent, emitted, leftOver, failed>>
  BY DEF BrokerReads, historyVars
<1>2. /\ ack \in AckPacket /\ ack \in Range(toBroker) /\ toBroker' \in Seq(AckPacket)
      /\ Range(toBroker') \subseteq Range(toBroker)
  BY <1>1, HeadTailRange, TypeParts DEF TypeInv, WireOK
<1>3. state' = [m \in Messages |-> CASE EndsIt(ack, m) -> "done" [] Goes(ack, m) -> "released"
                                     [] OTHER -> state[m]]
  BY DEF BrokerReads, EndsIt, Goes
<1>4. \A m \in Messages : ~(EndsIt(ack, m) /\ Goes(ack, m))
  BY <1>2 DEF EndsIt, Goes, AckPacket
<1>5. state \in [Messages -> States]
  BY TypeParts DEF TypeInv, BrokerOK
<1>6. \A m \in Messages : /\ EndsIt(ack, m) => state'[m] = "done"
                          /\ Goes(ack, m) => state'[m] = "released"
                          /\ ~EndsIt(ack, m) /\ ~Goes(ack, m) => state'[m] = state[m]
  BY <1>3, <1>4
<1>7. state' \in [Messages -> States]
  <2>1. \A m \in Messages : state'[m] \in States
    BY <1>5, <1>6 DEF States
  <2> QED BY <1>3, <2>1
<1> DEFINE p == [cmd |-> "pubrel", id |-> ack.id]
<1>8. p \in Packet /\ WellFormed(p)
  BY <1>2 DEF Packet, WellFormed, AckPacket
<1>9. \/ toClient' = toClient
      \/ /\ toClient' = Append(toClient, p) /\ ack.cmd = "pubrec"
         /\ ~\E m \in Messages : Id[m] = ack.id /\ InProgress(m)
  BY DEF BrokerReads
<1> QED BY <1>1, <1>2, <1>6, <1>7, <1>8, <1>9

LEMMA BrokerReadsType ==
    ASSUME TypeInv, BrokerReads
    PROVE  TypeInv'
<1>1. /\ UNCHANGED <<clientVars, emitted, leftOver, failed>> /\ sent' = sent
      /\ state' \in [Messages -> States] /\ toBroker' \in Seq(AckPacket)
      /\ toClient' = toClient \/ \E p \in Packet : WellFormed(p) /\ toClient' = Append(toClient, p)
  BY BrokerReadsDoes
<1> QED BY <1>1, BrokerStepType, TypeParts DEF TypeInv, BrokerOK

LEMMA TypeInit == Init => TypeInv
<1>1. SUFFICES ASSUME Init PROVE TypeInv
  OBVIOUS
<1>2. /\ connected = FALSE /\ conn = 0
      /\ packets = [c \in Connections |-> <<>>] /\ handling = [c \in Connections |-> Free]
      /\ incomingStore = Empty /\ aliases = Empty /\ queue = <<>>
      /\ toClient = <<>> /\ toBroker = <<>>
      /\ state = [m \in Messages |-> "new"] /\ sent = [m \in Messages |-> "nothing"]
      /\ emitted = [m \in Messages |-> <<>>] /\ leftOver = {} /\ failed = {}
  BY <1>1 DEF Init
<1>3. DOMAIN Empty = {} /\ 0 \in 0..MaxConns
  BY ConnectionsAssumption DEF Empty
<1>4. ClientOK /\ StoresOK /\ WireOK /\ BrokerOK /\ HistoryOK
  BY <1>2, <1>3, EmptySeq, PlaceType DEF ClientOK, StoresOK, WireOK, BrokerOK, HistoryOK, States
<1>5. PacketsWellFormed
  BY <1>2, <1>3, EmptyRange, PlaceType DEF PacketsWellFormed
<1> QED BY <1>2, <1>4, <1>5, TypeParts DEF TypeInv

LEMMA TypeStutter == TypeInv /\ UNCHANGED vars => TypeInv'
<1>1. SUFFICES ASSUME TypeInv, UNCHANGED vars PROVE TypeInv'
  OBVIOUS
<1>2. UNCHANGED <<clientVars, toClient, toBroker, state, sent, emitted, leftOver, failed>>
  BY <1>1 DEF vars, brokerVars, historyVars
<1> QED BY <1>1, <1>2, BrokerStepType, TypeParts DEF TypeInv, BrokerOK, WireOK

LEMMA TypeNext == TypeInv /\ [Next]_vars => TypeInv'
BY TypeStutter, WorkType, MessageHandledType, ReceiveType, DeliverType, ConnectType, CloseType,
   BrokerPublishType, BrokerPubrelType, BrokerReadsType
DEF Next, ClientRuns, HandlerAnswers, ClientReceives, BrokerSends

LEMMA TypeInvariant == Spec => []TypeInv
BY TypeInit, TypeNext, PTL DEF Spec

(***************************************************************************)
(* Every variable keeps its type, whatever the broker sends and whatever   *)
(* the handlers answer.                                                    *)
(***************************************************************************)
THEOREM TypeCorrect == Spec => []TypeOK
<1>1. TypeInv => TypeOK
  BY DEF TypeInv
<1> QED BY <1>1, TypeInvariant, PTL

-----------------------------------------------------------------------------
(***************************************************************************)
(* What is not of the connection in use was left over by one that closed,  *)
(* so that the identifiers no connection left over are handled in order,   *)
(* by the connection in use.                                               *)
(***************************************************************************)
Current(c) == connected /\ c = conn
Settled(c, id) == c <= conn /\ (~Current(c) => id \in leftOver)

OldIsLeftOver ==
    /\ \A c \in Connections : \A p \in Range(packets[c]) : Settled(c, p.id)
    /\ \A c \in Connections : handling[c].at = "message" => Settled(c, handling[c].packet.id)
    /\ \A e \in Range(queue) : Settled(e.by, e.ack.id) /\ ~Current(e.by)
    /\ ~connected => toClient = <<>> /\ toBroker = <<>>

\* The handling of p by connection c writes at most one ack, or queues it.
AcksIt(c, p) ==
    \/ UNCHANGED <<toBroker, queue>>
    \/ \E ack \in AckPacket :
         /\ ack.id = p.id
         /\ connected => toBroker' = Append(toBroker, ack) /\ queue' = queue
         /\ ~connected => toBroker' = toBroker
                          /\ queue' = Append(queue, [ack |-> ack, by |-> c])

\* Work and MessageHandled: where the packet goes that connection c works on.
LEMMA WorkMoves ==
    ASSUME TypeInv, NEW c \in Connections, Work(c), NEW p, p = Head(packets[c])
    PROVE  /\ p \in Packet /\ WellFormed(p) /\ p \in Range(packets[c])
           /\ handling[c].at # "message" /\ packets[c] # <<>>
           /\ packets'[c] = Tail(packets[c]) /\ Range(packets'[c]) \subseteq Range(packets[c])
           /\ \A d \in Connections \ {c} : packets'[d] = packets[d] /\ handling'[d] = handling[d]
           /\ handling'[c].at = "message" => handling'[c].packet = p
           /\ AcksIt(c, p) /\ (handling'[c].at = "message" => UNCHANGED <<toBroker, queue>>)
           /\ UNCHANGED <<connected, conn, toClient, table, state, sent, leftOver>>
<1>1. /\ handling[c].at # "message" /\ packets[c] # <<>>
      /\ packets' = [packets EXCEPT ![c] = Tail(@)]
      /\ UNCHANGED <<connected, conn, toClient, table, state, sent, leftOver>>
  BY WorkCases
<1>2. /\ p \in Packet /\ WellFormed(p) /\ p \in Range(packets[c]) /\ p.id \in Ids
      /\ Range(Tail(packets[c])) \subseteq Range(packets[c])
  BY <1>1, HeadType, PacketType
<1>3. packets \in [Connections -> Seq(Packet)]
  BY TypeParts DEF TypeInv, ClientOK
<1>4. packets'[c] = Tail(packets[c]) /\ \A d \in Connections \ {c} : packets'[d] = packets[d]
  BY <1>1, <1>3
<1> DEFINE Handled1 ==
        /\ \A d \in Connections \ {c} : handling'[d] = handling[d]
        /\ handling'[c].at = "message" => handling'[c].packet = p
        /\ AcksIt(c, p) /\ (handling'[c].at = "message" => UNCHANGED <<toBroker, queue>>)
<1>5. ASSUME NEW good \in BOOLEAN, HandleMessage(c, p, good) PROVE Handled1
  BY <1>2, <1>5, HandleMessageDoes DEF AcksIt
<1>6. ASSUME NEW cmd \in {"pubrec", "pubcomp"}, NEW good \in BOOLEAN, SendAck(c, cmd, p.id, good)
      PROVE  Handled1
  <2> DEFINE ack == [cmd |-> cmd, id |-> p.id, good |-> good]
  <2>1. /\ ack \in AckPacket /\ handling'[c].at # "message"
        /\ \A d \in Connections \ {c} : handling'[d] = handling[d]
        /\ connected => toBroker' = Append(toBroker, ack) /\ queue' = queue
        /\ ~connected => toBroker' = toBroker /\ queue' = Append(queue, [ack |-> ack, by |-> c])
    BY <1>2, <1>6, SendAckDoes
  <2>2. ack.id = p.id
    OBVIOUS
  <2> HIDE DEF ack
  <2> QED BY <2>1, <2>2 DEF AcksIt
<1>7. ASSUME Hang(c) PROVE Handled1
  BY <1>7, HangDoes DEF AcksIt
<1> HIDE DEF Handled1
<1>8. \A outcome : (outcome # "refuse") \in BOOLEAN
  OBVIOUS
<1>9. Handled1
  <2>1. CASE \E outcome \in Answers : HandleQoS1(c, p, outcome)
    BY <1>5, <1>8, <2>1 DEF HandleQoS1
  <2>2. CASE \E outcome \in Answers : HandleQoS2(c, p, outcome)
    BY <1>6, <1>8, <2>2 DEF HandleQoS2
  <2>3. CASE HandleQoS0(c, p)
    BY <1>5, <2>3 DEF HandleQoS0
  <2>4. CASE HandlePubrel(c, p)
    BY <1>5, <1>6, <2>4 DEF HandlePubrel, CompletesUnknown
  <2> QED BY <1>7, <2>1, <2>2, <2>3, <2>4, WorkCases
<1> QED BY <1>1, <1>2, <1>4, <1>9 DEF Handled1

LEMMA HandledMoves ==
    ASSUME TypeInv, NEW c \in Connections, MessageHandled(c), NEW p, p = handling[c].packet
    PROVE  /\ p \in Packet /\ WellFormed(p)
           /\ p.cmd = "publish" => QoS[p.msg] < 2
           /\ handling[c].at = "message" /\ handling'[c].at # "message"
           /\ \A d \in Connections \ {c} : handling'[d] = handling[d]
           /\ AcksIt(c, p)
           /\ UNCHANGED <<connected, conn, packets, aliases, toClient, table, state, sent, emitted,
                          leftOver>>
<1>1. /\ handling[c].at = "message"
      /\ UNCHANGED <<connected, conn, packets, aliases, toClient, table, state, sent, emitted,
                     leftOver>>
  BY HandledCases
<1>2. /\ p \in Packet /\ WellFormed(p) /\ p.id \in Ids /\ handling[c].good \in BOOLEAN
      /\ p.cmd = "publish" => QoS[p.msg] < 2
  BY <1>1, HandledType, PacketType
<1> DEFINE Handled1 ==
        /\ handling'[c].at # "message"
        /\ \A d \in Connections \ {c} : handling'[d] = handling[d]
        /\ AcksIt(c, p)
<1>3. ASSUME NEW cmd \in {"puback", "pubcomp"}, NEW good \in BOOLEAN, SendAck(c, cmd, p.id, good)
      PROVE  Handled1
  <2> DEFINE ack == [cmd |-> cmd, id |-> p.id, good |-> good]
  <2>1. /\ ack \in AckPacket /\ handling'[c].at # "message"
        /\ \A d \in Connections \ {c} : handling'[d] = handling[d]
        /\ connected => toBroker' = Append(toBroker, ack) /\ queue' = queue
        /\ ~connected => toBroker' = toBroker /\ queue' = Append(queue, [ack |-> ack, by |-> c])
    BY <1>2, <1>3, SendAckDoes
  <2>2. ack.id = p.id
    OBVIOUS
  <2> HIDE DEF ack
  <2> QED BY <2>1, <2>2 DEF AcksIt
<1>4. ASSUME handling' = [handling EXCEPT ![c] = Free], UNCHANGED <<toBroker, queue>> PROVE Handled1
  <2>1. handling \in [Connections -> Places]
    BY TypeParts DEF TypeInv, ClientOK
  <2> QED BY <1>4, <2>1, PlaceType DEF AcksIt
<1> HIDE DEF Handled1
<1>5. Handled1
  BY <1>2, <1>3, <1>4, HandledCases
<1> QED BY <1>1, <1>2, <1>5 DEF Handled1

\* A step of connection c: the packet it worked on was settled, and an ack
\* it queues is of that packet.
LEMMA OldStep ==
    ASSUME TypeInv, OldIsLeftOver, UNCHANGED <<connected, conn, toClient, leftOver>>,
           NEW c \in Connections, NEW p, Settled(c, p.id),
           \A d \in Connections : Range(packets'[d]) \subseteq Range(packets[d]),
           \A d \in Connections \ {c} : handling'[d] = handling[d],
           handling'[c].at = "message" => handling'[c].packet = p,
           AcksIt(c, p)
    PROVE  OldIsLeftOver'
<1>1. Settled(c, p.id) <=> Settled(c, p.id)'
  BY DEF Settled, Current
<1>2. \A d \in Connections : \A q \in Range(packets'[d]) : Settled(d, q.id)'
  BY DEF OldIsLeftOver, Settled, Current
<1>3. ASSUME NEW d \in Connections, handling'[d].at = "message"
      PROVE  Settled(d, handling[d].packet.id)'
  <2>1. CASE d = c
    <3>1. handling'[d].packet = p
      BY <1>3, <2>1
    <3> QED BY <1>1, <2>1, <3>1 DEF Settled, Current
  <2>2. CASE d # c
    <3>1. handling'[d] = handling[d] /\ Settled(d, handling[d].packet.id)
      BY <1>3, <2>2 DEF OldIsLeftOver
    <3> QED BY <3>1 DEF Settled, Current
  <2> QED BY <2>1, <2>2
<1>4. ~connected' => toClient' = <<>> /\ toBroker' = <<>>
  BY DEF OldIsLeftOver, AcksIt
<1>5. \A e \in Range(queue') : Settled(e.by, e.ack.id)' /\ ~Current(e.by)'
  <2>1. \A e \in Range(queue) : Settled(e.by, e.ack.id)' /\ ~Current(e.by)'
    BY DEF OldIsLeftOver, Settled, Current
  <2>2. CASE queue' = queue
    BY <2>1, <2>2
  <2>3. CASE queue' # queue
    <3>1. PICK ack \in AckPacket : ack.id = p.id /\ ~connected
                                   /\ queue' = Append(queue, [ack |-> ack, by |-> c])
      BY <2>3 DEF AcksIt
    <3> DEFINE e == [ack |-> ack, by |-> c]
    <3>2. e \in Entry /\ queue \in Seq(Entry) /\ e.by = c /\ e.ack.id = p.id
      BY <3>1, TypeParts DEF TypeInv, ClientOK, Entry
    <3> HIDE DEF e
    <3>3. Range(queue') = Range(queue) \cup {e}
      BY <3>1, <3>2, AppendRange DEF e
    <3>4. Settled(c, p.id)' /\ ~Current(c)'
      BY <1>1, <3>1 DEF Current
    <3> QED BY <2>1, <3>2, <3>3, <3>4
  <2> QED BY <2>2, <2>3
<1> QED BY <1>2, <1>3, <1>4, <1>5 DEF OldIsLeftOver

LEMMA OldWork ==
    ASSUME TypeInv, OldIsLeftOver, NEW c \in Connections, Work(c) \/ MessageHandled(c)
    PROVE  OldIsLeftOver'
<1>1. CASE Work(c)
  <2>0. PICK p : p = Head(packets[c])
    OBVIOUS
  <2>1. /\ p \in Range(packets[c])
        /\ Range(packets'[c]) \subseteq Range(packets[c])
        /\ \A d \in Connections \ {c} : packets'[d] = packets[d] /\ handling'[d] = handling[d]
        /\ handling'[c].at = "message" => handling'[c].packet = p
        /\ UNCHANGED <<connected, conn, toClient, leftOver>>
    BY <1>1, <2>0, WorkMoves
  <2>3. AcksIt(c, p)
    BY <1>1, <2>0, WorkMoves
  <2>2. Settled(c, p.id)
    BY <2>0, <2>1 DEF OldIsLeftOver
  <2> QED BY <2>1, <2>2, <2>3, OldStep
<1>2. CASE MessageHandled(c)
  <2>0. PICK p : p = handling[c].packet
    OBVIOUS
  <2>1. /\ handling[c].at = "message" /\ handling'[c].at # "message"
        /\ \A d \in Connections \ {c} : handling'[d] = handling[d]
        /\ AcksIt(c, p)
        /\ UNCHANGED <<connected, conn, packets, toClient, leftOver>>
    BY <1>2, <2>0, HandledMoves
  <2>2. Settled(c, p.id)
    BY <2>0, <2>1 DEF OldIsLeftOver
  <2> QED BY <2>1, <2>2, OldStep
<1> QED BY <1>1, <1>2

LEMMA OldReceive ==
    ASSUME TypeInv, OldIsLeftOver, NEW n \in 1..Len(toClient), Receive(n)
    PROVE  OldIsLeftOver'
<1>1. /\ conn \in Connections /\ packets'[conn] = SubSeq(toClient, 1, n)
      /\ \A c \in Connections \ {conn} : packets'[c] = packets[c]
      /\ connected /\ UNCHANGED <<connected, conn, handling, queue, leftOver>>
  BY ReceiveType DEF Receive, historyVars
<1>2. \A c \in Connections : \A p \in Range(packets'[c]) : Settled(c, p.id)'
  <2>1. conn <= conn
    BY <1>1 DEF Connections
  <2> QED BY <1>1, <2>1 DEF OldIsLeftOver, Settled, Current
<1> QED BY <1>1, <1>2 DEF OldIsLeftOver, Settled, Current

LEMMA OldDeliver ==
    ASSUME TypeInv, OldIsLeftOver, Deliver
    PROVE  OldIsLeftOver'
<1>1. /\ Head(queue) \in Entry /\ Range(queue') \subseteq Range(queue)
      /\ handling'[Head(queue).by].at # "message"
      /\ \A c \in Connections \ {Head(queue).by} : handling'[c] = handling[c]
      /\ connected /\ UNCHANGED <<connected, conn, packets, toClient, leftOver>>
  BY DeliverType DEF Deliver, historyVars
<1> QED BY <1>1 DEF OldIsLeftOver, Settled, Current

LEMMA OldConnect ==
    ASSUME TypeInv, OldIsLeftOver, Connect
    PROVE  OldIsLeftOver'
<1>1. /\ ~connected /\ connected' /\ conn' = conn + 1 /\ conn \in Nat
      /\ UNCHANGED <<packets, handling, queue, toClient, toBroker, leftOver>>
  BY TypeParts DEF Connect, historyVars, TypeInv, ClientOK
<1>2. \A id : \A c \in Connections : Settled(c, id) => c <= conn /\ id \in leftOver /\ c < conn'
                                                   /\ c # conn' /\ c <= conn'
  BY <1>1 DEF Settled, Current, Connections
<1>3. \A id : \A c \in Connections : Settled(c, id) => Settled(c, id)' /\ ~Current(c)'
  BY <1>1, <1>2 DEF Settled, Current
<1>4. \A e \in Range(queue) : e.by \in Connections
  <2>1. queue \in Seq(Entry)
    BY TypeParts DEF TypeInv, ClientOK
  <2>2. \A i \in DOMAIN queue : queue[i] \in Entry
    BY <2>1, ElementOfSeq, LenProperties
  <2> QED BY <2>2 DEF Range, Entry
<1> QED BY <1>1, <1>3, <1>4 DEF OldIsLeftOver

LEMMA OldClose ==
    ASSUME TypeInv, OldIsLeftOver, Close
    PROVE  OldIsLeftOver'
<1>1. /\ connected /\ ~connected' /\ toClient' = <<>> /\ toBroker' = <<>>
      /\ leftOver' = leftOver \cup Unhandled(conn)
      /\ UNCHANGED <<conn, handling, queue>>
  BY DEF Close
<1>6. /\ packets'[conn] = Rest(conn)
      /\ \A c \in Connections : Range(packets'[c]) \subseteq Range(packets[c])
  BY RestMoves
<1>2. /\ \A p \in Range(packets'[conn]) : p.id \in leftOver'
      /\ handling[conn].at = "message" => handling[conn].packet.id \in leftOver'
  BY <1>1, <1>6 DEF Unhandled, Range
<1>3. \A c, id : Settled(c, id) => c = conn \/ Settled(c, id)'
  BY <1>1 DEF Settled, Current
<1>4. \A c, id : Settled(c, id) /\ id \in leftOver' => Settled(c, id)' /\ ~Current(c)'
  BY <1>1 DEF Settled, Current
<1>5. \A e \in Range(queue) : e.ack.id \in leftOver'
  BY <1>1 DEF OldIsLeftOver, Settled
<1>7. ASSUME NEW c \in Connections, NEW p \in Range(packets'[c]) PROVE Settled(c, p.id)'
  <2>1. Settled(c, p.id)
    BY <1>6, <1>7 DEF OldIsLeftOver
  <2> QED BY <1>2, <1>3, <1>4, <1>7, <2>1
<1>8. ASSUME NEW c \in Connections, handling'[c].at = "message"
      PROVE  Settled(c, handling[c].packet.id)'
  <2>1. Settled(c, handling[c].packet.id) /\ handling' = handling
    BY <1>1, <1>8 DEF OldIsLeftOver
  <2>2. \A id : Settled(c, id) => c = conn \/ Settled(c, id)'
    BY <1>3
  <2>3. \A id : Settled(c, id) /\ id \in leftOver' => Settled(c, id)'
    BY <1>4
  <2>4. PICK id : id = handling[c].packet.id
    OBVIOUS
  <2>5. Settled(c, id)'
    BY <1>2, <1>8, <2>1, <2>2, <2>3, <2>4
  <2> QED BY <2>1, <2>4, <2>5
<1> QED BY <1>1, <1>4, <1>5, <1>7, <1>8 DEF OldIsLeftOver

LEMMA OldBroker ==
    ASSUME TypeInv, OldIsLeftOver,
           (\E m \in Messages : BrokerPublish(m) \/ BrokerPubrel(m)) \/ BrokerReads \/ UNCHANGED vars
    PROVE  OldIsLeftOver'
<1>1. UNCHANGED <<connected, conn, packets, handling, queue, leftOver>>
      /\ (connected \/ (toClient' = toClient /\ toBroker' = toBroker))
  <2>1. CASE UNCHANGED vars
    BY <2>1 DEF vars, clientVars, historyVars
  <2>2. CASE \E m \in Messages : BrokerPublish(m) \/ BrokerPubrel(m)
    BY <2>2 DEF BrokerPublish, BrokerPubrel, clientVars, historyVars
  <2>3. CASE BrokerReads
    <3>1. toBroker # <<>>
      BY <2>3 DEF BrokerReads
    <3> QED BY <2>3, <3>1 DEF BrokerReads, clientVars, historyVars, OldIsLeftOver
  <2> QED BY <2>1, <2>2, <2>3
<1> QED BY <1>1 DEF OldIsLeftOver, Settled, Current

LEMMA OldInit == Init => OldIsLeftOver
<1>1. SUFFICES ASSUME Init PROVE OldIsLeftOver
  OBVIOUS
<1>2. /\ packets = [c \in Connections |-> <<>>] /\ handling = [c \in Connections |-> Free]
      /\ queue = <<>> /\ toClient = <<>> /\ toBroker = <<>>
  BY <1>1 DEF Init
<1> QED BY <1>2, EmptyRange, PlaceType DEF OldIsLeftOver

LEMMA OldNext == TypeInv /\ OldIsLeftOver /\ [Next]_vars => OldIsLeftOver'
BY OldWork, OldReceive, OldDeliver, OldConnect, OldClose, OldBroker
DEF Next, ClientRuns, HandlerAnswers, ClientReceives, BrokerSends

-----------------------------------------------------------------------------
(***************************************************************************)
(* The broker works on one message of an identifier at a time.             *)
(***************************************************************************)
OneInProgress ==
    /\ \A m, n \in Messages : Id[m] = Id[n] /\ InProgress(m) /\ InProgress(n) => m = n
    /\ \A m \in Messages : state[m] = "sent" => QoS[m] > 0
    /\ \A m \in Messages : state[m] = "released" => QoS[m] = 2

LEMMA OneInit == Init => OneInProgress
BY DEF Init, OneInProgress, InProgress

LEMMA OneBrokerPublish ==
    ASSUME TypeInv, OneInProgress, NEW m \in Messages, BrokerPublish(m)
    PROVE  OneInProgress'
<1>1. /\ state[m] \in {"new", "sent"}
      /\ \A n \in Messages \ {m} : Id[n] = Id[m] => ~InProgress(n)
      /\ state' = [state EXCEPT ![m] = IF QoS[m] = 0 THEN "done" ELSE "sent"]
  BY BrokerPublishDoes
<1>2. state \in [Messages -> States] /\ QoS[m] \in 0..2
  BY TypeParts, MessageTypes DEF TypeInv, BrokerOK
<1>3. /\ \A n \in Messages \ {m} : state'[n] = state[n]
      /\ QoS[m] = 0 => state'[m] = "done"
      /\ QoS[m] # 0 => state'[m] = "sent" /\ QoS[m] > 0
  BY <1>1, <1>2
<1>4. \A n \in Messages \ {m} : InProgress(n)' <=> InProgress(n)
  BY <1>3 DEF InProgress
<1>5. \A n \in Messages : state'[n] = "sent" => QoS[n] > 0
  BY <1>3 DEF OneInProgress
<1>6. \A n \in Messages : state'[n] = "released" => QoS[n] = 2
  BY <1>3 DEF OneInProgress
<1>7. ASSUME NEW a \in Messages, NEW b \in Messages, Id[a] = Id[b], InProgress(a)', InProgress(b)'
      PROVE  a = b
  BY <1>1, <1>4, <1>7 DEF OneInProgress
<1> QED BY <1>5, <1>6, <1>7 DEF OneInProgress

LEMMA OneBrokerReads ==
    ASSUME TypeInv, OneInProgress, BrokerReads
    PROVE  OneInProgress'
<1>1. PICK ack : ack = Head(toBroker)
  OBVIOUS
<1>2. \A m \in Messages : /\ EndsIt(ack, m) => state'[m] = "done"
                          /\ Goes(ack, m) => state'[m] = "released"
                          /\ ~EndsIt(ack, m) /\ ~Goes(ack, m) => state'[m] = state[m]
  BY <1>1, BrokerReadsDoes
<1>3. \A m \in Messages : Goes(ack, m) => state[m] = "sent" /\ QoS[m] = 2
  BY DEF Goes
<1>4. \A m \in Messages : InProgress(m)' => InProgress(m)
  BY <1>2, <1>3 DEF InProgress
<1>5. \A m \in Messages : state'[m] = "sent" => state[m] = "sent"
  BY <1>2
<1>6. \A m \in Messages : state'[m] = "released" => QoS[m] = 2
  BY <1>2, <1>3 DEF OneInProgress
<1>7. \A m, n \in Messages : Id[m] = Id[n] /\ InProgress(m)' /\ InProgress(n)' => m = n
  BY <1>4 DEF OneInProgress
<1> QED BY <1>5, <1>6, <1>7 DEF OneInProgress

LEMMA OneNext == TypeInv /\ OneInProgress /\ [Next]_vars => OneInProgress'
<1>1. SUFFICES ASSUME TypeInv, OneInProgress, [Next]_vars PROVE OneInProgress'
  OBVIOUS
<1>2. ASSUME state' = state PROVE OneInProgress'
  BY <1>1, <1>2 DEF OneInProgress, InProgress
<1>3. CASE ClientRuns \/ HandlerAnswers \/ ClientReceives \/ Deliver
  <2>1. state' = state
    BY <1>3 DEF ClientRuns, HandlerAnswers, ClientReceives, Work, MessageHandled, Receive, Deliver,
                brokerVars
  <2> QED BY <1>2, <2>1
<1>4. CASE Connect \/ Close \/ UNCHANGED vars
  <2>1. state' = state
    BY <1>4 DEF Connect, Close, vars, brokerVars
  <2> QED BY <1>2, <2>1
<1>5. CASE BrokerSends
  <2>1. ASSUME NEW m \in Messages, BrokerPubrel(m) PROVE OneInProgress'
    BY <1>2, <2>1 DEF BrokerPubrel
  <2> QED BY <1>1, <1>5, <2>1, OneBrokerPublish DEF BrokerSends
<1>6. CASE BrokerReads
  BY <1>1, <1>6, OneBrokerReads
<1> QED BY <1>1, <1>3, <1>4, <1>5, <1>6 DEF Next

-----------------------------------------------------------------------------
(***************************************************************************)
(* The handshake of an identifier that nothing was left over of: at most   *)
(* one packet or ack of it is under way, on the connection in use; it      *)
(* belongs to the message the broker works on; and what was emitted and is *)
(* stored of each message that the user did not refuse agrees with the     *)
(* broker's state of it.                                                   *)
(***************************************************************************)
Clean(id) == id \notin leftOver
InHand(c, id) == handling[c].at = "message" /\ TakesPart(handling[c].packet, id)
Releasing(id) == \E c \in Connections : InHand(c, id) /\ handling[c].packet.cmd = "pubrel"
Stored(m) == Id[m] \in DOMAIN incomingStore /\ incomingStore[Id[m]].msg = m

AtMostOne(id) ==
    /\ Once(toClient, id) /\ Once(toBroker, id) /\ ~(Has(toClient, id) /\ Has(toBroker, id))
    /\ \A c \in Connections : Once(packets[c], id)
    /\ \A c \in Connections : InHand(c, id) => ~Has(packets[c], id)
    /\ \A c \in Connections : InHand(c, id) \/ Has(packets[c], id) =>
                                 ~Has(toClient, id) /\ ~Has(toBroker, id)

SentOK(p) ==
    \/ p.cmd = "publish" /\ state[p.msg] = "sent" /\ sent[p.msg] = "publish"
    \/ p.cmd = "pubrel" /\ \E m \in Messages :
          Id[m] = p.id /\ state[m] = "released" /\ sent[m] = "pubrel"
InHandOK(p) ==
    SentOK(p) /\ (p.cmd = "publish" /\ p.msg \notin failed => emitted[p.msg] # <<>>)
AckOK(ack, m) ==
    \/ /\ ack.cmd = "puback" /\ QoS[m] = 1 /\ state[m] = "sent" /\ sent[m] = "publish"
       /\ m \notin failed => emitted[m] # <<>>
    \/ /\ ack.cmd = "pubrec" /\ QoS[m] = 2 /\ state[m] = "sent" /\ sent[m] = "publish"
       /\ m \notin failed => ack.good /\ Stored(m)
    \/ /\ ack.cmd = "pubcomp" /\ QoS[m] = 2 /\ state[m] = "released" /\ sent[m] = "pubrel"
       /\ m \notin failed => ~Stored(m) /\ Len(emitted[m]) = 1
UnderWay(id) ==
    /\ \A c \in Connections : \A p \in Range(packets[c]) : TakesPart(p, id) => SentOK(p)
    /\ \A p \in Range(toClient) : TakesPart(p, id) => SentOK(p)
    /\ \A c \in Connections : InHand(c, id) => InHandOK(handling[c].packet)
    /\ \A ack \in Range(toBroker) : TakesPart(ack, id) =>
          \E m \in Messages : Id[m] = id /\ AckOK(ack, m)

Life(m) ==
    /\ QoS[m] = 1 /\ state[m] = "done" => emitted[m] # <<>>
    /\ QoS[m] = 2 /\ state[m] = "new" => emitted[m] = <<>> /\ ~Stored(m)
    /\ QoS[m] = 2 /\ state[m] = "sent" => emitted[m] = <<>>
    /\ QoS[m] = 2 /\ state[m] = "released" /\ Stored(m) /\ ~Releasing(Id[m]) => emitted[m] = <<>>
    /\ QoS[m] = 2 /\ state[m] = "released" /\ ~(Stored(m) /\ ~Releasing(Id[m])) => Len(emitted[m]) = 1
    /\ QoS[m] = 2 /\ state[m] = "done" => Len(emitted[m]) = 1 /\ ~Stored(m)
Lives(id) == \A m \in Messages : Id[m] = id /\ m \notin failed => Life(m)

HandshakeOf(id) == Clean(id) => AtMostOne(id) /\ UnderWay(id) /\ Lives(id)
Handshakes == \A id \in Ids : HandshakeOf(id)

IInv == TypeInv /\ OldIsLeftOver /\ OneInProgress /\ Handshakes

-----------------------------------------------------------------------------
(* Steps that do not concern an identifier, and the owner of a packet. *)

LEMMA HistoryGrows == [Next]_vars => leftOver \subseteq leftOver' /\ failed \subseteq failed'
<1>1. SUFFICES ASSUME [Next]_vars PROVE leftOver \subseteq leftOver' /\ failed \subseteq failed'
  OBVIOUS
<1>2. ASSUME NEW c \in Connections, Work(c) PROVE leftOver \subseteq leftOver' /\ failed \subseteq failed'
  BY <1>2 DEF Work, HandlePublish, HandlePubrel, HandleQoS0, HandleQoS1, HandleQoS2
<1>3. ASSUME NEW c \in Connections, MessageHandled(c)
      PROVE  leftOver \subseteq leftOver' /\ failed \subseteq failed'
  BY <1>3 DEF MessageHandled
<1>4. CASE ClientReceives \/ Deliver \/ Connect \/ Close
  BY <1>4 DEF ClientReceives, Receive, Deliver, Connect, Close, historyVars
<1>5. CASE BrokerSends \/ BrokerReads \/ UNCHANGED vars
  BY <1>5 DEF BrokerSends, BrokerPublish, BrokerPubrel, BrokerReads, vars, historyVars
<1> QED BY <1>1, <1>2, <1>3, <1>4, <1>5 DEF Next, ClientRuns, HandlerAnswers

LEMMA CleanBefore ==
    ASSUME [Next]_vars, NEW id, Clean(id)'
    PROVE  Clean(id)
BY HistoryGrows DEF Clean

\* The messages of an identifier, as the broker, the store and the user know them.
SameMessages(id) ==
    /\ leftOver \subseteq leftOver' /\ failed \subseteq failed'
    /\ \A m \in Messages : Id[m] = id /\ QoS[m] > 0 =>
          state'[m] = state[m] /\ emitted'[m] = emitted[m]
    /\ \A m \in Messages : Id[m] = id => (Stored(m)' <=> Stored(m))
SameSent(id) == \A m \in Messages : Id[m] = id /\ QoS[m] > 0 => sent'[m] = sent[m]
\* What is under way of an identifier.
SamePackets(id) ==
    /\ \A c \in Connections : Once(packets'[c], id)
    /\ \A c \in Connections : \A p \in Range(packets'[c]) :
          TakesPart(p, id) => p \in Range(packets[c])
    /\ Once(toClient', id) /\ \A p \in Range(toClient') : TakesPart(p, id) => p \in Range(toClient)
SameHandling(id) ==
    /\ Once(toBroker', id) /\ \A a \in Range(toBroker') : TakesPart(a, id) => a \in Range(toBroker)
    /\ \A c \in Connections : InHand(c, id)' => InHand(c, id) /\ handling'[c] = handling[c]
    /\ \A c \in Connections : InHand(c, id) => InHand(c, id)'
Quiet(id) == SameMessages(id) /\ SameSent(id) /\ SamePackets(id) /\ SameHandling(id)

LEMMA SentOKKeeps ==
    ASSUME NEW id \in Ids, SameMessages(id), SameSent(id), OneInProgress,
           NEW p \in Packet, WellFormed(p), TakesPart(p, id), SentOK(p)
    PROVE  SentOK(p)'
<1>1. CASE p.cmd = "publish"
  <2>1. p.msg \in Messages /\ Id[p.msg] = id /\ QoS[p.msg] > 0
    BY <1>1, PacketType DEF WellFormed, TakesPart
  <2> QED BY <1>1, <2>1 DEF SentOK, SameMessages, SameSent
<1>2. CASE p.cmd = "pubrel"
  <2>1. PICK m \in Messages : Id[m] = p.id /\ state[m] = "released" /\ sent[m] = "pubrel"
    BY <1>2 DEF SentOK
  <2>2. Id[m] = id /\ QoS[m] > 0
    BY <2>1 DEF TakesPart, OneInProgress
  <2>3. state'[m] = "released" /\ sent'[m] = "pubrel"
    BY <2>1, <2>2 DEF SameMessages, SameSent
  <2> QED BY <1>2, <2>1, <2>3 DEF SentOK
<1> QED BY <1>1, <1>2, PacketType

LEMMA LivesKeeps ==
    ASSUME TypeInv, NEW id \in Ids, SameMessages(id), Lives(id), Releasing(id)' <=> Releasing(id)
    PROVE  Lives(id)'
<1>1. SUFFICES ASSUME NEW m \in Messages, Id[m] = id, m \notin failed', QoS[m] > 0 PROVE Life(m)'
  <2>1. \A m \in Messages : QoS[m] \in 0..2
    BY MessageTypes
  <2>2. \A m \in Messages : QoS[m] = 0 => Life(m)'
    BY DEF Life
  <2>3. \A m \in Messages : QoS[m] = 0 \/ QoS[m] > 0
    BY <2>1
  <2> QED BY <2>2, <2>3 DEF Lives
<1>2. Life(m)
  BY <1>1 DEF Lives, SameMessages
<1>3. state'[m] = state[m] /\ emitted'[m] = emitted[m] /\ (Stored(m)' <=> Stored(m))
      /\ (Releasing(Id[m])' <=> Releasing(Id[m]))
  BY <1>1 DEF SameMessages
<1> QED BY <1>2, <1>3 DEF Life

LEMMA QuietKeeps ==
    ASSUME IInv, NEW id \in Ids, Clean(id), Quiet(id)
    PROVE  HandshakeOf(id)'
<1>1. SUFFICES ASSUME Clean(id)' PROVE AtMostOne(id)' /\ UnderWay(id)' /\ Lives(id)'
  BY DEF HandshakeOf
<1>2. AtMostOne(id) /\ UnderWay(id) /\ Lives(id)
  BY DEF IInv, Handshakes, HandshakeOf
<1>3. TypeInv /\ OneInProgress /\ SameMessages(id) /\ SameSent(id) /\ SamePackets(id)
      /\ SameHandling(id)
  BY DEF IInv, Quiet
<1>4. Releasing(id)' <=> Releasing(id)
  BY <1>3 DEF SameHandling, Releasing
<1>5. Lives(id)'
  BY <1>2, <1>3, <1>4, LivesKeeps
<1>6. /\ Has(toClient', id) => Has(toClient, id)
      /\ Has(toBroker', id) => Has(toBroker, id)
      /\ \A c \in Connections : Has(packets'[c], id) => Has(packets[c], id)
  BY <1>3 DEF SamePackets, SameHandling, Has
<1>7. AtMostOne(id)'
  <2>1. /\ Once(toClient', id) /\ Once(toBroker', id) /\ \A c \in Connections : Once(packets'[c], id)
        /\ \A c \in Connections : InHand(c, id)' => InHand(c, id)
    BY <1>3 DEF SamePackets, SameHandling
  <2> QED BY <1>2, <1>6, <2>1 DEF AtMostOne
<1>8. /\ \A c \in Connections : \A p \in Range(packets[c]) : p \in Packet /\ WellFormed(p)
      /\ \A p \in Range(toClient) : p \in Packet /\ WellFormed(p)
      /\ \A c \in Connections : handling[c].at = "message" =>
            handling[c].packet \in Packet /\ WellFormed(handling[c].packet)
  <2>1. packets \in [Connections -> Seq(Packet)] /\ toClient \in Seq(Packet)
    BY <1>3, TypeParts DEF TypeInv, ClientOK, WireOK
  <2>2. /\ \A c \in Connections : \A i \in DOMAIN packets[c] : packets[c][i] \in Packet
        /\ \A i \in DOMAIN toClient : toClient[i] \in Packet
    BY <2>1, ElementOfSeq, LenProperties
  <2> QED BY <1>3, <2>2, HandledType DEF Range, TypeInv, PacketsWellFormed
<1>9. ASSUME NEW p \in Packet, WellFormed(p), TakesPart(p, id), SentOK(p) PROVE SentOK(p)'
  BY <1>3, <1>9, SentOKKeeps
<1>10. ASSUME NEW p \in Packet, WellFormed(p), TakesPart(p, id), InHandOK(p) PROVE InHandOK(p)'
  <2>1. SentOK(p)'
    BY <1>9, <1>10 DEF InHandOK
  <2>2. ASSUME p.cmd = "publish", p.msg \notin failed' PROVE emitted'[p.msg] # <<>>
    <3>1. p.msg \in Messages /\ Id[p.msg] = id /\ QoS[p.msg] > 0 /\ p.msg \notin failed
      BY <1>3, <1>10, <2>2, PacketType DEF WellFormed, TakesPart, SameMessages
    <3> QED BY <1>3, <1>10, <2>2, <3>1 DEF InHandOK, SameMessages
  <2> QED BY <2>1, <2>2 DEF InHandOK
<1>11. ASSUME NEW ack, NEW m \in Messages, Id[m] = id, AckOK(ack, m) PROVE AckOK(ack, m)'
  <2>1. QoS[m] > 0 /\ (m \notin failed' => m \notin failed)
    BY <1>3, <1>11 DEF AckOK, SameMessages
  <2>2. state'[m] = state[m] /\ emitted'[m] = emitted[m] /\ sent'[m] = sent[m]
        /\ (Stored(m)' <=> Stored(m))
    BY <1>3, <1>11, <2>1 DEF SameMessages, SameSent
  <2> QED BY <1>11, <2>1, <2>2 DEF AckOK
<1>12. ASSUME NEW c \in Connections, NEW p \in Range(packets'[c]), TakesPart(p, id)
       PROVE  SentOK(p)'
  <2>1. p \in Range(packets[c]) /\ p \in Packet /\ WellFormed(p)
    BY <1>3, <1>8, <1>12 DEF SamePackets
  <2> QED BY <1>2, <1>9, <1>12, <2>1 DEF UnderWay
<1>13. ASSUME NEW p \in Range(toClient'), TakesPart(p, id) PROVE SentOK(p)'
  <2>1. p \in Range(toClient) /\ p \in Packet /\ WellFormed(p)
    BY <1>3, <1>8, <1>13 DEF SamePackets
  <2> QED BY <1>2, <1>9, <1>13, <2>1 DEF UnderWay
<1>14. ASSUME NEW c \in Connections, InHand(c, id)' PROVE InHandOK(handling[c].packet)'
  <2>1. InHand(c, id) /\ handling'[c] = handling[c]
    BY <1>3, <1>14 DEF SameHandling
  <2>2. PICK p : p = handling[c].packet
    OBVIOUS
  <2>3. p \in Packet /\ WellFormed(p) /\ TakesPart(p, id) /\ InHandOK(p)
    BY <1>2, <1>8, <2>1, <2>2 DEF UnderWay, InHand
  <2>4. InHandOK(p)'
    BY <1>10, <2>3
  <2> QED BY <2>1, <2>2, <2>4
<1>15. ASSUME NEW ack \in Range(toBroker'), TakesPart(ack, id)
       PROVE  \E m \in Messages : Id[m] = id /\ AckOK(ack, m)'
  <2>1. ack \in Range(toBroker)
    BY <1>3, <1>15 DEF SameHandling
  <2> QED BY <1>2, <1>11, <1>15, <2>1 DEF UnderWay
<1>16. UnderWay(id)'
  BY <1>12, <1>13, <1>14, <1>15 DEF UnderWay
<1> QED BY <1>5, <1>7, <1>16

\* Nothing is under way any more.
NothingUnderWay(id) ==
    /\ \A c \in Connections : ~Has(packets[c], id) /\ ~InHand(c, id)
    /\ ~Has(toClient, id) /\ ~Has(toBroker, id)

LEMMA HasNotOnce == ASSUME NEW s, NEW id, ~Has(s, id) PROVE Once(s, id)
BY DEF Has, Once, Range

LEMMA NothingKeeps ==
    ASSUME IInv, NEW id \in Ids, Clean(id), SameMessages(id), NothingUnderWay(id)', ~Releasing(id)
    PROVE  HandshakeOf(id)'
<1>1. SUFFICES ASSUME Clean(id)' PROVE AtMostOne(id)' /\ UnderWay(id)' /\ Lives(id)'
  BY DEF HandshakeOf
<1>2. Lives(id) /\ TypeInv
  BY DEF IInv, Handshakes, HandshakeOf
<1>3. ~Releasing(id)'
  BY DEF NothingUnderWay, Releasing
<1>4. Lives(id)'
  BY <1>2, <1>3, LivesKeeps
<1>5. AtMostOne(id)'
  BY HasNotOnce DEF AtMostOne, NothingUnderWay
<1>6. UnderWay(id)'
  BY DEF UnderWay, NothingUnderWay, Has
<1> QED BY <1>4, <1>5, <1>6

LEMMA OnlyCurrent ==
    ASSUME OldIsLeftOver, NEW id, id \notin leftOver, NEW c \in Connections,
           InHand(c, id) \/ Has(packets[c], id)
    PROVE  Current(c)
<1>1. CASE InHand(c, id)
  BY <1>1 DEF InHand, TakesPart, OldIsLeftOver, Settled
<1>2. CASE Has(packets[c], id)
  <2>1. PICK p \in Range(packets[c]) : TakesPart(p, id)
    BY <1>2 DEF Has
  <2> QED BY <2>1 DEF TakesPart, OldIsLeftOver, Settled
<1> QED BY <1>1, <1>2

\* Nothing is under way while the client is not connected.
LEMMA NothingOffline ==
    ASSUME OldIsLeftOver, ~connected, NEW id, id \notin leftOver
    PROVE  NothingUnderWay(id)
BY OnlyCurrent, EmptyRange DEF OldIsLeftOver, NothingUnderWay, Current

\* The message the broker works on is that of what is under way.
Owned(id) == \E m \in Messages : Id[m] = id /\ InProgress(m) /\ sent[m] # "nothing"

LEMMA OwnerOfPacket ==
    ASSUME NEW id, NEW p \in Packet, WellFormed(p), TakesPart(p, id), SentOK(p)
    PROVE  Owned(id)
<1>1. CASE p.cmd = "publish"
  <2>1. p.msg \in Messages /\ Id[p.msg] = id
    BY <1>1, PacketType DEF WellFormed, TakesPart
  <2> QED BY <1>1, <2>1 DEF SentOK, Owned, InProgress
<1>2. CASE p.cmd = "pubrel"
  BY <1>2 DEF SentOK, Owned, InProgress, TakesPart
<1> QED BY <1>1, <1>2, PacketType

LEMMA OwnerOfAck ==
    ASSUME NEW id, NEW ack, NEW m \in Messages, Id[m] = id, AckOK(ack, m)
    PROVE  Owned(id) /\ InProgress(m)
BY DEF AckOK, Owned, InProgress

LEMMA PacketsType ==
    ASSUME TypeInv
    PROVE  /\ \A c \in Connections : \A p \in Range(packets[c]) : p \in Packet /\ WellFormed(p)
           /\ \A p \in Range(toClient) : p \in Packet /\ WellFormed(p)
           /\ \A ack \in Range(toBroker) : ack \in AckPacket
           /\ \A c \in Connections : handling[c].at = "message" =>
                 handling[c].packet \in Packet /\ WellFormed(handling[c].packet)
<1>1. /\ packets \in [Connections -> Seq(Packet)] /\ toClient \in Seq(Packet)
      /\ toBroker \in Seq(AckPacket)
  BY TypeParts DEF TypeInv, ClientOK, WireOK
<1>2. /\ \A c \in Connections : \A i \in DOMAIN packets[c] : packets[c][i] \in Packet
      /\ \A i \in DOMAIN toClient : toClient[i] \in Packet
      /\ \A i \in DOMAIN toBroker : toBroker[i] \in AckPacket
  BY <1>1, ElementOfSeq, LenProperties
<1> QED BY <1>2, HandledType DEF Range, TypeInv, PacketsWellFormed

LEMMA OwnedUnderWay ==
    ASSUME IInv, NEW id \in Ids, Clean(id), ~Owned(id)
    PROVE  NothingUnderWay(id)
<1>1. UnderWay(id) /\ TypeInv
  BY DEF IInv, Handshakes, HandshakeOf
<1>2. \A c \in Connections : ~Has(packets[c], id)
  BY <1>1, PacketsType, OwnerOfPacket DEF Has, UnderWay
<1>3. ~Has(toClient, id)
  BY <1>1, PacketsType, OwnerOfPacket DEF Has, UnderWay
<1>4. ~Has(toBroker, id)
  BY <1>1, OwnerOfAck DEF Has, UnderWay
<1>5. ASSUME NEW c \in Connections, InHand(c, id) PROVE FALSE
  <2>1. handling[c].packet \in Packet /\ WellFormed(handling[c].packet)
        /\ TakesPart(handling[c].packet, id) /\ SentOK(handling[c].packet)
    BY <1>1, <1>5, PacketsType DEF InHand, UnderWay, InHandOK
  <2> QED BY <2>1, OwnerOfPacket
<1> QED BY <1>2, <1>3, <1>4, <1>5 DEF NothingUnderWay

\* A packet that connection c works on is all that is under way.
Alone(c, id) ==
    /\ Current(c) /\ ~Has(toClient, id) /\ ~Has(toBroker, id)
    /\ \A d \in Connections \ {c} : ~Has(packets[d], id) /\ ~InHand(d, id)

LEMMA AloneInHand ==
    ASSUME OldIsLeftOver, NEW id, Clean(id), AtMostOne(id), NEW c \in Connections, InHand(c, id)
    PROVE  Alone(c, id) /\ ~Has(packets[c], id)
<1>1. Current(c)
  BY OnlyCurrent DEF Clean
<1>2. \A d \in Connections \ {c} : ~Has(packets[d], id) /\ ~InHand(d, id)
  BY <1>1, OnlyCurrent DEF Clean, Current
<1> QED BY <1>1, <1>2 DEF Alone, AtMostOne

LEMMA AloneParsed ==
    ASSUME TypeInv, OldIsLeftOver, NEW id, Clean(id), AtMostOne(id), NEW c \in Connections,
           packets[c] # <<>>, TakesPart(Head(packets[c]), id)
    PROVE  Alone(c, id) /\ ~Has(Tail(packets[c]), id) /\ ~InHand(c, id)
<1>1. packets[c] \in Seq(Packet)
  BY TypeParts DEF TypeInv, ClientOK
<1>2. Head(packets[c]) \in Range(packets[c])
  BY <1>1, HeadTailRange
<1>3. Has(packets[c], id)
  BY <1>2 DEF Has
<1>4. Current(c)
  BY <1>3, OnlyCurrent DEF Clean
<1>5. \A d \in Connections \ {c} : ~Has(packets[d], id) /\ ~InHand(d, id)
  BY <1>4, OnlyCurrent DEF Clean, Current
<1>6. ~Has(Tail(packets[c]), id)
  BY <1>1, HeadTailOnce DEF AtMostOne
<1>7. ~Has(toClient, id) /\ ~Has(toBroker, id) /\ ~InHand(c, id)
  BY <1>3 DEF AtMostOne
<1> QED BY <1>4, <1>5, <1>6, <1>7 DEF Alone

\* The one packet is handed to handleMessage, or answered with an ack.
LEMMA OnlyInHand ==
    ASSUME NEW id, NEW c \in Connections, \A d \in Connections : ~Has(packets'[d], id),
           \A d \in Connections \ {c} : ~InHand(d, id)', ~Has(toClient', id), ~Has(toBroker', id),
           InHand(c, id)' => InHandOK(handling[c].packet)'
    PROVE  AtMostOne(id)' /\ UnderWay(id)'
<1>1. AtMostOne(id)'
  BY HasNotOnce DEF AtMostOne
<1>2. UnderWay(id)'
  BY DEF UnderWay, Has
<1> QED BY <1>1, <1>2

LEMMA OnlyAck ==
    ASSUME NEW id, NEW ack \in AckPacket, toBroker \in Seq(AckPacket),
           toBroker' = Append(toBroker, ack), ~Has(toBroker, id),
           \A d \in Connections : ~Has(packets'[d], id) /\ ~InHand(d, id)', ~Has(toClient', id),
           \E m \in Messages : Id[m] = id /\ AckOK(ack, m)'
    PROVE  AtMostOne(id)' /\ UnderWay(id)'
<1>1. Once(toBroker', id)
  BY AppendOnce, HasNotOnce
<1>2. \A a \in Range(toBroker') : TakesPart(a, id) => a = ack
  BY AppendRange DEF Has
<1>3. AtMostOne(id)'
  BY <1>1, HasNotOnce DEF AtMostOne
<1>4. UnderWay(id)'
  BY <1>2 DEF UnderWay, Has
<1> QED BY <1>3, <1>4

-----------------------------------------------------------------------------
(* The client handles a packet. *)

LEMMA WorkQuiet ==
    ASSUME IInv, NEW c \in Connections, Work(c), NEW p, p = Head(packets[c]),
           NEW id \in Ids, Clean(id), ~TakesPart(p, id)
    PROVE  Quiet(id)
<1>1. /\ p \in Packet /\ WellFormed(p)
      /\ handling[c].at # "message" /\ packets[c] # <<>>
      /\ packets'[c] = Tail(packets[c]) /\ Range(packets'[c]) \subseteq Range(packets[c])
      /\ \A d \in Connections \ {c} : packets'[d] = packets[d] /\ handling'[d] = handling[d]
      /\ handling'[c].at = "message" => handling'[c].packet = p
      /\ UNCHANGED <<connected, conn, toClient, table, state, sent, leftOver>>
  BY WorkMoves DEF IInv
<1>2. AcksIt(c, p)
  BY WorkMoves DEF IInv
<1>3. TypeInv /\ ClientOK /\ StoresOK /\ WireOK /\ HistoryOK
  BY TypeParts DEF IInv, TypeInv
<1>a. p.cmd = "publish" => p.msg \in Messages /\ p.id = Id[p.msg]
  BY <1>1, PacketType DEF WellFormed
<1>b. p.id # id \/ (p.cmd = "publish" /\ ~(QoS[p.msg] > 0))
  BY DEF TakesPart
<1> DEFINE Kept ==
      /\ failed \subseteq failed'
      /\ \A m \in Messages : Id[m] = id /\ QoS[m] > 0 => emitted'[m] = emitted[m]
      /\ \A m \in Messages : Id[m] = id => (Stored(m)' <=> Stored(m))
      /\ p.id = id => toBroker' = toBroker
<1>4. ASSUME Hang(c), failed' = failed \/ failed' = failed \cup {p.msg} PROVE Kept
  <2>1. UNCHANGED <<incomingStore, toBroker, emitted>>
    BY <1>4 DEF Hang
  <2> QED BY <1>4, <2>1 DEF Stored
<1>5. ASSUME p.cmd = "publish", ~Unregistered(p), QoS[p.msg] = 0, HandleQoS0(c, p) PROVE Kept
  <2>1. /\ Emit(p.msg, ResolvedTopic(p)) /\ HandleMessage(c, p, TRUE)
        /\ UNCHANGED <<incomingStore, failed>>
    BY <1>5 DEF HandleQoS0
  <2>2. ResolvedTopic(p) \in Topics
    BY <1>1, <1>3, <1>5, AliasType
  <2>3. \A m \in Messages \ {p.msg} : emitted'[m] = emitted[m]
    BY <1>3, <1>5, <1>a, <2>1, <2>2, EmitDoes
  <2>4. toBroker' = toBroker
    BY <2>1 DEF HandleMessage
  <2> QED BY <1>5, <2>1, <2>3, <2>4 DEF Stored
<1>6. ASSUME p.cmd = "publish", ~Unregistered(p), QoS[p.msg] = 1,
             \E outcome \in Answers : HandleQoS1(c, p, outcome)
      PROVE  Kept
  <2>1. PICK outcome \in Answers : HandleQoS1(c, p, outcome)
    BY <1>6
  <2>2. /\ UNCHANGED incomingStore
        /\ IF outcome = "accept" THEN Emit(p.msg, ResolvedTopic(p)) /\ UNCHANGED failed
           ELSE failed' = failed \cup {p.msg} /\ UNCHANGED emitted
    BY <2>1 DEF HandleQoS1
  <2>3. ResolvedTopic(p) \in Topics
    BY <1>1, <1>3, <1>6, AliasType
  <2>4. \A m \in Messages \ {p.msg} : emitted'[m] = emitted[m]
    BY <1>3, <1>6, <1>a, <2>2, <2>3, EmitDoes
  <2>5. p.id # id
    BY <1>6, <1>b
  <2> QED BY <1>6, <1>a, <2>2, <2>4, <2>5 DEF Stored
<1>7. ASSUME p.cmd = "publish", QoS[p.msg] = 2, \E outcome \in Answers : HandleQoS2(c, p, outcome)
      PROVE  Kept
  <2>1. PICK outcome \in Answers : HandleQoS2(c, p, outcome)
    BY <1>7
  <2>2. /\ UNCHANGED emitted /\ failed \subseteq failed'
        /\ incomingStore' = With(incomingStore, p.id, p) \/ incomingStore' = incomingStore
    BY <2>1 DEF HandleQoS2
  <2>3. p.id # id
    BY <1>7, <1>b
  <2>4. \A m \in Messages : Id[m] = id => (Stored(m)' <=> Stored(m))
    BY <2>2, <2>3 DEF Stored, With
  <2> QED BY <2>2, <2>3, <2>4
<1>8. ASSUME HandlePubrel(c, p) PROVE Kept
  <2>1. p.cmd = "pubrel" /\ UNCHANGED <<incomingStore, failed>> /\ p.id # id
    BY <1>8, <1>b DEF HandlePubrel
  <2>2. \A m \in Messages : Id[m] = id => emitted'[m] = emitted[m]
    <3>1. CASE p.id \in DOMAIN incomingStore
      <4>1. Emit(incomingStore[p.id].msg, incomingStore[p.id].topic)
        BY <1>8, <3>1 DEF HandlePubrel
      <4>2. /\ incomingStore[p.id].msg \in Messages /\ incomingStore[p.id].topic \in Topics
            /\ Id[incomingStore[p.id].msg] = p.id
        BY <1>3, <3>1, PacketType DEF StoresOK, TypeInv, PacketsWellFormed, StoredPacket
      <4> QED BY <1>3, <2>1, <4>1, <4>2, EmitDoes
    <3>2. CASE p.id \notin DOMAIN incomingStore
      BY <1>8, <3>2 DEF HandlePubrel, CompletesUnknown
    <3> QED BY <3>1, <3>2
  <2> QED BY <2>1, <2>2 DEF Stored
<1>9. Kept
  <2> HIDE DEF Kept
  <2> QED BY <1>3, <1>4, <1>5, <1>6, <1>7, <1>8, WorkCases
<1>10. SameMessages(id) /\ SameSent(id)
  BY <1>1, <1>9 DEF SameMessages, SameSent
<1>11. AtMostOne(id)
  BY DEF IInv, Handshakes, HandshakeOf
<1>12. SamePackets(id)
  <2>1. packets[c] \in Seq(Packet)
    BY <1>3 DEF ClientOK
  <2>2. Once(packets'[c], id)
    BY <1>1, <1>11, <2>1, HeadTailOnce DEF AtMostOne
  <2> QED BY <1>1, <1>11, <2>2 DEF SamePackets, AtMostOne
<1>13. ASSUME NEW d \in Connections
       PROVE  /\ InHand(d, id)' => InHand(d, id) /\ handling'[d] = handling[d]
              /\ InHand(d, id) => InHand(d, id)'
  <2>1. CASE d = c
    BY <1>1, <2>1 DEF InHand
  <2>2. CASE d # c
    BY <1>1, <2>2 DEF InHand
  <2> QED BY <2>1, <2>2
<1>14. Once(toBroker', id) /\ \A a \in Range(toBroker') : TakesPart(a, id) => a \in Range(toBroker)
  <2>1. CASE toBroker' = toBroker
    BY <1>11, <2>1 DEF AtMostOne
  <2>2. CASE toBroker' # toBroker
    <3>1. PICK ack \in AckPacket : ack.id = p.id /\ toBroker' = Append(toBroker, ack)
      BY <1>2, <2>2 DEF AcksIt
    <3>2. ~TakesPart(ack, id)
      BY <1>9, <2>2, <3>1 DEF TakesPart
    <3>3. toBroker \in Seq(AckPacket)
      BY <1>3 DEF WireOK
    <3> QED BY <1>11, <3>1, <3>2, <3>3, AppendOnce, AppendRange DEF AtMostOne
  <2> QED BY <2>1, <2>2
<1> QED BY <1>10, <1>12, <1>13, <1>14 DEF Quiet, SameHandling

\* What is known when connection c takes a packet of a clean identifier.
LEMMA WorkAlone ==
    ASSUME IInv, NEW c \in Connections, Work(c), NEW p, p = Head(packets[c]),
           NEW id \in Ids, Clean(id), TakesPart(p, id)
    PROVE  /\ TypeInv /\ OneInProgress /\ Lives(id) /\ SentOK(p)
           /\ p \in Packet /\ WellFormed(p) /\ p.id = id /\ connected
           /\ p.cmd = "publish" => p.msg \in Messages /\ Id[p.msg] = id /\ QoS[p.msg] > 0
           /\ toBroker \in Seq(AckPacket) /\ ~Has(toBroker, id)
           /\ \A d \in Connections : ~Has(packets'[d], id)
           /\ \A d \in Connections \ {c} : ~InHand(d, id)'
           /\ ~Has(toClient', id) /\ ~Releasing(id)
           /\ handling'[c].at = "message" => handling'[c].packet = p
           /\ UNCHANGED <<connected, state, sent, leftOver>>
<1>1. /\ p \in Packet /\ WellFormed(p) /\ p \in Range(packets[c])
      /\ handling[c].at # "message" /\ packets[c] # <<>>
      /\ packets'[c] = Tail(packets[c])
      /\ \A d \in Connections \ {c} : packets'[d] = packets[d] /\ handling'[d] = handling[d]
      /\ handling'[c].at = "message" => handling'[c].packet = p
      /\ UNCHANGED <<connected, conn, toClient, table, state, sent, leftOver>>
  BY WorkMoves DEF IInv
<1>2. AtMostOne(id) /\ UnderWay(id) /\ Lives(id) /\ TypeInv /\ OneInProgress /\ OldIsLeftOver
  BY DEF IInv, Handshakes, HandshakeOf
<1>3. Alone(c, id) /\ ~Has(Tail(packets[c]), id) /\ ~InHand(c, id)
  BY <1>1, <1>2, AloneParsed
<1>4. \A d \in Connections \ {c} : ~InHand(d, id) /\ ~InHand(d, id)'
  BY <1>1, <1>3 DEF Alone, InHand
<1>5. ~Releasing(id)
  BY <1>3, <1>4 DEF Releasing
<1>6. SentOK(p)
  BY <1>1, <1>2 DEF UnderWay
<1>7. p.cmd = "publish" => p.msg \in Messages /\ Id[p.msg] = id /\ QoS[p.msg] > 0
  BY <1>1, PacketType DEF TakesPart, WellFormed
<1>8. toBroker \in Seq(AckPacket)
  BY <1>2, TypeParts DEF TypeInv, WireOK
<1> QED BY <1>1, <1>2, <1>3, <1>4, <1>5, <1>6, <1>7, <1>8 DEF Alone, Current, TakesPart

LEMMA WorkHangs ==
    ASSUME IInv, NEW c \in Connections, Work(c), NEW p, p = Head(packets[c]),
           NEW id \in Ids, Clean(id), TakesPart(p, id),
           Hang(c), failed' = failed \/ failed' = failed \cup {p.msg}
    PROVE  HandshakeOf(id)'
<1>1. /\ \A d \in Connections : ~Has(packets'[d], id)
      /\ \A d \in Connections \ {c} : ~InHand(d, id)'
      /\ ~Has(toClient', id) /\ ~Has(toBroker, id) /\ ~Releasing(id) /\ TypeInv
      /\ UNCHANGED <<state, sent, leftOver>>
  BY WorkAlone
<1>2. handling'[c].at # "message" /\ UNCHANGED <<incomingStore, toBroker, queue, emitted>>
  BY <1>1, HangDoes
<1>3. NothingUnderWay(id)'
  BY <1>1, <1>2 DEF NothingUnderWay, InHand
<1>4. SameMessages(id)
  BY <1>1, <1>2 DEF SameMessages, Stored
<1> QED BY <1>1, <1>3, <1>4, NothingKeeps

LEMMA WorkQoS1 ==
    ASSUME IInv, NEW c \in Connections, Work(c), NEW p, p = Head(packets[c]),
           NEW id \in Ids, Clean(id), TakesPart(p, id), p.cmd = "publish",
           ~Unregistered(p), QoS[p.msg] = 1, NEW outcome \in Answers, HandleQoS1(c, p, outcome)
    PROVE  HandshakeOf(id)'
<1>1. /\ TypeInv /\ OneInProgress /\ Lives(id) /\ SentOK(p)
      /\ p \in Packet /\ WellFormed(p) /\ p.id = id /\ connected
      /\ p.msg \in Messages /\ Id[p.msg] = id
      /\ toBroker \in Seq(AckPacket) /\ ~Has(toBroker, id)
      /\ \A d \in Connections : ~Has(packets'[d], id)
      /\ \A d \in Connections \ {c} : ~InHand(d, id)'
      /\ ~Has(toClient', id) /\ ~Releasing(id)
      /\ UNCHANGED <<connected, state, sent, leftOver>>
  BY WorkAlone
<1>2. /\ HandleMessage(c, p, outcome # "refuse") /\ UNCHANGED incomingStore
      /\ IF outcome = "accept" THEN Emit(p.msg, ResolvedTopic(p)) /\ UNCHANGED failed
         ELSE failed' = failed \cup {p.msg} /\ UNCHANGED emitted
  BY DEF HandleQoS1
<1>3. (outcome # "refuse") \in BOOLEAN
  OBVIOUS
<1>4. handling'[c].at = "message" /\ handling'[c].packet = p /\ toBroker' = toBroker
  BY <1>1, <1>2, <1>3, HandleMessageDoes
<1>5. /\ p.msg \notin failed' => emitted'[p.msg] # <<>>
      /\ failed \subseteq failed'
      /\ \A m \in Messages \ {p.msg} : emitted'[m] = emitted[m]
  <2>1. ResolvedTopic(p) \in Topics
    BY <1>1, AliasType
  <2> QED BY <1>1, <1>2, <2>1, EmitDoes
<1>6. state[p.msg] = "sent" /\ SentOK(p)'
  BY <1>1 DEF SentOK
<1>7. AtMostOne(id)' /\ UnderWay(id)'
  <2>1. InHandOK(p)'
    BY <1>5, <1>6 DEF InHandOK
  <2>2. InHandOK(handling[c].packet)'
    BY <1>4, <2>1
  <2>3. ~Has(toBroker', id)
    BY <1>1, <1>4
  <2> QED BY <1>1, <2>2, <2>3, OnlyInHand
<1>8. ~Releasing(id)'
  BY <1>1, <1>4 DEF Releasing
<1>9. ASSUME NEW m \in Messages, Id[m] = id, m \notin failed' PROVE Life(m)'
  <2>1. Life(m) /\ (Stored(m)' <=> Stored(m))
    BY <1>1, <1>2, <1>5, <1>9 DEF Lives, Stored
  <2>2. CASE m = p.msg
    BY <1>1, <1>6, <2>2 DEF Life
  <2>3. CASE m # p.msg
    <3>1. emitted'[m] = emitted[m] /\ state'[m] = state[m]
      BY <1>1, <1>5, <2>3
    <3>2. ~Releasing(Id[m])' /\ ~Releasing(Id[m])
      BY <1>1, <1>8, <1>9
    <3> QED BY <2>1, <3>1, <3>2 DEF Life
  <2> QED BY <2>2, <2>3
<1> QED BY <1>7, <1>9 DEF HandshakeOf, Lives

LEMMA WorkQoS2 ==
    ASSUME IInv, NEW c \in Connections, Work(c), NEW p, p = Head(packets[c]),
           NEW id \in Ids, Clean(id), TakesPart(p, id), p.cmd = "publish",
           QoS[p.msg] = 2, NEW outcome \in Answers, HandleQoS2(c, p, outcome)
    PROVE  HandshakeOf(id)'
<1>1. /\ TypeInv /\ OneInProgress /\ Lives(id) /\ SentOK(p)
      /\ p \in Packet /\ WellFormed(p) /\ p.id = id /\ connected
      /\ p.msg \in Messages /\ Id[p.msg] = id
      /\ toBroker \in Seq(AckPacket) /\ ~Has(toBroker, id)
      /\ \A d \in Connections : ~Has(packets'[d], id)
      /\ \A d \in Connections \ {c} : ~InHand(d, id)'
      /\ ~Has(toClient', id) /\ ~Releasing(id)
      /\ UNCHANGED <<connected, state, sent, leftOver>>
  BY WorkAlone
<1> DEFINE ack == [cmd |-> "pubrec", id |-> p.id, good |-> outcome # "refuse"]
<1>2. /\ SendAck(c, "pubrec", p.id, outcome # "refuse") /\ UNCHANGED emitted
      /\ outcome = "accept" => incomingStore' = With(incomingStore, p.id, p) /\ UNCHANGED failed
      /\ outcome # "accept" => failed' = failed \cup {p.msg} /\ UNCHANGED incomingStore
  BY DEF HandleQoS2, Stores
<1>3. (outcome # "refuse") \in BOOLEAN
  OBVIOUS
<1>4. ack \in AckPacket /\ handling'[c].at # "message" /\ toBroker' = Append(toBroker, ack)
  BY <1>1, <1>2, <1>3, SendAckDoes
<1>5. ack.cmd = "pubrec" /\ ack.good = (outcome # "refuse")
  OBVIOUS
<1> HIDE DEF ack
<1>6. state[p.msg] = "sent" /\ sent[p.msg] = "publish"
  BY <1>1 DEF SentOK
<1>7. /\ p.msg \notin failed' => Stored(p.msg)' /\ ack.good
      /\ failed \subseteq failed'
      /\ \A m \in Messages : Id[m] = id /\ m # p.msg => (Stored(m)' => Stored(m))
  <2>1. CASE outcome = "accept"
    <3>1. p.id \in DOMAIN incomingStore' /\ incomingStore'[p.id] = p
      BY <1>2, <2>1 DEF With
    <3> QED BY <1>1, <1>2, <1>5, <2>1, <3>1 DEF Stored
  <2>2. CASE outcome # "accept"
    BY <1>2, <2>2 DEF Stored
  <2> QED BY <2>1, <2>2
<1>8. AckOK(ack, p.msg)'
  BY <1>1, <1>5, <1>6, <1>7 DEF AckOK
<1>9. \A d \in Connections : ~InHand(d, id)'
  BY <1>1, <1>4 DEF InHand
<1>10. AtMostOne(id)' /\ UnderWay(id)'
  BY <1>1, <1>4, <1>8, <1>9, OnlyAck
<1>11. ~Releasing(id)'
  BY <1>9 DEF Releasing
<1>12. ASSUME NEW m \in Messages, Id[m] = id, m \notin failed' PROVE Life(m)'
  <2>1. Life(m) /\ emitted'[m] = emitted[m] /\ state'[m] = state[m]
    BY <1>1, <1>2, <1>7, <1>12 DEF Lives
  <2>2. CASE m = p.msg
    BY <1>6, <2>1, <2>2 DEF Life
  <2>3. CASE m # p.msg
    <3>1. ~InProgress(m) /\ (Stored(m)' => Stored(m))
      BY <1>1, <1>6, <1>7, <1>12, <2>3 DEF OneInProgress, InProgress
    <3> QED BY <2>1, <3>1 DEF Life, InProgress
  <2> QED BY <2>2, <2>3
<1> QED BY <1>10, <1>12 DEF HandshakeOf, Lives

\* A PUBREL: the stored message is emitted, once, or there is none.
LEMMA WorkPubrel ==
    ASSUME IInv, NEW c \in Connections, Work(c), NEW p, p = Head(packets[c]),
           NEW id \in Ids, Clean(id), TakesPart(p, id), HandlePubrel(c, p)
    PROVE  HandshakeOf(id)'
<1>1. /\ TypeInv /\ OneInProgress /\ Lives(id) /\ SentOK(p)
      /\ p \in Packet /\ WellFormed(p) /\ p.id = id /\ connected
      /\ toBroker \in Seq(AckPacket) /\ ~Has(toBroker, id)
      /\ \A d \in Connections : ~Has(packets'[d], id)
      /\ \A d \in Connections \ {c} : ~InHand(d, id)'
      /\ ~Has(toClient', id) /\ ~Releasing(id)
      /\ UNCHANGED <<connected, state, sent, leftOver>>
  BY WorkAlone
<1>2. p.cmd = "pubrel" /\ UNCHANGED <<incomingStore, failed>>
  BY DEF HandlePubrel
<1>3. PICK n \in Messages : Id[n] = id /\ state[n] = "released" /\ sent[n] = "pubrel"
  BY <1>1, <1>2 DEF SentOK
<1>4. QoS[n] = 2 /\ \A m \in Messages \ {n} : Id[m] = id => ~InProgress(m)
  BY <1>3 DEF OneInProgress, InProgress, IInv
<1>5. CASE id \in DOMAIN incomingStore
  <2>1. PICK q \in Messages : q = incomingStore[id].msg /\ Id[q] = id /\ QoS[q] = 2
                              /\ incomingStore[id].topic \in Topics
    BY <1>1, <1>5, PacketType, TypeParts DEF StoresOK, TypeInv, PacketsWellFormed, StoredPacket
  <2>2. Emit(q, incomingStore[id].topic) /\ HandleMessage(c, p, TRUE)
    BY <1>1, <1>5, <2>1 DEF HandlePubrel
  <2>3. handling'[c].at = "message" /\ handling'[c].packet = p /\ toBroker' = toBroker
    BY <1>1, <2>2, HandleMessageDoes
  <2>4. /\ Len(emitted'[q]) = Len(emitted[q]) + 1
        /\ \A m \in Messages \ {q} : emitted'[m] = emitted[m]
    BY <1>1, <2>1, <2>2, EmitDoes
  <2>5. AtMostOne(id)' /\ UnderWay(id)'
    <3>1. InHandOK(p)'
      BY <1>1, <1>2 DEF InHandOK, SentOK
    <3>2. InHandOK(handling[c].packet)'
      BY <2>3, <3>1
    <3>3. ~Has(toBroker', id)
      BY <1>1, <2>3
    <3> QED BY <1>1, <3>2, <3>3, OnlyInHand
  <2>6. Releasing(id)'
    BY <1>1, <1>2, <2>3 DEF Releasing, InHand, TakesPart
  <2>7. \A m \in Messages : Id[m] = id => ((Stored(m)' <=> Stored(m)) /\ (Stored(m) <=> m = q))
    BY <1>2, <1>5, <2>1 DEF Stored
  <2>8. ASSUME NEW m \in Messages, Id[m] = id, m \notin failed' PROVE Life(m)'
    <3>1. Life(m) /\ state'[m] = state[m]
      BY <1>1, <1>2, <2>8 DEF Lives
    <3>2. Releasing(Id[m])' /\ ~Releasing(Id[m])
      BY <1>1, <2>6, <2>8
    <3>3. CASE m = n /\ n = q
      <4>1. emitted[m] = <<>>
        BY <1>3, <1>4, <2>7, <3>1, <3>2, <3>3 DEF Life
      <4>2. Len(emitted'[m]) = 1
        <5>1. Len(<<>>) = 0
          OBVIOUS
        <5>2. Len(emitted[q]) = 0
          BY <3>3, <4>1, <5>1
        <5>3. Len(emitted'[q]) = 0 + 1
          BY <2>4, <5>2
        <5> QED BY <3>3, <5>3
      <4> QED BY <1>3, <1>4, <3>1, <3>2, <3>3, <4>2 DEF Life
    <3>4. CASE m = n /\ n # q
      <4>1. Len(emitted[m]) = 1 /\ emitted'[m] = emitted[m]
        BY <1>3, <1>4, <2>4, <2>7, <2>8, <3>1, <3>4 DEF Life
      <4> QED BY <1>3, <1>4, <3>1, <3>2, <3>4, <4>1 DEF Life
    <3>5. CASE m # n
      <4>1. ~InProgress(m) /\ state[m] \in States
        BY <1>1, <1>4, <2>8, <3>5, TypeParts DEF TypeInv, BrokerOK
      <4>2. m # q
        BY <2>1, <2>7, <2>8, <3>1, <4>1 DEF Life, InProgress, States
      <4>3. emitted'[m] = emitted[m] /\ (Stored(m)' <=> Stored(m))
        BY <2>4, <2>7, <2>8, <4>2
      <4> QED BY <3>1, <4>1, <4>3 DEF Life, InProgress
    <3> QED BY <3>3, <3>4, <3>5
  <2> QED BY <2>5, <2>8 DEF HandshakeOf, Lives
<1>6. CASE id \notin DOMAIN incomingStore
  <2> DEFINE ack == [cmd |-> "pubcomp", id |-> p.id, good |-> TRUE]
  <2>1. SendAck(c, "pubcomp", p.id, TRUE) /\ UNCHANGED emitted
    BY <1>1, <1>6 DEF HandlePubrel, CompletesUnknown
  <2>2. ack \in AckPacket /\ handling'[c].at # "message" /\ toBroker' = Append(toBroker, ack)
    BY <1>1, <2>1, SendAckDoes
  <2>3. ack.cmd = "pubcomp"
    OBVIOUS
  <2> HIDE DEF ack
  <2>4. ~Stored(n)' /\ (n \notin failed' => Len(emitted'[n]) = 1)
    BY <1>1, <1>2, <1>3, <1>4, <1>6, <2>1 DEF Stored, Lives, Life
  <2>5. AckOK(ack, n)'
    BY <1>1, <1>3, <1>4, <2>3, <2>4 DEF AckOK
  <2>6. \A d \in Connections : ~InHand(d, id)'
    BY <1>1, <2>2 DEF InHand
  <2>7. AtMostOne(id)' /\ UnderWay(id)'
    BY <1>1, <1>3, <2>2, <2>5, <2>6, OnlyAck
  <2>8. ~Releasing(id)'
    BY <2>6 DEF Releasing
  <2>9. SameMessages(id)
    BY <1>1, <1>2, <2>1 DEF SameMessages, Stored
  <2>10. Lives(id)'
    BY <1>1, <2>8, <2>9, LivesKeeps
  <2> QED BY <2>7, <2>10 DEF HandshakeOf
<1> QED BY <1>5, <1>6

LEMMA WorkKeeps ==
    ASSUME IInv, NEW c \in Connections, Work(c), NEW id \in Ids, Clean(id)
    PROVE  HandshakeOf(id)'
<1>1. PICK p : p = Head(packets[c])
  OBVIOUS
<1>2. CASE ~TakesPart(p, id)
  BY <1>1, <1>2, WorkQuiet, QuietKeeps
<1>3. CASE TakesPart(p, id)
  <2>1. TypeInv
    BY DEF IInv
  <2>2. p.cmd = "publish" => QoS[p.msg] # 0
    BY <1>1, <1>3, WorkAlone
  <2> QED BY <1>1, <1>3, <2>1, <2>2, WorkCases, WorkHangs, WorkQoS1, WorkQoS2, WorkPubrel
<1> QED BY <1>2, <1>3

-----------------------------------------------------------------------------
(* handleMessage calls back. *)

LEMMA HandledQuiet ==
    ASSUME IInv, NEW c \in Connections, MessageHandled(c), NEW p, p = handling[c].packet,
           NEW id \in Ids, Clean(id), Clean(id)', ~InHand(c, id)
    PROVE  Quiet(id)
<1>1. /\ p \in Packet /\ WellFormed(p)
      /\ p.cmd = "publish" => QoS[p.msg] < 2
      /\ handling[c].at = "message" /\ handling'[c].at # "message"
      /\ \A d \in Connections \ {c} : handling'[d] = handling[d]
      /\ UNCHANGED <<connected, conn, packets, aliases, toClient, table, state, sent, emitted,
                     leftOver>>
  BY HandledMoves DEF IInv
<1>2. AcksIt(c, p)
  BY HandledMoves DEF IInv
<1>3. AtMostOne(id)
  BY DEF IInv, Handshakes, HandshakeOf
<1>4. p.id # id \/ (p.cmd = "publish" /\ ~(QoS[p.msg] > 0))
  BY <1>1 DEF InHand, TakesPart
<1>5. /\ failed \subseteq failed' /\ (p.id = id => toBroker' = toBroker)
      /\ \A m \in Messages : Id[m] = id => (Stored(m)' <=> Stored(m))
  <2>1. CASE p.cmd = "publish" /\ UNCHANGED <<incomingStore, failed>>
    <3>1. p.id = id => QoS[p.msg] = 0
      BY <1>1, <1>4, <2>1, PacketType, MessageTypes
    <3>2. \/ QoS[p.msg] = 1
          \/ p.cmd = "pubrel"
          \/ UNCHANGED toBroker
      BY HandledCases
    <3> QED BY <2>1, <3>1, <3>2 DEF Stored
  <2>2. CASE p.cmd = "pubrel" /\ Del(p.id) /\ UNCHANGED failed
    <3>1. p.id # id
      BY <1>4, <2>2
    <3> QED BY <2>2, <3>1 DEF Stored, Del, Without
  <2>3. CASE /\ failed' = failed \cup MessageOf(p)
             /\ UNCHANGED <<incomingStore, toBroker, queue>>
    BY <2>3 DEF Stored
  <2> QED BY <2>1, <2>2, <2>3, HandledCases
<1>6. SameMessages(id) /\ SameSent(id)
  BY <1>1, <1>5 DEF SameMessages, SameSent
<1>7. SamePackets(id)
  BY <1>1, <1>3 DEF SamePackets, AtMostOne
<1>8. ASSUME NEW d \in Connections
      PROVE  /\ InHand(d, id)' => InHand(d, id) /\ handling'[d] = handling[d]
             /\ InHand(d, id) => InHand(d, id)'
  <2>1. CASE d = c
    BY <1>1, <2>1 DEF InHand
  <2>2. CASE d # c
    BY <1>1, <2>2 DEF InHand
  <2> QED BY <2>1, <2>2
<1>9. Once(toBroker', id) /\ \A a \in Range(toBroker') : TakesPart(a, id) => a \in Range(toBroker)
  <2>1. CASE toBroker' = toBroker
    BY <1>3, <2>1 DEF AtMostOne
  <2>2. CASE toBroker' # toBroker
    <3>1. PICK ack \in AckPacket : ack.id = p.id /\ toBroker' = Append(toBroker, ack)
      BY <1>2, <2>2 DEF AcksIt
    <3>2. ~TakesPart(ack, id)
      BY <1>5, <2>2, <3>1 DEF TakesPart
    <3>3. toBroker \in Seq(AckPacket)
      BY TypeParts DEF IInv, TypeInv, WireOK
    <3> QED BY <1>3, <3>1, <3>2, <3>3, AppendOnce, AppendRange DEF AtMostOne
  <2> QED BY <2>1, <2>2
<1> QED BY <1>6, <1>7, <1>8, <1>9 DEF Quiet, SameHandling

LEMMA HandledKeeps ==
    ASSUME IInv, NEW c \in Connections, MessageHandled(c), NEW id \in Ids, Clean(id), Clean(id)'
    PROVE  HandshakeOf(id)'
<1>1. PICK p : p = handling[c].packet
  OBVIOUS
<1>2. CASE ~InHand(c, id)
  BY <1>1, <1>2, HandledQuiet, QuietKeeps
<1>3. CASE InHand(c, id)
  <2>1. /\ p \in Packet /\ WellFormed(p) /\ handling[c].at = "message" /\ handling'[c].at # "message"
        /\ \A d \in Connections \ {c} : handling'[d] = handling[d]
        /\ UNCHANGED <<connected, conn, packets, toClient, state, sent, emitted, leftOver>>
    BY <1>1, HandledMoves DEF IInv
  <2>2. /\ AtMostOne(id) /\ UnderWay(id) /\ Lives(id) /\ TypeInv /\ OneInProgress /\ OldIsLeftOver
        /\ toBroker \in Seq(AckPacket) /\ p.id \in Ids
    BY <2>1, TypeParts, PacketType DEF IInv, Handshakes, HandshakeOf, TypeInv, WireOK
  <2>3. Alone(c, id) /\ ~Has(packets[c], id) /\ connected
    BY <1>3, <2>2, AloneInHand DEF Alone, Current
  <2>4. \A d \in Connections : ~Has(packets'[d], id) /\ ~InHand(d, id)'
    BY <2>1, <2>3 DEF Alone, InHand
  <2>5. ~Has(toClient', id) /\ ~Has(toBroker, id) /\ ~Releasing(id)'
    BY <2>1, <2>3, <2>4 DEF Alone, Releasing
  <2>6. p.id = id /\ InHandOK(p) /\ (p.cmd = "publish" => QoS[p.msg] > 0)
    BY <1>1, <1>3, <2>2 DEF InHand, TakesPart, UnderWay
  <2>7. ASSUME failed' = failed \cup MessageOf(p), UNCHANGED <<incomingStore, toBroker>>
        PROVE  HandshakeOf(id)'
    <3>1. NothingUnderWay(id)'
      BY <2>4, <2>5, <2>7 DEF NothingUnderWay
    <3>2. CASE p.cmd = "publish"
      <4>1. ~Releasing(id)
        BY <1>1, <2>3, <3>2 DEF Releasing, Alone
      <4>2. SameMessages(id)
        BY <2>1, <2>7 DEF SameMessages, Stored
      <4> QED BY <3>1, <4>1, <4>2, NothingKeeps
    <3>3. CASE p.cmd = "pubrel"
      <4>1. AtMostOne(id)'
        BY <3>1, HasNotOnce DEF AtMostOne, NothingUnderWay
      <4>2. UnderWay(id)'
        BY <3>1 DEF UnderWay, NothingUnderWay, Has
      <4>3. ASSUME NEW m \in Messages, Id[m] = id, m \notin failed' PROVE Life(m)'
        <5>1. ~Stored(m)
          BY <2>6, <2>7, <3>3, <4>3 DEF Stored, MessageOf
        <5>2. /\ Life(m) /\ state'[m] = state[m] /\ emitted'[m] = emitted[m] /\ ~Stored(m)'
          BY <2>1, <2>2, <2>7, <4>3, <5>1 DEF Lives, Stored
        <5> QED BY <5>1, <5>2 DEF Life
      <4> QED BY <4>1, <4>2, <4>3 DEF HandshakeOf, Lives
    <3> QED BY <2>1, <3>2, <3>3, PacketType
  <2>8. ASSUME p.cmd = "publish", QoS[p.msg] = 1, SendAck(c, "puback", p.id, handling[c].good),
               UNCHANGED <<incomingStore, failed>>
        PROVE  HandshakeOf(id)'
    <3>0. PICK ack : ack = [cmd |-> "puback", id |-> p.id, good |-> handling[c].good]
      OBVIOUS
    <3>1. ack \in AckPacket /\ toBroker' = Append(toBroker, ack)
      <4>1. handling[c].good \in BOOLEAN
        BY <2>1, <2>2, HandledType
      <4> QED BY <2>2, <2>3, <2>8, <3>0, <4>1, SendAckDoes
    <3>2. ack.cmd = "puback"
      BY <3>0
    <3>3. PICK n \in Messages : n = p.msg /\ Id[n] = id
      BY <2>1, <2>6, <2>8, PacketType DEF WellFormed
    <3>9. /\ state[n] = "sent" /\ sent[n] = "publish" /\ QoS[n] = 1
          /\ n \notin failed => emitted[n] # <<>>
      BY <2>6, <2>8, <3>3 DEF InHandOK, SentOK
    <3>4. AckOK(ack, n)'
      <4>1. /\ state'[n] = "sent" /\ sent'[n] = "publish"
            /\ n \notin failed' => emitted'[n] # <<>>
        BY <2>1, <2>8, <3>9
      <4> QED BY <3>2, <3>9, <4>1 DEF AckOK
    <3>5. AtMostOne(id)' /\ UnderWay(id)'
      BY <2>2, <2>4, <2>5, <3>1, <3>3, <3>4, OnlyAck
    <3>6. ~Releasing(id)
      BY <1>1, <2>3, <2>8 DEF Releasing, Alone
    <3>7. SameMessages(id)
      BY <2>1, <2>8 DEF SameMessages, Stored
    <3>8. Lives(id)'
      BY <2>2, <2>5, <3>6, <3>7, LivesKeeps
    <3> QED BY <3>5, <3>8 DEF HandshakeOf
  <2>9. ASSUME p.cmd = "pubrel", Del(p.id), SendAck(c, "pubcomp", p.id, TRUE), UNCHANGED failed
        PROVE  HandshakeOf(id)'
    <3> DEFINE ack == [cmd |-> "pubcomp", id |-> p.id, good |-> TRUE]
    <3>1. ack \in AckPacket /\ toBroker' = Append(toBroker, ack)
      BY <2>2, <2>3, <2>9, SendAckDoes
    <3>2. ack.cmd = "pubcomp"
      OBVIOUS
    <3> HIDE DEF ack
    <3>3. Releasing(id)
      BY <1>1, <1>3, <2>9 DEF Releasing
    <3>4. \A m \in Messages : Id[m] = id => ~Stored(m)'
      BY <2>6, <2>9 DEF Stored, Del, Without
    <3>5. PICK n \in Messages : Id[n] = id /\ state[n] = "released" /\ sent[n] = "pubrel"
      BY <2>6, <2>9 DEF InHandOK, SentOK
    <3>6. QoS[n] = 2 /\ \A m \in Messages \ {n} : Id[m] = id => ~InProgress(m)
      BY <2>2, <3>5 DEF OneInProgress, InProgress
    <3>7. n \notin failed => Len(emitted[n]) = 1
      BY <2>2, <3>3, <3>5, <3>6 DEF Lives, Life
    <3>8. AckOK(ack, n)'
      BY <2>1, <2>9, <3>2, <3>4, <3>5, <3>6, <3>7 DEF AckOK
    <3>9. AtMostOne(id)' /\ UnderWay(id)'
      BY <2>2, <2>4, <2>5, <3>1, <3>5, <3>8, OnlyAck
    <3>10. ASSUME NEW m \in Messages, Id[m] = id, m \notin failed' PROVE Life(m)'
      <4>1. Life(m) /\ state'[m] = state[m] /\ emitted'[m] = emitted[m] /\ ~Stored(m)'
        BY <2>1, <2>2, <2>9, <3>4, <3>10 DEF Lives
      <4>2. CASE m = n
        BY <2>9, <3>5, <3>6, <3>7, <3>10, <4>1, <4>2 DEF Life
      <4>3. CASE m # n
        <5>1. ~InProgress(m)
          BY <3>6, <3>10, <4>3
        <5> QED BY <4>1, <5>1 DEF Life, InProgress
      <4> QED BY <4>2, <4>3
    <3> QED BY <3>9, <3>10 DEF HandshakeOf, Lives
  <2>10. p.cmd = "publish" => QoS[p.msg] # 0
    BY <2>6
  <2>11. \/ p.cmd = "publish" /\ QoS[p.msg] = 0
         \/ /\ p.cmd = "publish" /\ QoS[p.msg] = 1
            /\ SendAck(c, "puback", p.id, handling[c].good) /\ UNCHANGED <<incomingStore, failed>>
         \/ /\ p.cmd = "pubrel" /\ Del(p.id) /\ SendAck(c, "pubcomp", p.id, TRUE)
            /\ UNCHANGED failed
         \/ failed' = failed \cup MessageOf(p) /\ UNCHANGED <<incomingStore, toBroker>>
    BY <1>1, HandledCases
  <2> QED BY <2>7, <2>8, <2>9, <2>10, <2>11
<1> QED BY <1>2, <1>3

-----------------------------------------------------------------------------
(* The connection. *)

LEMMA ReceiveKeeps ==
    ASSUME IInv, NEW n \in 1..Len(toClient), Receive(n), NEW id \in Ids, Clean(id)
    PROVE  HandshakeOf(id)'
<1>1. /\ AtMostOne(id) /\ UnderWay(id) /\ Lives(id) /\ TypeInv /\ OldIsLeftOver
      /\ toClient \in Seq(Packet)
  BY TypeParts DEF IInv, Handshakes, HandshakeOf, TypeInv, WireOK
<1>2. /\ conn \in Connections /\ packets'[conn] = SubSeq(toClient, 1, n)
      /\ \A c \in Connections \ {conn} : packets'[c] = packets[c]
      /\ toClient' = SubSeq(toClient, n + 1, Len(toClient))
      /\ connected /\ handling[conn] = Free
      /\ UNCHANGED <<handling, incomingStore, toBroker, state, sent, emitted, leftOver, failed>>
  BY <1>1, ReceiveType DEF Receive, brokerVars, historyVars
<1>3. /\ Range(packets'[conn]) \subseteq Range(toClient) /\ Range(toClient') \subseteq Range(toClient)
      /\ Once(packets'[conn], id) /\ Once(toClient', id)
      /\ ~(Has(packets'[conn], id) /\ Has(toClient', id))
  BY <1>1, <1>2, SplitSeq DEF AtMostOne
<1>4. \A c \in Connections : ~InHand(c, id) /\ ~InHand(c, id)'
  <2>1. ~InHand(conn, id)
    BY <1>2, PlaceType DEF InHand
  <2>2. \A c \in Connections : ~InHand(c, id)
    BY <1>1, <2>1, OnlyCurrent DEF Clean, Current
  <2> QED BY <1>2, <2>2 DEF InHand
<1>5. \A c \in Connections \ {conn} : ~Has(packets'[c], id)
  BY <1>1, <1>2, OnlyCurrent DEF Clean, Current
<1>6. Has(packets'[conn], id) \/ Has(toClient', id) => ~Has(toBroker', id)
  BY <1>1, <1>2, <1>3 DEF Has, AtMostOne
<1>7. AtMostOne(id)'
  <2>1. \A c \in Connections : Once(packets'[c], id)
    BY <1>3, <1>5, HasNotOnce
  <2>2. Once(toBroker', id)
    BY <1>1, <1>2 DEF AtMostOne
  <2> QED BY <1>3, <1>4, <1>5, <1>6, <2>1, <2>2 DEF AtMostOne
<1>8. UnderWay(id)'
  <2>1. ASSUME NEW p, SentOK(p) PROVE SentOK(p)'
    BY <1>2, <2>1 DEF SentOK
  <2>2. ASSUME NEW ack, NEW m \in Messages, AckOK(ack, m) PROVE AckOK(ack, m)'
    BY <1>2, <2>2 DEF AckOK, Stored
  <2>3. \A p \in Range(toClient) : TakesPart(p, id) => SentOK(p)'
    BY <1>1, <2>1 DEF UnderWay
  <2>4. \A c \in Connections : \A p \in Range(packets'[c]) : TakesPart(p, id) => SentOK(p)'
    BY <1>3, <1>5, <2>3 DEF Has
  <2>5. \A p \in Range(toClient') : TakesPart(p, id) => SentOK(p)'
    BY <1>3, <2>3
  <2>6. \A ack \in Range(toBroker') : TakesPart(ack, id) => \E m \in Messages : Id[m] = id /\ AckOK(ack, m)'
    BY <1>1, <1>2, <2>2 DEF UnderWay
  <2> QED BY <1>4, <2>4, <2>5, <2>6 DEF UnderWay
<1>9. Lives(id)'
  <2>1. ~Releasing(id) /\ ~Releasing(id)'
    BY <1>4 DEF Releasing
  <2>2. SameMessages(id)
    BY <1>2 DEF SameMessages, Stored
  <2> QED BY <1>1, <2>1, <2>2, LivesKeeps
<1> QED BY <1>7, <1>8, <1>9 DEF HandshakeOf

LEMMA DeliverKeeps ==
    ASSUME IInv, Deliver, NEW id \in Ids, Clean(id)
    PROVE  HandshakeOf(id)'
<1>1. AtMostOne(id) /\ TypeInv /\ OldIsLeftOver /\ toBroker \in Seq(AckPacket)
  BY TypeParts DEF IInv, Handshakes, HandshakeOf, TypeInv, WireOK
<1>2. PICK e \in Entry : e = Head(queue) /\ e \in Range(queue)
  BY <1>1, DeliverType
<1>3. /\ toBroker' = Append(toBroker, e.ack) /\ handling'[e.by].at # "message"
      /\ \A c \in Connections \ {e.by} : handling'[c] = handling[c]
      /\ UNCHANGED <<packets, incomingStore, toClient, state, sent, emitted, leftOver, failed>>
  BY <1>1, <1>2, DeliverType DEF Deliver, brokerVars, historyVars
<1>4. e.ack.id \in leftOver /\ ~Current(e.by)
  BY <1>1, <1>2 DEF OldIsLeftOver, Settled
<1>5. e.ack \in AckPacket /\ ~TakesPart(e.ack, id) /\ e.by \in Connections
  BY <1>4 DEF Entry, TakesPart, Clean
<1>6. ~InHand(e.by, id) /\ ~InHand(e.by, id)'
  BY <1>1, <1>3, <1>4, <1>5, OnlyCurrent DEF Clean, InHand
<1>7. ASSUME NEW c \in Connections
      PROVE  /\ InHand(c, id)' => InHand(c, id) /\ handling'[c] = handling[c]
             /\ InHand(c, id) => InHand(c, id)'
  <2>1. CASE c = e.by
    BY <1>6, <2>1
  <2>2. CASE c # e.by
    BY <1>3, <2>2 DEF InHand
  <2> QED BY <2>1, <2>2
<1>8. Once(toBroker', id) /\ \A a \in Range(toBroker') : TakesPart(a, id) => a \in Range(toBroker)
  BY <1>1, <1>3, <1>5, AppendOnce, AppendRange DEF AtMostOne
<1>9. SamePackets(id)
  BY <1>1, <1>3 DEF SamePackets, AtMostOne
<1>10. SameMessages(id) /\ SameSent(id)
  BY <1>3 DEF SameMessages, SameSent, Stored
<1> QED BY <1>7, <1>8, <1>9, <1>10, QuietKeeps DEF Quiet, SameHandling

LEMMA ConnectKeeps ==
    ASSUME IInv, Connect, NEW id \in Ids, Clean(id)
    PROVE  HandshakeOf(id)'
<1>1. /\ ~connected
      /\ UNCHANGED <<packets, handling, incomingStore, toClient, toBroker, state, emitted, leftOver,
                     failed>>
  BY DEF Connect, historyVars
<1>2. NothingUnderWay(id)
  BY <1>1, NothingOffline DEF IInv, Clean
<1>3. NothingUnderWay(id)' /\ ~Releasing(id)
  BY <1>1, <1>2 DEF NothingUnderWay, InHand, Releasing
<1>4. SameMessages(id)
  BY <1>1 DEF SameMessages, Stored
<1> QED BY <1>3, <1>4, NothingKeeps

LEMMA CloseKeeps ==
    ASSUME IInv, Close, NEW id \in Ids, Clean(id), Clean(id)'
    PROVE  HandshakeOf(id)'
<1>1. /\ connected /\ toClient' = <<>> /\ toBroker' = <<>>
      /\ leftOver' = leftOver \cup Unhandled(conn)
      /\ UNCHANGED <<conn, handling, incomingStore, state, emitted, failed>>
  BY DEF Close, brokerVars
<1>2. OldIsLeftOver' /\ ~connected'
  BY OldClose DEF IInv, Close
<1>3. ASSUME NEW c \in Connections
      PROVE  (\A p \in Range(packets'[c]) : p.id \in leftOver')
             /\ (handling'[c].at = "message" => handling'[c].packet.id \in leftOver')
  BY <1>2 DEF OldIsLeftOver, Settled, Current
<1>4. \A c \in Connections : ~Has(packets'[c], id) /\ ~InHand(c, id)'
  BY <1>3 DEF Has, InHand, TakesPart, Clean
<1>5. NothingUnderWay(id)'
  BY <1>1, <1>4, EmptyRange DEF NothingUnderWay
<1>6. ~Releasing(id)
  BY <1>1, <1>4 DEF Releasing, InHand
<1>7. SameMessages(id)
  BY <1>1 DEF SameMessages, Stored
<1> QED BY <1>5, <1>6, <1>7, NothingKeeps

-----------------------------------------------------------------------------
(* The broker. *)

\* A step of the broker that is not about this identifier.
LEMMA BrokerQuiet ==
    ASSUME IInv, NEW id \in Ids, Clean(id), UNCHANGED <<clientVars, emitted, leftOver, failed>>,
           toClient' = toClient \/ \E p \in Packet : ~TakesPart(p, id) /\ toClient' = Append(toClient, p),
           Once(toBroker', id), Range(toBroker') \subseteq Range(toBroker),
           \A m \in Messages : Id[m] = id /\ QoS[m] > 0 => state'[m] = state[m] /\ sent'[m] = sent[m]
    PROVE  HandshakeOf(id)'
<1>1. AtMostOne(id) /\ toClient \in Seq(Packet)
  BY TypeParts DEF IInv, Handshakes, HandshakeOf, TypeInv, WireOK
<1>2. UNCHANGED <<packets, handling, incomingStore>>
  BY DEF clientVars
<1>3. Once(toClient', id) /\ \A p \in Range(toClient') : TakesPart(p, id) => p \in Range(toClient)
  <2>1. CASE toClient' = toClient
    BY <1>1, <2>1 DEF AtMostOne
  <2>2. CASE toClient' # toClient
    <3>1. PICK p \in Packet : ~TakesPart(p, id) /\ toClient' = Append(toClient, p)
      BY <2>2
    <3> QED BY <1>1, <3>1, AppendOnce, AppendRange DEF AtMostOne
  <2> QED BY <2>1, <2>2
<1>4. SamePackets(id)
  BY <1>1, <1>2, <1>3 DEF SamePackets, AtMostOne
<1>5. SameHandling(id)
  BY <1>2 DEF SameHandling, InHand
<1>6. SameMessages(id) /\ SameSent(id)
  BY <1>2 DEF SameMessages, SameSent, Stored
<1> QED BY <1>4, <1>5, <1>6, QuietKeeps DEF Quiet

\* The broker sends the only packet of an identifier.
LEMMA OnlySent ==
    ASSUME NEW id, NEW p \in Packet, toClient \in Seq(Packet), toClient' = Append(toClient, p),
           NothingUnderWay(id), UNCHANGED <<packets, handling, toBroker>>, SentOK(p)'
    PROVE  AtMostOne(id)' /\ UnderWay(id)' /\ ~Releasing(id) /\ ~Releasing(id)'
<1>1. /\ \A c \in Connections : ~Has(packets'[c], id) /\ ~InHand(c, id) /\ ~InHand(c, id)'
      /\ ~Has(toClient, id) /\ ~Has(toBroker', id)
  BY DEF NothingUnderWay, InHand
<1>2. Once(toClient', id)
  BY <1>1, AppendOnce, HasNotOnce
<1>3. \A q \in Range(toClient') : TakesPart(q, id) => q = p
  BY <1>1, AppendRange DEF Has
<1>4. AtMostOne(id)'
  BY <1>1, <1>2, HasNotOnce DEF AtMostOne
<1>5. UnderWay(id)'
  BY <1>1, <1>3 DEF UnderWay, Has
<1> QED BY <1>1, <1>4, <1>5 DEF Releasing

LEMMA BrokerPublishKeeps ==
    ASSUME IInv, NEW m \in Messages, BrokerPublish(m), NEW id \in Ids, Clean(id)
    PROVE  HandshakeOf(id)'
<1>1. /\ TypeInv /\ OneInProgress /\ AtMostOne(id) /\ Lives(id) /\ toClient \in Seq(Packet)
      /\ state \in [Messages -> States]
      /\ sent \in [Messages -> {"nothing", "publish", "pubrel"}]
  BY TypeParts DEF IInv, Handshakes, HandshakeOf, TypeInv, WireOK, BrokerOK
<1>2. PICK topic \in {TopicOf[m], NoTopic} :
        LET p == [cmd |-> "publish", id |-> Id[m], msg |-> m, topic |-> topic] IN
        p \in Packet /\ WellFormed(p) /\ toClient' = Append(toClient, p)
  BY <1>1, BrokerPublishDoes
<1>3. PICK p \in Packet : /\ p = [cmd |-> "publish", id |-> Id[m], msg |-> m, topic |-> topic]
                          /\ toClient' = Append(toClient, p)
  BY <1>2
<1>4. /\ connected /\ sent[m] = "nothing" /\ state[m] \in {"new", "sent"}
      /\ \A n \in Messages \ {m} : Id[n] = Id[m] => ~InProgress(n)
      /\ sent' = [sent EXCEPT ![m] = "publish"]
      /\ state' = [state EXCEPT ![m] = IF QoS[m] = 0 THEN "done" ELSE "sent"]
      /\ UNCHANGED <<clientVars, toBroker, emitted, leftOver, failed>>
  BY <1>1, BrokerPublishDoes
<1>5. p.cmd = "publish" /\ p.id = Id[m] /\ p.msg = m
  BY <1>3
<1>6. \A n \in Messages \ {m} : state'[n] = state[n] /\ sent'[n] = sent[n]
  BY <1>1, <1>4
<1>7. UNCHANGED <<packets, handling, incomingStore>>
  BY <1>4 DEF clientVars
<1>8. CASE ~(Id[m] = id /\ QoS[m] > 0)
  <2>1. ~TakesPart(p, id)
    BY <1>5, <1>8 DEF TakesPart
  <2>2. Once(toBroker', id)
    BY <1>1, <1>4 DEF AtMostOne
  <2> QED BY <1>3, <1>4, <1>6, <1>8, <2>1, <2>2, BrokerQuiet
<1>9. CASE Id[m] = id /\ QoS[m] > 0
  <2>1. state'[m] = "sent" /\ sent'[m] = "publish"
    BY <1>1, <1>4, <1>9
  <2>2. ~Owned(id)
    BY <1>4, <1>9 DEF Owned
  <2>3. NothingUnderWay(id)
    BY <2>2, OwnedUnderWay
  <2>4. SentOK(p)'
    BY <1>5, <2>1 DEF SentOK
  <2>5. AtMostOne(id)' /\ UnderWay(id)' /\ ~Releasing(id) /\ ~Releasing(id)'
    BY <1>1, <1>3, <1>4, <1>7, <2>3, <2>4, OnlySent
  <2>6. ASSUME NEW n \in Messages, Id[n] = id, n \notin failed' PROVE Life(n)'
    <3>1. Life(n) /\ emitted'[n] = emitted[n] /\ (Stored(n)' <=> Stored(n))
      BY <1>1, <1>4, <1>7, <2>6 DEF Lives, Stored
    <3>2. ~Releasing(Id[n]) /\ ~Releasing(Id[n])'
      BY <2>5, <2>6
    <3>3. CASE n = m
      BY <1>4, <2>1, <3>1, <3>3 DEF Life
    <3>4. CASE n # m
      <4>1. state'[n] = state[n]
        BY <1>6, <3>4
      <4> QED BY <3>1, <3>2, <4>1 DEF Life
    <3> QED BY <3>3, <3>4
  <2> QED BY <2>5, <2>6 DEF HandshakeOf, Lives
<1> QED BY <1>8, <1>9

LEMMA BrokerPubrelKeeps ==
    ASSUME IInv, NEW m \in Messages, BrokerPubrel(m), NEW id \in Ids, Clean(id)
    PROVE  HandshakeOf(id)'
<1>1. /\ TypeInv /\ OneInProgress /\ AtMostOne(id) /\ Lives(id) /\ UnderWay(id)
      /\ toClient \in Seq(Packet) /\ sent \in [Messages -> {"nothing", "publish", "pubrel"}]
  BY TypeParts DEF IInv, Handshakes, HandshakeOf, TypeInv, WireOK, BrokerOK
<1>2. PICK p \in Packet : p = [cmd |-> "pubrel", id |-> Id[m]] /\ toClient' = Append(toClient, p)
  BY <1>1, BrokerPubrelDoes
<1>3. /\ connected /\ state[m] = "released" /\ sent[m] # "pubrel"
      /\ sent' = [sent EXCEPT ![m] = "pubrel"]
      /\ UNCHANGED <<clientVars, toBroker, table, state, emitted, leftOver, failed>>
  BY <1>1, BrokerPubrelDoes
<1>4. p.cmd = "pubrel" /\ p.id = Id[m]
  BY <1>2
<1>5. \A n \in Messages \ {m} : sent'[n] = sent[n]
  BY <1>1, <1>3
<1>6. UNCHANGED <<packets, handling, incomingStore>>
  BY <1>3 DEF clientVars
<1>7. CASE Id[m] # id
  <2>1. ~TakesPart(p, id)
    BY <1>4, <1>7 DEF TakesPart
  <2>2. Once(toBroker', id)
    BY <1>1, <1>3 DEF AtMostOne
  <2> QED BY <1>2, <1>3, <1>5, <1>7, <2>1, <2>2, BrokerQuiet
<1>8. CASE Id[m] = id
  <2>1. sent'[m] = "pubrel" /\ state'[m] = "released"
    BY <1>1, <1>3
  <2>2. NothingUnderWay(id)
    <3>1. \A n \in Messages : Id[n] = id /\ InProgress(n) => n = m
      BY <1>1, <1>3, <1>8 DEF OneInProgress, InProgress
    <3>2. ASSUME NEW q \in Packet, WellFormed(q), TakesPart(q, id) PROVE ~SentOK(q)
      <4>1. CASE q.cmd = "publish"
        <5>1. q.msg \in Messages /\ Id[q.msg] = id
          BY <3>2, <4>1, PacketType DEF WellFormed, TakesPart
        <5> QED BY <1>3, <3>1, <4>1, <5>1 DEF SentOK, InProgress
      <4>2. CASE q.cmd = "pubrel"
        BY <1>3, <3>1, <3>2, <4>2 DEF SentOK, InProgress, TakesPart
      <4> QED BY <4>1, <4>2, <3>2, PacketType
    <3>3. \A ack : \A n \in Messages : Id[n] = id => ~AckOK(ack, n)
      BY <1>3, <3>1 DEF AckOK, InProgress
    <3>4. \A c \in Connections : ~Has(packets[c], id)
      BY <1>1, <3>2, PacketsType DEF Has, UnderWay
    <3>5. ~Has(toClient, id)
      BY <1>1, <3>2, PacketsType DEF Has, UnderWay
    <3>6. ~Has(toBroker, id)
      BY <1>1, <3>3 DEF Has, UnderWay
    <3>7. ASSUME NEW c \in Connections, InHand(c, id) PROVE FALSE
      <4>1. /\ handling[c].packet \in Packet /\ WellFormed(handling[c].packet)
            /\ TakesPart(handling[c].packet, id) /\ SentOK(handling[c].packet)
        BY <1>1, <3>7, PacketsType DEF InHand, UnderWay, InHandOK
      <4> QED BY <3>2, <4>1
    <3> QED BY <3>4, <3>5, <3>6, <3>7 DEF NothingUnderWay
  <2>3. SentOK(p)'
    BY <1>4, <2>1 DEF SentOK
  <2>4. AtMostOne(id)' /\ UnderWay(id)' /\ ~Releasing(id) /\ ~Releasing(id)'
    BY <1>1, <1>2, <1>3, <1>6, <2>2, <2>3, OnlySent
  <2>5. SameMessages(id)
    BY <1>3, <1>6 DEF SameMessages, Stored
  <2>6. Lives(id)'
    BY <1>1, <2>4, <2>5, LivesKeeps
  <2> QED BY <2>4, <2>6 DEF HandshakeOf
<1> QED BY <1>7, <1>8

LEMMA BrokerReadsKeeps ==
    ASSUME IInv, BrokerReads, NEW id \in Ids, Clean(id)
    PROVE  HandshakeOf(id)'
<1>1. /\ TypeInv /\ OneInProgress /\ AtMostOne(id) /\ Lives(id) /\ UnderWay(id)
      /\ toClient \in Seq(Packet) /\ toBroker \in Seq(AckPacket)
  BY TypeParts DEF IInv, Handshakes, HandshakeOf, TypeInv, WireOK
<1>2. PICK ack : ack = Head(toBroker)
  OBVIOUS
<1>3. /\ toBroker # <<>> /\ ack \in AckPacket /\ ack \in Range(toBroker)
      /\ toBroker' = Tail(toBroker) /\ Range(toBroker') \subseteq Range(toBroker)
      /\ UNCHANGED <<clientVars, sent, emitted, leftOver, failed>>
  BY <1>1, <1>2, BrokerReadsDoes
<1>4. \A m \in Messages : /\ EndsIt(ack, m) => state'[m] = "done"
                          /\ Goes(ack, m) => state'[m] = "released"
                          /\ ~EndsIt(ack, m) /\ ~Goes(ack, m) => state'[m] = state[m]
  BY <1>1, <1>2, BrokerReadsDoes
<1>5. \/ toClient' = toClient
      \/ \E p \in Packet : /\ p = [cmd |-> "pubrel", id |-> ack.id] /\ toClient' = Append(toClient, p)
                           /\ ~\E m \in Messages : Id[m] = ack.id /\ InProgress(m)
  BY <1>1, <1>2, BrokerReadsDoes
<1>6. UNCHANGED <<packets, handling, incomingStore>>
  BY <1>3 DEF clientVars
<1>7. CASE ack.id # id
  <2>1. toClient' = toClient \/ \E p \in Packet : ~TakesPart(p, id) /\ toClient' = Append(toClient, p)
    BY <1>5, <1>7 DEF TakesPart
  <2>2. Once(toBroker', id)
    BY <1>1, <1>3, HeadTailOnce DEF AtMostOne
  <2>3. \A m \in Messages : Id[m] = id => ~EndsIt(ack, m) /\ ~Goes(ack, m)
    BY <1>7 DEF EndsIt, Goes
  <2>4. \A m \in Messages : Id[m] = id => state'[m] = state[m] /\ sent'[m] = sent[m]
    BY <1>3, <1>4, <2>3
  <2> QED BY <1>3, <2>1, <2>2, <2>4, BrokerQuiet
<1>8. CASE ack.id = id
  <2>1. TakesPart(ack, id)
    BY <1>3, <1>8 DEF TakesPart, AckPacket
  <2>2. ~Has(toBroker', id)
    BY <1>1, <1>2, <1>3, <2>1, HeadTailOnce DEF AtMostOne
  <2>3. Has(toBroker, id)
    BY <1>3, <2>1 DEF Has
  <2>4. PICK m \in Messages : Id[m] = id /\ AckOK(ack, m)
    BY <1>1, <1>3, <2>1 DEF UnderWay
  <2>5. InProgress(m)
    BY <2>4, OwnerOfAck
  <2>6. toClient' = toClient
    BY <1>5, <1>8, <2>4, <2>5
  <2>7. NothingUnderWay(id)' /\ ~Releasing(id) /\ ~Releasing(id)'
    <3>1. ~Has(toClient', id)
      BY <1>1, <2>3, <2>6 DEF AtMostOne
    <3>2. \A c \in Connections : ~Has(packets'[c], id)
      BY <1>1, <1>6, <2>3 DEF AtMostOne
    <3>3. \A c \in Connections : ~InHand(c, id)
      BY <1>1, <2>3 DEF AtMostOne
    <3>4. \A c \in Connections : ~InHand(c, id)'
      BY <1>6, <3>3 DEF InHand
    <3> QED BY <2>2, <3>1, <3>2, <3>3, <3>4 DEF NothingUnderWay, Releasing
  <2>8. AtMostOne(id)' /\ UnderWay(id)'
    <3>1. AtMostOne(id)'
      BY <2>7, HasNotOnce DEF AtMostOne, NothingUnderWay
    <3>2. UnderWay(id)'
      BY <2>7 DEF UnderWay, NothingUnderWay, Has
    <3> QED BY <3>1, <3>2
  <2>9. \A n \in Messages \ {m} : Id[n] = id => ~InProgress(n) /\ state'[n] = state[n]
    <3>1. \A n \in Messages \ {m} : Id[n] = id => ~InProgress(n)
      BY <1>1, <2>4, <2>5 DEF OneInProgress
    <3>2. \A n \in Messages : ~InProgress(n) => ~EndsIt(ack, n) /\ ~Goes(ack, n)
      BY DEF EndsIt, Goes, InProgress
    <3> QED BY <1>4, <3>1, <3>2
  <2>10. \A n \in Messages : emitted'[n] = emitted[n] /\ (Stored(n)' <=> Stored(n))
    BY <1>3, <1>6 DEF Stored
  <2>11. ASSUME NEW n \in Messages, Id[n] = id, n \notin failed', n # m PROVE Life(n)'
    <3>1. Life(n) /\ state'[n] = state[n]
      BY <1>1, <1>3, <2>9, <2>11 DEF Lives
    <3>2. ~Releasing(Id[n]) /\ ~Releasing(Id[n])'
      BY <2>7, <2>11
    <3> QED BY <2>10, <3>1, <3>2 DEF Life
  <2>12. ASSUME m \notin failed' PROVE Life(m)'
    <3>1. m \notin failed /\ Life(m)
      BY <1>1, <1>3, <2>4, <2>12 DEF Lives
    <3>2. CASE ack.cmd = "puback"
      <4>1. QoS[m] = 1 /\ emitted[m] # <<>>
        BY <2>4, <3>1, <3>2 DEF AckOK
      <4> QED BY <2>10, <4>1 DEF Life
    <3>3. CASE ack.cmd = "pubrec"
      <4>1. QoS[m] = 2 /\ state[m] = "sent" /\ ack.good /\ Stored(m) /\ emitted[m] = <<>>
        BY <2>4, <3>1, <3>3 DEF AckOK, Life
      <4>2. Goes(ack, m)
        BY <1>8, <2>4, <3>3, <4>1 DEF Goes
      <4>3. state'[m] = "released"
        BY <1>4, <4>2
      <4>4. ~Releasing(Id[m])'
        BY <2>4, <2>7
      <4> QED BY <2>10, <4>1, <4>3, <4>4 DEF Life
    <3>4. CASE ack.cmd = "pubcomp"
      <4>1. QoS[m] = 2 /\ state[m] = "released" /\ ~Stored(m) /\ Len(emitted[m]) = 1
        BY <2>4, <3>1, <3>4 DEF AckOK
      <4>2. EndsIt(ack, m)
        BY <1>8, <2>4, <3>4, <4>1 DEF EndsIt
      <4>3. state'[m] = "done"
        BY <1>4, <4>2
      <4> QED BY <2>10, <4>1, <4>3 DEF Life
    <3> QED BY <2>4, <3>2, <3>3, <3>4 DEF AckOK
  <2> QED BY <2>8, <2>11, <2>12 DEF HandshakeOf, Lives
<1> QED BY <1>7, <1>8

-----------------------------------------------------------------------------
LEMMA HandshakeInit == Init => Handshakes
<1>1. SUFFICES ASSUME Init, NEW id \in Ids PROVE AtMostOne(id) /\ UnderWay(id) /\ Lives(id)
  BY DEF Handshakes, HandshakeOf
<1>2. /\ packets = [c \in Connections |-> <<>>] /\ handling = [c \in Connections |-> Free]
      /\ toClient = <<>> /\ toBroker = <<>> /\ DOMAIN incomingStore = {}
      /\ state = [m \in Messages |-> "new"] /\ emitted = [m \in Messages |-> <<>>]
  BY <1>1 DEF Init, Empty
<1>3. NothingUnderWay(id)
  BY <1>2, EmptyRange DEF NothingUnderWay, InHand, Free
<1>4. AtMostOne(id)
  BY <1>3, HasNotOnce DEF AtMostOne, NothingUnderWay
<1>5. UnderWay(id)
  BY <1>3 DEF UnderWay, NothingUnderWay, Has
<1>6. Lives(id)
  BY <1>2 DEF Lives, Life, Stored
<1> QED BY <1>4, <1>5, <1>6

LEMMA HandshakeNext ==
    ASSUME IInv, [Next]_vars, NEW id \in Ids
    PROVE  HandshakeOf(id)'
<1>1. SUFFICES ASSUME Clean(id)' PROVE HandshakeOf(id)'
  BY DEF HandshakeOf
<1>2. Clean(id)
  BY <1>1, CleanBefore
<1>3. CASE ClientRuns
  BY <1>2, <1>3, WorkKeeps DEF ClientRuns
<1>4. CASE HandlerAnswers
  BY <1>1, <1>2, <1>4, HandledKeeps DEF HandlerAnswers
<1>5. CASE ClientReceives
  BY <1>2, <1>5, ReceiveKeeps DEF ClientReceives
<1>6. CASE Deliver
  BY <1>2, <1>6, DeliverKeeps
<1>7. CASE Connect
  BY <1>2, <1>7, ConnectKeeps
<1>8. CASE Close
  BY <1>1, <1>2, <1>8, CloseKeeps
<1>9. CASE BrokerSends
  BY <1>2, <1>9, BrokerPublishKeeps, BrokerPubrelKeeps DEF BrokerSends
<1>10. CASE BrokerReads
  BY <1>2, <1>10, BrokerReadsKeeps
<1>11. CASE UNCHANGED vars
  <2>1. AtMostOne(id)
    BY <1>2 DEF IInv, Handshakes, HandshakeOf
  <2>2. UNCHANGED <<clientVars, toClient, toBroker, state, sent, emitted, leftOver, failed>>
    BY <1>11 DEF vars, brokerVars, historyVars
  <2> QED BY <1>2, <2>1, <2>2, BrokerQuiet DEF AtMostOne
<1> QED BY <1>3, <1>4, <1>5, <1>6, <1>7, <1>8, <1>9, <1>10, <1>11 DEF Next

LEMMA IInvNext == IInv /\ [Next]_vars => IInv'
<1>1. SUFFICES ASSUME IInv, [Next]_vars PROVE IInv'
  OBVIOUS
<1>2. TypeInv' /\ OldIsLeftOver' /\ OneInProgress'
  BY <1>1, TypeNext, OldNext, OneNext DEF IInv
<1>3. Handshakes'
  <2>1. \A id \in Ids : HandshakeOf(id)'
    BY <1>1, HandshakeNext
  <2> QED BY <2>1 DEF Handshakes, Ids
<1> QED BY <1>2, <1>3 DEF IInv

LEMMA Invariant == Spec => []IInv
<1>1. Init => IInv
  BY TypeInit, OldInit, OneInit, HandshakeInit DEF IInv
<1>2. IInv /\ [Next]_vars => IInv'
  BY IInvNext
<1> QED BY <1>1, <1>2, PTL DEF Spec

-----------------------------------------------------------------------------
\* What Undisturbed says of a message, Life holds of.
LEMMA UndisturbedLives ==
    ASSUME IInv, NEW m \in Messages, Undisturbed(m)
    PROVE  Life(m) /\ state[m] \in States /\ emitted[m] \in Seq(Topics)
<1>1. Clean(Id[m]) /\ m \notin failed /\ Id[m] \in Ids
  BY DEF Undisturbed, Clean, Ids
<1>2. Lives(Id[m])
  BY <1>1 DEF IInv, Handshakes, HandshakeOf
<1>3. state[m] \in States /\ emitted[m] \in Seq(Topics)
  BY TypeParts DEF IInv, TypeInv, BrokerOK, HistoryOK
<1> QED BY <1>1, <1>2, <1>3 DEF Lives

(***************************************************************************)
(* A QoS 1 or 2 message that the client has acknowledged was emitted: it   *)
(* is not lost between the store, the queue and a new connection.          *)
(***************************************************************************)
THEOREM AckedIsEmittedCorrect == Spec => []AckedIsEmitted
<1>1. IInv => AckedIsEmitted
  <2>1. SUFFICES ASSUME IInv, NEW m \in Messages, QoS[m] > 0, state[m] = "done", Undisturbed(m)
                 PROVE  emitted[m] # <<>>
    BY DEF AckedIsEmitted
  <2>2. Life(m)
    BY <2>1, UndisturbedLives
  <2>3. QoS[m] = 1 \/ QoS[m] = 2
    BY <2>1, MessageTypes
  <2>4. Len(<<>>) = 0
    OBVIOUS
  <2> QED BY <2>1, <2>2, <2>3, <2>4 DEF Life
<1> QED BY <1>1, Invariant, PTL

(***************************************************************************)
(* A QoS 2 message is emitted at most once, however often the broker sends *)
(* it and its PUBREL, unless a handler failed or was cut off by a close.   *)
(***************************************************************************)
THEOREM ExactlyOnceCorrect == Spec => []ExactlyOnce
<1>1. IInv => ExactlyOnce
  <2>1. SUFFICES ASSUME IInv, NEW m \in Messages, QoS[m] = 2, Undisturbed(m)
                 PROVE  Len(emitted[m]) <= 1
    BY DEF ExactlyOnce
  <2>2. Life(m) /\ state[m] \in States
    BY <2>1, UndisturbedLives
  <2>3. Len(<<>>) = 0
    OBVIOUS
  <2>4. emitted[m] = <<>> \/ Len(emitted[m]) = 1
    BY <2>1, <2>2 DEF Life, States
  <2>5. Len(emitted[m]) \in {0, 1}
    BY <2>3, <2>4
  <2>6. \A n \in {0, 1} : n <= 1
    OBVIOUS
  <2> QED BY <2>5, <2>6
<1> QED BY <1>1, Invariant, PTL

(***************************************************************************)
(* What the incoming store holds is a message the broker has not finished  *)
(* with: a later message of the identifier is not taken for it.            *)
(***************************************************************************)
THEOREM StoredIsInProgressCorrect == Spec => []StoredIsInProgress
<1>1. IInv => StoredIsInProgress
  <2>1. SUFFICES ASSUME IInv, NEW id \in DOMAIN incomingStore, Undisturbed(incomingStore[id].msg)
                 PROVE  InProgress(incomingStore[id].msg)
    BY DEF StoredIsInProgress
  <2>2. PICK p : p = incomingStore[id]
    OBVIOUS
  <2>3. p \in Packet /\ StoredPacket(id, p)
    BY <2>1, <2>2, TypeParts DEF IInv, TypeInv, PacketsWellFormed, StoresOK
  <2>4. PICK m \in Messages : m = p.msg /\ Id[m] = id /\ QoS[m] = 2
    BY <2>3, PacketType DEF StoredPacket
  <2>5. Life(m) /\ state[m] \in States
    BY <2>1, <2>2, <2>4, UndisturbedLives
  <2>6. Stored(m)
    BY <2>1, <2>2, <2>4 DEF Stored
  <2>7. state[m] # "new" /\ state[m] # "done"
    BY <2>4, <2>5, <2>6 DEF Life
  <2> QED BY <2>2, <2>4, <2>5, <2>7 DEF InProgress, States
<1> QED BY <1>1, Invariant, PTL

-----------------------------------------------------------------------------
(***************************************************************************)
(* The topic a message is emitted with.  One hypothesis: QoS 2 messages    *)
(* use no alias, for the packet of one that does is stored with the empty  *)
(* topic, and emitted with it (the run empty_topic).  What an earlier      *)
(* connection left in its work queue registers its aliases in the table of *)
(* the next one: the aliases of such packets are excepted.                 *)
(***************************************************************************)
QoS2UsesNoAlias == \A m \in Messages : QoS[m] = 2 => AliasOf[m] = 0

RightName(p) ==
    p.cmd = "publish" => p.topic = TopicOf[p.msg] \/ (p.topic = NoTopic /\ AliasOf[p.msg] # 0)
TopicsOK ==
    /\ 0 \notin DOMAIN table
    /\ \A c \in Connections : \A p \in Range(packets[c]) : RightName(p)
    /\ \A p \in Range(toClient) : RightName(p)
    /\ \A id \in DOMAIN incomingStore : incomingStore[id].topic = TopicOf[incomingStore[id].msg]
    /\ \A m \in Messages : AliasUndisturbed(AliasOf[m]) => RightTopic(m)

\* The topic alias a has before packet i of s, in a table al of the start.
Names(p, a) == p.cmd = "publish" /\ AliasOf[p.msg] = a /\ p.topic # NoTopic
Means(s, i, a, topic, al) ==
    \/ \E j \in 1..(i - 1) : /\ Names(s[j], a) /\ s[j].topic = topic
                             /\ \A k \in (j + 1)..(i - 1) : ~Names(s[k], a)
    \/ /\ \A k \in 1..(i - 1) : ~Names(s[k], a)
       /\ a \in DOMAIN al /\ al[a] = topic
Agrees(s, al, tb, a) ==
    /\ \A i \in DOMAIN s : s[i].cmd = "publish" /\ s[i].topic = NoTopic /\ AliasOf[s[i].msg] = a =>
          Means(s, i, a, TopicOf[s[i].msg], al)
    /\ a \in DOMAIN tb => Means(s, Len(s) + 1, a, tb[a], al)
Coming == packets[conn] \o toClient

\* What the client will read makes its table agree with the broker's.
TablesAgree ==
    connected /\ handling[conn] # Stuck =>
        \A a \in Nat \ {0} : AliasUndisturbed(a) => Agrees(Coming, aliases, table, a)

LEMMA ConcatTail ==
    ASSUME NEW S, NEW s \in Seq(S), NEW t \in Seq(S), s # <<>>
    PROVE  s \o t # <<>> /\ Head(s \o t) = Head(s) /\ Tail(s \o t) = Tail(s) \o t
<1>1. /\ s \o t \in Seq(S) /\ Len(s \o t) = Len(s) + Len(t)
      /\ \A i \in 1..Len(s) + Len(t) : (s \o t)[i] = IF i <= Len(s) THEN s[i] ELSE t[i - Len(s)]
  BY ConcatProperties
<1>2. Len(s) \in Nat \ {0} /\ Len(t) \in Nat
  BY EmptySeq, LenProperties
<1>3. s \o t # <<>>
  BY <1>1, <1>2, EmptySeq
<1>4. Head(s \o t) = Head(s)
  BY <1>1, <1>2, <1>3, HeadTailRange
<1>5. /\ Tail(s) \in Seq(S) /\ Len(Tail(s)) = Len(s) - 1
      /\ \A i \in 1..Len(Tail(s)) : Tail(s)[i] = s[i + 1]
  BY HeadTailProperties
<1>6. /\ Tail(s \o t) \in Seq(S) /\ Len(Tail(s \o t)) = Len(s \o t) - 1
      /\ \A i \in 1..Len(Tail(s \o t)) : Tail(s \o t)[i] = (s \o t)[i + 1]
  BY <1>1, <1>3, HeadTailProperties
<1>7. /\ Tail(s) \o t \in Seq(S) /\ Len(Tail(s) \o t) = Len(Tail(s)) + Len(t)
      /\ \A i \in 1..Len(Tail(s)) + Len(t) : (Tail(s) \o t)[i] =
            IF i <= Len(Tail(s)) THEN Tail(s)[i] ELSE t[i - Len(Tail(s))]
  BY <1>5, ConcatProperties
<1>8. Len(Tail(s \o t)) = Len(Tail(s) \o t)
  BY <1>1, <1>2, <1>5, <1>6, <1>7
<1>9. ASSUME NEW i \in 1..Len(Tail(s \o t)) PROVE Tail(s \o t)[i] = (Tail(s) \o t)[i]
  <2>1. i \in Nat /\ 1 <= i /\ i <= Len(s) + Len(t) - 1
    BY <1>1, <1>2, <1>6
  <2>2. i + 1 \in 1..Len(s) + Len(t) /\ i \in 1..Len(Tail(s)) + Len(t)
    BY <1>2, <1>5, <2>1
  <2>3. CASE i <= Len(s) - 1
    <3>1. i + 1 <= Len(s) /\ i <= Len(Tail(s)) /\ i \in 1..Len(Tail(s))
      BY <1>2, <1>5, <2>1, <2>3
    <3>2. (s \o t)[i + 1] = s[i + 1] /\ (Tail(s) \o t)[i] = Tail(s)[i]
      BY <1>1, <1>7, <2>2, <3>1
    <3> QED BY <1>5, <1>6, <1>9, <3>1, <3>2
  <2>4. CASE ~(i <= Len(s) - 1)
    <3>1. ~(i + 1 <= Len(s)) /\ ~(i <= Len(Tail(s))) /\ (i + 1) - Len(s) = i - Len(Tail(s))
      BY <1>2, <1>5, <2>1, <2>4
    <3>2. (s \o t)[i + 1] = t[(i + 1) - Len(s)] /\ (Tail(s) \o t)[i] = t[i - Len(Tail(s))]
      BY <1>1, <1>7, <2>2, <3>1
    <3> QED BY <1>6, <1>9, <3>1, <3>2
  <2> QED BY <2>3, <2>4
<1>10. Tail(s \o t) = Tail(s) \o t
  BY <1>6, <1>7, <1>8, <1>9, SeqEqual
<1> QED BY <1>3, <1>4, <1>10

LEMMA ConcatAppend ==
    ASSUME NEW S, NEW s \in Seq(S), NEW t \in Seq(S), NEW x \in S
    PROVE  s \o Append(t, x) = Append(s \o t, x)
<1>1. <<x>> \in Seq(S) /\ s \o t \in Seq(S)
  BY ConcatProperties
<1> QED BY <1>1, AppendIsConcat, ConcatAssociative

\* The first packet is handled and its alias registered.
Registered(p, al, new) ==
    new = IF p.cmd = "publish" /\ Aliased(p) /\ p.topic # NoTopic
          THEN With(al, AliasOf[p.msg], p.topic) ELSE al

LEMMA MeansTail ==
    ASSUME NEW s \in Seq(Packet), s # <<>>, NEW al, NEW new, NEW a, a # 0, NEW topic,
           NEW p, p = Head(s), NEW i \in 1..Len(s), Means(s, i + 1, a, topic, al),
           Registered(p, al, new)
    PROVE  Means(Tail(s), i, a, topic, new)
<1>1. /\ \A k \in 1..Len(s) - 1 : Tail(s)[k] = s[k + 1]
      /\ p = s[1] /\ Len(s) \in Nat \ {0}
  BY HeadTailProperties, HeadTailRange, EmptySeq
<1>2. i \in Nat /\ 1 <= i /\ i <= Len(s)
  BY <1>1
<1>3. ASSUME NEW j \in 2..i, NEW k \in j..i PROVE s[k] = Tail(s)[k - 1] /\ k - 1 \in (j - 1)..(i - 1)
  <2>1. k - 1 \in 1..Len(s) - 1 /\ (k - 1) + 1 = k /\ k - 1 \in (j - 1)..(i - 1)
    BY <1>1, <1>2
  <2> QED BY <1>1, <2>1
<1>4. \A k \in 1..(i - 1) : Tail(s)[k] = s[k + 1] /\ k + 1 \in 2..i /\ k + 1 \in 1..i
  <2>1. \A k \in 1..(i - 1) : k \in 1..Len(s) - 1 /\ k + 1 \in 2..i /\ k + 1 \in 1..i
    BY <1>1, <1>2
  <2> QED BY <1>1, <2>1
<1>5. CASE \E j \in 1..i : /\ Names(s[j], a) /\ s[j].topic = topic
                           /\ \A k \in (j + 1)..i : ~Names(s[k], a)
  <2>1. PICK j \in 1..i : /\ Names(s[j], a) /\ s[j].topic = topic
                          /\ \A k \in (j + 1)..i : ~Names(s[k], a)
    BY <1>5
  <2>2. CASE j = 1
    <3>1. \A k \in 1..(i - 1) : ~Names(Tail(s)[k], a)
      BY <1>4, <2>1, <2>2
    <3>2. AliasOf[p.msg] = a /\ p.topic = topic /\ p.topic # NoTopic
      BY <1>1, <2>1, <2>2 DEF Names
    <3>3. new = With(al, a, topic)
      BY <1>1, <2>1, <2>2, <3>2 DEF Aliased, Names, Registered
    <3>4. a \in DOMAIN new /\ new[a] = topic
      BY <3>3 DEF With
    <3> QED BY <3>1, <3>4 DEF Means
  <2>3. CASE j # 1
    <3>1. j \in 2..i /\ j \in j..i /\ j - 1 \in 1..(i - 1)
      BY <1>2, <2>3
    <3>2. Tail(s)[j - 1] = s[j]
      BY <1>3, <3>1
    <3>3. ASSUME NEW k \in ((j - 1) + 1)..(i - 1) PROVE ~Names(Tail(s)[k], a)
      <4>1. k \in 1..(i - 1) /\ k + 1 \in (j + 1)..i
        BY <1>2, <3>1
      <4> QED BY <1>4, <2>1, <4>1
    <3> QED BY <2>1, <3>1, <3>2, <3>3 DEF Means
  <2> QED BY <2>2, <2>3
<1>6. CASE (\A k \in 1..i : ~Names(s[k], a)) /\ a \in DOMAIN al /\ al[a] = topic
  <2>1. \A k \in 1..(i - 1) : ~Names(Tail(s)[k], a)
    BY <1>4, <1>6
  <2>2. ~(p.cmd = "publish" /\ AliasOf[p.msg] = a /\ p.topic # NoTopic)
    BY <1>1, <1>2, <1>6 DEF Names
  <2>3. a \in DOMAIN new /\ new[a] = topic
    BY <1>6, <2>2 DEF With, Registered
  <2> QED BY <2>1, <2>3 DEF Means
<1>7. (i + 1) - 1 = i
  BY <1>2
<1> QED BY <1>5, <1>6, <1>7 DEF Means

LEMMA MeansAppend ==
    ASSUME NEW s \in Seq(Packet), NEW x \in Packet, NEW i \in 1..Len(s) + 1, NEW a, NEW topic,
           NEW al, Means(s, i, a, topic, al)
    PROVE  Means(Append(s, x), i, a, topic, al)
<1>1. Len(s) \in Nat /\ \A k \in 1..Len(s) : Append(s, x)[k] = s[k]
  BY AppendProperties, LenProperties
<1>2. \A k \in 1..(i - 1) : Append(s, x)[k] = s[k]
  BY <1>1
<1>3. \A j \in 1..(i - 1) : \A k \in (j + 1)..(i - 1) : k \in 1..(i - 1)
  BY <1>1
<1> QED BY <1>2, <1>3 DEF Means

LEMMA MeansLast ==
    ASSUME NEW s \in Seq(Packet), NEW x \in Packet, NEW a, NEW topic, NEW al,
           \/ ~Names(x, a) /\ Means(s, Len(s) + 1, a, topic, al)
           \/ Names(x, a) /\ topic = x.topic
    PROVE  Means(Append(s, x), Len(Append(s, x)) + 1, a, topic, al)
<1> DEFINE n == Len(s)
<1>1. /\ n \in Nat /\ Len(Append(s, x)) = n + 1 /\ Append(s, x)[n + 1] = x
      /\ \A k \in 1..n : Append(s, x)[k] = s[k]
  BY AppendProperties, LenProperties
<1> HIDE DEF n
<1>2. SUFFICES Means(Append(s, x), n + 2, a, topic, al)
  <2>1. Len(Append(s, x)) + 1 = n + 2
    BY <1>1
  <2> QED BY <2>1
<1>3. (n + 2) - 1 = n + 1 /\ (n + 1) - 1 = n
  BY <1>1
<1>4. CASE Names(x, a) /\ topic = x.topic
  <2>1. n + 1 \in 1..(n + 1) /\ \A k \in ((n + 1) + 1)..(n + 1) : FALSE
    BY <1>1
  <2> QED BY <1>1, <1>3, <1>4, <2>1 DEF Means
<1>5. CASE ~Names(x, a) /\ Means(s, n + 1, a, topic, al)
  <2>1. \A k \in 1..(n + 1) : (k \in 1..n \/ k = n + 1)
    BY <1>1
  <2>2. CASE \E j \in 1..n : /\ Names(s[j], a) /\ s[j].topic = topic
                             /\ \A k \in (j + 1)..n : ~Names(s[k], a)
    <3>1. PICK j \in 1..n : /\ Names(s[j], a) /\ s[j].topic = topic
                            /\ \A k \in (j + 1)..n : ~Names(s[k], a)
      BY <2>2
    <3>2. j \in 1..(n + 1) /\ Append(s, x)[j] = s[j]
      BY <1>1
    <3>3. \A k \in (j + 1)..(n + 1) : (k \in (j + 1)..n /\ k \in 1..n) \/ k = n + 1
      BY <1>1
    <3>4. \A k \in (j + 1)..(n + 1) : ~Names(Append(s, x)[k], a)
      BY <1>1, <1>5, <3>1, <3>3
    <3> QED BY <1>3, <3>1, <3>2, <3>4 DEF Means
  <2>3. CASE (\A k \in 1..n : ~Names(s[k], a)) /\ a \in DOMAIN al /\ al[a] = topic
    <3>1. \A k \in 1..(n + 1) : ~Names(Append(s, x)[k], a)
      BY <1>1, <1>5, <2>1, <2>3
    <3> QED BY <1>3, <2>3, <3>1 DEF Means
  <2> QED BY <1>3, <1>5, <2>2, <2>3 DEF Means
<1> QED BY <1>4, <1>5 DEF n

LEMMA AgreesTail ==
    ASSUME NEW s \in Seq(Packet), s # <<>>, NEW al, NEW tb, NEW a, a # 0, Agrees(s, al, tb, a),
           NEW new, NEW p, p = Head(s), Registered(p, al, new)
    PROVE  Agrees(Tail(s), new, tb, a)
<1>1. /\ Len(Tail(s)) = Len(s) - 1 /\ Len(s) \in Nat \ {0}
      /\ \A i \in DOMAIN Tail(s) : Tail(s)[i] = s[i + 1] /\ i + 1 \in DOMAIN s /\ i \in Nat
      /\ DOMAIN s = 1..Len(s) /\ DOMAIN Tail(s) = 1..Len(s) - 1
  BY HeadTailProperties, HeadTailRange, LenProperties, EmptySeq
<1>2. ASSUME NEW i \in 1..Len(s), NEW topic, Means(s, i + 1, a, topic, al)
      PROVE  Means(Tail(s), i, a, topic, new)
  BY <1>2, MeansTail
<1>3. ASSUME NEW i \in DOMAIN Tail(s), Tail(s)[i].cmd = "publish", Tail(s)[i].topic = NoTopic,
             AliasOf[Tail(s)[i].msg] = a
      PROVE  Means(Tail(s), i, a, TopicOf[Tail(s)[i].msg], new)
  <2>1. i + 1 \in DOMAIN s /\ Tail(s)[i] = s[i + 1] /\ i \in 1..Len(s)
    BY <1>1
  <2>2. PICK q : q = s[i + 1]
    OBVIOUS
  <2>3. Means(s, i + 1, a, TopicOf[q.msg], al)
    BY <1>3, <2>1, <2>2 DEF Agrees
  <2> QED BY <1>2, <2>1, <2>2, <2>3
<1>4. ASSUME a \in DOMAIN tb PROVE Means(Tail(s), Len(Tail(s)) + 1, a, tb[a], new)
  <2>1. Means(s, Len(s) + 1, a, tb[a], al)
    BY <1>4 DEF Agrees
  <2>2. Len(s) \in 1..Len(s) /\ Len(Tail(s)) + 1 = Len(s)
    BY <1>1
  <2> QED BY <1>2, <2>1, <2>2
<1> QED BY <1>3, <1>4 DEF Agrees

LEMMA AgreesAppend ==
    ASSUME NEW s \in Seq(Packet), NEW x \in Packet, NEW al, NEW tb, NEW a, a # 0,
           Agrees(s, al, tb, a), NEW new,
           \/ x.cmd = "pubrel" /\ new = tb
           \/ \E m \in Messages :
                 LET known == AliasOf[m] \in DOMAIN tb /\ tb[AliasOf[m]] = TopicOf[m] IN
                 /\ x.cmd = "publish" /\ x.msg = m /\ x.topic = IF known THEN NoTopic ELSE TopicOf[m]
                 /\ new = IF AliasOf[m] = 0 THEN tb ELSE With(tb, AliasOf[m], TopicOf[m])
    PROVE  Agrees(Append(s, x), al, new, a)
<1>1. /\ Len(s) \in Nat /\ DOMAIN s = 1..Len(s) /\ DOMAIN Append(s, x) = 1..Len(s) + 1
      /\ \A i \in 1..Len(s) : Append(s, x)[i] = s[i]
      /\ Append(s, x)[Len(s) + 1] = x
  BY AppendProperties, LenProperties
<1>2. \A i \in DOMAIN Append(s, x) : i \in DOMAIN s \/ i = Len(s) + 1
  BY <1>1
<1>3. \A i \in DOMAIN s : i \in 1..Len(s) + 1
  BY <1>1
<1>4. a \in DOMAIN tb => Means(s, Len(s) + 1, a, tb[a], al)
  BY DEF Agrees
<1>5. ASSUME NEW i \in DOMAIN s, s[i].cmd = "publish", s[i].topic = NoTopic, AliasOf[s[i].msg] = a
      PROVE  Means(Append(s, x), i, a, TopicOf[s[i].msg], al)
  BY <1>3, <1>5, MeansAppend DEF Agrees
<1>6. ASSUME x.cmd = "publish", x.topic = NoTopic, AliasOf[x.msg] = a
      PROVE  Means(Append(s, x), Len(s) + 1, a, TopicOf[x.msg], al)
  <2>1. a \in DOMAIN tb /\ tb[a] = TopicOf[x.msg]
    BY <1>6, MessagesAssumption
  <2>2. Len(s) + 1 \in 1..Len(s) + 1
    BY <1>1
  <2> QED BY <1>4, <2>1, <2>2, MeansAppend
<1>7. ASSUME a \in DOMAIN new
      PROVE  Means(Append(s, x), Len(Append(s, x)) + 1, a, new[a], al)
  <2>1. CASE a \in DOMAIN tb /\ new[a] = tb[a] /\ ~Names(x, a)
    BY <1>4, <2>1, MeansLast
  <2>2. CASE ~(a \in DOMAIN tb /\ new[a] = tb[a] /\ ~Names(x, a))
    <3>1. PICK m \in Messages :
             LET known == AliasOf[m] \in DOMAIN tb /\ tb[AliasOf[m]] = TopicOf[m] IN
             /\ x.cmd = "publish" /\ x.msg = m /\ x.topic = IF known THEN NoTopic ELSE TopicOf[m]
             /\ new = IF AliasOf[m] = 0 THEN tb ELSE With(tb, AliasOf[m], TopicOf[m])
      BY <1>7, <2>2 DEF Names
    <3>2. a = AliasOf[m]
      <4>1. SUFFICES ASSUME a # AliasOf[m] PROVE FALSE
        OBVIOUS
      <4>2. a \in DOMAIN tb /\ new[a] = tb[a]
        BY <1>7, <3>1, <4>1 DEF With
      <4>3. ~Names(x, a)
        BY <3>1, <4>1 DEF Names
      <4> QED BY <2>2, <4>2, <4>3
    <3>4. new[a] = TopicOf[m]
      BY <3>1, <3>2 DEF With
    <3>5. x.topic # NoTopic
      <4>1. SUFFICES ASSUME x.topic = NoTopic PROVE FALSE
        OBVIOUS
      <4>2. a \in DOMAIN tb /\ tb[a] = TopicOf[m]
        BY <3>1, <3>2, <4>1, MessagesAssumption
      <4>3. ~Names(x, a)
        BY <4>1 DEF Names
      <4> QED BY <2>2, <3>4, <4>2, <4>3
    <3>6. Names(x, a) /\ x.topic = TopicOf[m]
      BY <3>1, <3>2, <3>5 DEF Names
    <3> QED BY <3>4, <3>6, MeansLast
  <2> QED BY <2>1, <2>2
<1> QED BY <1>1, <1>2, <1>5, <1>6, <1>7 DEF Agrees

\* Only what the table says of a matters.
LEMMA AgreesOther ==
    ASSUME NEW s, NEW al, NEW tb, NEW a, Agrees(s, al, tb, a), NEW new,
           a \in DOMAIN al => a \in DOMAIN new /\ new[a] = al[a]
    PROVE  Agrees(s, new, tb, a)
<1>1. ASSUME NEW i, NEW topic, Means(s, i, a, topic, al) PROVE Means(s, i, a, topic, new)
  BY <1>1 DEF Means
<1> QED BY <1>1 DEF Agrees

-----------------------------------------------------------------------------
(* The topics in the packets, the store and the history. *)

LEMMA TopicsKeep ==
    ASSUME TopicsOK, 0 \notin DOMAIN table', leftOver \subseteq leftOver',
           \A c \in Connections : \A p \in Range(packets'[c]) : RightName(p),
           \A p \in Range(toClient') : RightName(p),
           incomingStore' = incomingStore \/ (\E id : incomingStore' = Without(incomingStore, id)),
           emitted' = emitted
    PROVE  TopicsOK'
<1>1. \A id \in DOMAIN incomingStore' :
         id \in DOMAIN incomingStore /\ incomingStore'[id] = incomingStore[id]
  BY DEF Without
<1>2. \A id \in DOMAIN incomingStore' : incomingStore'[id].topic = TopicOf[incomingStore'[id].msg]
  BY <1>1 DEF TopicsOK
<1>3. \A m \in Messages : AliasUndisturbed(AliasOf[m])' => RightTopic(m)'
  BY DEF TopicsOK, RightTopic, AliasUndisturbed
<1> QED BY <1>2, <1>3 DEF TopicsOK

\* A message is emitted under its topic, if its alias is undisturbed.
LEMMA EmitRight ==
    ASSUME TypeInv, TopicsOK, leftOver' = leftOver, NEW m \in Messages, NEW topic,
           AliasUndisturbed(AliasOf[m]) => topic = TopicOf[m], Emit(m, topic)
    PROVE  \A n \in Messages : AliasUndisturbed(AliasOf[n])' => RightTopic(n)'
<1>3. emitted[m] \in Seq(Topics) /\ emitted \in [Messages -> Seq(Topics)]
  BY TypeParts DEF TypeInv, HistoryOK
<1>2. emitted'[m] = Append(emitted[m], topic) /\ \A n \in Messages \ {m} : emitted'[n] = emitted[n]
  BY <1>3 DEF Emit
<1>6. \A n \in Messages \ {m} : AliasUndisturbed(AliasOf[n])' => RightTopic(n)'
  BY <1>2 DEF RightTopic, TopicsOK, AliasUndisturbed
<1>7. SUFFICES ASSUME AliasUndisturbed(AliasOf[m]) PROVE RightTopic(m)'
  BY <1>6 DEF AliasUndisturbed
<1>1. topic \in Topics /\ topic = TopicOf[m]
  BY <1>7 DEF Topics
<1>4. \A i \in DOMAIN emitted'[m] : emitted'[m][i] = topic \/ (i \in DOMAIN emitted[m]
                                                        /\ emitted'[m][i] = emitted[m][i])
  <2>1. /\ Len(emitted[m]) \in Nat /\ DOMAIN emitted[m] = 1..Len(emitted[m])
        /\ DOMAIN Append(emitted[m], topic) = 1..Len(emitted[m]) + 1
        /\ \A i \in 1..Len(emitted[m]) : Append(emitted[m], topic)[i] = emitted[m][i]
        /\ Append(emitted[m], topic)[Len(emitted[m]) + 1] = topic
    BY <1>1, <1>3, AppendProperties, LenProperties
  <2> QED BY <1>2, <2>1
<1> QED BY <1>1, <1>4, <1>7 DEF RightTopic, TopicsOK

\* The packet's own topic, or that of its alias in the table of the client.
Resolves(p) ==
    p.cmd = "publish" /\ p.topic = NoTopic /\ AliasOf[p.msg] \in DOMAIN aliases =>
        aliases[AliasOf[p.msg]] = TopicOf[p.msg]

LEMMA TopicsWork ==
    ASSUME TypeInv, TopicsOK, QoS2UsesNoAlias, NEW c \in Connections, Work(c),
           NEW p, p = Head(packets[c]), AliasUndisturbed(AliasOf[p.msg]) => Resolves(p)
    PROVE  TopicsOK' /\ Registered(p, aliases, aliases')
<1>1. /\ packets[c] # <<>> /\ p \in Packet /\ WellFormed(p) /\ p \in Range(packets[c])
      /\ UNCHANGED <<toClient, table, leftOver>>
      /\ Range(packets'[c]) \subseteq Range(packets[c])
      /\ \A d \in Connections \ {c} : packets'[d] = packets[d]
  BY WorkMoves
<1>2. RightName(p)
  BY <1>1 DEF TopicsOK
<1>3. /\ 0 \notin DOMAIN table'
      /\ \A d \in Connections : \A q \in Range(packets'[d]) : RightName(q)
      /\ \A q \in Range(toClient') : RightName(q)
  BY <1>1 DEF TopicsOK
<1>4. ASSUME p.cmd = "publish", ~Unregistered(p), AliasUndisturbed(AliasOf[p.msg])
      PROVE  ResolvedTopic(p) = TopicOf[p.msg]
  BY <1>2, <1>4 DEF RightName, Resolves, Unregistered, ResolvedTopic, Aliased
<1>5. p.cmd = "publish" => p.msg \in Messages
  BY <1>1, PacketType
<1>6. ASSUME incomingStore' = incomingStore, emitted' = emitted PROVE TopicsOK'
  BY <1>1, <1>3, <1>6, TopicsKeep
<1>7. ASSUME NEW m \in Messages, NEW topic, AliasUndisturbed(AliasOf[m]) => topic = TopicOf[m],
             Emit(m, topic), incomingStore' = incomingStore
      PROVE  TopicsOK'
  <2>1. \A n \in Messages : AliasUndisturbed(AliasOf[n])' => RightTopic(n)'
    BY <1>1, <1>7, EmitRight
  <2> QED BY <1>3, <1>7, <2>1 DEF TopicsOK
<1>8. CASE p.cmd = "publish" /\ RegisterAlias(p) /\ Hang(c)
  <2>1. Registered(p, aliases, aliases')
    BY <1>8 DEF RegisterAlias, Registered
  <2> QED BY <1>6, <1>8, <2>1 DEF Hang
<1>9. CASE p.cmd = "publish" /\ RegisterAlias(p) /\ ~Unregistered(p) /\ HandleQoS0(c, p)
  <2>1. Registered(p, aliases, aliases')
    BY <1>9 DEF RegisterAlias, Registered
  <2>2. Emit(p.msg, ResolvedTopic(p)) /\ incomingStore' = incomingStore
    BY <1>9 DEF HandleQoS0
  <2> QED BY <1>4, <1>5, <1>7, <1>9, <2>1, <2>2
<1>10. CASE p.cmd = "publish" /\ RegisterAlias(p) /\ ~Unregistered(p)
            /\ \E outcome \in Answers : HandleQoS1(c, p, outcome)
  <2>1. Registered(p, aliases, aliases')
    BY <1>10 DEF RegisterAlias, Registered
  <2>2. (Emit(p.msg, ResolvedTopic(p)) \/ emitted' = emitted) /\ incomingStore' = incomingStore
    BY <1>10 DEF HandleQoS1
  <2> QED BY <1>4, <1>5, <1>6, <1>7, <1>10, <2>1, <2>2
<1>11. CASE p.cmd = "publish" /\ RegisterAlias(p) /\ QoS[p.msg] = 2
            /\ \E outcome \in Answers : HandleQoS2(c, p, outcome)
  <2>1. Registered(p, aliases, aliases')
    BY <1>11 DEF RegisterAlias, Registered
  <2>2. p.topic = TopicOf[p.msg]
    BY <1>2, <1>5, <1>11 DEF RightName, QoS2UsesNoAlias
  <2>3. emitted' = emitted
        /\ (incomingStore' = incomingStore \/ incomingStore' = With(incomingStore, p.id, p))
    BY <1>11 DEF HandleQoS2
  <2>4. CASE incomingStore' = With(incomingStore, p.id, p)
    <3>1. /\ DOMAIN incomingStore' = DOMAIN incomingStore \cup {p.id}
          /\ incomingStore'[p.id] = p
          /\ \A k \in DOMAIN incomingStore : k # p.id => incomingStore'[k] = incomingStore[k]
      BY <2>4 DEF With
    <3>2. \A k \in DOMAIN incomingStore' : incomingStore'[k].topic = TopicOf[incomingStore'[k].msg]
      BY <2>2, <3>1 DEF TopicsOK
    <3>3. \A n \in Messages : AliasUndisturbed(AliasOf[n])' => RightTopic(n)'
      BY <1>1, <2>3 DEF TopicsOK, RightTopic, AliasUndisturbed
    <3> QED BY <1>3, <2>1, <3>2, <3>3 DEF TopicsOK
  <2> QED BY <1>6, <2>1, <2>3, <2>4
<1>12. CASE HandlePubrel(c, p)
  <2>1. p.cmd = "pubrel" /\ aliases' = aliases /\ incomingStore' = incomingStore
    BY <1>12 DEF HandlePubrel
  <2>2. Registered(p, aliases, aliases')
    BY <2>1 DEF Registered
  <2>3. CASE p.id \in DOMAIN incomingStore
    <3>1. PICK q : q = incomingStore[p.id]
      OBVIOUS
    <3>2. q \in Packet /\ StoredPacket(p.id, q)
      BY <2>3, <3>1, TypeParts DEF TypeInv, PacketsWellFormed, StoresOK
    <3>3. q.msg \in Messages /\ q.topic = TopicOf[q.msg]
      BY <2>3, <3>1, <3>2, PacketType DEF TopicsOK, StoredPacket
    <3>4. Emit(q.msg, q.topic)
      BY <1>12, <2>3, <3>1 DEF HandlePubrel
    <3> QED BY <1>7, <2>1, <2>2, <3>3, <3>4
  <2>4. CASE p.id \notin DOMAIN incomingStore
    <3>1. emitted' = emitted
      BY <1>12, <2>4 DEF HandlePubrel
    <3> QED BY <1>6, <2>1, <2>2, <3>1
  <2> QED BY <2>3, <2>4
<1> QED BY <1>8, <1>9, <1>10, <1>11, <1>12, WorkCases

\* What the broker sends, and registers.
Publishes(m, x) ==
    LET known == AliasOf[m] \in DOMAIN table /\ table[AliasOf[m]] = TopicOf[m] IN
    /\ x.cmd = "publish" /\ x.msg = m /\ x.topic = IF known THEN NoTopic ELSE TopicOf[m]
    /\ table' = IF AliasOf[m] = 0 THEN table ELSE With(table, AliasOf[m], TopicOf[m])

LEMMA BrokerSays ==
    ASSUME TypeInv, TopicsOK, BrokerSends \/ BrokerReads
    PROVE  /\ UNCHANGED <<clientVars, emitted, leftOver>> /\ 0 \notin DOMAIN table'
           /\ \/ toClient' = toClient /\ table' = table
              \/ \E x \in Packet :
                    /\ toClient' = Append(toClient, x) /\ RightName(x)
                    /\ (x.cmd = "pubrel" /\ table' = table) \/ (\E m \in Messages : Publishes(m, x))
<1>1. CASE BrokerReads
  <2>1. PICK ack : ack = Head(toBroker)
    OBVIOUS
  <2>2. UNCHANGED <<clientVars, table, emitted, leftOver>>
    BY <1>1, <2>1, BrokerReadsDoes
  <2>3. \/ toClient' = toClient
        \/ \E x \in Packet : x = [cmd |-> "pubrel", id |-> ack.id] /\ toClient' = Append(toClient, x)
    BY <1>1, <2>1, BrokerReadsDoes
  <2> QED BY <2>2, <2>3 DEF RightName, TopicsOK
<1>2. ASSUME NEW m \in Messages, BrokerPubrel(m)
      PROVE  /\ UNCHANGED <<clientVars, emitted, table, leftOver>>
             /\ \E x \in Packet : x = [cmd |-> "pubrel", id |-> Id[m]] /\ toClient' = Append(toClient, x)
  BY <1>2, BrokerPubrelDoes
<1>3. ASSUME NEW m \in Messages, BrokerPublish(m)
      PROVE  /\ UNCHANGED <<clientVars, emitted, leftOver>> /\ 0 \notin DOMAIN table'
             /\ \E x \in Packet : /\ toClient' = Append(toClient, x) /\ RightName(x)
                                  /\ \E n \in Messages : Publishes(n, x)
  <2> DEFINE known == AliasOf[m] \in DOMAIN table /\ table[AliasOf[m]] = TopicOf[m]
             x == [cmd |-> "publish", id |-> Id[m], msg |-> m,
                   topic |-> IF known THEN NoTopic ELSE TopicOf[m]]
  <2>1. /\ toClient' = Append(toClient, x) /\ UNCHANGED <<clientVars, emitted, leftOver>>
        /\ table' = IF AliasOf[m] = 0 THEN table ELSE With(table, AliasOf[m], TopicOf[m])
    BY <1>3 DEF BrokerPublish, historyVars
  <2>2. x \in Packet
    BY MessageTypes DEF Packet, Topics
  <2>3. x.cmd = "publish" /\ x.msg = m /\ x.topic = IF known THEN NoTopic ELSE TopicOf[m]
    OBVIOUS
  <2>4. known => AliasOf[m] # 0
    BY DEF TopicsOK
  <2>5. 0 \notin DOMAIN table'
    BY <2>1 DEF TopicsOK, With
  <2>6. RightName(x)
    BY <2>3, <2>4 DEF RightName
  <2>7. Publishes(m, x)
    BY <2>1, <2>3 DEF Publishes
  <2> HIDE DEF x
  <2> QED BY <2>1, <2>2, <2>5, <2>6, <2>7
<1>4. CASE BrokerSends
  <2>1. PICK m \in Messages : BrokerPublish(m) \/ BrokerPubrel(m)
    BY <1>4 DEF BrokerSends
  <2>2. CASE BrokerPubrel(m)
    <3>1. UNCHANGED <<clientVars, emitted, table, leftOver>>
      BY <1>2, <2>2
    <3>2. PICK x \in Packet : x = [cmd |-> "pubrel", id |-> Id[m]] /\ toClient' = Append(toClient, x)
      BY <1>2, <2>2
    <3>3. x.cmd = "pubrel" /\ RightName(x)
      BY <3>2 DEF RightName
    <3> QED BY <3>1, <3>2, <3>3 DEF TopicsOK
  <2> QED BY <1>3, <2>1, <2>2
<1> QED BY <1>1, <1>4

LEMMA TopicsOther ==
    ASSUME TypeInv, TopicsOK, [Next]_vars, ~ClientRuns
    PROVE  TopicsOK'
<1>1. packets \in [Connections -> Seq(Packet)] /\ toClient \in Seq(Packet)
      /\ leftOver \subseteq leftOver'
  BY TypeParts, HistoryGrows DEF TypeInv, ClientOK, WireOK
<1>2. CASE BrokerSends \/ BrokerReads
  <2>1. /\ UNCHANGED <<packets, incomingStore, emitted>> /\ 0 \notin DOMAIN table'
        /\ toClient' = toClient
           \/ \E x \in Packet : RightName(x) /\ toClient' = Append(toClient, x)
    BY <1>2, BrokerSays DEF clientVars
  <2>2. \A p \in Range(toClient') : RightName(p)
    <3>1. CASE toClient' = toClient
      BY <3>1 DEF TopicsOK
    <3>2. CASE toClient' # toClient
      <4>1. PICK x \in Packet : RightName(x) /\ toClient' = Append(toClient, x)
        BY <2>1, <3>2
      <4>2. Range(toClient') = Range(toClient) \cup {x}
        BY <1>1, <4>1, AppendRange
      <4> QED BY <4>1, <4>2 DEF TopicsOK
    <3> QED BY <3>1, <3>2
  <2> QED BY <1>1, <2>1, <2>2, TopicsKeep DEF TopicsOK
<1>3. CASE HandlerAnswers
  <2>1. PICK c \in Connections : MessageHandled(c)
    BY <1>3 DEF HandlerAnswers
  <2>2. PICK p : p = handling[c].packet
    OBVIOUS
  <2>3. /\ UNCHANGED <<packets, toClient, table, emitted>>
        /\ incomingStore' = incomingStore \/ incomingStore' = Without(incomingStore, p.id)
    BY <2>1, <2>2, HandledCases DEF Del
  <2> QED BY <1>1, <2>3, TopicsKeep DEF TopicsOK
<1>4. CASE ClientReceives
  <2>1. PICK n \in 1..Len(toClient) : Receive(n)
    BY <1>4 DEF ClientReceives
  <2>2. /\ packets'[conn] = SubSeq(toClient, 1, n) /\ conn \in Connections
        /\ \A c \in Connections \ {conn} : packets'[c] = packets[c]
        /\ toClient' = SubSeq(toClient, n + 1, Len(toClient))
        /\ UNCHANGED <<table, incomingStore, emitted>>
    BY <2>1, ReceiveType DEF Receive, brokerVars, historyVars
  <2>3. /\ Range(SubSeq(toClient, 1, n)) \subseteq Range(toClient)
        /\ Range(toClient') \subseteq Range(toClient)
    BY <1>1, <2>2, SplitSeq
  <2>4. \A c \in Connections : \A p \in Range(packets'[c]) : RightName(p)
    BY <2>2, <2>3 DEF TopicsOK
  <2>5. 0 \notin DOMAIN table' /\ \A p \in Range(toClient') : RightName(p)
    BY <2>2, <2>3 DEF TopicsOK
  <2> QED BY <1>1, <2>2, <2>4, <2>5, TopicsKeep
<1>5. CASE Deliver \/ UNCHANGED vars
  <2>1. UNCHANGED <<packets, toClient, table, incomingStore, emitted>>
    BY <1>5 DEF Deliver, vars, clientVars, brokerVars, historyVars
  <2> QED BY <1>1, <2>1, TopicsKeep DEF TopicsOK
<1>6. CASE Connect \/ Close
  <2>1. UNCHANGED <<incomingStore, emitted>> /\ (toClient' = toClient \/ toClient' = <<>>)
        /\ (table' = table \/ table' = Empty)
    BY <1>6 DEF Connect, Close, brokerVars, historyVars
  <2>2. 0 \notin DOMAIN table'
    BY <2>1 DEF TopicsOK, Empty
  <2>3. \A c \in Connections : Range(packets'[c]) \subseteq Range(packets[c])
    BY <1>6, RestMoves DEF Connect
  <2>4. /\ \A c \in Connections : \A p \in Range(packets'[c]) : RightName(p)
        /\ \A p \in Range(toClient') : RightName(p)
    BY <2>1, <2>3, EmptyRange DEF TopicsOK
  <2> QED BY <1>1, <2>1, <2>2, <2>4, TopicsKeep
<1> QED BY <1>2, <1>3, <1>4, <1>5, <1>6 DEF Next

LEMMA TopicsInit == Init => TopicsOK
<1>1. SUFFICES ASSUME Init PROVE TopicsOK
  OBVIOUS
<1>2. /\ packets = [c \in Connections |-> <<>>] /\ toClient = <<>> /\ DOMAIN incomingStore = {}
      /\ emitted = [m \in Messages |-> <<>>] /\ DOMAIN table = {}
  BY <1>1 DEF Init, Empty
<1>3. \A m \in Messages : RightTopic(m)
  BY <1>2 DEF RightTopic
<1> QED BY <1>2, <1>3, EmptyRange DEF TopicsOK

-----------------------------------------------------------------------------
(* The tables of the client and of the broker agree, of every undisturbed   *)
(* alias, as soon as the client has read what is under way.                 *)

LEMMA FreeType ==
    /\ Free # Stuck /\ Free # Queued /\ Stuck # Queued
    /\ Free.at # "message" /\ Stuck.at # "message" /\ Queued.at # "message"
BY DEF Free, Stuck, Queued

LEMMA ComingType ==
    ASSUME TypeInv, connected
    PROVE  /\ conn \in Connections /\ packets[conn] \in Seq(Packet) /\ toClient \in Seq(Packet)
           /\ Coming \in Seq(Packet)
BY ConcatProperties, TypeParts DEF TypeInv, ClientOK, WireOK, Coming

LEMMA AgreeWork ==
    ASSUME QoS2UsesNoAlias, TypeInv, OldIsLeftOver, TopicsOK, TablesAgree,
           NEW c \in Connections, Work(c)
    PROVE  TopicsOK' /\ TablesAgree'
<1>1. handling[c] = Free /\ packets[c] # <<>>
  BY DEF Work
<1>2. PICK p : p = Head(packets[c])
  OBVIOUS
<1>3. /\ p \in Packet /\ WellFormed(p) /\ p \in Range(packets[c]) /\ packets'[c] = Tail(packets[c])
      /\ \A d \in Connections \ {c} : packets'[d] = packets[d] /\ handling'[d] = handling[d]
      /\ UNCHANGED <<connected, conn, toClient, table, leftOver>>
  BY <1>2, WorkMoves
<1>4. RightName(p) /\ (p.cmd = "publish" => p.msg \in Messages /\ p.id = Id[p.msg])
  BY <1>3, PacketType DEF TopicsOK, WellFormed
<1>5. \A a : AliasUndisturbed(a)' <=> AliasUndisturbed(a)
  BY <1>3 DEF AliasUndisturbed
<1>6. CASE Current(c)
  <2>1. c = conn /\ connected
    BY <1>6 DEF Current
  <2>2. \A a \in Nat \ {0} : AliasUndisturbed(a) => Agrees(Coming, aliases, table, a)
    BY <1>1, <2>1, FreeType DEF TablesAgree
  <2>3. packets[c] \in Seq(Packet) /\ toClient \in Seq(Packet) /\ Coming \in Seq(Packet)
    BY <2>1, ComingType
  <2>4. Coming # <<>> /\ Head(Coming) = p /\ Coming' = Tail(Coming)
    BY <1>1, <1>2, <1>3, <2>1, <2>3, ConcatTail DEF Coming
  <2>5. ASSUME AliasUndisturbed(AliasOf[p.msg]) PROVE Resolves(p)
    <3>1. SUFFICES ASSUME p.cmd = "publish", p.topic = NoTopic
                   PROVE  aliases[AliasOf[p.msg]] = TopicOf[p.msg]
      BY DEF Resolves
    <3>2. AliasOf[p.msg] \in Nat \ {0}
      BY <1>4, <3>1, MessagesAssumption DEF RightName
    <3>3. Coming[1] = p /\ 1 \in DOMAIN Coming
      BY <2>3, <2>4, HeadTailRange
    <3>4. Means(Coming, 1, AliasOf[p.msg], TopicOf[p.msg], aliases)
      BY <2>2, <2>5, <3>1, <3>2, <3>3 DEF Agrees
    <3>5. \A j \in 1..(1 - 1) : FALSE
      OBVIOUS
    <3> QED BY <3>4, <3>5 DEF Means
  <2>6. TopicsOK' /\ Registered(p, aliases, aliases')
    BY <1>2, <2>5, TopicsWork
  <2>7. ASSUME NEW a \in Nat \ {0}, AliasUndisturbed(a) PROVE Agrees(Coming', aliases', table', a)
    <3>1. Agrees(Coming, aliases, table, a)
      BY <2>2, <2>7
    <3> QED BY <1>3, <2>3, <2>4, <2>6, <3>1, AgreesTail
  <2> QED BY <1>5, <2>6, <2>7 DEF TablesAgree
<1>7. CASE ~Current(c)
  <2>1. p.cmd = "publish" /\ AliasOf[p.msg] # 0 => ~AliasUndisturbed(AliasOf[p.msg])
    BY <1>3, <1>4, <1>7 DEF OldIsLeftOver, Settled, AliasUndisturbed
  <2>2. AliasUndisturbed(AliasOf[p.msg]) => Resolves(p)
    BY <1>4, <2>1, MessagesAssumption DEF Resolves, RightName
  <2>3. TopicsOK' /\ Registered(p, aliases, aliases')
    BY <1>2, <2>2, TopicsWork
  <2>4. ASSUME connected', handling'[conn'] # Stuck, NEW a \in Nat \ {0}, AliasUndisturbed(a)'
        PROVE  Agrees(Coming, aliases, table, a)'
    <3>1. connected /\ conn # c /\ conn \in Connections
      BY <1>3, <1>7, <2>4, ComingType DEF Current
    <3>2. Coming' = Coming /\ handling[conn] # Stuck
      BY <1>3, <2>4, <3>1 DEF Coming
    <3>3. Agrees(Coming, aliases, table, a)
      BY <1>5, <2>4, <3>1, <3>2 DEF TablesAgree
    <3>4. p.cmd = "publish" => AliasOf[p.msg] # a
      BY <1>5, <2>1, <2>4
    <3>5. a \in DOMAIN aliases => a \in DOMAIN aliases' /\ aliases'[a] = aliases[a]
      BY <2>3, <3>4 DEF Registered, With
    <3> QED BY <1>3, <3>2, <3>3, <3>5, AgreesOther
  <2> QED BY <2>3, <2>4 DEF TablesAgree
<1> QED BY <1>6, <1>7

\* Neither the tables nor what is to come are touched, nor is a queue unstuck.
LEMMA AgreeSame ==
    ASSUME TablesAgree, UNCHANGED <<connected, conn, aliases, table, leftOver>>,
           connected => Coming' = Coming /\ (handling[conn] = Stuck => handling'[conn] = Stuck)
    PROVE  TablesAgree'
BY DEF TablesAgree, AliasUndisturbed

LEMMA AgreeHandled ==
    ASSUME TypeInv, TablesAgree, NEW c \in Connections, MessageHandled(c)
    PROVE  TablesAgree'
<1>1. PICK p : p = handling[c].packet
  OBVIOUS
<1>2. /\ handling[c].at = "message"
      /\ \A d \in Connections \ {c} : handling'[d] = handling[d]
      /\ UNCHANGED <<connected, conn, packets, aliases, toClient, table, leftOver>>
  BY <1>1, HandledMoves
<1>3. connected => conn \in Connections
  BY ComingType
<1>4. handling[c] # Stuck
  BY <1>2, FreeType
<1> QED BY <1>2, <1>3, <1>4, AgreeSame DEF Coming

LEMMA AgreeDeliver ==
    ASSUME TypeInv, OldIsLeftOver, TablesAgree, Deliver
    PROVE  TablesAgree'
<1>1. /\ connected /\ queue # <<>> /\ handling' = [handling EXCEPT ![Head(queue).by] = Free]
      /\ UNCHANGED <<connected, conn, packets, aliases, toClient, table, leftOver>>
  BY DEF Deliver, brokerVars, historyVars
<1>2. queue \in Seq(Entry) /\ handling \in [Connections -> Places] /\ conn \in Connections
  BY <1>1, TypeParts, ComingType DEF TypeInv, ClientOK
<1>3. Head(queue) \in Range(queue)
  BY <1>1, <1>2, HeadTailRange
<1>4. Head(queue).by # conn
  BY <1>1, <1>3 DEF OldIsLeftOver, Current
<1>5. handling'[conn] = handling[conn]
  BY <1>1, <1>2, <1>4
<1> QED BY <1>1, <1>5, AgreeSame DEF Coming

LEMMA AgreeReceive ==
    ASSUME TypeInv, TablesAgree, NEW n \in 1..Len(toClient), Receive(n)
    PROVE  TablesAgree'
<1>1. /\ packets'[conn] = SubSeq(toClient, 1, n) /\ conn \in Connections
      /\ toClient' = SubSeq(toClient, n + 1, Len(toClient))
      /\ Turn /\ connected /\ handling[conn] = Free
      /\ UNCHANGED <<connected, conn, handling, aliases, queue, table, leftOver>>
  BY ReceiveType DEF Receive, brokerVars, historyVars
<1>2. packets[conn] = <<>>
  BY <1>1 DEF Turn, Busy
<1>3. toClient \in Seq(Packet) /\ Len(toClient) \in Nat
  BY TypeParts, LenProperties DEF TypeInv, WireOK
<1>4. Coming = toClient
  BY <1>2, <1>3, ConcatEmptySeq DEF Coming
<1>5. packets'[conn] \o toClient' = toClient
  <2>1. 1 \in 1..Len(toClient) + 1 /\ n \in (1 - 1)..Len(toClient) /\ Len(toClient) \in n..Len(toClient)
    BY <1>3
  <2>2. SubSeq(toClient, 1, n) \o SubSeq(toClient, n + 1, Len(toClient)) = SubSeq(toClient, 1, Len(toClient))
    BY <1>3, <2>1, ConcatAdjacentSubSeq
  <2> QED BY <1>1, <1>3, <2>2, SubSeqFull
<1>6. Coming' = Coming
  BY <1>1, <1>4, <1>5 DEF Coming
<1> QED BY <1>1, <1>6, AgreeSame

LEMMA AgreeConnect ==
    ASSUME TypeInv, OldIsLeftOver, Connect
    PROVE  TablesAgree'
<1>1. /\ ~connected /\ connected' /\ conn' = conn + 1 /\ table' = Empty /\ conn \in Nat
      /\ toClient = <<>> /\ UNCHANGED <<packets, handling, queue, toClient>>
  BY TypeParts DEF Connect, historyVars, TypeInv, ClientOK, OldIsLeftOver
<1>2. conn' \in Connections
  BY <1>1, ConnectType DEF Connections, TypeInv
<1>3. packets[conn'] \in Seq(Packet)
  BY <1>2, TypeParts DEF TypeInv, ClientOK
<1>4. packets[conn'] = <<>>
  <2>1. SUFFICES ASSUME packets[conn'] # <<>> PROVE FALSE
    OBVIOUS
  <2>2. Head(packets[conn']) \in Range(packets[conn'])
    BY <1>3, <2>1, HeadTailRange
  <2>3. conn' <= conn
    BY <1>2, <2>2 DEF OldIsLeftOver, Settled
  <2> QED BY <1>1, <2>3
<1>5. Coming' = <<>>
  BY <1>1, <1>3, <1>4, ConcatEmptySeq DEF Coming
<1>6. \A a : Agrees(<<>>, aliases', Empty, a)
  BY DEF Agrees, Empty
<1> QED BY <1>1, <1>5, <1>6 DEF TablesAgree

LEMMA AgreeBroker ==
    ASSUME TypeInv, TopicsOK, TablesAgree, BrokerSends \/ BrokerReads
    PROVE  TablesAgree'
<1>1. UNCHANGED <<connected, conn, packets, handling, aliases, queue, leftOver>>
  BY BrokerSays DEF clientVars
<1>2. SUFFICES ASSUME connected, handling[conn] # Stuck, NEW a \in Nat \ {0}, AliasUndisturbed(a)
               PROVE  Agrees(Coming, aliases, table, a)'
  BY <1>1 DEF TablesAgree, AliasUndisturbed
<1>3. /\ Agrees(Coming, aliases, table, a) /\ packets[conn] \in Seq(Packet)
      /\ toClient \in Seq(Packet) /\ Coming \in Seq(Packet)
  BY <1>2, ComingType DEF TablesAgree
<1>4. CASE toClient' = toClient /\ table' = table
  BY <1>1, <1>3, <1>4 DEF Coming
<1>5. CASE ~(toClient' = toClient /\ table' = table)
  <2>1. PICK x \in Packet :
           /\ toClient' = Append(toClient, x)
           /\ (x.cmd = "pubrel" /\ table' = table) \/ (\E m \in Messages : Publishes(m, x))
    BY <1>5, BrokerSays
  <2>2. packets[conn] \o Append(toClient, x) = Append(packets[conn] \o toClient, x)
    <3>1. PICK s \in Seq(Packet), t \in Seq(Packet) : s = packets[conn] /\ t = toClient
      BY <1>3
    <3>2. s \o Append(t, x) = Append(s \o t, x)
      BY ConcatAppend
    <3> QED BY <3>1, <3>2
  <2>3. Coming' = Append(Coming, x)
    BY <1>1, <2>1, <2>2 DEF Coming
  <2>4. Agrees(Append(Coming, x), aliases, table', a)
    BY <1>2, <1>3, <2>1, AgreesAppend DEF Publishes
  <2> QED BY <1>1, <2>3, <2>4
<1> QED BY <1>4, <1>5

LEMMA AgreeNext ==
    ASSUME QoS2UsesNoAlias, TypeInv, OldIsLeftOver, TopicsOK, TablesAgree, [Next]_vars
    PROVE  TopicsOK' /\ TablesAgree'
<1>1. CASE ClientRuns
  BY <1>1, AgreeWork DEF ClientRuns
<1>2. CASE ~ClientRuns
  <2>1. ASSUME HandlerAnswers PROVE TablesAgree'
    BY <2>1, AgreeHandled DEF HandlerAnswers
  <2>2. ASSUME ClientReceives PROVE TablesAgree'
    BY <2>2, AgreeReceive DEF ClientReceives
  <2>3. ASSUME Close PROVE TablesAgree'
    BY <2>3 DEF Close, TablesAgree
  <2>4. ASSUME UNCHANGED vars PROVE TablesAgree'
    <3>1. UNCHANGED <<connected, conn, packets, handling, aliases, toClient, table, leftOver>>
      BY <2>4 DEF vars, clientVars, brokerVars, historyVars
    <3> QED BY <3>1, AgreeSame DEF Coming
  <2>5. TablesAgree'
    BY <1>2, <2>1, <2>2, <2>3, <2>4, AgreeDeliver, AgreeConnect, AgreeBroker DEF Next
  <2> QED BY <1>2, <2>5, TopicsOther
<1> QED BY <1>1, <1>2

(***************************************************************************)
(* A message is emitted with the topic it was published to, when QoS 2     *)
(* messages use no alias: unless a connection closed with packets of its   *)
(* alias unhandled.                                                        *)
(***************************************************************************)
THEOREM EmittedTopicCorrect ==
    ASSUME QoS2UsesNoAlias
    PROVE  Spec => []EmittedTopic
<1>1. TopicsOK => EmittedTopic
  BY DEF TopicsOK, EmittedTopic
<1>2. Init => TopicsOK /\ TablesAgree
  BY TopicsInit DEF Init, TablesAgree
<1>3. IInv /\ (TopicsOK /\ TablesAgree) /\ [Next]_vars => (TopicsOK /\ TablesAgree)'
  BY AgreeNext DEF IInv
<1> QED BY <1>1, <1>2, <1>3, Invariant, PTL DEF Spec
=============================================================================
