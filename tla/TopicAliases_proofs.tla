------------------------ MODULE TopicAliases_proofs ------------------------
(***************************************************************************)
(* Proofs about TopicAliases, for any topics, any number of aliases,       *)
(* publishes and connections, and the options either way.                  *)
(***************************************************************************)
EXTENDS TopicAliases, SequenceTheorems, TLAPS

-----------------------------------------------------------------------------
(* The inductive invariant. *)

TablesOK ==
    /\ DOMAIN aliasToTopic \subseteq 1..max /\ aliasToTopic \in [DOMAIN aliasToTopic -> Topics]
    /\ DOMAIN topicToAlias \subseteq Topics /\ topicToAlias \in [DOMAIN topicToAlias -> 1..max]

\* The second part of TablesAgree.
Matching ==
    \A t \in DOMAIN topicToAlias :
        topicToAlias[t] \in DOMAIN aliasToTopic /\ aliasToTopic[topicToAlias[t]] = t

\* The first.
BrokerFollows == connected => \A a \in DOMAIN aliasToTopic : Knows(Len(wire), a, aliasToTopic[a])

QuietOffline ==
    /\ ~connected => wire = <<>> /\ rest = <<>> /\ replaying = 0
    /\ connected => conns # 0

QueueBears == \A i \in DOMAIN queue : BearsTopic(queue[i])

StoreBears == \A i \in DOMAIN store :
    /\ store[i].alias = NoAlias => store[i].topic = store[i].means
    /\ ~AutoAssign => store[i].alias = NoAlias
    /\ store[i].alias # NoAlias => store[i].since \in 1..conns

\* Messages have numbers of their own, and a message that is yet to be
\* replayed has an alias of an earlier connection, if any.
Numbered ==
    /\ \A i \in DOMAIN store : store[i].n <= published
    /\ \A i \in DOMAIN store : \A j \in DOMAIN store : store[i].n = store[j].n => i = j
    /\ \A i \in DOMAIN rest : \A j \in DOMAIN rest : rest[i] = rest[j] => i = j
    /\ \A i \in DOMAIN rest : \A j \in DOMAIN store :
         store[j].n = rest[i] => store[j].alias = NoAlias \/ store[j].since # conns

\* Only autoAssignTopicAlias fills the tables before the replay is over.
EmptyInReplay == ~AutoAssign /\ (rest # <<>> \/ replaying # 0) => DOMAIN topicToAlias = {}

AliasInv ==
    /\ TypeOK /\ Matching /\ BrokerFollows /\ FreshAliasResolves
    /\ QuietOffline /\ QueueBears /\ StoreBears /\ Numbered /\ EmptyInReplay

-----------------------------------------------------------------------------
(* What the broker knows. *)

LEMMA AppendFacts ==
    ASSUME NEW S, NEW s \in Seq(S), NEW x \in S
    PROVE  /\ Append(s, x) \in Seq(S) /\ Len(Append(s, x)) = Len(s) + 1
           /\ DOMAIN Append(s, x) = 1..(Len(s) + 1)
           /\ \A i \in 1..Len(s) : Append(s, x)[i] = s[i]
           /\ Append(s, x)[Len(s) + 1] = x
           /\ Len(s) \in Nat /\ DOMAIN s = 1..Len(s)
           /\ \A i \in 1..Len(s) : s[i] \in S
OBVIOUS

LEMMA TailFacts ==
    ASSUME NEW S, NEW s \in Seq(S), s # <<>>
    PROVE  /\ Tail(s) \in Seq(S) /\ Len(Tail(s)) = Len(s) - 1 /\ Len(s) \in Nat \ {0}
           /\ DOMAIN Tail(s) = 1..(Len(s) - 1) /\ DOMAIN s = 1..Len(s)
           /\ \A i \in 1..(Len(s) - 1) : Tail(s)[i] = s[i + 1]
           /\ Head(s) = s[1] /\ Head(s) \in S
           /\ \A i \in 1..Len(s) : s[i] \in S
OBVIOUS

\* Packets put behind do not matter to what is known before.
LEMMA KnowsBefore ==
    ASSUME wire \in Seq(Packet), NEW q \in Packet, wire' = Append(wire, q), table' = table,
           NEW k \in 0..Len(wire), NEW a, NEW t, Knows(k, a, t)
    PROVE  Knows(k, a, t)'
<1>1. \A i \in 1..k : wire'[i] = wire[i]
  BY AppendFacts
<1>2. \A i \in 1..k : \A j \in (i + 1)..k : wire'[j] = wire[j]
  BY <1>1
<1> QED BY <1>1, <1>2 DEF Knows, RegistersAt, Registers

LEMMA KnowsRegistered ==
    ASSUME wire \in Seq(Packet), NEW q \in Packet, wire' = Append(wire, q), table' = table,
           NEW k \in Nat, Len(wire) = k, Registers(q)
    PROVE  Knows(k + 1, q.alias, q.topic)'
<1>1. k + 1 \in 1..(k + 1) /\ wire'[k + 1] = q /\ ((k + 1) + 1)..(k + 1) = {}
  BY AppendFacts
<1> QED BY <1>1 DEF Knows, RegistersAt, Registers

LEMMA KnowsStill ==
    ASSUME wire \in Seq(Packet), NEW q \in Packet, wire' = Append(wire, q), table' = table,
           NEW k \in Nat, Len(wire) = k,
           NEW a, NEW t, Knows(k, a, t), ~(Registers(q) /\ q.alias = a)
    PROVE  Knows(k + 1, a, t)'
<1>1. /\ wire'[k + 1] = q
      /\ \A i \in 1..k : wire'[i] = wire[i]
  BY AppendFacts
<1>2. ~RegistersAt(k + 1, a)'
  BY <1>1 DEF RegistersAt, Registers
<1>3. \A i \in 1..k : RegistersAt(i, a)' <=> RegistersAt(i, a)
  BY <1>1 DEF RegistersAt, Registers
<1>4. \A i \in 1..(k + 1) : i \in 1..k \/ i = k + 1
  OBVIOUS
<1>6. CASE \E i \in 1..k : /\ RegistersAt(i, a) /\ wire[i].topic = t
                           /\ \A j \in (i + 1)..k : ~RegistersAt(j, a)
  <2>1. PICK i \in 1..k : /\ RegistersAt(i, a) /\ wire[i].topic = t
                          /\ \A j \in (i + 1)..k : ~RegistersAt(j, a)
    BY <1>6
  <2>2. i \in 1..(k + 1) /\ RegistersAt(i, a)' /\ wire'[i].topic = t
    BY <1>1, <1>3, <2>1
  <2>3. \A j \in (i + 1)..(k + 1) : ~RegistersAt(j, a)'
    <3> TAKE j \in (i + 1)..(k + 1)
    <3>1. j = k + 1 \/ (j \in (i + 1)..k /\ j \in 1..k)
      BY <2>1
    <3> QED BY <1>2, <1>3, <2>1, <3>1
  <2> QED BY <2>2, <2>3 DEF Knows
<1>7. CASE (\A i \in 1..k : ~RegistersAt(i, a)) /\ a \in DOMAIN table /\ table[a] = t
  <2>1. \A i \in 1..(k + 1) : ~RegistersAt(i, a)'
    BY <1>2, <1>3, <1>4, <1>7
  <2> QED BY <1>7, <2>1 DEF Knows
<1> QED BY <1>6, <1>7 DEF Knows

\* The broker reads a packet, and the others move up.
LEMMA KnowsMoves ==
    ASSUME wire \in Seq(Packet), BrokerReads, NEW k \in Nat, k + 1 <= Len(wire),
           NEW a, NEW t, Knows(k + 1, a, t)
    PROVE  Knows(k, a, t)'
<1>1. /\ wire # <<>> /\ wire' = Tail(wire)
      /\ table' = IF Registers(wire[1]) THEN With(table, wire[1].alias, wire[1].topic) ELSE table
  BY TailFacts DEF BrokerReads
<1>2. /\ Len(wire) \in Nat
      /\ \A i \in 1..k : wire'[i] = wire[i + 1]
  BY <1>1, TailFacts
<1>3. \A i \in 1..k : RegistersAt(i, a)' <=> RegistersAt(i + 1, a)
  BY <1>2 DEF RegistersAt, Registers
<1>4. CASE \E i \in 1..(k + 1) : /\ RegistersAt(i, a) /\ wire[i].topic = t
                                 /\ \A j \in (i + 1)..(k + 1) : ~RegistersAt(j, a)
  <2>1. PICK i \in 1..(k + 1) : /\ RegistersAt(i, a) /\ wire[i].topic = t
                                /\ \A j \in (i + 1)..(k + 1) : ~RegistersAt(j, a)
    BY <1>4
  <2>2. CASE i = 1
    <3>1. \A j \in 1..k : ~RegistersAt(j, a)'
      <4> TAKE j \in 1..k
      <4>1. j + 1 \in (i + 1)..(k + 1)
        BY <2>2
      <4> QED BY <1>3, <2>1, <4>1
    <3>2. a \in DOMAIN table' /\ table'[a] = t
      BY <1>1, <2>1, <2>2 DEF RegistersAt, With
    <3> QED BY <3>1, <3>2 DEF Knows
  <2>3. CASE i # 1
    <3>1. i - 1 \in 1..k /\ (i - 1) + 1 = i
      BY <2>1, <2>3
    <3>2. RegistersAt(i - 1, a)' /\ wire'[i - 1].topic = t
      BY <1>2, <1>3, <2>1, <3>1
    <3>3. \A j \in ((i - 1) + 1)..k : ~RegistersAt(j, a)'
      <4> TAKE j \in ((i - 1) + 1)..k
      <4>1. j \in 1..k /\ j + 1 \in (i + 1)..(k + 1)
        BY <2>1, <2>3
      <4> QED BY <1>3, <2>1, <4>1
    <3> QED BY <3>1, <3>2, <3>3 DEF Knows
  <2> QED BY <2>2, <2>3
<1>5. CASE (\A i \in 1..(k + 1) : ~RegistersAt(i, a)) /\ a \in DOMAIN table /\ table[a] = t
  <2>1. \A j \in 1..k : ~RegistersAt(j, a)'
    <3> TAKE j \in 1..k
    <3>1. j + 1 \in 1..(k + 1)
      OBVIOUS
    <3> QED BY <1>3, <1>5, <3>1
  <2>2. ~RegistersAt(1, a)
    BY <1>5
  <2>3. a \in DOMAIN table' /\ table'[a] = t
    BY <1>1, <1>5, <2>2 DEF RegistersAt, With
  <2> QED BY <2>1, <2>3 DEF Knows
<1> QED BY <1>4, <1>5 DEF Knows

-----------------------------------------------------------------------------
(* What a packet becomes, and the tables with it. *)

Uses(p, q) ==
    /\ UNCHANGED tableVars
    /\ p.alias = NoAlias /\ p.topic \in DOMAIN topicToAlias
    /\ q.topic = NoTopic /\ q.alias = topicToAlias[p.topic]
Stays(p, q) == UNCHANGED tableVars /\ q = p /\ ~Registers(q)
Enters(p, q) ==
    /\ Registers(q) /\ q.topic = p.topic /\ q.alias \in 1..max
    /\ AutoAssign \/ p.alias # NoAlias
    /\ DOMAIN aliasToTopic' = DOMAIN aliasToTopic \cup {q.alias}
    /\ aliasToTopic'[q.alias] = q.topic
    /\ \A b \in DOMAIN aliasToTopic : b # q.alias => aliasToTopic'[b] = aliasToTopic[b]

LEMMA PutMatches ==
    ASSUME TablesOK, Matching, max' = max, NEW t \in Topics, NEW a \in 1..max, Put(t, a)
    PROVE  /\ TablesOK' /\ Matching'
           /\ DOMAIN aliasToTopic' = DOMAIN aliasToTopic \cup {a}
           /\ aliasToTopic'[a] = t
           /\ \A b \in DOMAIN aliasToTopic : b # a => aliasToTopic'[b] = aliasToTopic[b]
<1>1. /\ DOMAIN aliasToTopic' = DOMAIN aliasToTopic \cup {a}
      /\ aliasToTopic'[a] = t
      /\ \A b \in DOMAIN aliasToTopic : b # a => aliasToTopic'[b] = aliasToTopic[b]
      /\ aliasToTopic' \in [DOMAIN aliasToTopic' -> Topics]
  BY DEF Put, With, TablesOK
<1>2. /\ DOMAIN topicToAlias' \subseteq DOMAIN topicToAlias \cup {t}
      /\ topicToAlias'[t] = a
      /\ \A u \in DOMAIN topicToAlias' : u # t =>
           /\ u \in DOMAIN topicToAlias /\ topicToAlias'[u] = topicToAlias[u]
           /\ a \in DOMAIN aliasToTopic => u # aliasToTopic[a]
      /\ topicToAlias' \in [DOMAIN topicToAlias' -> 1..max]
  BY DEF Put, With, Without, TablesOK
<1>3. TablesOK'
  BY <1>1, <1>2 DEF TablesOK
<1>4. Matching'
  <2> SUFFICES ASSUME NEW u \in DOMAIN topicToAlias'
               PROVE  /\ topicToAlias'[u] \in DOMAIN aliasToTopic'
                      /\ aliasToTopic'[topicToAlias'[u]] = u
    BY DEF Matching
  <2>1. CASE u = t
    BY <1>1, <1>2, <2>1
  <2>2. CASE u # t
    <3>1. /\ u \in DOMAIN topicToAlias /\ topicToAlias'[u] = topicToAlias[u]
          /\ a \in DOMAIN aliasToTopic => u # aliasToTopic[a]
      BY <1>2, <2>2
    <3>2. topicToAlias[u] \in DOMAIN aliasToTopic /\ aliasToTopic[topicToAlias[u]] = u
      BY <3>1 DEF Matching
    <3> QED BY <1>1, <3>1, <3>2
  <2> QED BY <2>1, <2>2
<1> QED BY <1>1, <1>3, <1>4

LEMMA PacketFields ==
    ASSUME NEW p \in Packet
    PROVE  p.n \in Nat /\ p.topic \in Names /\ p.alias \in Nat /\ p.means \in Names /\ p.since \in Nat
BY DEF Packet

LEMMA CandidateIsPacket ==
    ASSUME NEW p \in Packet, NEW q \in Candidates(p)
    PROVE  q \in Packet /\ q.n = p.n /\ q.means = p.means /\ q.since = p.since
BY MaxAliasAssumption, PacketFields DEF Packet, Candidates, Names

\* _applyTopicAlias keeps the tables in order.
LEMMA Applied ==
    ASSUME TablesOK, Matching, max \in 0..MaxAlias, max' = max,
           NEW p \in Packet, NEW q \in Candidates(p),
           ApplyTopicAlias(p, q), ~OutOfRange(p)
    PROVE  /\ TablesOK' /\ Matching'
           /\ Uses(p, q) \/ Stays(p, q) \/ Enters(p, q)
<1>0. max \in Nat /\ p.topic \in Names /\ p.alias \in Nat
  BY MaxAliasAssumption, PacketFields
<1>1. CASE UsesAlias(p, q)
  <2>1. /\ UNCHANGED tableVars /\ p.alias = NoAlias /\ p.topic \in DOMAIN topicToAlias
    BY <1>1 DEF UsesAlias, Plain, IsKnown
  <2>2. q.topic = NoTopic /\ q.alias = topicToAlias[p.topic]
    BY <1>1, PacketFields DEF UsesAlias, Packet
  <2> QED BY <2>1, <2>2 DEF Uses, tableVars, TablesOK, Matching
<1>2. CASE AssignsAlias(p, q)
  <2>1. /\ AutoAssign /\ p.topic \in Topics /\ IsLruAlias(q.alias) /\ Put(p.topic, q.alias)
        /\ q = [p EXCEPT !.alias = q.alias] /\ p.topic # NoTopic
    BY <1>0, <1>2 DEF AssignsAlias, Plain, Names
  <2>2. q.alias \in 1..max
    BY <2>1 DEF IsLruAlias, Vacant, TablesOK
  <2>3. q.topic = p.topic /\ Registers(q)
    BY <1>0, <2>1, <2>2 DEF Packet, Registers, NoAlias
  <2> QED BY <2>1, <2>2, <2>3, PutMatches DEF Enters
<1>3. CASE KeepsPacket(p, q) /\ Registers(p)
  <2>1. q = p /\ Put(p.topic, p.alias) /\ Registers(q)
    BY <1>3 DEF KeepsPacket
  <2>2. p.topic \in Topics /\ p.alias \in 1..max /\ p.alias # NoAlias
    BY <1>0, <1>3 DEF Registers, OutOfRange, Names, NoAlias
  <2> QED BY <2>1, <2>2, PutMatches DEF Enters
<1>4. CASE KeepsPacket(p, q) /\ ~Registers(p)
  <2>1. q = p /\ UNCHANGED tableVars
    BY <1>4 DEF KeepsPacket
  <2> QED BY <1>4, <2>1 DEF Stays, tableVars, TablesOK, Matching
<1> QED BY <1>1, <1>2, <1>3, <1>4 DEF ApplyTopicAlias

\* The packet means to the client's tables what its caller means.
Meant(p) ==
    \/ p.topic = p.means
    \/ p.means = NoTopic
    \/ p.topic = NoTopic /\ p.alias \in DOMAIN aliasToTopic /\ aliasToTopic[p.alias] = p.means

LEMMA BrokerFollowsSent ==
    ASSUME TypeOK, BrokerFollows, connected, NEW p \in Packet, NEW q \in Packet,
           Uses(p, q) \/ Stays(p, q) \/ Enters(p, q),
           wire' = Append(wire, q), table' = table
    PROVE  BrokerFollows'
<1>1. PICK k \in Nat : Len(wire) = k /\ Len(wire') = k + 1 /\ wire \in Seq(Packet)
  BY AppendFacts DEF TypeOK
<1>4. \A a \in DOMAIN aliasToTopic' : \A t :
        t = aliasToTopic'[a] => Knows(k + 1, a, t)'
  <2> SUFFICES ASSUME NEW a \in DOMAIN aliasToTopic', NEW t, t = aliasToTopic'[a]
               PROVE  Knows(k + 1, a, t)'
    OBVIOUS
  <2>1. CASE Registers(q) /\ q.alias = a
    <3>1. t = q.topic
      BY <2>1 DEF Uses, Stays, Enters, Registers
    <3> QED BY <1>1, <2>1, <3>1, KnowsRegistered
  <2>2. CASE ~(Registers(q) /\ q.alias = a)
    <3>1. a \in DOMAIN aliasToTopic /\ t = aliasToTopic[a]
      BY <2>2 DEF Uses, Stays, Enters, tableVars
    <3>2. Knows(k, a, t)
      BY <1>1, <3>1 DEF BrokerFollows
    <3> QED BY <1>1, <2>2, <3>2, KnowsStill
  <2> QED BY <2>1, <2>2
<1> QED BY <1>1, <1>4 DEF BrokerFollows, Knows, RegistersAt, Registers

LEMMA FreshSent ==
    ASSUME TypeOK, Matching, BrokerFollows, FreshAliasResolves, connected,
           NEW p \in Packet, NEW q \in Packet, q.means = p.means, conns' = conns,
           Uses(p, q) \/ Stays(p, q) \/ Enters(p, q), q.since \in {0, conns} => Meant(p),
           wire' = Append(wire, q), table' = table
    PROVE  FreshAliasResolves'
<1>1. PICK k \in Nat : Len(wire) = k
  BY AppendFacts DEF TypeOK
<1>2. /\ wire \in Seq(Packet) /\ DOMAIN wire = 1..k /\ DOMAIN wire' = 1..(k + 1)
      /\ wire'[k + 1] = q /\ \A i \in 1..k : wire'[i] = wire[i]
  BY <1>1, AppendFacts DEF TypeOK
<1>3. \A a : \A t : Knows(k, a, t) => Knows(k, a, t)'
  BY <1>1, <1>2, KnowsBefore
<1>4. ASSUME NEW i \in 1..k, wire'[i].since \in {0, conns} PROVE Understood(i)'
  <2>1. Understood(i) /\ i - 1 \in 0..k /\ wire'[i] = wire[i]
    BY <1>2, <1>4 DEF FreshAliasResolves
  <2>2. \A a : \A t : Knows(i - 1, a, t) => Knows(i - 1, a, t)'
    BY <1>1, <1>2, <2>1, KnowsBefore
  <2> QED BY <2>1, <2>2 DEF Understood
<1>5. ASSUME q.since \in {0, conns} PROVE Understood(k + 1)'
  <2>1. Meant(p)
    BY <1>5
  <2>2. \A a \in DOMAIN aliasToTopic : Knows(k, a, aliasToTopic[a])
    BY <1>1 DEF BrokerFollows
  <2>3. q.means = NoTopic \/ q.topic = q.means
        \/ (q.topic = NoTopic /\ Knows(k, q.alias, q.means))
    <3>1. CASE Uses(p, q)
      <4>1. q.alias \in DOMAIN aliasToTopic /\ aliasToTopic[q.alias] = p.topic
        BY <3>1 DEF Uses, Matching
      <4>2. p.topic # NoTopic
        BY <3>1, NoTopicAssumption DEF Uses, TypeOK
      <4> QED BY <2>1, <2>2, <3>1, <4>1, <4>2 DEF Uses, Meant
    <3>2. CASE Stays(p, q)
      BY <2>1, <2>2, <3>2 DEF Stays, Meant
    <3>3. CASE Enters(p, q)
      BY <2>1, <3>3 DEF Enters, Meant, Registers
    <3> QED BY <3>1, <3>2, <3>3
  <2>4. (k + 1) - 1 = k
    BY <1>1
  <2> QED BY <1>2, <1>3, <2>3, <2>4 DEF Understood
<1>6. \A i \in 1..(k + 1) : i \in 1..k \/ i = k + 1
  BY <1>1
<1> QED BY <1>2, <1>4, <1>5, <1>6 DEF FreshAliasResolves

\* What goes into the store or the queue bears its topic.
LEMMA Recovered ==
    ASSUME TypeOK, TablesOK', Matching,
           NEW p \in Packet, NEW q \in Packet, q.means = p.means,
           Uses(p, q) \/ Stays(p, q) \/ Enters(p, q), Meant(p),
           p.topic # p.means => p.topic = NoTopic,
           p.topic = NoTopic /\ p.alias \in DOMAIN aliasToTopic => aliasToTopic[p.alias] = p.means,
           ~Unregistered(q)
    PROVE  Recover(q) \in Packet /\ BearsTopic(Recover(q)) /\ Recover(q).n = q.n
<1> DEFINE t == IF q.topic = NoTopic THEN aliasToTopic'[q.alias] ELSE q.topic
<1>1. t = q.means
  <2>1. CASE Uses(p, q)
    <3>1. q.alias \in DOMAIN aliasToTopic /\ aliasToTopic[q.alias] = p.topic
      BY <2>1 DEF Uses, Matching
    <3>2. p.topic # NoTopic
      BY <2>1, NoTopicAssumption DEF Uses, TypeOK
    <3> QED BY <2>1, <3>1, <3>2 DEF Uses, tableVars
  <2>2. CASE Stays(p, q)
    BY <2>2 DEF Stays, tableVars, Unregistered
  <2>3. CASE Enters(p, q)
    BY <2>3 DEF Enters, Registers
  <2> QED BY <2>1, <2>2, <2>3
<1>2. Recover(q) = [q EXCEPT !.topic = q.means, !.alias = NoAlias]
  BY <1>1 DEF Recover
<1>3. /\ [q EXCEPT !.topic = q.means, !.alias = NoAlias] \in Packet
      /\ BearsTopic([q EXCEPT !.topic = q.means, !.alias = NoAlias])
      /\ [q EXCEPT !.topic = q.means, !.alias = NoAlias].n = q.n
  BY PacketFields DEF Packet, BearsTopic, NoAlias
<1> QED BY <1>2, <1>3

LEMMA UnregisteredStays ==
    ASSUME TypeOK, Matching, NEW p, NEW q,
           Uses(p, q) \/ Stays(p, q) \/ Enters(p, q), Unregistered(q)
    PROVE  UNCHANGED tableVars
BY DEF Uses, Stays, Enters, Unregistered, Registers

LEMMA StoreAppend ==
    ASSUME TypeOK, StoreBears, Numbered, NEW r \in Packet, BearsTopic(r),
           r.n = published + 1, published' = published + 1,
           rest = <<>>, rest' = rest, store' = Append(store, r), conns' = conns
    PROVE  StoreBears' /\ Numbered' /\ store' \in Seq(Packet)
<1>1. PICK k \in Nat : Len(store) = k
  BY AppendFacts DEF TypeOK
<1>2. /\ store' \in Seq(Packet) /\ DOMAIN store = 1..k /\ DOMAIN store' = 1..(k + 1)
      /\ store'[k + 1] = r /\ \A i \in 1..k : store'[i] = store[i] /\ store[i] \in Packet
  BY <1>1, AppendFacts DEF TypeOK
<1>3. \A i \in 1..(k + 1) : i \in 1..k \/ i = k + 1
  BY <1>1
<1>4. r.alias = NoAlias /\ r.topic = r.means /\ published \in Nat /\ DOMAIN rest' = {}
  BY DEF BearsTopic, TypeOK
<1>5. \A i \in 1..k : store[i].n <= published /\ store[i].n \in Nat
  BY <1>2, PacketFields DEF Numbered
<1>6. StoreBears'
  <2> SUFFICES ASSUME NEW i \in 1..(k + 1)
               PROVE  /\ store'[i].alias = NoAlias => store'[i].topic = store'[i].means
                      /\ ~AutoAssign => store'[i].alias = NoAlias
                      /\ store'[i].alias # NoAlias => store'[i].since \in 1..conns'
    BY <1>2 DEF StoreBears
  <2>1. CASE i = k + 1
    BY <1>2, <1>4, <2>1
  <2>2. CASE i \in 1..k
    BY <1>2, <2>2 DEF StoreBears
  <2> QED BY <1>3, <2>1, <2>2
<1>7. \A i \in 1..(k + 1) : store'[i].n <= published'
  BY <1>2, <1>3, <1>4, <1>5
<1>8. \A i \in 1..(k + 1) : \A j \in 1..(k + 1) : store'[i].n = store'[j].n => i = j
  <2> SUFFICES ASSUME NEW i \in 1..(k + 1), NEW j \in 1..(k + 1), store'[i].n = store'[j].n
               PROVE  i = j
    OBVIOUS
  <2>1. CASE i \in 1..k /\ j \in 1..k
    BY <1>2, <2>1 DEF Numbered
  <2>2. CASE ~(i \in 1..k /\ j \in 1..k)
    BY <1>2, <1>3, <1>4, <1>5, <2>2
  <2> QED BY <2>1, <2>2
<1> QED BY <1>2, <1>4, <1>6, <1>7, <1>8 DEF Numbered

-----------------------------------------------------------------------------
(* One lemma for each action. *)

LEMMA AliasFacts ==
    ASSUME TypeOK
    PROVE  /\ TablesOK /\ max \in 0..MaxAlias /\ max \in Nat
           /\ queue \in Seq(Packet) /\ store \in Seq(Packet) /\ wire \in Seq(Packet)
           /\ rest \in Seq(Nat) /\ published \in Nat /\ DOMAIN rest = 1..Len(rest)
           /\ DOMAIN store = 1..Len(store) /\ DOMAIN queue = 1..Len(queue)
           /\ Len(store) \in Nat /\ Len(queue) \in Nat /\ Len(wire) \in Nat
BY MaxAliasAssumption DEF TypeOK, TablesOK

\* What does not touch the connection or the tables.
LEMMA BrokerQuiet ==
    ASSUME BrokerFollows, FreshAliasResolves,
           UNCHANGED <<connected, tableVars, wire, table, conns>>
    PROVE  BrokerFollows' /\ FreshAliasResolves'
BY DEF BrokerFollows, FreshAliasResolves, Understood, Knows, RegistersAt, Registers, tableVars

LEMMA PublishKeeps ==
    ASSUME AliasInv, NEW topic \in Names, NEW alias \in 0..MaxAlias, Publish(topic, alias)
    PROVE  AliasInv'
<1> DEFINE p == [n |-> published + 1, topic |-> topic, alias |-> alias,
                 means |-> Means(topic, alias), since |-> 0]
<1> USE DEF AliasInv
<1>1. /\ published' = published + 1 /\ rest = <<>> /\ replaying = 0
      /\ UNCHANGED <<connected, max, rest, replaying, brokerVars, conns>>
      /\ \/ OutOfRange(p) /\ UNCHANGED <<tableVars, queue, store, wire>>
         \/ Accepts(p)
  BY DEF Publish
<1>2. EmptyInReplay'
  BY <1>1 DEF EmptyInReplay
<1>3. CASE UNCHANGED <<tableVars, queue, store, wire>>
  <2>1. TypeOK'
    BY <1>1, <1>3 DEF TypeOK, tableVars, brokerVars
  <2>2. Matching' /\ QuietOffline' /\ QueueBears' /\ StoreBears'
    BY <1>1, <1>3 DEF Matching, QuietOffline, QueueBears, StoreBears, BearsTopic, tableVars
  <2>3. Numbered'
    <3>1. \A i \in DOMAIN store : store[i].n \in Nat /\ store[i].n <= published
      BY AliasFacts, PacketFields DEF Numbered
    <3>2. \A i \in DOMAIN store : store[i].n <= published + 1
      BY <3>1, AliasFacts
    <3> QED BY <1>1, <1>3, <3>2 DEF Numbered
  <2> QED BY <1>1, <1>2, <1>3, <2>1, <2>2, <2>3, BrokerQuiet DEF brokerVars
<1>4. CASE Accepts(p)
  <2>1. p \in Packet /\ p.n = published + 1 /\ p.topic = topic /\ p.means = Means(topic, alias)
        /\ p.alias = alias
    <3>1. Means(topic, alias) \in Names
      BY AliasFacts DEF Means, Names, TablesOK
    <3> QED BY <3>1, AliasFacts, MaxAliasAssumption DEF Packet
  <2>2. /\ Meant(p)
        /\ p.topic # p.means => p.topic = NoTopic
        /\ p.topic = NoTopic /\ p.alias \in DOMAIN aliasToTopic => aliasToTopic[p.alias] = p.means
    BY <2>1 DEF Meant, Means
  <2> HIDE DEF p
  <2>3. PICK q \in Candidates(p) :
          /\ ApplyTopicAlias(p, q)
          /\ \/ connected /\ wire' = Append(wire, q) /\ UNCHANGED <<queue, store>>
             \/ /\ connected
                /\ IF Unregistered(q) THEN UNCHANGED <<wire, store>>
                   ELSE wire' = Append(wire, q) /\ store' = Append(store, Recover(q))
                /\ UNCHANGED queue
             \/ /\ ~connected
                /\ queue' = IF Unregistered(q) THEN queue ELSE Append(queue, Recover(q))
                /\ UNCHANGED <<wire, store>>
             \/ /\ ~connected
                /\ store' = IF Unregistered(q) THEN store ELSE Append(store, Recover(q))
                /\ UNCHANGED <<wire, queue>>
    BY <1>4 DEF Accepts, StoreAndSend, StorePacket
  <2>4. ~OutOfRange(p)
    BY <1>4 DEF Accepts
  <2>5. q \in Packet /\ q.n = p.n /\ q.means = p.means /\ q.since = p.since
    BY <2>1, CandidateIsPacket
  <2>6. /\ TablesOK' /\ Matching'
        /\ Uses(p, q) \/ Stays(p, q) \/ Enters(p, q)
    BY <1>1, <2>1, <2>3, <2>4, AliasFacts, Applied
  <2>7. CASE Unregistered(q) /\ UNCHANGED <<queue, store, wire>>
    BY <1>3, <2>1, <2>5, <2>6, <2>7, UnregisteredStays
  <2>8. CASE ~(Unregistered(q) /\ UNCHANGED <<queue, store, wire>>)
    <3>1. /\ \/ connected /\ wire' = Append(wire, q)
             \/ ~connected /\ wire' = wire
          /\ \/ UNCHANGED store
             \/ ~Unregistered(q) /\ store' = Append(store, Recover(q))
          /\ \/ UNCHANGED queue
             \/ ~Unregistered(q) /\ queue' = Append(queue, Recover(q))
      BY <2>3, <2>8
    <3>2. ~Unregistered(q) =>
            Recover(q) \in Packet /\ BearsTopic(Recover(q)) /\ Recover(q).n = published + 1
      BY <2>1, <2>2, <2>5, <2>6, Recovered
    <3>3. wire' \in Seq(Packet) /\ QuietOffline' /\ BrokerFollows' /\ FreshAliasResolves'
      <4>1. CASE connected /\ wire' = Append(wire, q)
        <5>1. BrokerFollows'
          BY <1>1, <2>1, <2>5, <2>6, <4>1, BrokerFollowsSent DEF brokerVars
        <5>2. FreshAliasResolves'
          BY <1>1, <2>1, <2>2, <2>5, <2>6, <4>1, FreshSent DEF brokerVars
        <5> QED BY <1>1, <2>5, <4>1, <5>1, <5>2, AliasFacts, AppendFacts DEF QuietOffline
      <4>2. CASE ~connected /\ wire' = wire
        <5>1. wire' = <<>> /\ ~connected'
          BY <1>1, <4>2 DEF QuietOffline
        <5> QED BY <1>1, <4>2, <5>1, AliasFacts
            DEF QuietOffline, BrokerFollows, FreshAliasResolves
      <4> QED BY <3>1, <4>1, <4>2
    <3>4. store' \in Seq(Packet) /\ StoreBears' /\ Numbered'
      <4>1. CASE UNCHANGED store
        <5>1. \A i \in DOMAIN store : store[i].n \in Nat /\ store[i].n <= published
          BY AliasFacts, PacketFields DEF Numbered
        <5>2. \A i \in DOMAIN store : store[i].n <= published + 1
          BY <5>1, AliasFacts
        <5>3. StoreBears'
          BY <1>1, <4>1 DEF StoreBears
        <5>4. Numbered'
          BY <1>1, <4>1, <5>2 DEF Numbered
        <5> QED BY <4>1, <5>3, <5>4, AliasFacts
      <4>2. CASE ~Unregistered(q) /\ store' = Append(store, Recover(q))
        BY <1>1, <3>2, <4>2, StoreAppend
      <4> QED BY <3>1, <4>1, <4>2
    <3>5. queue' \in Seq(Packet) /\ QueueBears'
      <4>1. CASE UNCHANGED queue
        BY <4>1, AliasFacts DEF QueueBears, BearsTopic
      <4>2. CASE ~Unregistered(q) /\ queue' = Append(queue, Recover(q))
        <5>1. PICK k \in Nat : Len(queue) = k
          BY AliasFacts
        <5>2. PICK r \in Packet : r = Recover(q)
          BY <3>2, <4>2
        <5>3. queue \in Seq(Packet) /\ queue' = Append(queue, r)
          BY <4>2, <5>2, AliasFacts
        <5>4. /\ queue' \in Seq(Packet) /\ DOMAIN queue = 1..k /\ DOMAIN queue' = 1..(k + 1)
              /\ queue'[k + 1] = Recover(q) /\ \A i \in 1..k : queue'[i] = queue[i]
          BY <5>1, <5>2, <5>3, AppendFacts
        <5>5. \A i \in 1..(k + 1) : i \in 1..k \/ i = k + 1
          BY <5>1
        <5>6. \A i \in 1..(k + 1) : BearsTopic(queue'[i])
          BY <3>2, <4>2, <5>4, <5>5 DEF QueueBears
        <5> QED BY <5>4, <5>6 DEF QueueBears, BearsTopic
      <4> QED BY <3>1, <4>1, <4>2
    <3>6. TypeOK'
      BY <1>1, <2>6, <3>3, <3>4, <3>5 DEF TypeOK, TablesOK, brokerVars
    <3> QED BY <1>2, <2>6, <3>3, <3>4, <3>5, <3>6
  <2> QED BY <2>7, <2>8
<1> QED BY <1>1, <1>3, <1>4

LEMMA ConnackKeepsInv ==
    ASSUME AliasInv, NEW m \in 0..MaxAlias, Connack(m)
    PROVE  AliasInv'
<1> USE DEF AliasInv
<1>1. /\ ~connected /\ connected' = TRUE /\ conns' = conns + 1 /\ max' = m
      /\ aliasToTopic' = Empty /\ topicToAlias' = Empty
      /\ rest' = [i \in DOMAIN store |-> store[i].n]
      /\ table' = Empty /\ heard' = {}
      /\ UNCHANGED <<queue, store, replaying, wire, published>>
  BY DEF Connack
<1>0. conns \in Nat /\ conns + 1 \in Nat
  BY DEF TypeOK
<1>2. DOMAIN Empty = {} /\ Empty \in [{} -> Topics] /\ Empty \in [{} -> 1..m]
  BY DEF Empty
<1>3. \A i \in DOMAIN store : store[i] \in Packet /\ store[i].n \in Nat
  BY AliasFacts, PacketFields
<1>4. /\ rest' \in Seq(Nat) /\ DOMAIN rest' = DOMAIN store
      /\ \A i \in DOMAIN store : rest'[i] = store[i].n
  BY <1>1, <1>3, AliasFacts
<1>5. TypeOK'
  BY <1>0, <1>1, <1>2, <1>4 DEF TypeOK
<1>6. Matching' /\ BrokerFollows' /\ QuietOffline' /\ QueueBears' /\ EmptyInReplay'
  <2>1. conns' # 0
    BY <1>0, <1>1
  <2> QED BY <1>1, <1>2, <2>1
          DEF Matching, BrokerFollows, QuietOffline, QueueBears, BearsTopic, EmptyInReplay
<1>7. FreshAliasResolves'
  BY <1>1 DEF QuietOffline, FreshAliasResolves
<1>8. StoreBears'
  BY <1>0, <1>1 DEF StoreBears
<1>9. Numbered'
  <2>1. \A j \in DOMAIN store : store[j].alias = NoAlias \/ store[j].since # conns + 1
    BY <1>0 DEF StoreBears
  <2>2. /\ \A i \in DOMAIN store : store[i].n <= published
        /\ \A i \in DOMAIN store : \A j \in DOMAIN store : store[i].n = store[j].n => i = j
    BY DEF Numbered
  <2> QED BY <1>1, <1>4, <2>1, <2>2 DEF Numbered
<1> QED BY <1>5, <1>6, <1>7, <1>8, <1>9

LEMMA DeliverKeeps ==
    ASSUME AliasInv, Deliver
    PROVE  AliasInv'
<1> USE DEF AliasInv
<1>1. /\ connected /\ rest = <<>> /\ replaying = 0 /\ queue # <<>> /\ queue' = Tail(queue)
      /\ UNCHANGED <<connected, max, store, rest, replaying, brokerVars, conns, published>>
  BY DEF Deliver
<1>2. PICK p \in Packet : p = Head(queue)
  BY <1>1, AliasFacts, TailFacts
<1>3. PICK q \in Candidates(p) : ApplyTopicAlias(p, q) /\ wire' = Append(wire, q)
  BY <1>2 DEF Deliver
<1>4. BearsTopic(p)
  BY <1>1, <1>2, AliasFacts, TailFacts DEF QueueBears
<1>5. ~OutOfRange(p) /\ Meant(p)
  BY <1>4 DEF BearsTopic, OutOfRange, Meant
<1>6. q \in Packet /\ q.n = p.n /\ q.means = p.means /\ q.since = p.since
  BY CandidateIsPacket
<1>7. TablesOK' /\ Matching' /\ (Uses(p, q) \/ Stays(p, q) \/ Enters(p, q))
  BY <1>1, <1>3, <1>5, AliasFacts, Applied
<1>8. BrokerFollows'
  BY <1>1, <1>3, <1>6, <1>7, BrokerFollowsSent DEF brokerVars
<1>9. FreshAliasResolves'
  BY <1>1, <1>3, <1>5, <1>6, <1>7, FreshSent DEF brokerVars
<1>10. wire' \in Seq(Packet)
  BY <1>3, <1>6, AliasFacts, AppendFacts
<1>11. queue' \in Seq(Packet) /\ QueueBears'
  <2>1. Len(queue) - 1 \in Nat /\ Len(queue) = (Len(queue) - 1) + 1
    BY <1>1, AliasFacts, TailFacts
  <2> DEFINE k == Len(queue) - 1
  <2>2. /\ queue' \in Seq(Packet) /\ DOMAIN queue' = 1..k
        /\ \A i \in 1..k : queue'[i] = queue[i + 1] /\ i + 1 \in DOMAIN queue
    BY <1>1, <2>1, AliasFacts, TailFacts
  <2> HIDE DEF k
  <2> QED BY <2>2 DEF QueueBears, BearsTopic
<1>12. TypeOK'
  BY <1>1, <1>7, <1>10, <1>11 DEF TypeOK, TablesOK, brokerVars
<1>13. QuietOffline' /\ StoreBears' /\ Numbered' /\ EmptyInReplay'
  BY <1>1 DEF QuietOffline, StoreBears, Numbered, EmptyInReplay
<1> QED BY <1>7, <1>8, <1>9, <1>11, <1>12, <1>13

LEMMA ReplayKeeps ==
    ASSUME AliasInv, Replay
    PROVE  AliasInv'
<1> USE DEF AliasInv
<1>1. /\ connected /\ rest # <<>> /\ replaying = 0
      /\ replaying' = Head(rest) /\ rest' = Tail(rest)
      /\ UNCHANGED <<connected, max, queue, brokerVars, conns, published>>
  BY DEF Replay
<1>2. PICK i \in DOMAIN store :
        /\ store[i].n = Head(rest)
        /\ \/ OutOfRange(store[i]) /\ UNCHANGED <<tableVars, store, wire>>
           \/ ~OutOfRange(store[i]) /\ \E q \in Candidates(store[i]) :
                /\ ApplyTopicAlias(store[i], q)
                /\ store' = [store EXCEPT ![i] = Replayed(store[i], q)]
                /\ wire' = Append(wire, Replayed(store[i], q))
  BY DEF Replay
<1>3. /\ rest' \in Seq(Nat) /\ replaying' \in Nat /\ Head(rest) = rest[1] /\ 1 \in DOMAIN rest
      /\ \A k \in DOMAIN rest' : rest'[k] = rest[k + 1] /\ k + 1 \in DOMAIN rest /\ k + 1 # 1
      /\ \A k \in DOMAIN rest' : \A j \in DOMAIN rest' : k + 1 = j + 1 => k = j
  BY <1>1, AliasFacts, TailFacts
<1>4. /\ \A k \in DOMAIN rest' : \A j \in DOMAIN rest' : rest'[k] = rest'[j] => k = j
      /\ \A k \in DOMAIN rest' : rest'[k] # Head(rest)
      /\ \A k \in DOMAIN rest' : \A j \in DOMAIN store :
           store[j].n = rest'[k] => store[j].alias = NoAlias \/ store[j].since # conns
  BY <1>3 DEF Numbered
<1>5. QueueBears' /\ QuietOffline'
  BY <1>1 DEF QueueBears, QuietOffline, BearsTopic
<1>6. CASE UNCHANGED <<tableVars, store, wire>>
  <2>1. TypeOK'
    BY <1>1, <1>3, <1>6 DEF TypeOK, tableVars, brokerVars
  <2>2. Matching' /\ StoreBears' /\ EmptyInReplay'
    BY <1>1, <1>6 DEF Matching, StoreBears, EmptyInReplay, tableVars
  <2>3. Numbered'
    BY <1>1, <1>4, <1>6 DEF Numbered
  <2> QED BY <1>1, <1>5, <1>6, <2>1, <2>2, <2>3, BrokerQuiet DEF brokerVars
<1>7. ASSUME NEW o \in Candidates(store[i]), ~OutOfRange(store[i]),
             ApplyTopicAlias(store[i], o),
             store' = [store EXCEPT ![i] = Replayed(store[i], o)],
             wire' = Append(wire, Replayed(store[i], o))
      PROVE  AliasInv'
  <2>1. store[i] \in Packet /\ conns \in Nat
    BY AliasFacts DEF TypeOK
  <2>2. PICK p \in Packet : p = store[i]
    BY <2>1
  <2>3. o \in Packet /\ o.n = p.n /\ o.means = p.means
    BY <1>7, <2>2, CandidateIsPacket
  <2>4. PICK q \in Packet : q = Replayed(p, o)
    <3>1. (IF p.alias = NoAlias /\ o.alias # NoAlias THEN conns ELSE p.since) \in Nat
      BY <2>1, PacketFields
    <3> QED BY <2>3, <3>1 DEF Replayed, Packet
  <2>5. /\ q.n = p.n /\ q.means = p.means /\ q.topic = o.topic /\ q.alias = o.alias
        /\ q.since = IF p.alias = NoAlias /\ o.alias # NoAlias THEN conns ELSE p.since
    BY <2>3, <2>4 DEF Replayed, Packet
  <2>17. o = p => q = p
    <3>1. o = p => q.since = p.since
      BY <2>5
    <3> QED BY <2>5, <3>1 DEF Packet
  <2>18. p.alias # NoAlias => p.since \in 1..conns /\ p.since # conns
    BY <1>2, <1>3, <2>2 DEF Numbered, StoreBears
  <2>19. q.since \in {0, conns} => Meant(p)
    <3>1. p.alias = NoAlias => Meant(p)
      BY <2>2 DEF StoreBears, Meant
    <3> QED BY <2>1, <2>5, <2>18, <3>1
  <2>20. TablesOK' /\ Matching' /\ (Uses(p, o) \/ Stays(p, o) \/ Enters(p, o))
    BY <1>1, <1>7, <2>2, AliasFacts, Applied
  <2>6. TablesOK' /\ Matching' /\ (Uses(p, q) \/ Stays(p, q) \/ Enters(p, q))
    BY <2>5, <2>17, <2>20 DEF Uses, Stays, Enters, Registers
  <2>21. store' = [store EXCEPT ![i] = q] /\ wire' = Append(wire, q)
    BY <1>7, <2>2, <2>4
  <2>7. BrokerFollows'
    BY <1>1, <2>6, <2>21, BrokerFollowsSent DEF brokerVars
  <2>8. FreshAliasResolves'
    BY <1>1, <2>5, <2>6, <2>19, <2>21, FreshSent DEF brokerVars
  <2>9. wire' \in Seq(Packet)
    BY <2>21, AliasFacts, AppendFacts
  <2>10. /\ store' \in Seq(Packet) /\ DOMAIN store' = DOMAIN store /\ store'[i] = q
         /\ \A j \in DOMAIN store : j # i => store'[j] = store[j]
    BY <1>2, <2>21, AliasFacts
  <2>11. TypeOK'
    BY <1>1, <1>3, <2>6, <2>9, <2>10 DEF TypeOK, TablesOK, brokerVars
  <2>12. ~AutoAssign => UNCHANGED tableVars /\ q = p
    <3>1. ~AutoAssign => p.alias = NoAlias /\ DOMAIN topicToAlias = {}
      BY <1>1, <2>2 DEF StoreBears, EmptyInReplay
    <3> QED BY <2>6, <3>1 DEF Uses, Stays, Enters
  <2>13. q.alias = NoAlias => q = p
    <3>1. ASSUME Uses(p, q) PROVE q.alias # NoAlias
      BY <3>1, AliasFacts DEF Uses, TablesOK, NoAlias
    <3>2. ASSUME Enters(p, q) PROVE q.alias # NoAlias
      BY <3>2 DEF Enters, Registers
    <3> QED BY <2>6, <3>1, <3>2 DEF Stays
  <2>14. StoreBears'
    <3> SUFFICES ASSUME NEW j \in DOMAIN store
                 PROVE  /\ store'[j].alias = NoAlias => store'[j].topic = store'[j].means
                        /\ ~AutoAssign => store'[j].alias = NoAlias
                        /\ store'[j].alias # NoAlias => store'[j].since \in 1..conns'
      BY <2>10 DEF StoreBears
    <3>1. CASE j = i
      <4>1. /\ p.alias = NoAlias => p.topic = p.means
            /\ ~AutoAssign => p.alias = NoAlias
        BY <2>2 DEF StoreBears
      <4>2. q.alias # NoAlias => q.since \in 1..conns
        <5>1. q.alias # NoAlias /\ p.alias = NoAlias => q.since = conns
          BY <2>5
        <5>2. p.alias # NoAlias => q.since = p.since
          BY <2>5
        <5>3. conns \in 1..conns
          BY <2>1, <1>1 DEF QuietOffline
        <5> QED BY <2>18, <5>1, <5>2, <5>3
      <4> QED BY <1>1, <2>10, <2>12, <2>13, <3>1, <4>1, <4>2
    <3>2. CASE j # i
      BY <1>1, <2>10, <3>2 DEF StoreBears
    <3> QED BY <3>1, <3>2
  <2>15. Numbered'
    <3>1. \A j \in DOMAIN store : store'[j].n = store[j].n
      BY <2>2, <2>5, <2>10
    <3>2. \A k \in DOMAIN rest' : \A j \in DOMAIN store :
            store'[j].n = rest'[k] => store'[j].alias = NoAlias \/ store'[j].since # conns'
      <4> SUFFICES ASSUME NEW k \in DOMAIN rest', NEW j \in DOMAIN store,
                          store'[j].n = rest'[k]
                   PROVE  store'[j].alias = NoAlias \/ store'[j].since # conns'
        OBVIOUS
      <4>1. j # i
        BY <1>2, <1>4, <3>1
      <4> QED BY <1>1, <1>4, <2>10, <3>1, <4>1
    <3> QED BY <1>1, <1>4, <2>10, <3>1, <3>2 DEF Numbered
  <2>16. EmptyInReplay'
    BY <1>1, <2>12 DEF EmptyInReplay, tableVars
  <2> QED BY <1>5, <2>6, <2>7, <2>8, <2>11, <2>14, <2>15, <2>16
<1> QED BY <1>2, <1>6, <1>7

LEMMA AcknowledgeKeeps ==
    ASSUME AliasInv, NEW n \in heard, Acknowledge(n)
    PROVE  AliasInv'
<1> USE DEF AliasInv
<1>1. /\ connected /\ replaying' = IF replaying = n THEN 0 ELSE replaying
      /\ UNCHANGED <<connected, max, tableVars, queue, rest, wire, brokerVars, conns, published>>
  BY DEF Acknowledge
<1>2. PICK i \in DOMAIN store :
        store' = [j \in 1..(Len(store) - 1) |-> IF j < i THEN store[j] ELSE store[j + 1]]
  BY DEF Acknowledge
<1> DEFINE at(j) == IF j < i THEN j ELSE j + 1
<1>3. PICK k \in Nat : Len(store) = k + 1
  <2>1. Len(store) \in Nat /\ Len(store) # 0
    BY <1>2, AliasFacts
  <2>2. Len(store) - 1 \in Nat /\ Len(store) = (Len(store) - 1) + 1
    BY <2>1
  <2> QED BY <2>2
<1>4. /\ i \in 1..(k + 1)
      /\ \A j \in 1..k : at(j) \in DOMAIN store
      /\ \A j \in 1..k : \A l \in 1..k : at(j) = at(l) => j = l
  BY <1>2, <1>3, AliasFacts
<1>5. DOMAIN store' = 1..k /\ \A j \in 1..k : store'[j] = store[at(j)]
  BY <1>2, <1>3
<1> HIDE DEF at
<1>6. store' \in Seq(Packet)
  <2>1. \A j \in 1..k : store'[j] \in Packet
    BY <1>4, <1>5, AliasFacts
  <2> QED BY <1>2, <1>3, <1>5, <2>1
<1>7. TypeOK'
  BY <1>1, <1>6 DEF TypeOK, tableVars, brokerVars
<1>8. StoreBears'
  BY <1>1, <1>4, <1>5 DEF StoreBears
<1>9. Numbered'
  BY <1>1, <1>4, <1>5 DEF Numbered
<1>10. Matching' /\ QuietOffline' /\ QueueBears' /\ EmptyInReplay'
  BY <1>1 DEF Matching, QuietOffline, QueueBears, BearsTopic, EmptyInReplay, tableVars
<1> QED BY <1>1, <1>7, <1>8, <1>9, <1>10, BrokerQuiet DEF brokerVars

LEMMA CloseKeeps ==
    ASSUME AliasInv, Close
    PROVE  AliasInv'
<1> USE DEF AliasInv
<1>1. /\ connected' = FALSE /\ wire' = <<>> /\ rest' = <<>> /\ replaying' = 0
      /\ UNCHANGED <<max, tableVars, queue, store, brokerVars, conns, published>>
  BY DEF Close
<1>5. TypeOK'
  <2>1. <<>> \in Seq(Packet) /\ <<>> \in Seq(Nat)
    OBVIOUS
  <2> QED BY <1>1, <2>1 DEF TypeOK, tableVars, brokerVars
<1>6. StoreBears'
  BY <1>1 DEF StoreBears
<1>7. DOMAIN rest' = {} /\ DOMAIN wire' = {}
  BY <1>1
<1>8. Numbered'
  BY <1>1, <1>7 DEF Numbered
<1>9. Matching' /\ QuietOffline' /\ QueueBears' /\ EmptyInReplay' /\ BrokerFollows'
  BY <1>1 DEF Matching, QuietOffline, QueueBears, BearsTopic, EmptyInReplay, BrokerFollows, tableVars
<1>10. FreshAliasResolves'
  BY <1>7 DEF FreshAliasResolves
<1> QED BY <1>5, <1>6, <1>8, <1>9, <1>10

LEMMA BrokerReadsKeeps ==
    ASSUME AliasInv, BrokerReads
    PROVE  AliasInv'
<1> USE DEF AliasInv
<1>1. /\ wire # <<>> /\ wire' = Tail(wire)
      /\ table' = IF Registers(Head(wire)) THEN With(table, Head(wire).alias, Head(wire).topic)
                  ELSE table
      /\ heard' = IF Head(wire).topic # NoTopic \/ Head(wire).alias \in DOMAIN table
                  THEN heard \cup {Head(wire).n} ELSE heard
      /\ UNCHANGED <<connected, max, tableVars, queue, store, rest, replaying, conns, published>>
  BY DEF BrokerReads
<1>2. /\ wire \in Seq(Packet) /\ Head(wire) \in Packet /\ wire' \in Seq(Packet)
      /\ Len(wire) - 1 \in Nat /\ Len(wire') = Len(wire) - 1 /\ DOMAIN wire' = 1..(Len(wire) - 1)
      /\ DOMAIN wire = 1..Len(wire)
      /\ \A i \in 1..(Len(wire) - 1) : wire'[i] = wire[i + 1]
  BY <1>1, AliasFacts, TailFacts
<1>3. TypeOK'
  <2>1. DOMAIN table' \subseteq Nat /\ table' \in [DOMAIN table' -> Topics]
    BY <1>1, <1>2, PacketFields DEF TypeOK, With, Registers, Names
  <2>2. heard' \subseteq Nat
    BY <1>1, <1>2, PacketFields DEF TypeOK
  <2> QED BY <1>1, <1>2, <2>1, <2>2 DEF TypeOK, tableVars
<1>4. connected
  BY <1>1 DEF QuietOffline
<1>5. BrokerFollows'
  <2>1. PICK k \in Nat : k = Len(wire) - 1
    BY <1>2
  <2>2. Len(wire) = k + 1 /\ k + 1 <= Len(wire)
    BY <1>2, <2>1
  <2>3. \A a \in DOMAIN aliasToTopic : \A t :
          t = aliasToTopic[a] => Knows(k, a, t)'
    BY <1>2, <1>4, <2>2, KnowsMoves DEF BrokerFollows
  <2> QED BY <1>1, <1>2, <2>1, <2>3
      DEF BrokerFollows, Knows, RegistersAt, Registers, tableVars
<1>6. FreshAliasResolves'
  <2> SUFFICES ASSUME NEW i \in 1..(Len(wire) - 1), wire'[i].since \in {0, conns'}
               PROVE  Understood(i)'
    BY <1>2 DEF FreshAliasResolves
  <2>1. /\ i \in Nat /\ i + 1 \in DOMAIN wire /\ wire'[i] = wire[i + 1] /\ (i + 1) - 1 = i
        /\ i - 1 \in Nat /\ (i - 1) + 1 = i /\ i <= Len(wire)
    BY <1>2
  <2>2. Understood(i + 1)
    BY <1>1, <2>1 DEF FreshAliasResolves
  <2>3. \A a : \A t : Knows(i, a, t) => Knows(i - 1, a, t)'
    BY <1>2, <2>1, KnowsMoves
  <2> QED BY <2>1, <2>2, <2>3 DEF Understood
<1>7. Matching' /\ QuietOffline' /\ QueueBears' /\ StoreBears' /\ Numbered' /\ EmptyInReplay'
  BY <1>1, <1>4 DEF Matching, QuietOffline, QueueBears, BearsTopic, StoreBears, Numbered,
                    EmptyInReplay, tableVars
<1> QED BY <1>3, <1>5, <1>6, <1>7

LEMMA AliasStutters ==
    ASSUME AliasInv, UNCHANGED vars
    PROVE  AliasInv'
<1> USE DEF AliasInv, vars, tableVars, brokerVars
<1>1. TypeOK'
  BY DEF TypeOK
<1>2. Matching' /\ QuietOffline' /\ QueueBears' /\ StoreBears' /\ Numbered' /\ EmptyInReplay'
  BY DEF Matching, QuietOffline, QueueBears, BearsTopic, StoreBears, Numbered, EmptyInReplay
<1> QED BY <1>1, <1>2, BrokerQuiet

-----------------------------------------------------------------------------
THEOREM AliasInvariant == Spec => []AliasInv
<1>1. Init => AliasInv
  <2> SUFFICES ASSUME Init PROVE AliasInv
    OBVIOUS
  <2>1. DOMAIN Empty = {} /\ Empty \in [{} -> Topics] /\ Empty \in [{} -> 1..0]
    BY DEF Empty
  <2>2. TypeOK
    <3>1. <<>> \in Seq(Packet) /\ <<>> \in Seq(Nat) /\ 0 \in 0..MaxAlias
      BY MaxAliasAssumption
    <3> QED BY <2>1, <3>1 DEF Init, TypeOK
  <2>3. Matching /\ BrokerFollows /\ QuietOffline /\ EmptyInReplay
    BY <2>1 DEF Init, Matching, BrokerFollows, QuietOffline, EmptyInReplay
  <2>4. FreshAliasResolves /\ QueueBears /\ StoreBears /\ Numbered
    BY DEF Init, FreshAliasResolves, QueueBears, StoreBears, Numbered
  <2> QED BY <2>2, <2>3, <2>4 DEF AliasInv
<1>2. AliasInv /\ [Next]_vars => AliasInv'
  <2> SUFFICES ASSUME AliasInv, [Next]_vars PROVE AliasInv'
    OBVIOUS
  <2>1. CASE \E topic \in Names, alias \in 0..MaxAlias : Publish(topic, alias)
    BY <2>1, PublishKeeps
  <2>2. CASE \E m \in 0..MaxAlias : Connack(m)
    BY <2>2, ConnackKeepsInv
  <2>3. CASE \E n \in heard : Acknowledge(n)
    BY <2>3, AcknowledgeKeeps
  <2>4. CASE Replay \/ Deliver \/ Close \/ BrokerReads
    BY <2>4, ReplayKeeps, DeliverKeeps, CloseKeeps, BrokerReadsKeeps
  <2>5. CASE UNCHANGED vars
    BY <2>5, AliasStutters
  <2> QED BY <2>1, <2>2, <2>3, <2>4, <2>5 DEF Next
<1> QED BY <1>1, <1>2, PTL DEF Spec

(***************************************************************************)
(* The two tables of the client agree with each other, and the broker's    *)
(* catches up with them, whatever is under way.                            *)
(***************************************************************************)
THEOREM TablesAgreeAlways == Spec => [](TypeOK /\ TablesAgree)
<1>1. AliasInv => TypeOK /\ TablesAgree
  BY DEF AliasInv, TablesAgree, BrokerFollows, Matching
<1> QED BY <1>1, AliasInvariant, PTL

\* Every packet that does not bear an alias of an earlier connection is understood.
THEOREM FreshAliasResolvesAlways == Spec => []FreshAliasResolves
<1>1. AliasInv => FreshAliasResolves
  BY DEF AliasInv
<1> QED BY <1>1, AliasInvariant, PTL

\* What waits for a connection bears its topic.
THEOREM StoredBearsTopicAlways == Spec => []StoredBearsTopic
<1>1. AliasInv => StoredBearsTopic
  BY DEF AliasInv, StoredBearsTopic, QueueBears, StoreBears, BearsTopic
<1> QED BY <1>1, AliasInvariant, PTL
=============================================================================
