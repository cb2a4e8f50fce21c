-------------------------- MODULE Keepalive_proofs --------------------------
(***************************************************************************)
(* Proofs about Keepalive, for every interval, every delay of the network, *)
(* every time that handleMessage takes and any number of packets.          *)
(***************************************************************************)
EXTENDS Keepalive, FiniteSetTheorems, SequenceTheorems, TLAPS

Item == [cmd : Received, due : Nat]

-----------------------------------------------------------------------------
(* Counting the publishes before a place in a sequence. *)
Count(P, k) == Cardinality({j \in 1..(k - 1) : j \in P})

LEMMA CountType ==
    ASSUME NEW P, NEW k \in Nat \ {0}
    PROVE  IsFiniteSet({j \in 1..(k - 1) : j \in P}) /\ Count(P, k) \in Nat
<1>1. IsFiniteSet(1..(k - 1))
  BY FS_Interval
<1>2. IsFiniteSet({j \in 1..(k - 1) : j \in P})
  BY <1>1, FS_Subset
<1> QED BY <1>2, FS_CardinalityType DEF Count

LEMMA CountFirst ==
    ASSUME NEW P
    PROVE  Count(P, 1) = 0
<1>1. {j \in 1..(1 - 1) : j \in P} = {}
  OBVIOUS
<1> QED BY <1>1, FS_EmptySet DEF Count

LEMMA CountSame ==
    ASSUME NEW P, NEW R, NEW k \in Nat \ {0}, \A j \in 1..(k - 1) : j \in P <=> j \in R
    PROVE  Count(P, k) = Count(R, k)
<1>1. {j \in 1..(k - 1) : j \in P} = {j \in 1..(k - 1) : j \in R}
  OBVIOUS
<1> QED BY <1>1 DEF Count

LEMMA CountNext ==
    ASSUME NEW P, NEW k \in Nat \ {0}
    PROVE  Count(P, k + 1) = IF k \in P THEN Count(P, k) + 1 ELSE Count(P, k)
<1> DEFINE S == {j \in 1..(k - 1) : j \in P}
           T == {j \in 1..k : j \in P}
<1>1. IsFiniteSet(S)
  BY CountType
<1>2. T = IF k \in P THEN S \cup {k} ELSE S
  OBVIOUS
<1>3. k \notin S /\ Count(P, k + 1) = Cardinality(T) /\ Count(P, k) = Cardinality(S)
  BY DEF Count
<1> HIDE DEF S, T
<1>4. Cardinality(S \cup {k}) = Cardinality(S) + 1
  BY <1>1, <1>3, FS_AddElement
<1> QED BY <1>2, <1>3, <1>4

LEMMA CountUpTo ==
    ASSUME NEW P, NEW k \in Nat \ {0}, NEW n \in Nat, k <= n + 1
    PROVE  Count(P, k) <= Count(P, n + 1)
<1> DEFINE S == {j \in 1..(k - 1) : j \in P}
           T == {j \in 1..n : j \in P}
<1>1. IsFiniteSet(T)
  <2>1. IsFiniteSet(1..n)
    BY FS_Interval
  <2> QED BY <2>1, FS_Subset
<1>2. S \subseteq T
  OBVIOUS
<1>3. Count(P, n + 1) = Cardinality(T) /\ Count(P, k) = Cardinality(S)
  BY DEF Count
<1> QED BY <1>1, <1>2, <1>3, FS_Subset

LEMMA CountSize ==
    ASSUME NEW P, NEW n \in Nat
    PROVE  Count(P, n + 1) \in Nat /\ Count(P, n + 1) <= n
<1> DEFINE S == {j \in 1..n : j \in P}
<1>1. IsFiniteSet(1..n) /\ Cardinality(1..n) = n
  BY FS_Interval
<1>2. Cardinality(S) <= n /\ Cardinality(S) \in Nat
  BY <1>1, FS_Subset, FS_CardinalityType
<1>3. Count(P, n + 1) = Cardinality(S)
  BY DEF Count
<1> QED BY <1>2, <1>3

\* The first place goes, the others move up.
LEMMA CountShift ==
    ASSUME NEW P, NEW R, NEW k \in Nat \ {0},
           \A j \in 1..(k - 1) : j \in R <=> j + 1 \in P
    PROVE  Count(P, k + 1) = IF 1 \in P THEN Count(R, k) + 1 ELSE Count(R, k)
<1> DEFINE S == {j \in 1..k : j \in P}
           T == {j \in 1..(k - 1) : j \in R}
           U == S \ {1}
           f == [j \in T |-> j + 1]
<1>1. IsFiniteSet(S) /\ IsFiniteSet(T)
  BY CountType
<1>2. \A j \in T : j + 1 \in U
  OBVIOUS
<1>3. \A j \in U : j - 1 \in T /\ (j - 1) + 1 = j
  OBVIOUS
<1>4. f \in Injection(T, U)
  BY <1>2 DEF Injection, IsInjective
<1>5. f \in Surjection(T, U)
  BY <1>2, <1>3 DEF Surjection
<1>6. ExistsBijection(T, U)
  BY <1>4, <1>5 DEF ExistsBijection, Bijection
<1>7. Cardinality(U) = Cardinality(T)
  BY <1>1, <1>6, FS_Bijection
<1>8. Cardinality(U) = IF 1 \in S THEN Cardinality(S) - 1 ELSE Cardinality(S)
  BY <1>1, FS_RemoveElement
<1>9. 1 \in S <=> 1 \in P
  OBVIOUS
<1>10. Cardinality(S) \in Nat /\ Cardinality(T) \in Nat
  BY <1>1, FS_CardinalityType
<1>11. Count(P, k + 1) = Cardinality(S) /\ Count(R, k) = Cardinality(T)
  BY DEF Count
<1> HIDE DEF S, T, U
<1>12. CASE 1 \in S
  <2>1. Cardinality(T) = Cardinality(S) - 1
    BY <1>7, <1>8, <1>12
  <2>2. Cardinality(S) = Cardinality(T) + 1
    BY <1>10, <2>1
  <2> QED BY <1>9, <1>11, <1>12, <2>2
<1>13. CASE 1 \notin S
  BY <1>7, <1>8, <1>9, <1>10, <1>11, <1>13
<1> QED BY <1>12, <1>13

-----------------------------------------------------------------------------
(* PUBLISH and PUBREL packets received, those under way, and the work they *)
(* make.                                                                   *)
PublishesOf(p) == {j \in DOMAIN p : p[j] \in MessagePackets}
FlyingOf(f) == {j \in DOMAIN f : f[j].cmd \in MessagePackets}
Cost(n) == MaxBusy * n

\* How long the packets before place k will hold the work queue.
Ahead(p, b, k) == b + Cost(Count(PublishesOf(p), k))
Soon == MaxDelay + Backlog

LEMMA CostGrows ==
    /\ Cost(0) = 0
    /\ \A n \in Nat : Cost(n) \in Nat /\ Cost(n + 1) = Cost(n) + MaxBusy
    /\ \A m \in Nat : \A n \in Nat : m <= n => Cost(m) <= Cost(n)
    /\ Backlog = Cost(MaxInFlight) + MaxBusy /\ Backlog \in Nat
<1>1. MaxBusy \in Nat /\ MaxInFlight \in Nat
  BY TimesAssumption
<1>2. Cost(0) = 0
  BY <1>1 DEF Cost
<1>3. ASSUME NEW n \in Nat PROVE Cost(n) \in Nat /\ Cost(n + 1) = Cost(n) + MaxBusy
  BY <1>1 DEF Cost
<1>4. ASSUME NEW m \in Nat, NEW n \in Nat, m <= n PROVE Cost(m) <= Cost(n)
  <2>1. PICK d \in Nat : n = m + d
    <3>1. n - m \in Nat /\ n = m + (n - m)
      BY <1>4
    <3> QED BY <3>1
  <2>2. MaxBusy * n = MaxBusy * m + MaxBusy * d
    BY <1>1, <2>1
  <2>3. MaxBusy * d \in Nat /\ MaxBusy * m \in Nat
    BY <1>1, <2>1
  <2> QED BY <2>2, <2>3 DEF Cost
<1>5. Backlog = Cost(MaxInFlight) + MaxBusy /\ Backlog \in Nat
  BY <1>1 DEF Cost, Backlog
<1> QED BY <1>2, <1>3, <1>4, <1>5

-----------------------------------------------------------------------------
(***************************************************************************)
(* The invariant.                                                          *)
(***************************************************************************)
\* The interval and its counter measure the silence.
SilenceMeasured ==
    connected =>
      /\ counter = 0 => sinceHeard + left = Half
      /\ counter = 1 => sinceHeard + left = 2 * Half
      /\ counter = 2 => sinceHeard + left = 3 * Half

Fits == Count(PublishesOf(packets), Len(packets) + 1) + Count(FlyingOf(inFlight), Len(inFlight) + 1)
          <= MaxInFlight
DueSoon == \A i \in DOMAIN inFlight : inFlight[i].due <= MaxDelay

\* A dead connection only works off what it had received.
DeadEnds ==
    /\ ~dead => sinceDead = 0
    /\ connected /\ dead =>
         /\ inFlight = <<>>
         /\ sinceDead <= Backlog + sinceHeard
         /\ packets # <<>> =>
              sinceDead + Ahead(packets, busy, Len(packets) + 1) <= Backlog

\* A packet under way that is c old arrives within MaxDelay of its sending;
\* one that was received is handled within Soon.
Arrives(f, c, i) == \A j \in 1..i : c + f[j].due <= MaxDelay
IsHandled(p, b, c, k) == c + Ahead(p, b, k) <= Soon

\* What the broker answers was sent no later than the client's last packet.
AnswersInTime ==
    connected =>
      /\ \A i \in DOMAIN inFlight :
           inFlight[i].cmd # "publish" => Arrives(inFlight, sinceSent, i)
      /\ \A k \in DOMAIN packets :
           packets[k] # "publish" => IsHandled(packets, busy, sinceSent, k)

\* The answer to a PINGREQ is under way or waits to be handled.
Elapsed == Half - left
PingInTime ==
    connected /\ ~dead /\ counter = 2 =>
      \/ \E i \in DOMAIN inFlight :
           inFlight[i].cmd = "pingresp" /\ Arrives(inFlight, Elapsed, i)
      \/ \E k \in DOMAIN packets :
           packets[k] = "pingresp" /\ IsHandled(packets, busy, Elapsed, k)

SendsInTime ==
    connected =>
      /\ counter \in {0, 1} => sinceSent <= sinceHeard + Soon
      /\ counter = 2 => sinceSent <= Elapsed

KeepInv ==
    /\ TypeOK /\ SilenceMeasured /\ Fits /\ DueSoon /\ DeadEnds
    /\ AnswersInTime /\ PingInTime /\ SendsInTime
    /\ AnsweredIsKept

-----------------------------------------------------------------------------
(* What a packet that arrives, or is handled, does to the counts. *)

\* A packet is put at the end.
LEMMA AppendCounts ==
    ASSUME NEW S, NEW s \in Seq(S), NEW e \in S, NEW P, NEW R, NEW b \in BOOLEAN,
           P \subseteq DOMAIN s, R \subseteq DOMAIN Append(s, e),
           \A j \in DOMAIN s : j \in P <=> j \in R,
           b <=> Len(s) + 1 \in R
    PROVE  /\ Len(Append(s, e)) = Len(s) + 1 /\ Len(s) \in Nat
           /\ \A k \in 1..(Len(s) + 1) : Count(R, k) = Count(P, k)
           /\ Count(R, Len(s) + 2) = IF b THEN Count(P, Len(s) + 1) + 1
                                     ELSE Count(P, Len(s) + 1)
<1>1. Len(Append(s, e)) = Len(s) + 1 /\ Len(s) \in Nat /\ DOMAIN s = 1..Len(s)
  BY AppendProperties
<1>2. ASSUME NEW k \in 1..(Len(s) + 1) PROVE Count(R, k) = Count(P, k)
  BY <1>1, CountSame
<1>3. Count(R, (Len(s) + 1) + 1) = IF Len(s) + 1 \in R THEN Count(R, Len(s) + 1) + 1
                                   ELSE Count(R, Len(s) + 1)
  BY <1>1, CountNext
<1>4. Count(R, Len(s) + 1) = Count(P, Len(s) + 1)
  BY <1>1, <1>2
<1>5. (Len(s) + 1) + 1 = Len(s) + 2
  BY <1>1
<1> QED BY <1>1, <1>2, <1>3, <1>4, <1>5

\* The first packet goes.
LEMMA TailCounts ==
    ASSUME NEW S, NEW s \in Seq(S), s # <<>>, NEW P, NEW R,
           \A j \in DOMAIN Tail(s) : j \in R <=> j + 1 \in P
    PROVE  /\ Len(s) \in Nat \ {0} /\ Len(Tail(s)) = Len(s) - 1
           /\ \A k \in 1..Len(s) :
                Count(P, k + 1) = IF 1 \in P THEN Count(R, k) + 1 ELSE Count(R, k)
<1>1. /\ Len(s) \in Nat \ {0} /\ Len(Tail(s)) = Len(s) - 1
      /\ DOMAIN Tail(s) = 1..(Len(s) - 1)
  BY HeadTailProperties, EmptySeq
<1>2. ASSUME NEW k \in 1..Len(s)
      PROVE  Count(P, k + 1) = IF 1 \in P THEN Count(R, k) + 1 ELSE Count(R, k)
  BY <1>1, CountShift
<1> QED BY <1>1, <1>2

LEMMA PublishesAppend ==
    ASSUME NEW s \in Seq(Received), NEW e \in Received
    PROVE  LET n == Len(s) + 1 IN
           /\ n \in Nat \ {0} /\ Len(Append(s, e)) = n
           /\ \A k \in 1..n : Count(PublishesOf(Append(s, e)), k) = Count(PublishesOf(s), k)
           /\ Count(PublishesOf(Append(s, e)), n + 1) =
                IF e \in MessagePackets THEN Count(PublishesOf(s), n) + 1
                ELSE Count(PublishesOf(s), n)
<1> DEFINE t == Append(s, e)
<1>1. /\ Len(s) \in Nat /\ DOMAIN s = 1..Len(s) /\ DOMAIN t = 1..(Len(s) + 1)
      /\ \A i \in 1..Len(s) : t[i] = s[i]
      /\ t[Len(s) + 1] = e
  BY AppendProperties
<1> HIDE DEF t
<1>2. /\ PublishesOf(s) \subseteq DOMAIN s /\ PublishesOf(t) \subseteq DOMAIN t
      /\ \A j \in DOMAIN s : j \in PublishesOf(s) <=> j \in PublishesOf(t)
      /\ e \in MessagePackets <=> Len(s) + 1 \in PublishesOf(t)
  BY <1>1 DEF PublishesOf
<1> PICK b \in BOOLEAN : b <=> e \in MessagePackets
  OBVIOUS
<1>3. /\ Len(t) = Len(s) + 1
      /\ \A k \in 1..(Len(s) + 1) : Count(PublishesOf(t), k) = Count(PublishesOf(s), k)
      /\ Count(PublishesOf(t), Len(s) + 2) =
           IF e \in MessagePackets THEN Count(PublishesOf(s), Len(s) + 1) + 1
           ELSE Count(PublishesOf(s), Len(s) + 1)
  BY <1>2, AppendCounts DEF t
<1>4. (Len(s) + 1) + 1 = Len(s) + 2
  BY <1>1
<1> QED BY <1>1, <1>3, <1>4 DEF t

LEMMA FlyingAppend ==
    ASSUME NEW f \in Seq(Item), NEW e \in Item
    PROVE  LET n == Len(f) + 1 IN
           /\ n \in Nat \ {0} /\ Len(Append(f, e)) = n
           /\ Count(FlyingOf(Append(f, e)), n + 1) =
                IF e.cmd \in MessagePackets THEN Count(FlyingOf(f), n) + 1 ELSE Count(FlyingOf(f), n)
<1> DEFINE t == Append(f, e)
<1>1. /\ Len(f) \in Nat /\ DOMAIN f = 1..Len(f) /\ DOMAIN t = 1..(Len(f) + 1)
      /\ \A i \in 1..Len(f) : t[i] = f[i]
      /\ t[Len(f) + 1] = e
  BY AppendProperties
<1> HIDE DEF t
<1>2. /\ FlyingOf(f) \subseteq DOMAIN f /\ FlyingOf(t) \subseteq DOMAIN t
      /\ \A j \in DOMAIN f : j \in FlyingOf(f) <=> j \in FlyingOf(t)
      /\ e.cmd \in MessagePackets <=> Len(f) + 1 \in FlyingOf(t)
  BY <1>1 DEF FlyingOf
<1> PICK b \in BOOLEAN : b <=> e.cmd \in MessagePackets
  OBVIOUS
<1>3. /\ Len(t) = Len(f) + 1
      /\ Count(FlyingOf(t), Len(f) + 2) =
           IF e.cmd \in MessagePackets THEN Count(FlyingOf(f), Len(f) + 1) + 1
           ELSE Count(FlyingOf(f), Len(f) + 1)
  BY <1>2, AppendCounts DEF t
<1>4. (Len(f) + 1) + 1 = Len(f) + 2
  BY <1>1
<1> QED BY <1>1, <1>3, <1>4 DEF t

LEMMA PublishesTail ==
    ASSUME NEW s \in Seq(Received), s # <<>>
    PROVE  /\ Len(s) \in Nat \ {0} /\ Len(Tail(s)) = Len(s) - 1
           /\ \A k \in 1..Len(s) :
                Count(PublishesOf(s), k + 1) =
                  IF Head(s) \in MessagePackets THEN Count(PublishesOf(Tail(s)), k) + 1
                  ELSE Count(PublishesOf(Tail(s)), k)
<1> DEFINE t == Tail(s)
<1>1. /\ Len(s) \in Nat \ {0} /\ DOMAIN s = 1..Len(s) /\ DOMAIN t = 1..(Len(s) - 1)
      /\ \A i \in 1..(Len(s) - 1) : t[i] = s[i + 1]
      /\ Head(s) = s[1]
  BY HeadTailProperties, EmptySeq
<1> HIDE DEF t
<1>2. /\ \A j \in DOMAIN t : j \in PublishesOf(t) <=> j + 1 \in PublishesOf(s)
      /\ 1 \in PublishesOf(s) <=> Head(s) \in MessagePackets
  BY <1>1 DEF PublishesOf
<1> QED BY <1>2, TailCounts DEF t

LEMMA FlyingTail ==
    ASSUME NEW f \in Seq(Item), f # <<>>
    PROVE  /\ Len(f) \in Nat \ {0} /\ Len(Tail(f)) = Len(f) - 1
           /\ \A k \in 1..Len(f) :
                Count(FlyingOf(f), k + 1) =
                  IF Head(f).cmd \in MessagePackets THEN Count(FlyingOf(Tail(f)), k) + 1
                  ELSE Count(FlyingOf(Tail(f)), k)
<1> DEFINE t == Tail(f)
<1>1. /\ Len(f) \in Nat \ {0} /\ DOMAIN f = 1..Len(f) /\ DOMAIN t = 1..(Len(f) - 1)
      /\ \A i \in 1..(Len(f) - 1) : t[i] = f[i + 1]
      /\ Head(f) = f[1]
  BY HeadTailProperties, EmptySeq
<1> HIDE DEF t
<1>2. /\ \A j \in DOMAIN t : j \in FlyingOf(t) <=> j + 1 \in FlyingOf(f)
      /\ 1 \in FlyingOf(f) <=> Head(f).cmd \in MessagePackets
  BY <1>1 DEF FlyingOf
<1> QED BY <1>2, TailCounts DEF t

\* What waits to be handled is a backlog at most.
LEMMA WorkIsBounded ==
    ASSUME TypeOK, Fits
    PROVE  \A k \in 1..(Len(packets) + 1) :
             /\ Ahead(packets, busy, k) \in Nat
             /\ Ahead(packets, busy, k) <= Backlog
<1>1. /\ packets \in Seq(Received) /\ inFlight \in Seq(Item) /\ busy \in 0..MaxBusy
      /\ Len(packets) \in Nat /\ Len(inFlight) \in Nat /\ MaxBusy \in Nat
      /\ MaxInFlight \in Nat
  BY TimesAssumption DEF TypeOK, Item
<1> SUFFICES ASSUME NEW k \in 1..(Len(packets) + 1)
             PROVE  Ahead(packets, busy, k) \in Nat /\ Ahead(packets, busy, k) <= Backlog
  OBVIOUS
<1> DEFINE m == Count(PublishesOf(packets), k)
           n == Count(PublishesOf(packets), Len(packets) + 1)
           o == Count(FlyingOf(inFlight), Len(inFlight) + 1)
<1>2. m \in Nat /\ n \in Nat /\ o \in Nat
  <2>1. k \in Nat \ {0} /\ Len(packets) + 1 \in Nat \ {0} /\ Len(inFlight) + 1 \in Nat \ {0}
    BY <1>1
  <2> QED BY <2>1, CountType
<1>3. m <= n
  BY <1>1, CountUpTo
<1>4. m <= MaxInFlight
  BY <1>1, <1>2, <1>3 DEF Fits
<1>5. Ahead(packets, busy, k) = busy + Cost(m)
  BY DEF Ahead
<1> HIDE DEF m
<1>6. Cost(m) \in Nat /\ Cost(m) <= Cost(MaxInFlight) /\ Cost(MaxInFlight) \in Nat
  BY <1>1, <1>2, <1>4, CostGrows
<1>7. Backlog = Cost(MaxInFlight) + MaxBusy
  BY CostGrows
<1> QED BY <1>1, <1>5, <1>6, <1>7

-----------------------------------------------------------------------------
(* The steps of the connection keep the invariant. *)

LEMMA Numbers ==
    /\ Half \in Nat \ {0} /\ MaxDelay \in Nat /\ MaxBusy \in Nat /\ MaxInFlight \in Nat
    /\ Backlog \in Nat /\ Soon \in Nat /\ Soon = MaxDelay + Backlog
<1>1. Half \in Nat \ {0} /\ MaxDelay \in Nat /\ MaxBusy \in Nat /\ MaxInFlight \in Nat
  BY TimesAssumption
<1>2. Backlog \in Nat
  BY CostGrows
<1>3. Soon = MaxDelay + Backlog
  BY DEF Soon
<1> QED BY <1>1, <1>2, <1>3

LEMMA KeptTypes ==
    ASSUME TypeOK
    PROVE  /\ inFlight \in Seq(Item) /\ packets \in Seq(Received)
           /\ Len(inFlight) \in Nat /\ Len(packets) \in Nat
           /\ DOMAIN inFlight = 1..Len(inFlight) /\ DOMAIN packets = 1..Len(packets)
           /\ sinceSent \in Nat /\ sinceHeard \in Nat /\ sinceDead \in Nat
           /\ left \in 0..Half /\ busy \in 0..MaxBusy
           /\ \A i \in DOMAIN inFlight : inFlight[i].due \in Nat /\ inFlight[i].cmd \in Received
           /\ \A k \in DOMAIN packets : packets[k] \in Received
<1>1. inFlight \in Seq(Item) /\ packets \in Seq(Received)
  BY DEF TypeOK, Item
<1>2. \A i \in DOMAIN inFlight : inFlight[i] \in Item
  BY <1>1
<1>3. \A i \in DOMAIN inFlight : inFlight[i].due \in Nat /\ inFlight[i].cmd \in Received
  BY <1>2 DEF Item
<1>4. Len(inFlight) \in Nat /\ DOMAIN inFlight = 1..Len(inFlight)
  BY <1>1
<1>5. Len(packets) \in Nat /\ DOMAIN packets = 1..Len(packets)
  BY <1>1
<1>6. \A k \in DOMAIN packets : packets[k] \in Received
  BY <1>1
<1>7. /\ sinceSent \in Nat /\ sinceHeard \in Nat /\ sinceDead \in Nat
      /\ left \in 0..Half /\ busy \in 0..MaxBusy
  BY DEF TypeOK
<1> QED BY <1>1, <1>3, <1>4, <1>5, <1>6, <1>7

\* While there is room, one more packet under way fits.
LEMMA RoomFits ==
    ASSUME TypeOK, Room, UNCHANGED packets,
           inFlight' \in Seq(Item), Len(inFlight') = Len(inFlight) + 1
    PROVE  Fits'
<1>1. /\ Len(inFlight) \in Nat /\ Len(packets) \in Nat /\ Len(inFlight') \in Nat
      /\ MaxInFlight \in Nat
  BY KeptTypes, Numbers
<1>2. /\ Count(FlyingOf(inFlight'), Len(inFlight') + 1) <= Len(inFlight')
      /\ Count(FlyingOf(inFlight'), Len(inFlight') + 1) \in Nat
  BY <1>1, CountSize
<1>3. /\ Count(PublishesOf(packets), Len(packets) + 1) <= Len(packets)
      /\ Count(PublishesOf(packets), Len(packets) + 1) \in Nat
  BY <1>1, CountSize
<1>4. Len(inFlight) + Len(packets) < MaxInFlight
  BY DEF Room
<1>5. Count(PublishesOf(packets), Len(packets) + 1)
        + Count(FlyingOf(inFlight'), Len(inFlight') + 1) <= MaxInFlight
  BY <1>1, <1>2, <1>3, <1>4
<1> QED BY <1>5 DEF Fits

\* A packet sent on a living connection has its answer under way; what was
\* under way stays, and all of it is as young as the packet.
LEMMA SendsKeeps ==
    ASSUME KeepInv, NEW answer \in {"ack", "pubrel", "pingresp"}, Sends(answer),
           answer = "pubrel" => Room, UNCHANGED <<packets, busy>>
    PROVE  /\ inFlight' \in Seq([cmd : Received, due : Nat]) /\ sinceSent' = 0
           /\ Fits' /\ DueSoon'
           /\ \A i \in DOMAIN inFlight' : Arrives(inFlight', 0, i)
           /\ \A k \in DOMAIN packets : IsHandled(packets, busy, 0, k)
           /\ dead => inFlight' = inFlight
           /\ ~dead => \E i \in DOMAIN inFlight' : inFlight'[i].cmd = answer
           /\ \A i \in DOMAIN inFlight : \A c :
                /\ i \in DOMAIN inFlight' /\ inFlight'[i] = inFlight[i]
                /\ Arrives(inFlight, c, i) => Arrives(inFlight', c, i)
<1>1. /\ inFlight \in Seq(Item) /\ Len(inFlight) \in Nat
      /\ DOMAIN inFlight = 1..Len(inFlight) /\ Len(packets) \in Nat
      /\ DOMAIN packets = 1..Len(packets)
      /\ DueSoon /\ Fits /\ TypeOK
  BY KeptTypes DEF KeepInv
<1>2. PICK d \in 0..MaxDelay :
        inFlight' = IF dead THEN inFlight ELSE Append(inFlight, [cmd |-> answer, due |-> d])
  BY DEF Sends
<1>3. PICK e \in Item : e = [cmd |-> answer, due |-> d]
  <2>1. d \in Nat /\ answer \in Received
    BY Numbers DEF Received
  <2> QED BY <2>1 DEF Item
<1>4. e.cmd = answer /\ e.due <= MaxDelay /\ e.due \in Nat
  BY <1>3, Numbers
<1>5. PICK f : f = inFlight'
  OBVIOUS
<1>6. f = inFlight \/ f = Append(inFlight, e)
  BY <1>2, <1>3, <1>5
<1>7. /\ f \in Seq(Item) /\ Len(f) \in Nat /\ DOMAIN f = 1..Len(f)
      /\ \A i \in DOMAIN inFlight : i \in DOMAIN f /\ f[i] = inFlight[i]
      /\ \A i \in DOMAIN f : i \in DOMAIN inFlight \/ f[i] = e
  <2>1. CASE f = inFlight
    BY <1>1, <2>1
  <2>2. CASE f = Append(inFlight, e)
    BY <1>1, <2>2, AppendProperties
  <2> QED BY <1>6, <2>1, <2>2
<1>8. ASSUME f = inFlight \/ answer # "pubrel" PROVE Fits'
  <2>1. answer # "pubrel" => e.cmd \notin MessagePackets
    BY <1>4 DEF MessagePackets
  <2>2. Count(FlyingOf(f), Len(f) + 1) = Count(FlyingOf(inFlight), Len(inFlight) + 1)
    BY <1>1, <1>6, <1>8, <2>1, FlyingAppend
  <2> QED BY <1>1, <1>5, <2>2 DEF Fits
<1>18. ASSUME f = Append(inFlight, e), Room PROVE Fits'
  <2>1. Len(f) = Len(inFlight) + 1
    BY <1>1, <1>18, AppendProperties
  <2> QED BY <1>1, <1>5, <1>7, <1>18, <2>1, RoomFits
<1>9. Fits'
  BY <1>6, <1>8, <1>18
<1>10. \A i \in DOMAIN f : f[i].due <= MaxDelay /\ f[i].due \in Nat
  BY <1>1, <1>4, <1>7, KeptTypes DEF DueSoon
<1>11. DueSoon'
  BY <1>5, <1>10 DEF DueSoon
<1>12. \A i \in DOMAIN f : Arrives(f, 0, i)
  BY <1>7, <1>10 DEF Arrives
<1>13. \A k \in DOMAIN packets : IsHandled(packets, busy, 0, k)
  BY <1>1, WorkIsBounded, Numbers DEF IsHandled
<1>14. ~dead => \E i \in DOMAIN f : f[i].cmd = answer
  <2>1. ~dead => f = Append(inFlight, e)
    BY <1>2, <1>3, <1>5
  <2>2. ~dead => Len(inFlight) + 1 \in DOMAIN f /\ f[Len(inFlight) + 1] = e
    BY <1>1, <2>1, AppendProperties
  <2> QED BY <1>4, <2>2
<1>15. \A i \in DOMAIN inFlight : \A c : Arrives(inFlight, c, i) => Arrives(f, c, i)
  BY <1>1, <1>7 DEF Arrives
<1>16. inFlight' \in Seq([cmd : Received, due : Nat]) /\ sinceSent' = 0
  BY <1>5, <1>7 DEF Item, Sends
<1>17. dead => inFlight' = inFlight
  BY <1>2
<1> QED BY <1>5, <1>7, <1>9, <1>11, <1>12, <1>13, <1>14, <1>15, <1>16, <1>17

LEMMA ConnackKeeps ==
    ASSUME KeepInv, Connack
    PROVE  KeepInv'
<1>1. /\ inFlight' = <<>> /\ packets' = <<>> /\ busy' = 0 /\ left' = Half /\ counter' = 0
      /\ sinceHeard' = 0 /\ sinceDead' = 0 /\ sinceSent' = 0
      /\ dead' = FALSE /\ gaveUp' = FALSE /\ connected' = TRUE
  BY DEF Connack, Reschedule
<1>2. DOMAIN inFlight' = {} /\ DOMAIN packets' = {}
  BY <1>1, EmptySeq
<1>3. Len(inFlight') = 0 /\ Len(packets') = 0
  BY <1>1, EmptySeq
<1>4. Fits'
  BY <1>1, <1>3, CountFirst, Numbers DEF Fits
<1>5. TypeOK'
  <2>1. inFlight' \in Seq([cmd : Received, due : Nat]) /\ packets' \in Seq(Received)
    BY <1>1
  <2>2. left' \in 0..Half /\ counter' \in 0..2 /\ busy' \in 0..MaxBusy
    BY <1>1, Numbers
  <2>3. sinceHeard' \in Nat /\ sinceSent' \in Nat /\ sinceDead' \in Nat
    BY <1>1
  <2> QED BY <1>1, <2>1, <2>2, <2>3 DEF TypeOK
<1>6. SilenceMeasured' /\ DueSoon' /\ DeadEnds' /\ AnswersInTime' /\ PingInTime'
      /\ SendsInTime' /\ AnsweredIsKept'
  BY <1>1, <1>2, Numbers
  DEF SilenceMeasured, DueSoon, DeadEnds, AnswersInTime, PingInTime, SendsInTime,
      AnsweredIsKept
<1> QED BY <1>4, <1>5, <1>6 DEF KeepInv

LEMMA ClientSendsKeeps ==
    ASSUME KeepInv, ClientSends
    PROVE  KeepInv'
<1>1. /\ Room
      /\ UNCHANGED <<connected, left, counter, sinceHeard, packets, busy, dead, sinceDead, gaveUp>>
  BY DEF ClientSends, timerVars, workVars
<1>0. PICK answer \in {"ack", "pubrel"} : Sends(answer)
  BY DEF ClientSends
<1>2. /\ inFlight' \in Seq([cmd : Received, due : Nat]) /\ sinceSent' = 0
      /\ Fits' /\ DueSoon'
      /\ \A i \in DOMAIN inFlight' : Arrives(inFlight', 0, i)
      /\ \A k \in DOMAIN packets : IsHandled(packets, busy, 0, k)
      /\ dead => inFlight' = inFlight
      /\ \A i \in DOMAIN inFlight : \A c :
           /\ i \in DOMAIN inFlight' /\ inFlight'[i] = inFlight[i]
           /\ Arrives(inFlight, c, i) => Arrives(inFlight', c, i)
  BY <1>0, <1>1, SendsKeeps
<1>3. TypeOK'
  BY <1>1, <1>2 DEF KeepInv, TypeOK
<1>4. SilenceMeasured' /\ AnsweredIsKept'
  BY <1>1 DEF KeepInv, SilenceMeasured, AnsweredIsKept, Quick
<1>5. DeadEnds'
  BY <1>1, <1>2 DEF KeepInv, DeadEnds
<1>6. AnswersInTime'
  BY <1>1, <1>2 DEF AnswersInTime
<1>7. PingInTime'
  BY <1>1, <1>2 DEF KeepInv, PingInTime, Elapsed
<1>8. SendsInTime'
  BY <1>1, <1>2, KeptTypes, Numbers DEF KeepInv, SendsInTime, Elapsed
<1> QED BY <1>2, <1>3, <1>4, <1>5, <1>6, <1>7, <1>8 DEF KeepInv

LEMMA IntervalKeeps ==
    ASSUME KeepInv, Interval
    PROVE  KeepInv'
<1>1. connected /\ left = 0 /\ left' = Half /\ UNCHANGED <<packets, busy, dead, sinceDead>>
  BY DEF Interval, workVars
<1>2. TypeOK /\ left \in 0..Half /\ counter \in 0..2 /\ sinceHeard \in Nat /\ sinceSent \in Nat
  BY DEF KeepInv, TypeOK
<1>3. CASE TimesOut
  <2>1. counter = 2 /\ connected' = FALSE /\ gaveUp' = ~dead
        /\ UNCHANGED <<counter, sinceHeard, sinceSent, inFlight>>
    BY <1>3 DEF TimesOut
  <2>2. TypeOK'
    <3>1. dead \in BOOLEAN /\ gaveUp' \in BOOLEAN
      BY <1>2, <2>1 DEF TypeOK
    <3>2. left' \in 0..Half /\ counter' \in 0..2
      BY <1>1, <1>2, <2>1, Numbers
    <3> QED BY <1>1, <1>2, <2>1, <3>1, <3>2 DEF TypeOK
  <2>3. Fits' /\ DueSoon'
    BY <1>1, <2>1 DEF KeepInv, Fits, DueSoon
  <2>4. Quick => dead
    <3> SUFFICES ASSUME Quick, ~dead PROVE FALSE
      OBVIOUS
    <3>1. Soon < Half /\ Elapsed = Half
      BY <1>1, Numbers DEF Quick, Soon, Elapsed
    <3>2. ASSUME NEW i \in DOMAIN inFlight, Arrives(inFlight, Elapsed, i) PROVE FALSE
      <4>1. i \in 1..i /\ inFlight[i].due \in Nat
        BY <1>2, KeptTypes
      <4>2. Elapsed + inFlight[i].due <= MaxDelay
        BY <3>2, <4>1 DEF Arrives
      <4> QED BY <3>1, <4>1, <4>2, Numbers
    <3>3. ASSUME NEW k \in DOMAIN packets, IsHandled(packets, busy, Elapsed, k) PROVE FALSE
      <4>1. Ahead(packets, busy, k) \in Nat
        BY <1>2, KeptTypes, WorkIsBounded DEF KeepInv
      <4> QED BY <3>1, <3>3, <4>1, Numbers DEF IsHandled
    <3> QED BY <1>1, <2>1, <3>2, <3>3 DEF KeepInv, PingInTime
  <2>5. AnsweredIsKept'
    BY <2>1, <2>4 DEF AnsweredIsKept, Quick
  <2>6. SilenceMeasured' /\ DeadEnds' /\ AnswersInTime' /\ PingInTime' /\ SendsInTime'
    BY <1>1, <2>1
    DEF KeepInv, SilenceMeasured, DeadEnds, AnswersInTime, PingInTime, SendsInTime
  <2> QED BY <2>2, <2>3, <2>5, <2>6 DEF KeepInv
<1>4. CASE Pings /\ counter = 0
  <2>1. counter' = 1 /\ UNCHANGED <<connected, sinceHeard, sinceSent, inFlight, gaveUp>>
    BY <1>4 DEF Pings, Counts
  <2>2. TypeOK'
    BY <1>1, <1>2, <2>1, Numbers DEF TypeOK
  <2>3. Fits' /\ DueSoon' /\ AnsweredIsKept' /\ AnswersInTime' /\ DeadEnds'
    BY <1>1, <2>1 DEF KeepInv, Fits, DueSoon, AnsweredIsKept, Quick, AnswersInTime, DeadEnds
  <2>4. SilenceMeasured' /\ PingInTime' /\ SendsInTime'
    BY <1>1, <1>2, <1>4, <2>1, Numbers
    DEF KeepInv, SilenceMeasured, PingInTime, SendsInTime
  <2> QED BY <2>2, <2>3, <2>4 DEF KeepInv
<1>5. CASE Pings /\ counter = 1
  <2>1. counter' = 2 /\ Sends("pingresp") /\ UNCHANGED <<connected, sinceHeard, gaveUp>>
    BY <1>5 DEF Pings, Counts
  <2>2. /\ inFlight' \in Seq([cmd : Received, due : Nat]) /\ sinceSent' = 0
        /\ Fits' /\ DueSoon'
        /\ \A i \in DOMAIN inFlight' : Arrives(inFlight', 0, i)
        /\ \A k \in DOMAIN packets : IsHandled(packets, busy, 0, k)
        /\ dead => inFlight' = inFlight
        /\ ~dead => \E i \in DOMAIN inFlight' : inFlight'[i].cmd = "pingresp"
    BY <1>1, <2>1, SendsKeeps
  <2>3. TypeOK'
    BY <1>1, <1>2, <2>1, <2>2, Numbers DEF TypeOK
  <2>4. Elapsed' = 0
    BY <1>1, Numbers DEF Elapsed
  <2>5. PingInTime'
    BY <1>1, <2>2, <2>4 DEF PingInTime
  <2>6. AnswersInTime'
    BY <1>1, <2>2 DEF AnswersInTime
  <2>7. DeadEnds' /\ AnsweredIsKept'
    BY <1>1, <2>1, <2>2 DEF KeepInv, DeadEnds, AnsweredIsKept, Quick
  <2>8. SilenceMeasured' /\ SendsInTime'
    BY <1>1, <1>2, <1>5, <2>1, <2>2, <2>4, Numbers DEF KeepInv, SilenceMeasured, SendsInTime
  <2> QED BY <2>2, <2>3, <2>5, <2>6, <2>7, <2>8 DEF KeepInv
<1> QED BY <1>2, <1>3, <1>4, <1>5 DEF Interval, Pings

\* A publish of the broker fits, and what was under way is as it was.
LEMMA BrokerPublishesKeeps ==
    ASSUME KeepInv, BrokerPublishes
    PROVE  KeepInv'
<1>1. ~dead /\ Room /\ UNCHANGED <<connected, left, counter, sinceHeard, packets, busy, dead,
                                   sinceDead, sinceSent, gaveUp>>
  BY DEF BrokerPublishes, timerVars, workVars
<1>2. TypeOK /\ DueSoon /\ Fits
  BY DEF KeepInv
<1>3. PICK e \in Item : e = [cmd |-> "publish", due |-> 0]
  BY DEF Item, Received
<1>4. PICK f : f = inFlight'
  OBVIOUS
<1>5. f = Append(inFlight, e)
  BY <1>3, <1>4 DEF BrokerPublishes
<1>6. /\ inFlight \in Seq(Item) /\ Len(inFlight) \in Nat /\ Len(packets) \in Nat
      /\ DOMAIN inFlight = 1..Len(inFlight)
  BY <1>2, KeptTypes
<1>7. /\ f \in Seq(Item) /\ Len(f) = Len(inFlight) + 1 /\ DOMAIN f = 1..Len(f)
      /\ \A i \in DOMAIN inFlight : i \in DOMAIN f /\ f[i] = inFlight[i]
      /\ \A i \in DOMAIN f : i \in DOMAIN inFlight \/ f[i] = e
  BY <1>5, <1>6, AppendProperties
<1>8. Fits'
  BY <1>1, <1>4, <1>6, <1>7, KeptTypes, RoomFits DEF KeepInv
<1>9. DueSoon'
  <2>1. e.due = 0 /\ 0 <= MaxDelay
    BY <1>3, Numbers
  <2> QED BY <1>2, <1>4, <1>7, <2>1 DEF DueSoon
<1>10. TypeOK'
  BY <1>1, <1>2, <1>4, <1>7 DEF TypeOK, Item
<1>11. \A i \in DOMAIN inFlight : \A c : Arrives(inFlight, c, i) => Arrives(f, c, i)
  BY <1>6, <1>7 DEF Arrives
<1>12. AnswersInTime'
  <2>1. \A i \in DOMAIN f : f[i].cmd # "publish" => i \in DOMAIN inFlight
    BY <1>3, <1>7
  <2>2. connected => \A i \in DOMAIN f :
          f[i].cmd # "publish" => Arrives(f, sinceSent, i)
    BY <1>7, <1>11, <2>1 DEF KeepInv, AnswersInTime
  <2> QED BY <1>1, <1>4, <2>2 DEF KeepInv, AnswersInTime
<1>13. PingInTime'
  <2>1. Elapsed' = Elapsed
    BY <1>1 DEF Elapsed
  <2> QED BY <1>1, <1>4, <1>7, <1>11, <2>1 DEF KeepInv, PingInTime
<1>14. DeadEnds' /\ SilenceMeasured' /\ SendsInTime' /\ AnsweredIsKept'
  BY <1>1 DEF KeepInv, DeadEnds, SilenceMeasured, SendsInTime, Elapsed, AnsweredIsKept, Quick
<1> QED BY <1>8, <1>9, <1>10, <1>12, <1>13, <1>14 DEF KeepInv

\* What arrives joins the end of the work queue, where a backlog at most is
\* before it.
LEMMA ReceiveKeeps ==
    ASSUME KeepInv, Receive
    PROVE  KeepInv'
<1>1. /\ connected /\ inFlight # <<>> /\ Head(inFlight).due = 0
      /\ UNCHANGED <<connected, left, counter, sinceHeard, busy, dead, sinceDead, sinceSent,
                     gaveUp>>
  BY DEF Receive, timerVars
<1>2. TypeOK /\ DueSoon /\ Fits
  BY DEF KeepInv
<1>3. ~dead
  BY <1>1 DEF KeepInv, DeadEnds
<1>4. /\ inFlight \in Seq(Item) /\ packets \in Seq(Received)
      /\ DOMAIN inFlight = 1..Len(inFlight) /\ DOMAIN packets = 1..Len(packets)
      /\ Len(packets) \in Nat /\ sinceSent \in Nat /\ busy \in 0..MaxBusy
      /\ left \in 0..Half
  BY <1>2, KeptTypes
<1>5. PICK h \in Item : h = Head(inFlight)
  BY <1>1, <1>4, HeadTailProperties
<1>6. h.cmd \in Received /\ h.due = 0
  BY <1>1, <1>5 DEF Item
<1>7. PICK p : p = packets'
  OBVIOUS
<1>8. PICK f : f = inFlight'
  OBVIOUS
<1>9. p = Append(packets, h.cmd) /\ f = Tail(inFlight)
  BY <1>5, <1>7, <1>8 DEF Receive
<1>10. /\ Len(inFlight) \in Nat \ {0} /\ h = inFlight[1]
       /\ f \in Seq(Item) /\ Len(f) = Len(inFlight) - 1 /\ DOMAIN f = 1..Len(f)
       /\ \A i \in DOMAIN f : i + 1 \in DOMAIN inFlight /\ f[i] = inFlight[i + 1]
  BY <1>1, <1>4, <1>5, <1>9, HeadTailProperties, EmptySeq
<1>11. /\ p \in Seq(Received) /\ Len(p) = Len(packets) + 1 /\ DOMAIN p = 1..Len(p)
       /\ \A k \in DOMAIN packets : k \in DOMAIN p /\ p[k] = packets[k]
       /\ p[Len(p)] = h.cmd
  BY <1>4, <1>6, <1>9, AppendProperties
<1>12. \A k \in 1..Len(p) : Ahead(p, busy, k) = Ahead(packets, busy, k)
  BY <1>4, <1>6, <1>9, <1>11, PublishesAppend DEF Ahead
<1>13. Fits'
  <2> DEFINE m == Count(PublishesOf(packets), Len(packets) + 1)
             n == Count(FlyingOf(f), Len(inFlight))
  <2>1. m \in Nat /\ n \in Nat
    <3>1. Len(packets) + 1 \in Nat \ {0} /\ Len(inFlight) \in Nat \ {0}
      BY <1>4, <1>10
    <3> QED BY <3>1, CountType
  <2>2. Count(PublishesOf(p), Len(p) + 1) = IF h.cmd \in MessagePackets THEN m + 1 ELSE m
    BY <1>4, <1>6, <1>9, <1>11, PublishesAppend
  <2>3. Len(inFlight) \in 1..Len(inFlight) /\ Len(f) + 1 = Len(inFlight)
    BY <1>10
  <2>4. Count(FlyingOf(inFlight), Len(inFlight) + 1) = IF h.cmd \in MessagePackets THEN n + 1 ELSE n
    BY <1>1, <1>4, <1>5, <1>9, <2>3, FlyingTail
  <2>5. Count(FlyingOf(f), Len(f) + 1) = n
    BY <2>3
  <2>6. m + Count(FlyingOf(inFlight), Len(inFlight) + 1) <= MaxInFlight
    BY <1>2 DEF Fits
  <2> HIDE DEF m, n
  <2>7. Count(PublishesOf(p), Len(p) + 1) + Count(FlyingOf(f), Len(f) + 1) <= MaxInFlight
    <3>1. CASE h.cmd \in MessagePackets
      BY <2>1, <2>2, <2>4, <2>5, <2>6, <3>1, Numbers
    <3>2. CASE h.cmd \notin MessagePackets
      BY <2>1, <2>2, <2>4, <2>5, <2>6, <3>2, Numbers
    <3> QED BY <3>1, <3>2
  <2> QED BY <1>7, <1>8, <2>7 DEF Fits
<1>14. DueSoon'
  BY <1>2, <1>8, <1>10 DEF DueSoon
<1>15. TypeOK'
  BY <1>1, <1>2, <1>7, <1>8, <1>10, <1>11 DEF TypeOK, Item
<1>16. ASSUME NEW c \in Nat, NEW i \in DOMAIN f, Arrives(inFlight, c, i + 1)
       PROVE  Arrives(f, c, i)
  <2>1. \A j \in 1..i : j \in DOMAIN f /\ j + 1 \in 1..(i + 1)
    BY <1>10
  <2> QED BY <1>10, <1>16, <2>1 DEF Arrives
<1>17. ASSUME NEW c \in Nat, c <= MaxDelay
       PROVE  IsHandled(p, busy, c, Len(p))
  <2>1. Ahead(packets, busy, Len(p)) \in Nat /\ Ahead(packets, busy, Len(p)) <= Backlog
    BY <1>2, <1>4, <1>11, WorkIsBounded
  <2>2. Ahead(p, busy, Len(p)) = Ahead(packets, busy, Len(p))
    BY <1>4, <1>11, <1>12
  <2> QED BY <1>17, <2>1, <2>2, Numbers DEF IsHandled
<1>18. \A c : \A k \in DOMAIN packets : IsHandled(packets, busy, c, k) => IsHandled(p, busy, c, k)
  BY <1>4, <1>11, <1>12 DEF IsHandled
<1>19. AnswersInTime'
  <2>1. \A i \in DOMAIN f : f[i].cmd # "publish" => Arrives(f, sinceSent, i)
    BY <1>1, <1>4, <1>10, <1>16 DEF KeepInv, AnswersInTime
  <2>2. ASSUME NEW k \in DOMAIN p, p[k] # "publish" PROVE IsHandled(p, busy, sinceSent, k)
    <3>1. CASE k \in DOMAIN packets
      BY <1>1, <1>11, <1>18, <2>2, <3>1 DEF KeepInv, AnswersInTime
    <3>2. CASE k \notin DOMAIN packets
      <4>1. k = Len(p)
        BY <1>4, <1>11, <3>2
      <4>2. 1 \in DOMAIN inFlight /\ inFlight[1].cmd # "publish"
        BY <1>4, <1>10, <1>11, <2>2, <4>1
      <4>3. Arrives(inFlight, sinceSent, 1)
        BY <1>1, <4>2 DEF KeepInv, AnswersInTime
      <4>4. 1 \in 1..1 /\ inFlight[1].due = 0
        BY <1>6, <1>10
      <4>5. sinceSent + 0 <= MaxDelay
        BY <4>3, <4>4 DEF Arrives
      <4> QED BY <1>4, <1>17, <4>1, <4>5
    <3> QED BY <3>1, <3>2
  <2> QED BY <1>1, <1>7, <1>8, <2>1, <2>2 DEF AnswersInTime
<1>20. PingInTime'
  <2>1. Elapsed' = Elapsed /\ Elapsed \in Nat
    BY <1>1, <1>4, Numbers DEF Elapsed
  <2> SUFFICES ASSUME counter = 2
               PROVE  \/ \E i \in DOMAIN f : f[i].cmd = "pingresp" /\ Arrives(f, Elapsed, i)
                      \/ \E k \in DOMAIN p : p[k] = "pingresp" /\ IsHandled(p, busy, Elapsed, k)
    BY <1>1, <1>7, <1>8, <2>1 DEF PingInTime
  <2>2. CASE \E k \in DOMAIN packets :
               packets[k] = "pingresp" /\ IsHandled(packets, busy, Elapsed, k)
    BY <1>11, <1>18, <2>2
  <2>3. ASSUME NEW i \in DOMAIN inFlight, inFlight[i].cmd = "pingresp",
               Arrives(inFlight, Elapsed, i)
        PROVE  \/ \E j \in DOMAIN f : f[j].cmd = "pingresp" /\ Arrives(f, Elapsed, j)
               \/ \E k \in DOMAIN p : p[k] = "pingresp" /\ IsHandled(p, busy, Elapsed, k)
    <3>1. CASE i = 1
      <4>1. 1 \in 1..1 /\ inFlight[1].due = 0
        BY <1>6, <1>10
      <4>2. Elapsed + 0 <= MaxDelay
        BY <2>3, <3>1, <4>1 DEF Arrives
      <4>3. IsHandled(p, busy, Elapsed, Len(p))
        BY <1>17, <2>1, <4>2
      <4>4. Len(p) \in DOMAIN p /\ p[Len(p)] = "pingresp"
        BY <1>4, <1>10, <1>11, <2>3, <3>1
      <4> QED BY <4>3, <4>4
    <3>2. CASE i # 1
      <4>1. i - 1 \in DOMAIN f /\ (i - 1) + 1 = i
        BY <1>4, <1>10, <3>2
      <4>2. f[i - 1].cmd = "pingresp"
        BY <1>10, <2>3, <4>1
      <4>3. Arrives(f, Elapsed, i - 1)
        BY <1>16, <2>1, <2>3, <4>1
      <4> QED BY <4>1, <4>2, <4>3
    <3> QED BY <3>1, <3>2
  <2> QED BY <1>1, <1>3, <2>2, <2>3 DEF KeepInv, PingInTime
<1>21. DeadEnds' /\ SilenceMeasured' /\ SendsInTime' /\ AnsweredIsKept'
  BY <1>1, <1>3 DEF KeepInv, DeadEnds, SilenceMeasured, SendsInTime, Elapsed, AnsweredIsKept, Quick
<1> QED BY <1>13, <1>14, <1>15, <1>19, <1>20, <1>21 DEF KeepInv

\* What is handled made way for the rest.
LEMMA HandleKeeps ==
    ASSUME KeepInv, Handle
    PROVE  KeepInv'
<1>1. /\ connected /\ packets # <<>> /\ busy = 0
      /\ UNCHANGED <<connected, inFlight, dead, sinceDead, sinceSent, gaveUp>>
  BY DEF Handle, netVars
<1>2. TypeOK /\ DueSoon /\ Fits
  BY DEF KeepInv
<1>3. /\ packets \in Seq(Received) /\ DOMAIN packets = 1..Len(packets)
      /\ sinceSent \in Nat /\ sinceHeard \in Nat /\ sinceDead \in Nat /\ left \in 0..Half
      /\ Len(inFlight) \in Nat
  BY <1>2, KeptTypes
<1>4. PICK h \in Received : h = Head(packets)
  BY <1>1, <1>3, HeadTailProperties
<1>5. PICK p : p = packets'
  OBVIOUS
<1>6. p = Tail(packets)
  BY <1>5 DEF Handle
<1>7. /\ Len(packets) \in Nat \ {0} /\ h = packets[1]
      /\ p \in Seq(Received) /\ Len(p) = Len(packets) - 1 /\ DOMAIN p = 1..Len(p)
      /\ \A k \in DOMAIN p : k + 1 \in DOMAIN packets /\ p[k] = packets[k + 1]
  BY <1>1, <1>3, <1>4, <1>6, HeadTailProperties, EmptySeq
<1>8. PICK b : b = busy'
  OBVIOUS
<1>9. b \in 0..MaxBusy /\ (h \notin MessagePackets => b = 0)
  BY <1>4, <1>8, Numbers DEF Handle
<1>10. ASSUME NEW k \in 1..Len(packets)
       PROVE  /\ Ahead(p, b, k) \in Nat /\ Ahead(packets, busy, k + 1) \in Nat
              /\ Ahead(p, b, k) <= Ahead(packets, busy, k + 1)
              /\ Count(PublishesOf(p), k) <= Count(PublishesOf(packets), k + 1)
  <2> DEFINE n == Count(PublishesOf(p), k)
             m == Count(PublishesOf(packets), k + 1)
  <2>1. n \in Nat /\ m \in Nat
    <3>1. k \in Nat \ {0} /\ k + 1 \in Nat \ {0}
      BY <1>7
    <3> QED BY <3>1, CountType
  <2>2. m = IF h \in MessagePackets THEN n + 1 ELSE n
    BY <1>1, <1>3, <1>4, <1>6, PublishesTail
  <2>3. Cost(n) \in Nat /\ Cost(m) \in Nat /\ Cost(n + 1) = Cost(n) + MaxBusy
    BY <2>1, CostGrows
  <2>4. Ahead(p, b, k) = b + Cost(n) /\ Ahead(packets, busy, k + 1) = busy + Cost(m)
    BY DEF Ahead
  <2> HIDE DEF n, m
  <2>5. n <= m /\ b + Cost(n) <= busy + Cost(m)
    <3>1. CASE h \in MessagePackets
      BY <1>1, <1>9, <2>1, <2>2, <2>3, <3>1, Numbers
    <3>2. CASE h \notin MessagePackets
      BY <1>1, <1>9, <2>1, <2>2, <2>3, <3>2, Numbers
    <3> QED BY <3>1, <3>2
  <2>6. b + Cost(n) \in Nat /\ busy + Cost(m) \in Nat
    BY <1>1, <1>9, <2>3, Numbers
  <2>7. Ahead(p, b, k) <= Ahead(packets, busy, k + 1)
    BY <2>4, <2>5
  <2> QED BY <2>4, <2>5, <2>6, <2>7 DEF n, m
<1>11. Fits'
  <2> DEFINE n == Count(PublishesOf(p), Len(p) + 1)
             m == Count(PublishesOf(packets), Len(packets) + 1)
             o == Count(FlyingOf(inFlight), Len(inFlight) + 1)
  <2>1. Len(p) + 1 = Len(packets) /\ Len(packets) \in 1..Len(packets)
    BY <1>7
  <2>2. n <= m
    BY <1>10, <2>1
  <2>3. n \in Nat /\ m \in Nat /\ o \in Nat
    <3>1. /\ Len(p) + 1 \in Nat \ {0} /\ Len(packets) + 1 \in Nat \ {0}
          /\ Len(inFlight) + 1 \in Nat \ {0}
      BY <1>3, <1>7
    <3> QED BY <3>1, CountType
  <2>4. m + o <= MaxInFlight
    BY <1>2 DEF Fits
  <2> HIDE DEF n, m, o
  <2>5. n + o <= MaxInFlight
    BY <2>2, <2>3, <2>4, Numbers
  <2> QED BY <1>1, <1>5, <2>5 DEF Fits, n, o
<1>12. ASSUME NEW c \in Nat, NEW k \in DOMAIN p, IsHandled(packets, busy, c, k + 1)
       PROVE  IsHandled(p, b, c, k)
  <2>1. k \in 1..Len(packets)
    BY <1>7
  <2>2. /\ Ahead(p, b, k) \in Nat /\ Ahead(packets, busy, k + 1) \in Nat
        /\ Ahead(p, b, k) <= Ahead(packets, busy, k + 1)
    BY <1>10, <2>1
  <2>3. c + Ahead(packets, busy, k + 1) <= Soon
    BY <1>12 DEF IsHandled
  <2>4. c + Ahead(p, b, k) <= Soon
    BY <2>2, <2>3, Numbers
  <2> QED BY <2>4 DEF IsHandled
<1>13. AnswersInTime'
  <2>1. \A k \in DOMAIN p : p[k] # "publish" => IsHandled(p, b, sinceSent, k)
    BY <1>1, <1>3, <1>7, <1>12 DEF KeepInv, AnswersInTime
  <2> QED BY <1>1, <1>5, <1>8, <2>1 DEF KeepInv, AnswersInTime
<1>14. Reschedules(h) \/ UNCHANGED <<left, counter, sinceHeard>>
  BY <1>4 DEF Handle, timerVars
<1>15. Reschedules(h) => left' = Half /\ counter' = 0 /\ sinceHeard' = 0
  BY <1>4 DEF Handle, Reschedule
<1>16. DeadEnds'
  <2>1. Len(p) + 1 = Len(packets) /\ Len(packets) \in 1..Len(packets)
    BY <1>7
  <2>2. /\ Ahead(p, b, Len(p) + 1) \in Nat /\ Ahead(packets, busy, Len(packets) + 1) \in Nat
        /\ Ahead(p, b, Len(p) + 1) <= Ahead(packets, busy, Len(packets) + 1)
    BY <1>10, <2>1
  <2>3. dead => /\ inFlight = <<>> /\ sinceDead <= Backlog + sinceHeard
                /\ sinceDead + Ahead(packets, busy, Len(packets) + 1) <= Backlog
    BY <1>1 DEF KeepInv, DeadEnds
  <2>4. dead => sinceDead + Ahead(p, b, Len(p) + 1) <= Backlog
    BY <1>3, <2>2, <2>3, Numbers
  <2>5. dead => sinceDead <= Backlog + sinceHeard'
    BY <1>3, <1>14, <1>15, <2>2, <2>3, Numbers
  <2>6. ~dead => sinceDead = 0
    BY DEF KeepInv, DeadEnds
  <2> QED BY <1>1, <1>5, <1>8, <2>3, <2>4, <2>5, <2>6 DEF DeadEnds
<1>17. TypeOK'
  <2>1. left' \in 0..Half /\ counter' \in 0..2 /\ sinceHeard' \in Nat
    BY <1>2, <1>14, <1>15, Numbers DEF TypeOK
  <2> QED BY <1>1, <1>2, <1>5, <1>7, <1>8, <1>9, <2>1 DEF TypeOK
<1>18. SilenceMeasured'
  <2>1. CASE Reschedules(h)
    BY <1>15, <2>1, Numbers DEF SilenceMeasured
  <2>2. CASE ~Reschedules(h)
    BY <1>1, <1>14, <2>2 DEF KeepInv, SilenceMeasured
  <2> QED BY <2>1, <2>2
<1>19. PingInTime'
  <2>1. CASE Reschedules(h)
    BY <1>15, <2>1 DEF PingInTime
  <2>2. CASE ~Reschedules(h)
    <3>1. UNCHANGED <<left, counter, sinceHeard>> /\ h # "pingresp"
      BY <1>14, <2>2 DEF Reschedules
    <3>2. Elapsed' = Elapsed /\ Elapsed \in Nat
      BY <1>3, <3>1, Numbers DEF Elapsed
    <3>3. ASSUME NEW k \in DOMAIN packets, packets[k] = "pingresp",
                 IsHandled(packets, busy, Elapsed, k)
          PROVE  \E j \in DOMAIN p : p[j] = "pingresp" /\ IsHandled(p, b, Elapsed, j)
      <4>1. k # 1
        BY <1>7, <3>1, <3>3
      <4>2. k - 1 \in DOMAIN p /\ (k - 1) + 1 = k
        BY <1>3, <1>7, <4>1
      <4>3. p[k - 1] = "pingresp"
        BY <1>7, <3>3, <4>2
      <4>4. IsHandled(p, b, Elapsed, k - 1)
        BY <1>12, <3>2, <3>3, <4>2
      <4> QED BY <4>2, <4>3, <4>4
    <3>4. connected /\ ~dead /\ counter = 2 =>
            \/ \E i \in DOMAIN inFlight :
                 inFlight[i].cmd = "pingresp" /\ Arrives(inFlight, Elapsed, i)
            \/ \E j \in DOMAIN p : p[j] = "pingresp" /\ IsHandled(p, b, Elapsed, j)
      BY <3>3 DEF KeepInv, PingInTime
    <3> QED BY <1>1, <1>5, <1>8, <3>1, <3>2, <3>4 DEF PingInTime
  <2> QED BY <2>1, <2>2
<1>20. SendsInTime'
  <2>1. CASE Reschedules(h)
    <3>1. 1 \in DOMAIN packets /\ packets[1] # "publish"
      BY <1>3, <1>7, <2>1 DEF Reschedules
    <3>2. sinceSent + Ahead(packets, busy, 1) <= Soon
      BY <1>1, <3>1 DEF KeepInv, AnswersInTime, IsHandled
    <3>3. Ahead(packets, busy, 1) \in Nat
      BY <1>2, <1>7, WorkIsBounded
    <3>4. sinceSent <= 0 + Soon
      BY <1>3, <3>2, <3>3, Numbers
    <3> QED BY <1>1, <1>15, <2>1, <3>4 DEF SendsInTime
  <2>2. CASE ~Reschedules(h)
    BY <1>1, <1>14, <2>2 DEF KeepInv, SendsInTime, Elapsed
  <2> QED BY <2>1, <2>2
<1>21. DueSoon' /\ AnsweredIsKept'
  BY <1>1 DEF KeepInv, DueSoon, AnsweredIsKept, Quick
<1> QED BY <1>11, <1>13, <1>16, <1>17, <1>18, <1>19, <1>20, <1>21 DEF KeepInv

\* What a connection that goes dead had delivered is a backlog at most.
LEMMA GoesDeadKeeps ==
    ASSUME KeepInv, GoesDead
    PROVE  KeepInv'
<1>1. /\ connected /\ ~dead /\ dead' = TRUE /\ sinceDead' = 0 /\ inFlight' = <<>>
      /\ UNCHANGED <<connected, left, counter, sinceHeard, packets, busy, sinceSent, gaveUp>>
  BY DEF GoesDead, timerVars, workVars
<1>2. TypeOK /\ Fits
  BY DEF KeepInv
<1>3. DOMAIN inFlight' = {} /\ Len(inFlight') = 0
  BY <1>1, EmptySeq
<1>4. Len(packets) \in Nat /\ Len(inFlight) \in Nat /\ sinceHeard \in Nat
  BY <1>2, KeptTypes
<1>5. Fits'
  <2>1. Count(FlyingOf(inFlight'), Len(inFlight') + 1) = 0
    BY <1>3, CountFirst
  <2>2. /\ Count(FlyingOf(inFlight), Len(inFlight) + 1) \in Nat
        /\ Count(PublishesOf(packets), Len(packets) + 1) \in Nat
    <3>1. Len(inFlight) + 1 \in Nat \ {0} /\ Len(packets) + 1 \in Nat \ {0}
      BY <1>4
    <3> QED BY <3>1, CountType
  <2>3. Count(PublishesOf(packets), Len(packets) + 1) + 0 <= MaxInFlight
    BY <1>2, <2>2, Numbers DEF Fits
  <2> QED BY <1>1, <2>1, <2>3 DEF Fits
<1>6. TypeOK'
  <2>1. inFlight' \in Seq([cmd : Received, due : Nat])
    BY <1>1
  <2>2. dead' \in BOOLEAN /\ sinceDead' \in Nat
    BY <1>1
  <2> QED BY <1>1, <1>2, <2>1, <2>2 DEF TypeOK
<1>7. DeadEnds'
  <2>1. Len(packets) + 1 \in 1..(Len(packets) + 1)
    BY <1>4
  <2>2. /\ Ahead(packets, busy, Len(packets) + 1) \in Nat
        /\ Ahead(packets, busy, Len(packets) + 1) <= Backlog
    BY <1>2, <2>1, WorkIsBounded
  <2>3. 0 + Ahead(packets, busy, Len(packets) + 1) <= Backlog /\ 0 <= Backlog + sinceHeard
    BY <1>4, <2>2, Numbers
  <2> QED BY <1>1, <2>3 DEF DeadEnds
<1>8. AnswersInTime'
  BY <1>1, <1>3 DEF KeepInv, AnswersInTime
<1>9. PingInTime' /\ DueSoon'
  BY <1>1, <1>3 DEF PingInTime, DueSoon
<1>10. SilenceMeasured' /\ SendsInTime' /\ AnsweredIsKept'
  BY <1>1 DEF KeepInv, SilenceMeasured, SendsInTime, Elapsed, AnsweredIsKept, Quick
<1> QED BY <1>5, <1>6, <1>7, <1>8, <1>9, <1>10 DEF KeepInv

\* Time passes for all alike, and what is due is not put off.
LEMMA TickKeeps ==
    ASSUME KeepInv, Tick
    PROVE  KeepInv'
<1>1. /\ connected /\ left # 0
      /\ inFlight # <<>> => Head(inFlight).due # 0
      /\ packets # <<>> => busy # 0
  BY DEF Tick, Due
<1>2. /\ left' = left - 1 /\ busy' = Less(busy)
      /\ sinceHeard' = sinceHeard + 1 /\ sinceSent' = sinceSent + 1
      /\ dead => sinceDead' = sinceDead + 1
      /\ ~dead => sinceDead' = 0
      /\ UNCHANGED <<connected, counter, packets, dead, gaveUp>>
  BY DEF Tick
<1>3. TypeOK /\ DueSoon /\ Fits
  BY DEF KeepInv
<1>4. /\ inFlight \in Seq(Item) /\ packets \in Seq(Received)
      /\ Len(inFlight) \in Nat /\ Len(packets) \in Nat
      /\ DOMAIN inFlight = 1..Len(inFlight) /\ DOMAIN packets = 1..Len(packets)
      /\ sinceSent \in Nat /\ sinceHeard \in Nat /\ sinceDead \in Nat
      /\ left \in 0..Half /\ busy \in 0..MaxBusy
      /\ \A i \in DOMAIN inFlight : inFlight[i].due \in Nat /\ inFlight[i].cmd \in Received
  BY <1>3, KeptTypes
<1>5. \A n \in Nat : Less(n) \in Nat /\ Less(n) <= n /\ (n # 0 => Less(n) = n - 1)
  BY DEF Less
<1>6. PICK f : f = inFlight'
  OBVIOUS
<1>7. /\ DOMAIN f = DOMAIN inFlight
      /\ \A i \in DOMAIN inFlight : /\ f[i] \in Item /\ f[i].cmd = inFlight[i].cmd
                                    /\ f[i].due = Less(inFlight[i].due)
  <2>1. f = [i \in DOMAIN inFlight |-> [inFlight[i] EXCEPT !.due = Less(@)]]
    BY <1>6 DEF Tick
  <2>2. \A i \in DOMAIN inFlight : inFlight[i] \in Item
    BY <1>4
  <2>3. \A i \in DOMAIN inFlight : Less(inFlight[i].due) \in Nat
    BY <1>4, <1>5
  <2> HIDE DEF Less
  <2> QED BY <2>1, <2>2, <2>3 DEF Item
<1>8. f \in Seq(Item) /\ Len(f) = Len(inFlight)
  BY <1>4, <1>6, <1>7 DEF Tick
<1>9. PICK b : b = busy'
  OBVIOUS
<1>10. b \in 0..MaxBusy /\ (packets # <<>> => b = busy - 1)
  BY <1>1, <1>2, <1>4, <1>5, <1>9, Numbers
<1>11. ASSUME NEW c \in Nat, NEW i \in DOMAIN inFlight, Arrives(inFlight, c, i)
       PROVE  Arrives(f, c + 1, i)
  <2>1. 1 \in 1..i /\ 1 \in DOMAIN inFlight /\ inFlight # <<>> /\ i \in 1..Len(inFlight)
    BY <1>4, EmptySeq
  <2>2. inFlight[1].due # 0
    BY <1>1, <1>4, <2>1, HeadTailProperties
  <2>3. c + inFlight[1].due <= MaxDelay /\ inFlight[1].due \in Nat
    BY <1>4, <1>11, <2>1 DEF Arrives
  <2>4. c + 1 <= MaxDelay
    BY <2>2, <2>3, Numbers
  <2>5. ASSUME NEW j \in 1..i PROVE (c + 1) + f[j].due <= MaxDelay
    <3>1. j \in DOMAIN inFlight /\ inFlight[j].due \in Nat
      BY <1>4, <2>1
    <3>2. c + inFlight[j].due <= MaxDelay
      BY <1>11 DEF Arrives
    <3>3. f[j].due = Less(inFlight[j].due)
      BY <1>7, <3>1
    <3>4. CASE inFlight[j].due = 0
      <4>1. Less(inFlight[j].due) = 0
        BY <3>4 DEF Less
      <4> QED BY <2>4, <3>3, <4>1, Numbers
    <3>5. CASE inFlight[j].due # 0
      <4>1. Less(inFlight[j].due) = inFlight[j].due - 1
        BY <3>5 DEF Less
      <4> QED BY <3>1, <3>2, <3>3, <4>1, Numbers
    <3> QED BY <3>4, <3>5
  <2> QED BY <2>5 DEF Arrives
<1>12. \A k \in 1..(Len(packets) + 1) :
         Ahead(packets, busy, k) \in Nat /\ Ahead(packets, busy, k) <= Backlog
  BY <1>3, WorkIsBounded
<1>13. ASSUME NEW k \in 1..(Len(packets) + 1), packets # <<>>
       PROVE  Ahead(packets, b, k) = Ahead(packets, busy, k) - 1
  <2> DEFINE n == Cost(Count(PublishesOf(packets), k))
  <2>1. n \in Nat
    <3>1. k \in Nat \ {0}
      BY <1>4
    <3> QED BY <3>1, CountType, CostGrows
  <2>2. Ahead(packets, b, k) = b + n /\ Ahead(packets, busy, k) = busy + n
    BY DEF Ahead
  <2> HIDE DEF n
  <2> QED BY <1>4, <1>10, <1>13, <2>1, <2>2
<1>14. ASSUME NEW c \in Nat, NEW k \in DOMAIN packets, IsHandled(packets, busy, c, k)
       PROVE  IsHandled(packets, b, c + 1, k)
  <2>1. packets # <<>> /\ k \in 1..(Len(packets) + 1)
    BY <1>4, EmptySeq
  <2>2. Ahead(packets, b, k) = Ahead(packets, busy, k) - 1 /\ Ahead(packets, busy, k) \in Nat
    BY <1>12, <1>13, <2>1
  <2>3. c + Ahead(packets, busy, k) <= Soon
    BY <1>14 DEF IsHandled
  <2>4. (c + 1) + Ahead(packets, b, k) <= Soon
    BY <2>2, <2>3, Numbers
  <2> QED BY <2>4 DEF IsHandled
<1>15. Fits'
  <2>1. \A j \in 1..Len(inFlight) : j \in FlyingOf(inFlight) <=> j \in FlyingOf(f)
    BY <1>4, <1>7 DEF FlyingOf
  <2>2. (Len(inFlight) + 1) - 1 = Len(inFlight) /\ Len(inFlight) + 1 \in Nat \ {0}
    BY <1>4
  <2>3. Count(FlyingOf(f), Len(inFlight) + 1) = Count(FlyingOf(inFlight), Len(inFlight) + 1)
    BY <2>1, <2>2, CountSame
  <2> QED BY <1>2, <1>3, <1>6, <1>8, <2>3 DEF Fits
<1>16. DueSoon'
  <2>1. \A i \in DOMAIN f : f[i].due <= inFlight[i].due /\ f[i].due \in Nat
    BY <1>4, <1>5, <1>7
  <2>2. \A i \in DOMAIN f : inFlight[i].due <= MaxDelay /\ inFlight[i].due \in Nat
    BY <1>3, <1>4, <1>7 DEF DueSoon
  <2>3. \A i \in DOMAIN f : f[i].due <= MaxDelay
    BY <2>1, <2>2, Numbers
  <2> QED BY <1>6, <2>3 DEF DueSoon
<1>17. TypeOK'
  <2>1. inFlight' \in Seq([cmd : Received, due : Nat]) /\ busy' \in 0..MaxBusy
    BY <1>6, <1>8, <1>9, <1>10 DEF Item
  <2>2. left' \in 0..Half /\ sinceHeard' \in Nat /\ sinceSent' \in Nat
    BY <1>1, <1>2, <1>4, Numbers
  <2>3. sinceDead' \in Nat
    BY <1>2, <1>4
  <2>4. connected' \in BOOLEAN /\ dead' \in BOOLEAN /\ gaveUp' \in BOOLEAN
        /\ counter' \in 0..2 /\ packets' \in Seq(Received)
    BY <1>2, <1>3 DEF TypeOK
  <2> QED BY <2>1, <2>2, <2>3, <2>4 DEF TypeOK
<1>18. SilenceMeasured'
  <2>1. /\ counter = 0 => sinceHeard + left = Half
        /\ counter = 1 => sinceHeard + left = 2 * Half
        /\ counter = 2 => sinceHeard + left = 3 * Half
    BY <1>1 DEF KeepInv, SilenceMeasured
  <2>2. sinceHeard' + left' = sinceHeard + left
    BY <1>2, <1>4, Numbers
  <2> QED BY <1>2, <2>1, <2>2 DEF SilenceMeasured
<1>19. DeadEnds'
  <2>1. dead => /\ inFlight = <<>> /\ sinceDead <= Backlog + sinceHeard
                /\ packets # <<>> =>
                     sinceDead + Ahead(packets, busy, Len(packets) + 1) <= Backlog
    BY <1>1 DEF KeepInv, DeadEnds
  <2>2. dead => f = <<>>
    BY <1>8, <2>1, EmptySeq
  <2>3. dead => sinceDead' <= Backlog + sinceHeard'
    BY <1>2, <1>4, <2>1, Numbers
  <2>4. Len(packets) + 1 \in 1..(Len(packets) + 1)
    BY <1>4
  <2>5. dead /\ packets # <<>> =>
          sinceDead' + Ahead(packets, b, Len(packets) + 1) <= Backlog
    <3>1. packets # <<>> => /\ Ahead(packets, b, Len(packets) + 1) =
                                 Ahead(packets, busy, Len(packets) + 1) - 1
                            /\ Ahead(packets, busy, Len(packets) + 1) \in Nat
      BY <1>12, <1>13, <2>4
    <3> QED BY <1>2, <1>4, <2>1, <3>1, Numbers
  <2> QED BY <1>2, <1>6, <1>9, <2>2, <2>3, <2>5 DEF DeadEnds
<1>20. AnswersInTime'
  <2>1. \A i \in DOMAIN f : f[i].cmd # "publish" => Arrives(f, sinceSent + 1, i)
    BY <1>1, <1>4, <1>7, <1>11 DEF KeepInv, AnswersInTime
  <2>2. \A k \in DOMAIN packets :
          packets[k] # "publish" => IsHandled(packets, b, sinceSent + 1, k)
    BY <1>1, <1>4, <1>14 DEF KeepInv, AnswersInTime
  <2> QED BY <1>2, <1>6, <1>9, <2>1, <2>2 DEF AnswersInTime
<1>21. Elapsed' = Elapsed + 1 /\ Elapsed \in Nat
  BY <1>2, <1>4, Numbers DEF Elapsed
<1>22. PingInTime'
  <2>1. \A i \in DOMAIN inFlight :
          inFlight[i].cmd = "pingresp" /\ Arrives(inFlight, Elapsed, i) =>
            i \in DOMAIN f /\ f[i].cmd = "pingresp" /\ Arrives(f, Elapsed + 1, i)
    BY <1>7, <1>11, <1>21
  <2>2. \A k \in DOMAIN packets :
          IsHandled(packets, busy, Elapsed, k) => IsHandled(packets, b, Elapsed + 1, k)
    BY <1>14, <1>21
  <2>3. connected /\ ~dead /\ counter = 2 =>
          \/ \E i \in DOMAIN f : f[i].cmd = "pingresp" /\ Arrives(f, Elapsed + 1, i)
          \/ \E k \in DOMAIN packets :
               packets[k] = "pingresp" /\ IsHandled(packets, b, Elapsed + 1, k)
    BY <2>1, <2>2 DEF KeepInv, PingInTime
  <2> QED BY <1>2, <1>6, <1>9, <1>21, <2>3 DEF PingInTime
<1>23. SendsInTime'
  <2>1. /\ counter \in {0, 1} => sinceSent <= sinceHeard + Soon
        /\ counter = 2 => sinceSent <= Elapsed
    BY <1>1 DEF KeepInv, SendsInTime
  <2>2. counter \in {0, 1} => sinceSent' <= sinceHeard' + Soon
    BY <1>2, <1>4, <2>1, Numbers
  <2>3. counter = 2 => sinceSent' <= Elapsed'
    BY <1>2, <1>4, <1>21, <2>1
  <2> QED BY <1>2, <2>2, <2>3 DEF SendsInTime
<1>24. AnsweredIsKept'
  BY <1>2 DEF KeepInv, AnsweredIsKept, Quick
<1> QED BY <1>15, <1>16, <1>17, <1>18, <1>19, <1>20, <1>22, <1>23, <1>24 DEF KeepInv

LEMMA StutterKeeps ==
    ASSUME KeepInv, UNCHANGED vars
    PROVE  KeepInv'
<1>1. UNCHANGED <<connected, left, counter, sinceHeard, inFlight, dead, sinceDead, packets,
                  busy, sinceSent, gaveUp>>
  BY DEF vars, timerVars, netVars, workVars
<1>2. TypeOK' /\ SilenceMeasured' /\ Fits' /\ DueSoon' /\ DeadEnds'
  BY <1>1 DEF KeepInv, TypeOK, SilenceMeasured, Fits, DueSoon, DeadEnds
<1>3. AnswersInTime' /\ PingInTime' /\ SendsInTime' /\ AnsweredIsKept'
  BY <1>1 DEF KeepInv, AnswersInTime, PingInTime, SendsInTime, Elapsed, AnsweredIsKept, Quick
<1> QED BY <1>2, <1>3 DEF KeepInv

LEMMA KeepInit ==
    ASSUME Init
    PROVE  KeepInv
<1>1. /\ connected = FALSE /\ left = 0 /\ counter = 0 /\ inFlight = <<>> /\ packets = <<>>
      /\ busy = 0 /\ dead = FALSE /\ sinceHeard = 0 /\ sinceSent = 0 /\ sinceDead = 0
      /\ gaveUp = FALSE
  BY DEF Init
<1>2. DOMAIN inFlight = {} /\ Len(inFlight) = 0 /\ Len(packets) = 0
  BY <1>1, EmptySeq
<1>3. Fits
  BY <1>2, CountFirst, Numbers DEF Fits
<1>4. TypeOK
  <2>1. inFlight \in Seq([cmd : Received, due : Nat]) /\ packets \in Seq(Received)
    BY <1>1
  <2>2. left \in 0..Half /\ counter \in 0..2 /\ busy \in 0..MaxBusy
    BY <1>1, Numbers
  <2>3. sinceHeard \in Nat /\ sinceSent \in Nat /\ sinceDead \in Nat
    BY <1>1
  <2> QED BY <1>1, <2>1, <2>2, <2>3 DEF TypeOK
<1>5. SilenceMeasured /\ DueSoon /\ DeadEnds /\ AnswersInTime /\ PingInTime /\ SendsInTime
  BY <1>1, <1>2
  DEF SilenceMeasured, DueSoon, DeadEnds, AnswersInTime, PingInTime, SendsInTime
<1>6. AnsweredIsKept
  BY <1>1 DEF AnsweredIsKept
<1> QED BY <1>3, <1>4, <1>5, <1>6 DEF KeepInv

\* The invariant holds whatever the interval, the delays and the handlers.
LEMMA KeepsInvariant == Spec => []KeepInv
<1>1. Init => KeepInv
  BY KeepInit
<1>2. KeepInv /\ [Next]_vars => KeepInv'
  <2> SUFFICES ASSUME KeepInv, [Next]_vars PROVE KeepInv'
    OBVIOUS
  <2>1. CASE Connack
    BY <2>1, ConnackKeeps
  <2>2. CASE Interval
    BY <2>2, IntervalKeeps
  <2>3. CASE ClientSends
    BY <2>3, ClientSendsKeeps
  <2>4. CASE BrokerPublishes
    BY <2>4, BrokerPublishesKeeps
  <2>5. CASE Receive
    BY <2>5, ReceiveKeeps
  <2>6. CASE Handle
    BY <2>6, HandleKeeps
  <2>7. CASE GoesDead
    BY <2>7, GoesDeadKeeps
  <2>8. CASE Tick
    BY <2>8, TickKeeps
  <2>9. CASE UNCHANGED vars
    BY <2>9, StutterKeeps
  <2> QED BY <2>1, <2>2, <2>3, <2>4, <2>5, <2>6, <2>7, <2>8, <2>9 DEF Next
<1> QED BY <1>1, <1>2, PTL DEF Spec

-----------------------------------------------------------------------------
(***************************************************************************)
(* A connection from which nothing is heard is given up within one and a   *)
(* half keepalives, and one that is half open within that and a backlog:   *)
(* the counter and the interval measure the silence (KeepaliveManager.ts). *)
(***************************************************************************)
THEOREM DeadIsFoundAlways == Spec => []DeadIsFound
<1>1. KeepInv => DeadIsFound
  <2> SUFFICES ASSUME KeepInv, connected
               PROVE  sinceHeard <= 3 * Half /\ sinceDead <= 3 * Half + Backlog
    BY DEF DeadIsFound, SilentIsFound
  <2>1. counter \in 0..2 /\ left \in 0..Half /\ sinceHeard \in Nat /\ sinceDead \in Nat
    BY DEF KeepInv, TypeOK
  <2>2. sinceHeard <= 3 * Half
    <3>1. /\ counter = 0 => sinceHeard + left = Half
          /\ counter = 1 => sinceHeard + left = 2 * Half
          /\ counter = 2 => sinceHeard + left = 3 * Half
      BY DEF KeepInv, SilenceMeasured
    <3> QED BY <2>1, <3>1, Numbers
  <2>3. sinceDead = 0 \/ sinceDead <= Backlog + sinceHeard
    BY DEF KeepInv, DeadEnds
  <2> QED BY <2>1, <2>2, <2>3, Numbers
<1> QED BY <1>1, KeepsInvariant, PTL

(***************************************************************************)
(* A connection whose answers arrive and are handled within half a         *)
(* keepalive is never given up: when the interval would give it up, the    *)
(* answer to its PINGREQ is still on time (onKeepaliveTimeout).            *)
(***************************************************************************)
THEOREM AnsweredIsKeptAlways == Spec => []AnsweredIsKept
<1>1. KeepInv => AnsweredIsKept
  BY DEF KeepInv
<1> QED BY <1>1, KeepsInvariant, PTL

(***************************************************************************)
(* The broker hears of the client within one and a half keepalives, though *)
(* acks put the PINGREQ off: an ack that counts answers a packet that was  *)
(* sent a short time before (reschedulePings).                             *)
(***************************************************************************)
THEOREM BrokerHearsAlways == Spec => []BrokerHears
<1>1. KeepInv => BrokerHears
  <2> SUFFICES ASSUME KeepInv, connected, Quick PROVE sinceSent < 3 * Half
    BY DEF BrokerHears
  <2>1. counter \in 0..2 /\ left \in 0..Half /\ sinceHeard \in Nat /\ sinceSent \in Nat
    BY DEF KeepInv, TypeOK
  <2>2. Soon < Half
    BY Numbers DEF Quick
  <2>3. CASE counter \in {0, 1}
    <3>1. sinceSent <= sinceHeard + Soon
      BY <2>3 DEF KeepInv, SendsInTime
    <3>2. sinceHeard + left = Half \/ sinceHeard + left = 2 * Half
      BY <2>3 DEF KeepInv, SilenceMeasured
    <3> QED BY <2>1, <2>2, <3>1, <3>2, Numbers
  <2>4. CASE counter = 2
    <3>1. sinceSent <= Half - left
      BY <2>4 DEF KeepInv, SendsInTime, Elapsed
    <3> QED BY <2>1, <3>1, Numbers
  <2> QED BY <2>1, <2>3, <2>4
<1> QED BY <1>1, KeepsInvariant, PTL
=============================================================================
