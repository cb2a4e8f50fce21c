------------------------- MODULE CallOrder_proofs --------------------------
(***************************************************************************)
(* Calls begin in the order they were made, nothing interrupts a replay,   *)
(* and what waits for its end is released, for every set of calls, every   *)
(* number of identifiers and every order of acks, losses and removals.     *)
(***************************************************************************)
EXTENDS OutgoingSession_proofs

-----------------------------------------------------------------------------
(***************************************************************************)
(* The invariant.  That no call has begun over a waiting one is not        *)
(* inductive: it also takes that the waiting calls stand in the order they *)
(* were made, and that what has begun or waits was made.                   *)
(***************************************************************************)
Comes(is, q, r) == \E i, j \in DOMAIN is : i < j /\ is[i] = q /\ is[j] = r
Ordered(is, s) == \A k, l \in DOMAIN s : Comes(is, s[k].req, s[l].req) => k < l

HeldWasIssued == \A r \in Requests : HasBegun(r) \/ In(spq, r) => WasIssued(r)
WaitInOrder == Ordered(issued, spq)
NoneOvertakes ==
    \A q \in Requests : \A r \in Requests :
      Comes(issued, q, r) /\ In(spq, q) => ~HasBegun(r)
OrderInv == HeldWasIssued /\ WaitInOrder /\ NoneOvertakes

\* No call but r begins in the step.
BeginsNoneBut(r) == \A q \in Requests \ {r} : HasBegun(q)' => HasBegun(q)

-----------------------------------------------------------------------------
(* What the steps of the client begin. *)

\* A packet of a request that is not a call waiting to begin joins a queue.
LEMMA JoinsOnly ==
    ASSUME NEW S, NEW s \in Seq(S), NEW e \in S, NEW t, t = s \/ t = Append(s, e), NEW q
    PROVE  In(t, q) => In(s, q) \/ e.req = q
<1>1. CASE t = s
  BY <1>1
<1>2. CASE t = Append(s, e)
  BY <1>2, AppendHeld
<1> QED BY <1>1, <1>2

\* Success is noted of the callback's owner.
LEMMA SucceedsOnly ==
    ASSUME NEW r \in Owners, NEW good, CallBack(r, good), NEW q \in Requests,
           q \in succeeded'
    PROVE  q \in succeeded \/ q = r
BY DEF CallBack

LEMMA PublishQoS0Begins ==
    ASSUME TypeOK, NEW r \in Requests, PublishQoS0(r)
    PROVE  BeginsNoneBut(r)
<1> DEFINE p == [cmd |-> "publish", id |-> 0, req |-> r]
           w == [req |-> r, deliver |-> FALSE]
<1>1. /\ r \in Owners /\ p \in Packet /\ w \in Parked
      /\ queue \in Seq(Packet) /\ parked \in Seq(Parked)
  BY DEF TypeOK, Owners, Packet, Parked
<1>2. UNCHANGED outgoing
  BY DEF PublishQoS0
<1>3. queue' = queue \/ queue' = Append(queue, p)
  BY DEF PublishQoS0
<1>4. parked' = parked \/ parked' = Append(parked, w)
  BY DEF PublishQoS0
<1>5. UNCHANGED cbVars \/ \E good \in BOOLEAN : CallBack(r, good)
  BY DEF PublishQoS0
<1>6. p.req = r /\ w.req = r
  OBVIOUS
<1> HIDE DEF p, w
<1>7. ASSUME NEW q \in Requests \ {r}, HasBegun(q)' PROVE HasBegun(q)
  <2>1. ASSUME NEW t, t = queue' PROVE In(t, q) => In(queue, q)
    BY <1>1, <1>3, <1>6, <2>1, JoinsOnly
  <2>2. ASSUME NEW t, t = parked' PROVE In(t, q) => In(parked, q)
    BY <1>1, <1>4, <1>6, <2>2, JoinsOnly
  <2>3. In(queue, q)' => In(queue, q)
    BY <2>1 DEF In
  <2>4. In(parked, q)' => In(parked, q)
    BY <2>2 DEF In
  <2>5. InOutgoing(q)' => InOutgoing(q)
    BY <1>2 DEF InOutgoing
  <2>6. q \in succeeded' => q \in succeeded
    BY <1>1, <1>5, SucceedsOnly DEF cbVars
  <2> QED BY <1>7, <2>3, <2>4, <2>5, <2>6 DEF HasBegun
<1> QED BY <1>7 DEF BeginsNoneBut

\* Any other call takes an entry of the table.
LEMMA EntryBegins ==
    ASSUME TypeOK, NEW r \in Owners, NEW id, NEW v, v.req = r,
           outgoing' = With(outgoing, id, v),
           NEW p \in Packet, p.req = r, queue' = queue \/ queue' = Append(queue, p),
           UNCHANGED <<parked, succeeded>>
    PROVE  BeginsNoneBut(r)
<1>1. queue \in Seq(Packet)
  BY DEF TypeOK
<1>2. ASSUME NEW q \in Requests \ {r}, HasBegun(q)' PROVE HasBegun(q)
  <2>1. ASSUME NEW t, t = queue' PROVE In(t, q) => In(queue, q)
    BY <1>1, <2>1, JoinsOnly
  <2>2. In(queue, q)' => In(queue, q)
    BY <2>1 DEF In
  <2>3. In(parked, q)' => In(parked, q)
    BY DEF In
  <2>4. InOutgoing(q)' => InOutgoing(q)
    BY TableHeld
  <2> QED BY <1>2, <2>2, <2>3, <2>4 DEF HasBegun
<1> QED BY <1>2 DEF BeginsNoneBut

LEMMA BeginBegins ==
    ASSUME TypeOK, NEW w \in Waiting, Begin(w)
    PROVE  BeginsNoneBut(w.req)
<1> DEFINE r == w.req
<1>1. r \in Owners
  BY DEF Waiting
<1>2. CASE KindOf(r) = "qos0" /\ PublishQoS0(r)
  <2>1. r \in Requests
    BY <1>1, <1>2 DEF KindOf, Owners
  <2> QED BY <1>2, <2>1, PublishQoS0Begins
<1>3. CASE PublishStored(r)
  <2>1. PICK id \in Ids :
          /\ outgoing' = With(outgoing, id, [req |-> r, volatile |-> FALSE, replay |-> FALSE])
          /\ UNCHANGED <<queue, parked, cbVars>>
    BY <1>3 DEF PublishStored
  <2>2. [cmd |-> "pubrel", id |-> id, req |-> r] \in Packet
    BY <1>1, Parameters DEF Packet, Ids
  <2> QED BY <1>1, <2>1, <2>2, EntryBegins DEF cbVars
<1>4. ASSUME NEW cmd \in {"subscribe", "unsubscribe"}, NEW id \in Ids, SendVolatile(cmd, id, r)
      PROVE  BeginsNoneBut(r)
  <2> DEFINE p == [cmd |-> cmd, id |-> id, req |-> r]
  <2>1. p \in Packet /\ p.req = r
    BY <1>1, Parameters DEF Packet, Ids
  <2>2. /\ outgoing' = With(outgoing, id, [req |-> r, volatile |-> TRUE, replay |-> FALSE])
        /\ queue' = queue \/ queue' = Append(queue, p)
        /\ UNCHANGED <<parked, cbVars>>
    BY <1>4 DEF SendVolatile
  <2> HIDE DEF p
  <2> QED BY <1>1, <2>1, <2>2, EntryBegins DEF cbVars
<1>5. CASE SubscribeProc(w)
  BY <1>4, <1>5 DEF SubscribeProc
<1>6. CASE UnsubscribeProc(w)
  BY <1>4, <1>6 DEF UnsubscribeProc
<1> QED BY <1>2, <1>3, <1>5, <1>6 DEF Begin

\* An entry leaves the table and its callback runs.
LEMMA EntryEnds ==
    ASSUME TypeOK, NEW id \in DOMAIN outgoing, NEW good,
           outgoing' = Without(outgoing, id), CallBack(outgoing[id].req, good),
           UNCHANGED <<queue, parked>>
    PROVE  BeginsNoneBut(Nobody)
<1>1. ASSUME NEW q \in Requests, HasBegun(q)' PROVE HasBegun(q)
  <2>1. InOutgoing(q)' => InOutgoing(q)
    BY DEF Without, InOutgoing
  <2>2. (In(queue, q)' <=> In(queue, q)) /\ (In(parked, q)' <=> In(parked, q))
    BY DEF In
  <2>3. q \in succeeded' => q \in succeeded \/ InOutgoing(q)
    BY InFlightType, SucceedsOnly DEF InOutgoing
  <2> QED BY <1>1, <2>1, <2>2, <2>3 DEF HasBegun
<1> QED BY <1>1 DEF BeginsNoneBut

LEMMA AckBegins ==
    ASSUME TypeOK, Ack
    PROVE  BeginsNoneBut(Nobody)
<1>1. ASSUME NEW id \in DOMAIN outgoing, NEW good, RemoveOutgoingAndStoreMessage(id, good)
      PROVE  BeginsNoneBut(Nobody)
  BY <1>1, EntryEnds DEF RemoveOutgoingAndStoreMessage
<1>2. ASSUME NEW id \in DOMAIN outgoing, NEW good, FinishVolatile(id, good)
      PROVE  BeginsNoneBut(Nobody)
  BY <1>2, EntryEnds DEF FinishVolatile
<1>3. ASSUME NEW id \in Ids, NEW good \in BOOLEAN, HandlePubrec(id, good)
      PROVE  BeginsNoneBut(Nobody)
  <2> DEFINE p == [cmd |-> "pubrel", id |-> id, req |-> outgoing[id].req]
  <2>1. id \in DOMAIN outgoing
    BY <1>3 DEF HandlePubrec, Acknowledged
  <2>2. CASE good
    <3>1. /\ queue' = queue \/ queue' = Append(queue, p)
          /\ UNCHANGED <<outgoing, parked, succeeded>>
      BY <1>3, <2>2 DEF HandlePubrec, cbVars
    <3>2. p \in Packet /\ queue \in Seq(Packet) /\ p.req = outgoing[id].req
      BY <2>1, InFlightType, Parameters DEF Packet, Ids, TypeOK
    <3> HIDE DEF p
    <3>3. ASSUME NEW q \in Requests, HasBegun(q)' PROVE HasBegun(q)
      <4>1. ASSUME NEW t, t = queue' PROVE In(t, q) => In(queue, q) \/ InOutgoing(q)
        BY <2>1, <3>1, <3>2, <4>1, JoinsOnly DEF InOutgoing
      <4>2. In(queue, q)' => In(queue, q) \/ InOutgoing(q)
        BY <4>1 DEF In
      <4>3. (In(parked, q)' <=> In(parked, q)) /\ (InOutgoing(q)' <=> InOutgoing(q))
        BY <3>1 DEF In, InOutgoing
      <4> QED BY <3>1, <3>3, <4>2, <4>3 DEF HasBegun
    <3> QED BY <3>3 DEF BeginsNoneBut
  <2>3. CASE ~good
    BY <1>1, <1>3, <2>1, <2>3 DEF HandlePubrec
  <2> QED BY <2>2, <2>3
<1> QED
  BY <1>1, <1>2, <1>3
  DEF Ack, HandlePuback, HandleSuback, HandleUnsuback, Acknowledged

\* A packet leaves the offline queue.
LEMMA SendQueuedBegins ==
    ASSUME TypeOK, queue # <<>>, SendQueued(Head(queue)), queue' = Tail(queue),
           UNCHANGED outgoing
    PROVE  BeginsNoneBut(Nobody)
<1>1. queue \in Seq(Packet) /\ Head(queue) \in Packet /\ parked \in Seq(Parked)
  BY HeadTailProperties DEF TypeOK
<1>2. PICK r \in Owners : r = IF Head(queue).cmd = "publish" THEN Head(queue).req ELSE Nobody
  BY <1>1 DEF Owners, Packet
<1>3. PICK w \in Parked : w = [req |-> r, deliver |-> TRUE]
  BY DEF Parked
<1>4. \/ CallBack(r, TRUE) /\ UNCHANGED parked
      \/ parked' = Append(parked, w) /\ UNCHANGED cbVars
  BY <1>2, <1>3 DEF SendQueued
<1>5. ASSUME NEW q \in Requests, HasBegun(q)' PROVE HasBegun(q)
  <2>1. q = r => In(queue, q)
    <3>1. q # Nobody
      BY Parameters
    <3> QED BY <1>1, <1>2, <3>1, TailHeld
  <2>2. In(queue, q)' => In(queue, q)
    <3>1. In(Tail(queue), q) => In(queue, q)
      BY <1>1, TailHeld
    <3> QED BY <3>1 DEF In
  <2>3. InOutgoing(q)' => InOutgoing(q)
    BY DEF InOutgoing
  <2>4. q \in succeeded' => q \in succeeded \/ q = r
    BY <1>4, SucceedsOnly DEF cbVars
  <2>5. In(parked, q)' => In(parked, q) \/ q = r
    <3>1. w.req = r /\ (parked' = parked \/ parked' = Append(parked, w))
      BY <1>3, <1>4 DEF cbVars
    <3>2. ASSUME NEW t, t = parked' PROVE In(t, q) => In(parked, q) \/ q = r
      BY <1>1, <3>1, <3>2, JoinsOnly
    <3> QED BY <3>2 DEF In
  <2> QED BY <1>5, <2>1, <2>2, <2>3, <2>4, <2>5 DEF HasBegun
<1> QED BY <1>5 DEF BeginsNoneBut

LEMMA DrainBegins ==
    ASSUME TypeOK, Drain
    PROVE  BeginsNoneBut(Nobody)
<1>1. /\ parked # <<>> /\ parked' = Tail(parked) /\ CallBack(Head(parked).req, TRUE)
      /\ UNCHANGED <<outgoing, queue>>
  BY DEF Drain
<1>2. parked \in Seq(Parked) /\ Head(parked) \in Parked
  BY <1>1, HeadTailProperties DEF TypeOK
<1>3. PICK r \in Owners : r = Head(parked).req
  BY <1>2 DEF Parked
<1>4. ASSUME NEW q \in Requests, HasBegun(q)' PROVE HasBegun(q)
  <2>1. (q = r => In(parked, q)) /\ (In(Tail(parked), q) => In(parked, q))
    BY <1>1, <1>2, <1>3, TailHeld
  <2>2. In(parked, q)' => In(parked, q)
    BY <1>1, <2>1 DEF In
  <2>3. (InOutgoing(q)' <=> InOutgoing(q)) /\ (In(queue, q)' <=> In(queue, q))
    BY <1>1 DEF InOutgoing, In
  <2>4. q \in succeeded' => q \in succeeded \/ q = r
    BY <1>1, <1>3, SucceedsOnly
  <2> QED BY <1>4, <2>1, <2>2, <2>3, <2>4 DEF HasBegun
<1> QED BY <1>4 DEF BeginsNoneBut

\* A step that leaves the owners of the entries alone and runs no callback.
LEMMA OwnersBegin ==
    ASSUME \A id \in DOMAIN outgoing' :
             \/ id \in DOMAIN outgoing /\ outgoing'[id].req = outgoing[id].req
             \/ outgoing'[id].req = Nobody,
           UNCHANGED <<queue, succeeded>>, parked' = parked \/ parked' = <<>>
    PROVE  BeginsNoneBut(Nobody)
<1>1. ASSUME NEW q \in Requests, HasBegun(q)' PROVE HasBegun(q)
  <2>1. q # Nobody
    BY Parameters
  <2>2. InOutgoing(q)' => InOutgoing(q)
    BY <2>1 DEF InOutgoing
  <2>3. (In(queue, q)' <=> In(queue, q)) /\ (In(parked, q)' => In(parked, q))
    BY DEF In
  <2> QED BY <1>1, <2>2, <2>3 DEF HasBegun
<1> QED BY <1>1 DEF BeginsNoneBut

-----------------------------------------------------------------------------
(* What the steps leave of the order. *)

LEMMA TailOrdered ==
    ASSUME NEW is, NEW s \in Seq(Waiting), s # <<>>, Ordered(is, s)
    PROVE  Ordered(is, Tail(s))
<1> DEFINE t == Tail(s)
<1>1. /\ Len(s) \in Nat \ {0} /\ DOMAIN s = 1..Len(s) /\ DOMAIN t = 1..(Len(s) - 1)
      /\ \A i \in 1..(Len(s) - 1) : t[i] = s[i + 1]
  BY HeadTailProperties, EmptySeq
<1> HIDE DEF t
<1>2. ASSUME NEW i \in DOMAIN t PROVE i \in Nat /\ i + 1 \in DOMAIN s /\ t[i] = s[i + 1]
  BY <1>1
<1>3. ASSUME NEW k \in DOMAIN t, NEW l \in DOMAIN t, Comes(is, t[k].req, t[l].req)
      PROVE  k < l
  <2>1. k + 1 < l + 1
    BY <1>2, <1>3 DEF Ordered
  <2> QED BY <1>2, <2>1
<1>4. Ordered(is, t)
  BY <1>3 DEF Ordered
<1> QED BY <1>4 DEF t

LEMMA AppendOrdered ==
    ASSUME NEW is, NEW s \in Seq(Waiting), NEW w \in Waiting, Ordered(is, s),
           \A q : ~Comes(is, w.req, q)
    PROVE  Ordered(is, Append(s, w))
<1> DEFINE t == Append(s, w)
<1>1. /\ Len(s) \in Nat /\ DOMAIN s = 1..Len(s) /\ DOMAIN t = 1..(Len(s) + 1)
      /\ \A i \in 1..Len(s) : t[i] = s[i]
      /\ t[Len(s) + 1] = w
  BY AppendProperties
<1> HIDE DEF t
<1>2. ASSUME NEW k \in DOMAIN t, NEW l \in DOMAIN t, Comes(is, t[k].req, t[l].req)
      PROVE  k < l
  <2>1. k # Len(s) + 1
    BY <1>1, <1>2
  <2>2. k \in DOMAIN s /\ t[k] = s[k]
    BY <1>1, <2>1
  <2>3. CASE l = Len(s) + 1
    BY <1>1, <2>2, <2>3
  <2>4. CASE l # Len(s) + 1
    <3>1. l \in DOMAIN s /\ t[l] = s[l]
      BY <1>1, <2>4
    <3> QED BY <1>2, <2>2, <3>1 DEF Ordered
  <2> QED BY <2>3, <2>4
<1>3. Ordered(is, t)
  BY <1>2 DEF Ordered
<1> QED BY <1>3 DEF t

\* A call that is made comes after all others and before none.
LEMMA ComesLast ==
    ASSUME NEW is \in Seq(Requests), NEW r \in Requests, ~\E i \in DOMAIN is : is[i] = r,
           NEW q, NEW s, Comes(Append(is, r), q, s)
    PROVE  q # r /\ (Comes(is, q, s) \/ s = r)
<1> DEFINE t == Append(is, r)
<1>1. /\ DOMAIN is = 1..Len(is) /\ DOMAIN t = 1..(Len(is) + 1)
      /\ Len(is) \in Nat /\ \A i \in 1..Len(is) : t[i] = is[i]
      /\ t[Len(is) + 1] = r
  BY AppendProperties
<1> HIDE DEF t
<1>2. Comes(t, q, s)
  BY DEF t
<1>3. PICK i \in DOMAIN t, j \in DOMAIN t : i < j /\ t[i] = q /\ t[j] = s
  BY <1>2 DEF Comes
<1>4. i \in DOMAIN is /\ is[i] = q
  BY <1>1, <1>3
<1>5. CASE j \in DOMAIN is
  <2>1. is[j] = s
    BY <1>1, <1>3, <1>5
  <2> QED BY <1>3, <1>4, <1>5, <2>1 DEF Comes
<1>6. CASE j = Len(is) + 1
  BY <1>1, <1>3, <1>4, <1>6
<1> QED BY <1>1, <1>5, <1>6

\* A step that begins no call and lets calls leave the front of the waiting
\* ones, or a request of the client itself join them.
LEMMA OrderKept ==
    ASSUME TypeOK, OrderInv, UNCHANGED issued, BeginsNoneBut(Nobody),
           \/ spq' = spq
           \/ spq # <<>> /\ spq' = Tail(spq)
           \/ \E w \in Waiting : w.req = Nobody /\ spq' = Append(spq, w)
    PROVE  OrderInv'
<1>1. spq \in Seq(Waiting) /\ issued \in Seq(Requests)
  BY DEF TypeOK
<1>2. PICK t : t = spq'
  OBVIOUS
<1>3. \A q \in Requests : (HasBegun(q)' => HasBegun(q)) /\ (WasIssued(q)' <=> WasIssued(q))
  BY Parameters DEF BeginsNoneBut, WasIssued
<1>4. \A q : ~Comes(issued, Nobody, q)
  BY <1>1, Parameters DEF Comes
<1>5. (\A q \in Requests : In(t, q) => In(spq, q)) /\ Ordered(issued, t)
  <2>1. CASE spq' = spq
    BY <1>2, <2>1 DEF OrderInv, WaitInOrder
  <2>2. CASE spq # <<>> /\ spq' = Tail(spq)
    BY <1>1, <1>2, <2>2, TailHeld, TailOrdered DEF OrderInv, WaitInOrder
  <2>3. ASSUME NEW w \in Waiting, w.req = Nobody, spq' = Append(spq, w)
        PROVE  (\A q \in Requests : In(t, q) => In(spq, q)) /\ Ordered(issued, t)
    <3>1. \A q \in Requests : In(t, q) => In(spq, q)
      BY <1>1, <1>2, <2>3, AppendHeld, Parameters
    <3>2. Ordered(issued, t)
      BY <1>1, <1>2, <1>4, <2>3, AppendOrdered DEF OrderInv, WaitInOrder
    <3> QED BY <3>1, <3>2
  <2> QED BY <2>1, <2>2, <2>3
<1>6. \A q \in Requests : In(spq, q)' => In(spq, q)
  BY <1>2, <1>5 DEF In
<1>7. WaitInOrder'
  BY <1>2, <1>5 DEF WaitInOrder, Ordered, Comes
<1>8. \A q \in Requests : \A r \in Requests : Comes(issued, q, r)' <=> Comes(issued, q, r)
  BY DEF Comes
<1> QED
  BY <1>3, <1>6, <1>7, <1>8 DEF OrderInv, HeldWasIssued, NoneOvertakes

\* The calls made before stay in the order they were made; the new one, which
\* nobody holds yet, comes after them.
LEMMA CallIsLast ==
    ASSUME TypeOK, OrderInv, NEW r \in Requests, Call(r), NEW is, is = issued'
    PROVE  /\ ~WasIssued(r) /\ ~HasBegun(r) /\ ~In(spq, r)
           /\ \A q \in Requests : WasIssued(q)' <=> WasIssued(q) \/ q = r
           /\ \A q, s : Comes(is, q, s) => q # r /\ (Comes(issued, q, s) \/ s = r)
           /\ Ordered(is, spq)
<1>1. ~WasIssued(r) /\ is = Append(issued, r) /\ issued \in Seq(Requests)
  BY DEF Call, WasIssued, TypeOK
<1>2. /\ DOMAIN issued = 1..Len(issued) /\ DOMAIN is = 1..(Len(issued) + 1)
      /\ Len(issued) \in Nat /\ \A i \in 1..Len(issued) : is[i] = issued[i]
      /\ is[Len(issued) + 1] = r
  BY <1>1, AppendProperties
<1>3. \A q \in Requests : WasIssued(q)' <=> WasIssued(q) \/ q = r
  BY <1>2 DEF WasIssued
<1>4. \A q, s : Comes(is, q, s) => q # r /\ (Comes(issued, q, s) \/ s = r)
  BY <1>1, ComesLast DEF WasIssued
<1>5. ~HasBegun(r) /\ ~In(spq, r)
  BY <1>1 DEF OrderInv, HeldWasIssued
<1>6. Ordered(is, spq)
  BY <1>4, <1>5 DEF OrderInv, WaitInOrder, Ordered, In
<1> QED BY <1>1, <1>3, <1>4, <1>5, <1>6

\* A call begins when none waits, or joins the end of those that wait.
LEMMA CallInOrder ==
    ASSUME TypeOK, OrderInv, NEW r \in Requests, Call(r)
    PROVE  OrderInv'
<1> DEFINE new == IF Kind[r] = "sub" THEN Topics[r] \ resub ELSE Topics[r]
<1>1. PICK w : w = [req |-> r, topics |-> new]
  OBVIOUS
<1>2. spq \in Seq(Waiting) /\ w.req = r /\ w \in Waiting
  BY <1>1, Parameters DEF TypeOK, Waiting, Owners
<1>3. PICK is : is = issued'
  OBVIOUS
<1>4. /\ ~WasIssued(r) /\ ~HasBegun(r) /\ ~In(spq, r)
      /\ \A q \in Requests : WasIssued(q)' <=> WasIssued(q) \/ q = r
      /\ \A q, s : Comes(is, q, s) => q # r /\ (Comes(issued, q, s) \/ s = r)
      /\ Ordered(is, spq)
  BY <1>3, CallIsLast
<1>5. \A q \in Requests : \A s \in Requests : Comes(issued, q, s)' => Comes(is, q, s)
  BY <1>3 DEF Comes
<1>6. CASE Kind[r] = "sub" /\ new = {}
  <2>1. CallBack(r, TRUE) /\ UNCHANGED <<outgoing, queue, parked, spq>>
    BY <1>6 DEF Call
  <2>2. ASSUME NEW q \in Requests
        PROVE  (HasBegun(q)' => HasBegun(q)) /\ (In(spq, q)' => In(spq, q))
    <3>1. r \in Owners /\ (q \in succeeded' => q \in succeeded \/ q = r)
      BY <2>1, SucceedsOnly DEF Owners
    <3>2. (InOutgoing(q)' <=> InOutgoing(q)) /\ (In(queue, q)' <=> In(queue, q))
          /\ (In(parked, q)' <=> In(parked, q)) /\ (In(spq, q)' <=> In(spq, q))
      BY <2>1 DEF InOutgoing, In
    <3> QED BY <1>6, <3>1, <3>2 DEF HasBegun
  <2>3. HeldWasIssued' /\ NoneOvertakes'
    BY <1>4, <1>5, <2>2 DEF OrderInv, HeldWasIssued, NoneOvertakes
  <2>4. WaitInOrder'
    BY <1>3, <1>4, <2>1 DEF WaitInOrder, Ordered, Comes
  <2> QED BY <2>3, <2>4 DEF OrderInv
<1>7. CASE ~(Kind[r] = "sub" /\ new = {})
  <2>1. BeginOrWait(w)
    BY <1>1, <1>7 DEF Call
  <2>2. CASE MustWait(r)
    <3>1. spq' = Append(spq, w) /\ UNCHANGED <<outgoing, queue, parked, succeeded>>
      BY <1>2, <2>1, <2>2 DEF BeginOrWait, cbVars
    <3>2. PICK t : t = spq'
      OBVIOUS
    <3>3. \A q \in Requests : In(t, q) => In(spq, q) \/ q = r
      BY <1>2, <3>1, <3>2, AppendHeld
    <3>4. \A q \in Requests : /\ HasBegun(q)' => HasBegun(q)
                              /\ In(spq, q)' => In(spq, q) \/ q = r
      BY <3>1, <3>2, <3>3 DEF HasBegun, InOutgoing, In
    <3>5. HeldWasIssued'
      BY <1>4, <3>4 DEF OrderInv, HeldWasIssued
    <3>6. NoneOvertakes'
      BY <1>4, <1>5, <3>4 DEF OrderInv, NoneOvertakes
    <3>7. Ordered(is, t)
      BY <1>2, <1>4, <3>1, <3>2, AppendOrdered
    <3>8. WaitInOrder'
      BY <1>3, <3>2, <3>7 DEF WaitInOrder, Ordered, Comes
    <3> QED BY <3>5, <3>6, <3>8 DEF OrderInv
  <2>3. CASE ~MustWait(r)
    <3>1. Begin(w) /\ spq = <<>> /\ spq' = <<>>
      BY <1>2, <2>1, <2>3 DEF BeginOrWait, MustWait
    <3>2. BeginsNoneBut(r)
      BY <1>2, <3>1, BeginBegins
    <3>3. DOMAIN spq' = {}
      BY <3>1, EmptySeq
    <3>4. HeldWasIssued'
      BY <1>4, <3>2, <3>3 DEF OrderInv, HeldWasIssued, BeginsNoneBut, In
    <3> QED BY <3>3, <3>4 DEF OrderInv, WaitInOrder, NoneOvertakes, Ordered, In
  <2> QED BY <2>2, <2>3
<1> QED BY <1>6, <1>7

\* The first of the waiting calls begins.
LEMMA InvokeInOrder ==
    ASSUME TypeOK, OrderInv, InvokeStoreProcessingQueue
    PROVE  OrderInv'
<1>1. CASE storeProcessing \/ spq = <<>> \/ CannotBegin(Head(spq).req)
  <2>1. UNCHANGED <<outgoing, queue, parked, succeeded, spq, issued>>
    BY <1>1 DEF InvokeStoreProcessingQueue, cbVars
  <2>2. BeginsNoneBut(Nobody)
    BY <2>1, OwnersBegin
  <2> QED BY <2>1, <2>2, OrderKept
<1>2. CASE ~(storeProcessing \/ spq = <<>> \/ CannotBegin(Head(spq).req))
  <2>1. spq # <<>> /\ Begin(Head(spq)) /\ spq' = Tail(spq) /\ UNCHANGED issued
    BY <1>2 DEF InvokeStoreProcessingQueue
  <2>2. spq \in Seq(Waiting) /\ Head(spq) \in Waiting
    BY <2>1, HeadTailProperties DEF TypeOK
  <2>3. PICK r \in Owners : r = Head(spq).req
    BY <2>2 DEF Waiting
  <2>4. BeginsNoneBut(r)
    BY <2>1, <2>2, <2>3, BeginBegins
  <2>5. PICK t : t = spq'
    OBVIOUS
  <2>6. /\ Len(spq) \in Nat \ {0} /\ DOMAIN spq = 1..Len(spq)
        /\ DOMAIN t = 1..(Len(spq) - 1)
        /\ \A i \in 1..(Len(spq) - 1) : t[i] = spq[i + 1]
        /\ spq[1].req = r
    BY <2>1, <2>2, <2>3, <2>5, HeadTailProperties, EmptySeq
  <2>7. \A q \in Requests : In(t, q) => In(spq, q)
    BY <2>1, <2>2, <2>5, TailHeld
  <2>8. \A q \in Requests : /\ HasBegun(q)' => HasBegun(q) \/ q = r
                            /\ In(spq, q)' => In(t, q)
                            /\ WasIssued(q)' <=> WasIssued(q)
    BY <2>1, <2>4, <2>5 DEF BeginsNoneBut, In, WasIssued
  <2>9. In(spq, r)
    BY <2>6 DEF In
  <2>10. HeldWasIssued'
    BY <2>7, <2>8, <2>9 DEF OrderInv, HeldWasIssued
  <2>11. WaitInOrder'
    <3>1. Ordered(issued, t)
      BY <2>1, <2>2, <2>5, TailOrdered DEF OrderInv, WaitInOrder
    <3> QED BY <2>1, <2>5, <3>1 DEF WaitInOrder, Ordered, Comes
  <2>12. ASSUME NEW q \in Requests, In(t, q) PROVE ~Comes(issued, q, r)
    <3>1. PICK k \in DOMAIN t : t[k].req = q
      BY <2>12 DEF In
    <3>2. k + 1 \in DOMAIN spq /\ 1 \in DOMAIN spq /\ k \in Nat \ {0} /\ spq[k + 1].req = q
      BY <2>6, <3>1
    <3>3. Comes(issued, q, r) => k + 1 < 1
      BY <2>6, <3>2 DEF OrderInv, WaitInOrder, Ordered
    <3> QED BY <3>2, <3>3
  <2>13. \A q \in Requests : \A s \in Requests : Comes(issued, q, s)' <=> Comes(issued, q, s)
    BY <2>1 DEF Comes
  <2>14. NoneOvertakes'
    BY <2>7, <2>8, <2>12, <2>13 DEF OrderInv, NoneOvertakes
  <2> QED BY <2>10, <2>11, <2>14 DEF OrderInv
<1> QED BY <1>1, <1>2

\* The client's own subscription waits behind the calls, or begins.
LEMMA DeliverInOrder ==
    ASSUME TypeOK, OrderInv, Deliver
    PROVE  OrderInv'
<1>1. UNCHANGED issued
  BY DEF Deliver
<1>2. CASE queue # <<>>
  <2>1. /\ queue' = Tail(queue) /\ UNCHANGED <<outgoing, spq>>
        /\ \/ UNCHANGED <<parked, cbVars>>
           \/ SendQueued(Head(queue))
    BY <1>2 DEF Deliver
  <2>2. CASE SendQueued(Head(queue))
    BY <1>1, <1>2, <2>1, <2>2, SendQueuedBegins, OrderKept
  <2>3. CASE UNCHANGED <<parked, cbVars>>
    <3>1. ASSUME NEW q \in Requests, HasBegun(q)' PROVE HasBegun(q)
      <4>1. queue \in Seq(Packet)
        BY DEF TypeOK
      <4>2. In(Tail(queue), q) => In(queue, q)
        BY <1>2, <4>1, TailHeld
      <4>3. (In(queue, q)' => In(queue, q)) /\ (In(parked, q)' <=> In(parked, q))
            /\ (InOutgoing(q)' <=> InOutgoing(q))
        BY <2>1, <2>3, <4>2 DEF In, InOutgoing
      <4> QED BY <2>3, <3>1, <4>3 DEF HasBegun, cbVars
    <3>2. BeginsNoneBut(Nobody)
      BY <3>1 DEF BeginsNoneBut
    <3> QED BY <1>1, <2>1, <3>2, OrderKept
  <2> QED BY <2>1, <2>2, <2>3
<1>3. CASE queue = <<>>
  <2>1. PICK w \in Waiting : w = [req |-> Nobody, topics |-> resub]
    BY DEF TypeOK, Waiting, Owners
  <2>2. w.req = Nobody
    BY <2>1
  <2>3. \/ BeginOrWait(w)
        \/ UNCHANGED <<outgoing, queue, parked, cbVars, spq>>
    BY <1>3, <2>1 DEF Deliver, Resubscribe
  <2>4. CASE BeginOrWait(w) /\ ~MustWait(w.req)
    <3>1. Begin(w) /\ UNCHANGED spq
      BY <2>4 DEF BeginOrWait
    <3>2. BeginsNoneBut(Nobody)
      BY <2>2, <3>1, BeginBegins
    <3> QED BY <1>1, <3>1, <3>2, OrderKept
  <2>5. CASE UNCHANGED <<outgoing, queue, parked, cbVars>>
             /\ (spq' = spq \/ spq' = Append(spq, w))
    <3>1. BeginsNoneBut(Nobody)
      BY <2>5, OwnersBegin DEF cbVars
    <3> QED BY <1>1, <2>2, <2>5, <3>1, OrderKept
  <2> QED BY <2>3, <2>4, <2>5 DEF BeginOrWait
<1> QED BY <1>2, <1>3

-----------------------------------------------------------------------------
\* The order is kept, in every state.
LEMMA OrderAlways == Spec => []OrderInv
<1>1. Init => OrderInv
  <2> SUFFICES ASSUME Init PROVE OrderInv
    OBVIOUS
  <2>1. /\ spq = <<>> /\ queue = <<>> /\ parked = <<>> /\ DOMAIN outgoing = {}
        /\ succeeded = {}
    BY DEF Init, Empty
  <2>2. DOMAIN <<>> = {}
    BY EmptySeq
  <2> QED
    BY <2>1, <2>2
    DEF OrderInv, HeldWasIssued, WaitInOrder, Ordered, NoneOvertakes, HasBegun, In, InOutgoing
<1>2. TypeOK /\ OrderInv /\ [Next]_vars => OrderInv'
  <2> SUFFICES ASSUME TypeOK, OrderInv, [Next]_vars PROVE OrderInv'
    OBVIOUS
  <2>1. ASSUME NEW r \in Requests, Call(r) PROVE OrderInv'
    BY <2>1, CallInOrder
  <2>2. ASSUME NEW id \in Ids, RemoveOutgoingMessage(id) PROVE OrderInv'
    BY <2>2, EntryEnds, OrderKept DEF RemoveOutgoingMessage, RemoveOutgoingAndStoreMessage
  <2>3. CASE Ack
    <3>1. UNCHANGED <<spq, issued>>
      BY <2>3 DEF Ack, HandlePuback, HandlePubrec, HandleSuback, HandleUnsuback,
                  RemoveOutgoingAndStoreMessage, FinishVolatile
    <3> QED BY <2>3, <3>1, AckBegins, OrderKept
  <2>4. CASE StoreDeliver
    <3>1. \A id \in DOMAIN outgoing' :
             \/ id \in DOMAIN outgoing /\ outgoing'[id].req = outgoing[id].req
             \/ outgoing'[id].req = Nobody
      BY <2>4 DEF StoreDeliver, Replay, With
    <3>2. UNCHANGED <<queue, parked, succeeded, spq, issued>>
      BY <2>4 DEF StoreDeliver, cbVars
    <3> QED BY <3>1, <3>2, OwnersBegin, OrderKept
  <2>5. CASE StreamEnd \/ KeepaliveTimeout \/ \E present \in BOOLEAN : Connack(present)
    <3>1. UNCHANGED <<outgoing, queue, parked, succeeded, spq, issued>>
      BY <2>5 DEF StreamEnd, KeepaliveTimeout, Connack, cbVars
    <3> QED BY <3>1, OwnersBegin, OrderKept
  <2>6. CASE InvokeStoreProcessingQueue
    BY <2>6, InvokeInOrder
  <2>7. CASE Deliver
    BY <2>7, DeliverInOrder
  <2>8. CASE Drain
    BY <2>8, DrainBegins, OrderKept DEF Drain
  <2>9. CASE Close
    <3>1. \A id \in DOMAIN outgoing' :
            id \in DOMAIN outgoing /\ outgoing'[id].req = outgoing[id].req
      BY <2>9 DEF Close, TypeOK, InFlight
    <3>2. UNCHANGED <<queue, succeeded, spq, issued>> /\ parked' = <<>>
      BY <2>9 DEF Close, cbVars
    <3> QED BY <3>1, <3>2, OwnersBegin, OrderKept
  <2>10. CASE FlushVolatile
    <3>1. ASSUME NEW id \in DOMAIN outgoing, outgoing' = Without(outgoing, id),
                 CallBack(outgoing[id].req, FALSE)
          PROVE  OrderInv'
      BY <2>10, <3>1, EntryEnds, OrderKept DEF FlushVolatile
    <3>2. CASE UNCHANGED <<outgoing, cbVars>>
      BY <2>10, <3>2, OwnersBegin, OrderKept DEF FlushVolatile, cbVars
    <3> QED BY <2>10, <3>1, <3>2 DEF FlushVolatile
  <2>11. CASE FlushStoreProcessingQueue
    <3>1. UNCHANGED <<outgoing, queue, parked, issued>>
      BY <2>11 DEF FlushStoreProcessingQueue
    <3>2. succeeded' = succeeded
      BY <2>11 DEF FlushStoreProcessingQueue, CallBack, cbVars
    <3>3. spq' = spq \/ (spq # <<>> /\ spq' = Tail(spq))
      BY <2>11 DEF FlushStoreProcessingQueue
    <3> QED BY <3>1, <3>2, <3>3, OwnersBegin, OrderKept
  <2>12. CASE UNCHANGED vars
    <3>1. UNCHANGED <<outgoing, queue, parked, succeeded, spq, issued>>
      BY <2>12 DEF vars, procVars, cbVars
    <3> QED BY <3>1, OwnersBegin, OrderKept
  <2> QED
    BY <2>1, <2>2, <2>3, <2>4, <2>5, <2>6, <2>7, <2>8, <2>9, <2>10, <2>11, <2>12
    DEF Next, User, Run, Network
<1> QED BY <1>1, <1>2, TypeCorrect, PTL DEF Spec

(***************************************************************************)
(* While a call waits for an identifier or for the end of a replay, no     *)
(* call made after it has been written, stored or queued.                  *)
(***************************************************************************)
THEOREM BeginInOrder == Spec => []CallsBeginInOrder
<1>1. TypeOK /\ OrderInv => CallsBeginInOrder
  <2> SUFFICES ASSUME TypeOK, OrderInv, NEW i \in DOMAIN issued, NEW j \in DOMAIN issued,
                      i < j, In(spq, issued[i])
               PROVE  ~HasBegun(issued[j])
    BY DEF CallsBeginInOrder
  <2>1. issued[i] \in Requests /\ issued[j] \in Requests
    BY DEF TypeOK
  <2>2. Comes(issued, issued[i], issued[j])
    BY DEF Comes
  <2> QED BY <2>1, <2>2 DEF OrderInv, NoneOvertakes
<1> QED BY <1>1, OrderAlways, TypeCorrect, PTL

-----------------------------------------------------------------------------
(***************************************************************************)
(* While the store is replayed the offline queue is not delivered: neither *)
(* its loop nor a 'drain' listener that would resume it is left from an    *)
(* earlier connection, and nothing of a replay outlives its connection.    *)
(***************************************************************************)
OfflineIsQuiet ==
    ~connected => /\ parked = <<>>
                  /\ stream # "none" => task \in {"flushVolatile", "flushQueue"}
LoopsAreOnline ==
    /\ task \in {"storeDeliver", "invokeAll", "deliver"} => connected
    /\ task = "storeDeliver" => stream = "open"
ReplayIsAlone ==
    /\ storeProcessing => stream # "none"
    /\ stream # "none" => /\ task \notin {"invokeAll", "deliver"}
                          /\ \A i \in DOMAIN parked : ~parked[i].deliver
ReplayInv == OfflineIsQuiet /\ LoopsAreOnline /\ ReplayIsAlone

\* A call that begins waits for 'drain' only online, and resumes no loop.
ParksOnly ==
    \/ UNCHANGED parked
    \/ connected /\ \E r \in Requests : parked' = Append(parked, [req |-> r, deliver |-> FALSE])

LEMMA BeginParks ==
    ASSUME NEW w \in Waiting, Begin(w)
    PROVE  ParksOnly
<1>1. ASSUME NEW r, r = w.req, KindOf(r) = "qos0", PublishQoS0(r) PROVE ParksOnly
  <2>1. r \in Requests
    BY <1>1 DEF KindOf, Waiting, Owners
  <2> QED BY <1>1, <2>1 DEF PublishQoS0, ParksOnly
<1> QED
  BY <1>1 DEF Begin, ParksOnly, PublishStored, SubscribeProc, UnsubscribeProc, SendVolatile

\* What is parked without resuming a loop leaves none to be resumed.
LEMMA ParkedQuiet ==
    ASSUME TypeOK, ParksOnly, NEW t, t = parked'
    PROVE  /\ ~connected => t = parked
           /\ (\A i \in DOMAIN parked : ~parked[i].deliver) =>
                \A i \in DOMAIN t : ~t[i].deliver
<1>1. parked \in Seq(Parked)
  BY DEF TypeOK
<1>2. CASE UNCHANGED parked
  BY <1>2
<1>3. ASSUME NEW r \in Requests, connected, parked' = Append(parked, [req |-> r, deliver |-> FALSE])
      PROVE  (\A i \in DOMAIN parked : ~parked[i].deliver) => \A i \in DOMAIN t : ~t[i].deliver
  <2>1. PICK e \in Parked : e = [req |-> r, deliver |-> FALSE]
    BY DEF Parked, Owners
  <2>2. \A i \in DOMAIN t : t[i] = e \/ \E j \in DOMAIN parked : t[i] = parked[j]
    BY <1>1, <1>3, <2>1, AppendHeld
  <2> QED BY <2>1, <2>2
<1> QED BY <1>2, <1>3 DEF ParksOnly

\* A step that begins at most a call, starts no loop and leaves the connection.
LEMMA QuietKept ==
    ASSUME TypeOK, ReplayInv, ParksOnly, UNCHANGED <<connected, stream, storeProcessing>>,
           task \notin {"flushVolatile", "flushQueue"},
           task' = task \/ task' \in {"idle", "invokeOne"}
             \/ (task' = "storeDeliver" /\ stream = "open")
    PROVE  ReplayInv'
<1>1. PICK t : t = parked'
  OBVIOUS
<1>2. /\ ~connected => t = parked
      /\ (\A i \in DOMAIN parked : ~parked[i].deliver) => \A i \in DOMAIN t : ~t[i].deliver
  BY <1>1, ParkedQuiet
<1>3. OfflineIsQuiet'
  BY <1>1, <1>2 DEF ReplayInv, OfflineIsQuiet
<1>4. LoopsAreOnline'
  BY DEF ReplayInv, LoopsAreOnline, OfflineIsQuiet
<1>5. ReplayIsAlone'
  BY <1>1, <1>2 DEF ReplayInv, ReplayIsAlone
<1> QED BY <1>3, <1>4, <1>5 DEF ReplayInv

LEMMA BeginOrWaitParks ==
    ASSUME NEW w \in Waiting, BeginOrWait(w)
    PROVE  ParksOnly
BY BeginParks DEF BeginOrWait, ParksOnly

LEMMA CallQuiet ==
    ASSUME TypeOK, ReplayInv, NEW r \in Requests, Call(r)
    PROVE  ReplayInv'
<1> DEFINE new == IF Kind[r] = "sub" THEN Topics[r] \ resub ELSE Topics[r]
<1>1. PICK w : w = [req |-> r, topics |-> new]
  OBVIOUS
<1>2. w \in Waiting
  BY <1>1, Parameters DEF TypeOK, Waiting, Owners
<1>3. BeginOrWait(w) \/ UNCHANGED parked
  BY <1>1 DEF Call
<1>4. ParksOnly
  BY <1>2, <1>3, BeginOrWaitParks DEF ParksOnly
<1> QED BY <1>4, QuietKept DEF Call, Idle, connVars, replayVars

LEMMA AckQuiet ==
    ASSUME TypeOK, ReplayInv, Ack \/ \E id \in Ids : RemoveOutgoingMessage(id)
    PROVE  ReplayInv'
<1>1. UNCHANGED <<connected, stream, storeProcessing, parked>>
  BY DEF Ack, HandlePuback, HandlePubrec, HandleSuback, HandleUnsuback, FinishVolatile,
         RemoveOutgoingMessage, RemoveOutgoingAndStoreMessage, connVars, replayVars
<1>2. task = "idle"
  BY DEF Ack, HandlePuback, HandlePubrec, HandleSuback, HandleUnsuback, Acknowledged,
         Turn, RemoveOutgoingMessage, Idle
<1>3. task' = task \/ task' = "invokeOne" \/ (task' = "storeDeliver" /\ stream = "open")
  BY DEF Ack, HandlePuback, HandlePubrec, HandleSuback, HandleUnsuback, FinishVolatile,
         RemoveOutgoingMessage, RemoveOutgoingAndStoreMessage, Resume
<1> QED BY <1>1, <1>2, <1>3, QuietKept DEF ParksOnly

LEMMA InvokeQuiet ==
    ASSUME TypeOK, ReplayInv, InvokeStoreProcessingQueue
    PROVE  ReplayInv'
<1>1. UNCHANGED <<connected, stream, storeProcessing>>
  BY DEF InvokeStoreProcessingQueue, connVars, replayVars
<1>2. CASE storeProcessing \/ spq = <<>> \/ CannotBegin(Head(spq).req)
  <2>1. UNCHANGED parked /\ task' = IF task = "invokeAll" THEN "deliver" ELSE "idle"
    BY <1>2 DEF InvokeStoreProcessingQueue
  <2>2. task \in {"invokeOne", "invokeAll"}
    BY DEF InvokeStoreProcessingQueue
  <2> QED
    BY <1>1, <2>1, <2>2 DEF ReplayInv, OfflineIsQuiet, LoopsAreOnline, ReplayIsAlone
<1>3. CASE ~(storeProcessing \/ spq = <<>> \/ CannotBegin(Head(spq).req))
  <2>1. Begin(Head(spq)) /\ spq # <<>> /\ task' = AfterBegin
    BY <1>3 DEF InvokeStoreProcessingQueue
  <2>2. Head(spq) \in Waiting
    BY <2>1, HeadTailProperties DEF TypeOK
  <2>3. ParksOnly
    BY <2>1, <2>2, BeginParks
  <2>4. task \in {"invokeOne", "invokeAll"}
    BY DEF InvokeStoreProcessingQueue
  <2> QED BY <1>1, <2>1, <2>3, <2>4, QuietKept DEF AfterBegin
<1> QED BY <1>2, <1>3

LEMMA DeliverQuiet ==
    ASSUME TypeOK, ReplayInv, Deliver
    PROVE  ReplayInv'
<1>1. UNCHANGED <<connected, stream, storeProcessing>> /\ task = "deliver"
  BY DEF Deliver, replayVars
<1>2. CASE queue = <<>>
  <2>1. PICK w \in Waiting : w = [req |-> Nobody, topics |-> resub]
    BY DEF TypeOK, Waiting, Owners
  <2>2. (BeginOrWait(w) \/ UNCHANGED parked) /\ task' = "idle"
    BY <1>2, <2>1 DEF Deliver, Resubscribe
  <2>3. ParksOnly
    BY <2>2, BeginOrWaitParks DEF ParksOnly
  <2> QED BY <1>1, <2>2, <2>3, QuietKept
<1>3. CASE queue # <<>>
  <2>1. task' \in {"deliver", "idle"}
    BY <1>1, <1>3 DEF Deliver, SendQueued
  <2>2. connected /\ stream = "none" /\ ~storeProcessing
    BY <1>1 DEF ReplayInv, LoopsAreOnline, ReplayIsAlone, TypeOK
  <2> QED
    BY <1>1, <2>1, <2>2 DEF ReplayInv, OfflineIsQuiet, LoopsAreOnline, ReplayIsAlone
<1> QED BY <1>2, <1>3

LEMMA DrainQuiet ==
    ASSUME TypeOK, ReplayInv, Drain
    PROVE  ReplayInv'
<1>1. /\ UNCHANGED <<connected, stream, storeProcessing>> /\ connected
      /\ parked # <<>> /\ parked' = Tail(parked)
      /\ task' = IF Head(parked).deliver THEN "deliver" ELSE "idle"
  BY DEF Drain, connVars, replayVars
<1>2. PICK t : t = Tail(parked)
  OBVIOUS
<1>3. /\ \A i \in DOMAIN t : \E j \in DOMAIN parked : t[i] = parked[j]
      /\ \E j \in DOMAIN parked : Head(parked) = parked[j]
  <2>1. parked \in Seq(Parked) /\ parked # <<>>
    BY <1>1 DEF TypeOK
  <2> QED BY <1>2, <2>1, TailHeld
<1>4. stream # "none" => ~Head(parked).deliver /\ \A i \in DOMAIN t : ~t[i].deliver
  BY <1>3 DEF ReplayInv, ReplayIsAlone
<1> QED
  BY <1>1, <1>2, <1>4 DEF ReplayInv, OfflineIsQuiet, LoopsAreOnline, ReplayIsAlone

LEMMA ConnectionQuiet ==
    ASSUME TypeOK, ReplayInv,
           \/ \E present \in BOOLEAN : Connack(present)
           \/ StoreDeliver \/ StreamEnd \/ KeepaliveTimeout
           \/ Close \/ FlushVolatile \/ FlushStoreProcessingQueue
    PROVE  ReplayInv'
<1> USE DEF ReplayInv, OfflineIsQuiet, LoopsAreOnline, ReplayIsAlone
<1>1. CASE \E present \in BOOLEAN : Connack(present)
  <2>1. parked = <<>> /\ parked' = parked /\ DOMAIN parked = {}
    <3>1. parked = <<>> /\ parked' = parked
      BY <1>1 DEF Connack
    <3> QED BY <3>1, EmptySeq
  <2> QED BY <1>1, <2>1 DEF Connack
<1>2. CASE StoreDeliver
  <2>1. connected /\ stream = "open" /\ UNCHANGED <<connected, parked>> /\ task' = "idle"
    BY <1>2 DEF StoreDeliver, connVars
  <2>2. stream' \in {"ended", "destroyed", "open"}
    BY <1>2, <2>1 DEF StoreDeliver, Replay
  <2> QED BY <2>1, <2>2
<1>3. CASE StreamEnd
  BY <1>3 DEF StreamEnd, Idle, connVars
<1>4. CASE KeepaliveTimeout
  BY <1>4 DEF KeepaliveTimeout, replayVars
<1>5. CASE Close
  <2>1. parked' = <<>> /\ DOMAIN parked' = {}
    BY <1>5, EmptySeq DEF Close
  <2> QED BY <1>5, <2>1 DEF Close, replayVars
<1>6. CASE FlushVolatile
  BY <1>6 DEF FlushVolatile, connVars, replayVars
<1>7. CASE FlushStoreProcessingQueue
  BY <1>7 DEF FlushStoreProcessingQueue, connVars, replayVars
<1> QED BY <1>1, <1>2, <1>3, <1>4, <1>5, <1>6, <1>7

\* A step of a replay under way writes an answer to a pubrec or the packet
\* that is due.
LEMMA ReplayWrites ==
    ASSUME TypeOK, ReplayInv, Next, storeProcessing, storeProcessing'
    PROVE  \A i \in DOMAIN written' :
             \/ written'[i].cmd = "pubrel"
             \/ rest # <<>> /\ written'[i] = Head(rest)
<1>1. ASSUME WriteNothing
      PROVE  DOMAIN written' = {}
  BY <1>1, EmptySeq DEF WriteNothing
<1>2. ASSUME NEW p, Write(p)
      PROVE  \A i \in DOMAIN written' : written'[i] = p
  BY <1>2, EmptySeq DEF Write
<1>3. ASSUME NEW w, BeginOrWait(w) PROVE WriteNothing
  BY <1>3 DEF BeginOrWait, MustWait
<1>4. ASSUME NEW r \in Requests, Call(r) PROVE WriteNothing
  BY <1>3, <1>4 DEF Call
<1>5. ASSUME NEW id, RemoveOutgoingMessage(id) PROVE WriteNothing
  BY <1>5 DEF RemoveOutgoingMessage, RemoveOutgoingAndStoreMessage
<1>6. CASE Ack
  <2>1. ASSUME NEW id \in Ids, NEW good \in BOOLEAN, HandlePubrec(id, good)
        PROVE  WriteNothing \/ \E p : Write(p) /\ p.cmd = "pubrel"
    BY <2>1 DEF HandlePubrec, RemoveOutgoingAndStoreMessage
  <2>2. WriteNothing \/ \E p : Write(p) /\ p.cmd = "pubrel"
    BY <1>6, <2>1
    DEF Ack, HandlePuback, HandleSuback, HandleUnsuback, FinishVolatile,
        RemoveOutgoingAndStoreMessage
  <2> QED BY <1>1, <1>2, <2>2
<1>7. CASE StoreDeliver
  <2>1. WriteNothing \/ (rest # <<>> /\ Write(Head(rest)))
    BY <1>7 DEF StoreDeliver, Replay
  <2> QED BY <1>1, <1>2, <2>1
<1>8. CASE Deliver
  <2>1. FALSE
    BY <1>8 DEF Deliver, ReplayInv, ReplayIsAlone
  <2> QED BY <2>1
<1>9. CASE InvokeStoreProcessingQueue
  BY <1>1, <1>9 DEF InvokeStoreProcessingQueue
<1>10. CASE StreamEnd \/ FlushVolatile \/ FlushStoreProcessingQueue \/ Network
  BY <1>1, <1>10
  DEF StreamEnd, FlushVolatile, FlushStoreProcessingQueue, Network, Connack, Drain,
      KeepaliveTimeout, Close
<1> QED
  BY <1>1, <1>4, <1>5, <1>6, <1>7, <1>8, <1>9, <1>10 DEF Next, User, Run

LEMMA ReplayQuiet == Spec => []ReplayInv
<1>1. Init => ReplayInv
  <2>1. DOMAIN <<>> = {}
    BY EmptySeq
  <2> QED BY <2>1 DEF Init, ReplayInv, OfflineIsQuiet, LoopsAreOnline, ReplayIsAlone
<1>2. TypeOK /\ ReplayInv /\ [Next]_vars => ReplayInv'
  <2> SUFFICES ASSUME TypeOK, ReplayInv, [Next]_vars PROVE ReplayInv'
    OBVIOUS
  <2>1. CASE Next
    BY <2>1, CallQuiet, AckQuiet, InvokeQuiet, DeliverQuiet, DrainQuiet, ConnectionQuiet
    DEF Next, User, Run, Network
  <2>2. CASE UNCHANGED vars
    BY <2>2
    DEF vars, procVars, connVars, replayVars, ReplayInv, OfflineIsQuiet, LoopsAreOnline,
        ReplayIsAlone
  <2> QED BY <2>1, <2>2
<1> QED BY <1>1, <1>2, TypeCorrect, PTL DEF Spec

(***************************************************************************)
(* From the first packet replayed to the last, nothing else is written but *)
(* the answers to pubrecs, and what is replayed keeps the store's order.   *)
(***************************************************************************)
THEOREM ReplayUninterrupted == Spec => ReplayIsNotInterrupted
<1>1. TypeOK /\ ReplayInv /\ [Next]_vars =>
        [storeProcessing /\ storeProcessing' =>
           \A i \in DOMAIN written' :
             \/ written'[i].cmd = "pubrel"
             \/ rest # <<>> /\ written'[i] = Head(rest)]_vars
  BY ReplayWrites
<1> QED BY <1>1, ReplayQuiet, TypeCorrect, PTL DEF Spec, ReplayIsNotInterrupted

-----------------------------------------------------------------------------
(***************************************************************************)
(* The waiting calls.  With the default provider a call waits for one      *)
(* thing only, the end of a replay; the end begins them all, and the close *)
(* of the connection fails them all.                                       *)
(***************************************************************************)
NoneWaits == stream = "none" /\ task # "invokeAll" => spq = <<>>

\* A call made while nothing waits and nothing is replayed begins.
LEMMA BeginsAtOnce ==
    ASSUME ~UniqueIds, NEW w, BeginOrWait(w), ~storeProcessing, spq = <<>>
    PROVE  spq' = <<>>
<1>1. ~MustWait(w.req)
  BY DEF MustWait, CannotBegin, Exhausted
<1> QED BY <1>1 DEF BeginOrWait

LEMMA NoneWaitsKept ==
    ASSUME ~UniqueIds, TypeOK, ReplayInv, NoneWaits, [Next]_vars
    PROVE  NoneWaits'
<1>1. stream = "none" => ~storeProcessing
  BY DEF ReplayInv, ReplayIsAlone
<1>2. ASSUME NEW r \in Requests, Call(r) PROVE NoneWaits'
  <2>1. /\ spq' = spq \/ \E w : BeginOrWait(w)
        /\ task = "idle" /\ UNCHANGED <<stream, task>>
    BY <1>2 DEF Call, Idle, replayVars
  <2> QED BY <1>1, <2>1, BeginsAtOnce DEF NoneWaits
<1>3. CASE Ack \/ \E id \in Ids : RemoveOutgoingMessage(id)
  <2>1. UNCHANGED <<spq, stream>> /\ task = "idle"
    BY <1>3
    DEF Ack, HandlePuback, HandlePubrec, HandleSuback, HandleUnsuback, Acknowledged, Turn,
        Idle, FinishVolatile, RemoveOutgoingMessage, RemoveOutgoingAndStoreMessage, replayVars
  <2> QED BY <2>1 DEF NoneWaits
<1>4. CASE StoreDeliver
  <2>1. stream' # "none"
    BY <1>4 DEF StoreDeliver, Replay, ReplayInv, LoopsAreOnline
  <2> QED BY <2>1 DEF NoneWaits
<1>5. CASE StreamEnd
  BY <1>5 DEF StreamEnd, NoneWaits
<1>6. CASE InvokeStoreProcessingQueue
  <2>1. UNCHANGED stream /\ task \in {"invokeOne", "invokeAll"}
    BY <1>6 DEF InvokeStoreProcessingQueue, replayVars
  <2>2. CASE stream # "none"
    BY <2>1, <2>2 DEF NoneWaits
  <2>3. CASE stream = "none" /\ spq = <<>>
    BY <1>6, <2>3 DEF InvokeStoreProcessingQueue, NoneWaits
  <2>4. CASE stream = "none" /\ spq # <<>>
    <3>1. task = "invokeAll" /\ ~storeProcessing /\ ~CannotBegin(Head(spq).req)
      BY <1>1, <2>1, <2>4 DEF NoneWaits, CannotBegin, Exhausted
    <3>2. task' = "invokeAll"
      BY <1>6, <2>4, <3>1 DEF InvokeStoreProcessingQueue, AfterBegin
    <3> QED BY <3>2 DEF NoneWaits
  <2> QED BY <2>2, <2>3, <2>4
<1>7. CASE Deliver
  <2>1. UNCHANGED stream /\ task = "deliver" /\ task' \in {"deliver", "idle"}
    BY <1>7 DEF Deliver, SendQueued, replayVars
  <2>2. spq' = spq \/ \E w : BeginOrWait(w)
    BY <1>7 DEF Deliver, Resubscribe
  <2> QED BY <1>1, <2>1, <2>2, BeginsAtOnce DEF NoneWaits
<1>8. CASE \E present \in BOOLEAN : Connack(present)
  BY <1>8 DEF Connack, NoneWaits
<1>9. CASE Drain \/ KeepaliveTimeout \/ Close
  <2>1. UNCHANGED <<spq, stream>> /\ task = "idle"
    BY <1>9 DEF Drain, KeepaliveTimeout, Close, Turn, Idle, replayVars
  <2> QED BY <2>1 DEF NoneWaits
<1>10. CASE FlushVolatile
  <2>1. UNCHANGED <<spq, stream>> /\ task # "invokeAll"
    BY <1>10 DEF FlushVolatile, replayVars
  <2> QED BY <2>1 DEF NoneWaits
<1>11. CASE FlushStoreProcessingQueue
  <2>1. CASE spq = <<>>
    BY <1>11, <2>1 DEF FlushStoreProcessingQueue, NoneWaits
  <2>2. CASE spq # <<>>
    <3>1. stream # "none" /\ UNCHANGED stream
      BY <1>11, <2>2 DEF FlushStoreProcessingQueue, NoneWaits, replayVars
    <3> QED BY <3>1 DEF NoneWaits
  <2> QED BY <2>1, <2>2
<1>12. CASE UNCHANGED vars
  BY <1>12 DEF vars, replayVars, NoneWaits
<1> QED
  BY <1>2, <1>3, <1>4, <1>5, <1>6, <1>7, <1>8, <1>9, <1>10, <1>11, <1>12
  DEF Next, User, Run, Network

(***************************************************************************)
(* With the default provider no call waits on a connection that is not     *)
(* replaying its store, so none waits for an ack that never comes.  (With  *)
(* UniqueMessageIdProvider this fails: one ack begins one waiting call,    *)
(* and a call that begins need not cause another ack.)                     *)
(***************************************************************************)
THEOREM WaitingReleased ==
    ASSUME ~UniqueIds
    PROVE  Spec => []WaitingIsReleased
<1>1. Init => NoneWaits
  BY DEF Init, NoneWaits
<1>2. TypeOK /\ ReplayInv /\ NoneWaits /\ [Next]_vars => NoneWaits'
  BY NoneWaitsKept
<1>3. NoneWaits => WaitingIsReleased
  BY DEF NoneWaits, WaitingIsReleased, Idle
<1> QED BY <1>1, <1>2, <1>3, TypeCorrect, ReplayQuiet, PTL DEF Spec
=============================================================================
