--------------------------- MODULE Lifecycle_proofs ---------------------------
(***************************************************************************)
(* Proofs about Lifecycle, for every number of streams, calls and faults.  *)
(* The types, EndOnce and TimerIsWanted need nothing of the options or of  *)
(* the user; the theorems from OneInv on name what they assume.            *)
(***************************************************************************)
EXTENDS Lifecycle, SequenceTheorems, TLAPS

-----------------------------------------------------------------------------
(* Types. *)

\* What the type invariant says of all but the task and the history.
ClientOK ==
    /\ connected \in BOOLEAN /\ disconnecting \in BOOLEAN /\ disconnected \in BOOLEAN
    /\ reconnecting \in BOOLEAN /\ reconnectTimer \in BOOLEAN /\ connackTimer \in BOOLEAN
    /\ keepalive \in BOOLEAN /\ deferred \in BOOLEAN
StreamsOK ==
    /\ stream \in Streams \cup {None}
    /\ state \in [Streams -> {"open", "ended", "destroyed", "closed"}]
    /\ answer \in [Streams -> {"none", "accepted", "refused"}]
EndsOK ==
    /\ onClose \in [Streams -> SUBSET EndIds] /\ Attached
    /\ ending \in [EndIds -> Phases]
SessionOK ==
    /\ busy \in BOOLEAN /\ sent \in BOOLEAN /\ queued \in BOOLEAN /\ immediate \in BOOLEAN
    /\ store \in {"empty", "full", "closed"}
    /\ announce \in {"none", "replay", "due"}
TaskOK ==
    /\ run \in Seq({"connect", "deferred", "reconnect"})
    /\ wanted \in BOOLEAN /\ calls \in 0..MaxCalls /\ faults \in 0..MaxFaults

LEMMA TypeParts == TypeOK <=> ClientOK /\ StreamsOK /\ EndsOK /\ SessionOK /\ TaskOK
BY DEF TypeOK, ClientOK, StreamsOK, EndsOK, SessionOK, TaskOK

LEMMA TypePartsNext ==
    TypeOK' <=> ClientOK' /\ StreamsOK' /\ EndsOK' /\ SessionOK' /\ TaskOK'
BY DEF TypeOK, ClientOK, StreamsOK, EndsOK, SessionOK, TaskOK, Attached

\* The tasks the client lists.
LEMMA Tasks ==
    LET T == {"connect", "deferred", "reconnect"} IN
    /\ <<>> \in Seq(T) /\ <<"connect">> \in Seq(T) /\ <<"reconnect">> \in Seq(T)
    /\ <<"deferred">> \in Seq(T) /\ <<>> \o <<"deferred">> \in Seq(T)
    /\ <<"connect">> \o <<"deferred">> \in Seq(T)
    /\ \A r \in Seq(T) : r # <<>> =>
         Tail(r) \in Seq(T) /\ <<"reconnect">> \o Tail(r) \in Seq(T)
<1> DEFINE T == {"connect", "deferred", "reconnect"}
<1>1. /\ <<>> \in Seq(T) /\ <<"connect">> \in Seq(T) /\ <<"reconnect">> \in Seq(T)
      /\ <<"deferred">> \in Seq(T)
  OBVIOUS
<1>2. \A r \in Seq(T) : r # <<>> => Tail(r) \in Seq(T)
  BY HeadTailProperties
<1>3. \A q, r \in Seq(T) : q \o r \in Seq(T)
  BY ConcatProperties
<1> HIDE DEF T
<1>4. /\ <<>> \o <<"deferred">> \in Seq(T) /\ <<"connect">> \o <<"deferred">> \in Seq(T)
      /\ \A r \in Seq(T) : r # <<>> => <<"reconnect">> \o Tail(r) \in Seq(T)
  BY <1>1, <1>2, <1>3
<1> QED BY <1>1, <1>2, <1>4 DEF T

-----------------------------------------------------------------------------
(* The operators the actions are built from. *)

LEMMA ListenType ==
    ASSUME TypeOK, NEW e \in EndIds, ending[e] # "closing", Listen(e)
    PROVE  EndsOK'
<1>1. onClose \in [Streams -> SUBSET EndIds] /\ Attached /\ ending \in [EndIds -> Phases]
  BY DEF TypeOK
<1>2. \A s \in Streams : e \notin onClose[s]
  BY <1>1 DEF Attached
<1>3. CASE connected
  <2>1. onClose' = [onClose EXCEPT ![stream] = @ \cup {e}]
        /\ ending' = [ending EXCEPT ![e] = "closing"]
    BY <1>3 DEF Listen
  <2>2. onClose' \in [Streams -> SUBSET EndIds] /\ ending' \in [EndIds -> Phases]
    BY <1>1, <2>1 DEF Phases
  <2>3. \A s \in Streams : onClose'[s] = IF s = stream THEN onClose[s] \cup {e} ELSE onClose[s]
    BY <1>1, <2>1
  <2>4. Attached'
    BY <1>1, <1>2, <2>1, <2>3 DEF Attached
  <2> QED BY <2>2, <2>4 DEF EndsOK
<1>4. CASE ~connected
  <2>1. onClose' = onClose /\ ending' = [ending EXCEPT ![e] = "tick"]
    BY <1>4 DEF Listen
  <2>2. ending' \in [EndIds -> Phases] /\ \A f \in EndIds \ {e} : ending'[f] = ending[f]
    BY <1>1, <2>1 DEF Phases
  <2>3. Attached'
    BY <1>1, <1>2, <2>1, <2>2 DEF Attached
  <2> QED BY <1>1, <2>1, <2>2, <2>3 DEF EndsOK
<1> QED BY <1>3, <1>4

\* An end() that goes from one phase to another, neither of them "closing".
LEMMA PhaseType ==
    ASSUME TypeOK, NEW e \in EndIds, ending[e] # "closing", NEW p \in Phases,
           ending' = [ending EXCEPT ![e] = p], onClose' = onClose
    PROVE  EndsOK'
<1>1. onClose \in [Streams -> SUBSET EndIds] /\ Attached /\ ending \in [EndIds -> Phases]
  BY DEF TypeOK
<1>2. ending' \in [EndIds -> Phases] /\ \A f \in EndIds \ {e} : ending'[f] = ending[f]
  BY <1>1
<1>3. Attached'
  BY <1>1, <1>2 DEF Attached
<1> QED BY <1>1, <1>2, <1>3 DEF EndsOK

LEMMA SameEnds ==
    ASSUME TypeOK, onClose' = onClose, ending' = ending
    PROVE  EndsOK'
BY DEF TypeOK, EndsOK, Attached

LEMMA DestroyType ==
    ASSUME TypeOK, Destroy
    PROVE  /\ state' \in [Streams -> {"open", "ended", "destroyed", "closed"}]
           /\ busy' \in BOOLEAN /\ keepalive' \in BOOLEAN
<1>1. state' \in [Streams -> {"open", "ended", "destroyed", "closed"}]
  BY DEF TypeOK, Destroy
<1> QED BY <1>1 DEF Destroy

LEMMA SendDisconnectType ==
    ASSUME TypeOK, SendDisconnect
    PROVE  /\ queued' \in BOOLEAN /\ immediate' \in BOOLEAN /\ keepalive' \in BOOLEAN
           /\ state' = state /\ busy' = busy
BY DEF TypeOK, SendDisconnect

LEMMA ReconnectType ==
    ASSUME TypeOK, ResetReconnect \/ SetupReconnect
    PROVE  reconnectTimer' \in BOOLEAN /\ reconnecting' \in BOOLEAN
BY Parameters DEF TypeOK, ResetReconnect, SetupReconnect

\* How an end() finishes.
LEMMA FinishType ==
    ASSUME TypeOK, NEW e \in EndIds, ending[e] # "closing", NEW force \in BOOLEAN,
           Finish(e, force)
    PROVE  /\ EndsOK' /\ keepalive' \in BOOLEAN /\ stream' = stream /\ answer' = answer
           /\ state' \in [Streams -> {"open", "ended", "destroyed", "closed"}]
           /\ busy' \in BOOLEAN /\ queued' \in BOOLEAN /\ immediate' \in BOOLEAN
<1>1. EndsOK'
  BY ListenType DEF Finish
<1>2. CASE force
  <2>1. Destroy /\ queued' = queued /\ immediate' = immediate /\ stream' = stream
        /\ answer' = answer
    BY <1>2 DEF Finish
  <2> QED BY <1>1, <2>1, DestroyType DEF TypeOK
<1>3. CASE ~force
  <2>1. SendDisconnect /\ stream' = stream /\ answer' = answer
    BY <1>3 DEF Finish
  <2> QED BY <1>1, <2>1, SendDisconnectType DEF TypeOK
<1> QED BY <1>2, <1>3

LEMMA EndType ==
    ASSUME TypeOK, NEW e \in EndIds, ending[e] # "closing", NEW force \in BOOLEAN,
           End(e, force)
    PROVE  ClientOK' /\ StreamsOK' /\ EndsOK' /\ SessionOK'
<1> USE DEF ClientOK, StreamsOK, SessionOK
<1>1. /\ ClientOK /\ StreamsOK /\ SessionOK
      /\ connected' = connected /\ disconnected' = disconnected
      /\ reconnecting' = reconnecting /\ connackTimer' = connackTimer /\ deferred' = deferred
      /\ sent' = sent /\ store' = store /\ announce' = announce
  BY DEF TypeOK, End
<1>2. CASE disconnecting
  <2>1. /\ ending' = [ending EXCEPT ![e] = "done"]
        /\ disconnecting' = disconnecting /\ reconnectTimer' = reconnectTimer
        /\ keepalive' = keepalive /\ stream' = stream /\ state' = state /\ answer' = answer
        /\ onClose' = onClose /\ busy' = busy /\ queued' = queued /\ immediate' = immediate
    BY <1>2 DEF End, streams
  <2>2. EndsOK'
    BY <2>1, PhaseType DEF Phases
  <2>3. ClientOK'
    BY <1>1, <2>1
  <2>4. StreamsOK' /\ SessionOK'
    BY <1>1, <2>1
  <2> QED BY <2>2, <2>3, <2>4
<1>3. CASE ~disconnecting /\ Drains(force)
  <2>1. /\ ending' = [ending EXCEPT ![e] = "waiting"]
        /\ disconnecting' = TRUE /\ reconnectTimer' = FALSE
        /\ keepalive' = keepalive /\ stream' = stream /\ state' = state /\ answer' = answer
        /\ onClose' = onClose /\ busy' = busy /\ queued' = queued /\ immediate' = immediate
    BY <1>3 DEF End, streams, ClearReconnect
  <2>2. EndsOK'
    BY <2>1, PhaseType DEF Phases
  <2>3. ClientOK'
    BY <1>1, <2>1
  <2>4. StreamsOK' /\ SessionOK'
    BY <1>1, <2>1
  <2> QED BY <2>2, <2>3, <2>4
<1>4. CASE ~disconnecting /\ ~Drains(force)
  <2>1. disconnecting' = TRUE /\ reconnectTimer' = FALSE /\ Finish(e, force)
    BY <1>4 DEF End, ClearReconnect
  <2>2. /\ EndsOK' /\ keepalive' \in BOOLEAN /\ stream' = stream /\ answer' = answer
        /\ state' \in [Streams -> {"open", "ended", "destroyed", "closed"}]
        /\ busy' \in BOOLEAN /\ queued' \in BOOLEAN /\ immediate' \in BOOLEAN
    BY <2>1, FinishType
  <2>3. ClientOK'
    BY <1>1, <2>1, <2>2
  <2>4. StreamsOK' /\ SessionOK'
    BY <1>1, <2>2
  <2> QED BY <2>2, <2>3, <2>4
<1> QED BY <1>2, <1>3, <1>4

LEMMA ConnectType ==
    ASSUME TypeOK, Connect
    PROVE  ClientOK' /\ StreamsOK' /\ EndsOK' /\ SessionOK'
<1>1. PICK s \in Streams :
        /\ stream' = s
        /\ state' = [state EXCEPT ![s] = "open"]
        /\ answer' = [answer EXCEPT ![s] = "none"]
        /\ onClose' = [onClose EXCEPT ![s] = {}]
  BY DEF Connect
<1>2. /\ reconnectTimer' = FALSE /\ connackTimer' = TRUE
      /\ store' \in {"empty", store} /\ disconnecting' \in {FALSE, disconnecting}
      /\ disconnected' \in {FALSE, disconnected}
      /\ connected' = connected /\ reconnecting' = reconnecting /\ keepalive' = keepalive
      /\ deferred' = deferred /\ ending' = ending /\ busy' = busy /\ sent' = sent
      /\ queued' = queued /\ announce' = announce /\ immediate' = immediate
  BY DEF Connect, ClearReconnect
<1>3. ClientOK'
  BY <1>2 DEF TypeOK, ClientOK
<1>7. SessionOK'
  BY <1>2 DEF TypeOK, SessionOK
<1>4. StreamsOK'
  BY <1>1 DEF TypeOK, StreamsOK
<1>5. onClose' \in [Streams -> SUBSET EndIds]
      /\ \A x \in Streams : onClose'[x] = IF x = s THEN {} ELSE onClose[x]
  BY <1>1 DEF TypeOK
<1>6. EndsOK'
  BY <1>2, <1>5 DEF TypeOK, EndsOK, Attached
<1> QED BY <1>3, <1>4, <1>6, <1>7

-----------------------------------------------------------------------------
(* The actions of the user, of the task and of the environment. *)

LEMMA InternalIsEnd == Internal \in EndIds /\ Ends \subseteq EndIds /\ ForceOf \in [Ends -> BOOLEAN]
<1>1. ForceOf \in [Ends -> BOOLEAN]
  BY Parameters
<1> QED BY <1>1 DEF EndIds

LEMMA ReviveType ==
    ASSUME TypeOK, Revive
    PROVE  /\ store' \in {"empty", "full", "closed"} /\ disconnecting' \in BOOLEAN
           /\ disconnected' \in BOOLEAN /\ deferred' \in BOOLEAN
BY DEF Revive

LEMMA UserType ==
    ASSUME TypeOK, User
    PROVE  TypeOK'
<1> USE DEF ClientOK, StreamsOK, SessionOK, TaskOK
<1>1. ASSUME NEW e \in Ends, UserEnd(e) PROVE TypeOK'
  <2>1. e \in EndIds /\ ForceOf[e] \in BOOLEAN /\ ending[e] # "closing" /\ End(e, ForceOf[e])
    BY <1>1, InternalIsEnd DEF UserEnd
  <2>2. TaskOK'
    BY <1>1 DEF UserEnd, TypeOK
  <2> QED BY <2>1, <2>2, EndType, TypePartsNext
<1>2. CASE UserConnect
  <2>1. Connect /\ TaskOK'
    BY <1>2, Parameters DEF UserConnect, TypeOK
  <2> QED BY <2>1, ConnectType, TypePartsNext
<1>3. CASE UserReconnect
  <2>1. TaskOK'
    <3>1. wanted' = TRUE /\ calls' = calls + 1 /\ calls < MaxCalls /\ faults' = faults
      BY <1>3 DEF UserReconnect
    <3>2. run' = run \/ run' = <<"reconnect">>
      BY <1>3 DEF UserReconnect
    <3>3. run' \in Seq({"connect", "deferred", "reconnect"})
      BY <3>2, Tasks DEF TypeOK
    <3> QED BY <3>1, <3>3, Parameters DEF TypeOK
  <2>2. /\ StreamsOK' /\ EndsOK'
        /\ connected' = connected /\ reconnecting' = reconnecting
        /\ reconnectTimer' = reconnectTimer /\ connackTimer' = connackTimer
        /\ keepalive' = keepalive /\ busy' = busy /\ sent' = sent /\ queued' = queued
        /\ announce' = announce /\ immediate' = immediate
    BY <1>3, SameEnds DEF UserReconnect, timers, streams, TypeOK
  <2>3. CASE disconnecting /\ ~disconnected
    BY <1>3, <2>1, <2>2, <2>3, TypePartsNext DEF UserReconnect, TypeOK
  <2>4. CASE ~(disconnecting /\ ~disconnected)
    BY <1>3, <2>1, <2>2, <2>4, ReviveType, TypePartsNext DEF UserReconnect, TypeOK
  <2> QED BY <2>3, <2>4
<1>4. CASE Publish
  <2>1. EndsOK'
    BY <1>4, SameEnds DEF Publish, streams
  <2>2. TaskOK' /\ ClientOK' /\ StreamsOK'
    BY <1>4 DEF Publish, TypeOK, flags, timers, streams, history
  <2>3. SessionOK'
    BY <1>4 DEF Publish, TypeOK
  <2> QED BY <2>1, <2>2, <2>3, TypePartsNext
<1> QED BY <1>1, <1>2, <1>3, <1>4 DEF User

LEMMA RunType ==
    ASSUME TypeOK, Run
    PROVE  TypeOK'
<1> USE DEF ClientOK, StreamsOK, SessionOK, TaskOK
<1>1. CASE RunConnect
  <2>1. Connect /\ TaskOK'
    BY <1>1, Tasks DEF RunConnect, TypeOK, history
  <2> QED BY <2>1, ConnectType, TypePartsNext
<1>2. CASE RunReconnect
  <2>1. TaskOK'
    BY <1>2, Tasks DEF RunReconnect, TypeOK, history
  <2>2. CASE connected /\ ~disconnecting
    <3>1. Internal \in EndIds /\ ending[Internal] # "closing" /\ End(Internal, FALSE)
      BY <1>2, <2>2, InternalIsEnd DEF RunReconnect
    <3> QED BY <2>1, <3>1, EndType, TypePartsNext
  <2>3. CASE ~(connected /\ ~disconnecting)
    BY <1>2, <2>1, <2>3, ConnectType, TypePartsNext DEF RunReconnect
  <2> QED BY <2>2, <2>3
<1>3. CASE RunDeferred
  <2>1. TaskOK'
    BY <1>3, Tasks DEF RunDeferred, TypeOK, history
  <2>2. /\ StreamsOK' /\ EndsOK'
        /\ connected' = connected /\ reconnecting' = reconnecting
        /\ reconnectTimer' = reconnectTimer /\ connackTimer' = connackTimer
        /\ keepalive' = keepalive /\ busy' = busy /\ sent' = sent /\ queued' = queued
        /\ announce' = announce /\ immediate' = immediate
    BY <1>3, SameEnds DEF RunDeferred, timers, streams, TypeOK
  <2>3. CASE deferred
    BY <1>3, <2>1, <2>2, <2>3, ReviveType, TypePartsNext DEF RunDeferred, TypeOK
  <2>4. CASE ~deferred
    <3>1. disconnecting' \in BOOLEAN /\ deferred' = deferred /\ disconnected' = disconnected
          /\ store' = store
      BY <1>3, <2>4 DEF RunDeferred
    <3> QED BY <2>1, <2>2, <3>1, TypePartsNext DEF TypeOK
  <2> QED BY <2>3, <2>4
<1>4. ASSUME NEW e \in EndIds, CloseStores(e) PROVE TypeOK'
  <2>1. EndsOK'
    BY <1>4, PhaseType DEF CloseStores, streams, Phases
  <2>2. TaskOK'
    BY <1>4, Tasks DEF CloseStores, TypeOK, history
  <2>3. ClientOK' /\ StreamsOK' /\ SessionOK'
    BY <1>4 DEF CloseStores, TypeOK, timers, streams
  <2> QED BY <2>1, <2>2, <2>3, TypePartsNext
<1>5. CASE EndStream
  <2>1. EndsOK'
    BY <1>5, SameEnds DEF EndStream
  <2>2. TaskOK' /\ ClientOK'
    BY <1>5 DEF EndStream, TypeOK, flags, timers, history
  <2>4. SessionOK'
    BY <1>5 DEF EndStream, TypeOK
  <2>3. StreamsOK'
    BY <1>5 DEF EndStream, TypeOK
  <2> QED BY <2>1, <2>2, <2>3, <2>4, TypePartsNext
<1>6. CASE Announce
  <2>1. EndsOK'
    BY <1>6, SameEnds DEF Announce, streams
  <2>2. TaskOK' /\ ClientOK' /\ StreamsOK'
    BY <1>6 DEF Announce, TypeOK, flags, timers, streams, history
  <2>3. SessionOK'
    BY <1>6 DEF Announce, TypeOK
  <2> QED BY <2>1, <2>2, <2>3, TypePartsNext
<1> QED BY <1>1, <1>2, <1>3, <1>4, <1>5, <1>6 DEF Run

\* _cleanUp(true) on its own: the timers of the connack and of the keepalive.
LEMMA GiveUpType ==
    ASSUME TypeOK, GiveUp, connackTimer' \in BOOLEAN
    PROVE  ClientOK' /\ StreamsOK' /\ EndsOK' /\ SessionOK'
<1>1. /\ Destroy /\ ResetReconnect
      /\ connected' = connected /\ disconnecting' = disconnecting
      /\ disconnected' = disconnected /\ deferred' = deferred /\ stream' = stream
      /\ answer' = answer /\ onClose' = onClose /\ ending' = ending /\ sent' = sent
      /\ store' = store /\ queued' = queued /\ announce' = announce /\ immediate' = immediate
  BY DEF GiveUp
<1>2. /\ state' \in [Streams -> {"open", "ended", "destroyed", "closed"}]
      /\ busy' \in BOOLEAN /\ keepalive' \in BOOLEAN
      /\ reconnectTimer' \in BOOLEAN /\ reconnecting' \in BOOLEAN
  BY <1>1, DestroyType, ReconnectType
<1>3. EndsOK'
  BY <1>1, SameEnds
<1>4. ClientOK'
  BY <1>1, <1>2 DEF TypeOK, ClientOK
<1>5. StreamsOK' /\ SessionOK'
  BY <1>1, <1>2 DEF TypeOK, StreamsOK, SessionOK
<1> QED BY <1>3, <1>4, <1>5

\* The bound of the faults.
LEMMA FaultType ==
    ASSUME TypeOK, run' = run, wanted' = wanted, calls' = calls,
           faults' = faults \/ (faults < MaxFaults /\ faults' = faults + 1)
    PROVE  TaskOK'
BY Parameters DEF TypeOK, TaskOK

LEMMA TimeoutType ==
    ASSUME TypeOK, Timeout
    PROVE  TypeOK'
<1>1. CASE ReconnectTimeout
  <2>1. EndsOK'
    BY <1>1, SameEnds DEF ReconnectTimeout, streams
  <2>2. TaskOK'
    BY <1>1, Tasks DEF ReconnectTimeout, TypeOK, TaskOK, history
  <2>3. ClientOK' /\ StreamsOK' /\ SessionOK'
    BY <1>1 DEF ReconnectTimeout, TypeOK, ClientOK, StreamsOK, SessionOK, flags, timers,
                streams, session
  <2> QED BY <2>1, <2>2, <2>3, TypePartsNext
<1>2. CASE ConnackTimeout
  <2>1. GiveUp /\ connackTimer' = FALSE /\ run' = run /\ wanted' = wanted /\ calls' = calls
        /\ faults < MaxFaults /\ faults' = faults + 1
    BY <1>2 DEF ConnackTimeout, GiveUp
  <2> QED BY <2>1, GiveUpType, FaultType, TypePartsNext
<1>3. CASE KeepaliveTimeout
  <2>1. GiveUp /\ connackTimer' = connackTimer /\ run' = run /\ wanted' = wanted
        /\ calls' = calls /\ faults < MaxFaults /\ faults' = faults + 1
    BY <1>3 DEF KeepaliveTimeout, GiveUp
  <2>2. connackTimer' \in BOOLEAN
    BY <2>1 DEF TypeOK
  <2> QED BY <2>1, <2>2, GiveUpType, FaultType, TypePartsNext
<1>4. ASSUME NEW e \in EndIds, FinishDelayed(e) PROVE TypeOK'
  <2>1. /\ ending[e] # "closing" /\ Finish(e, Forced(e)) /\ ResetReconnect
        /\ connected' = connected /\ disconnecting' = disconnecting
        /\ disconnected' = disconnected /\ connackTimer' = connackTimer
        /\ deferred' = deferred /\ sent' = sent /\ store' = store /\ announce' = announce
        /\ run' = run /\ wanted' = wanted /\ calls' = calls /\ faults' = faults
    BY <1>4 DEF FinishDelayed, history
  <2>2. Forced(e) \in BOOLEAN
    BY DEF Forced
  <2>3. /\ EndsOK' /\ keepalive' \in BOOLEAN /\ stream' = stream /\ answer' = answer
        /\ state' \in [Streams -> {"open", "ended", "destroyed", "closed"}]
        /\ busy' \in BOOLEAN /\ queued' \in BOOLEAN /\ immediate' \in BOOLEAN
        /\ reconnectTimer' \in BOOLEAN /\ reconnecting' \in BOOLEAN
    BY <2>1, <2>2, FinishType, ReconnectType
  <2>4. ClientOK'
    BY <2>1, <2>3 DEF TypeOK, ClientOK
  <2>5. StreamsOK' /\ SessionOK'
    BY <2>1, <2>3 DEF TypeOK, StreamsOK, SessionOK
  <2>6. TaskOK'
    BY <2>1, FaultType
  <2> QED BY <2>3, <2>4, <2>5, <2>6, TypePartsNext
<1> QED BY <1>1, <1>2, <1>3, <1>4 DEF Timeout

LEMMA AcceptType ==
    ASSUME TypeOK, NEW s \in Streams, Accept(s)
    PROVE  TypeOK'
<1>1. /\ answer' = [answer EXCEPT ![s] = "accepted"]
      /\ connackTimer' = FALSE /\ reconnecting' = FALSE
      /\ disconnecting' = disconnecting /\ disconnected' = disconnected
      /\ reconnectTimer' = reconnectTimer /\ deferred' = deferred /\ stream' = stream
      /\ state' = state /\ onClose' = onClose /\ ending' = ending /\ store' = store
      /\ queued' = queued /\ immediate' = immediate /\ run' = run
      /\ wanted' = wanted /\ calls' = calls /\ faults' = faults
  BY DEF Accept, history
<1>2. /\ (connected' = connected \/ connected' = TRUE)
      /\ (keepalive' = keepalive \/ keepalive' = TRUE)
  BY DEF Accept
<1>3. busy' \in BOOLEAN /\ sent' \in BOOLEAN
  BY DEF Accept, TypeOK
<1>4. announce' \in {"none", "replay", "due"}
  BY DEF Accept, TypeOK
<1>5. ClientOK'
  BY <1>1, <1>2 DEF TypeOK, ClientOK
<1>6. StreamsOK'
  BY <1>1 DEF TypeOK, StreamsOK
<1>7. SessionOK'
  BY <1>1, <1>3, <1>4 DEF TypeOK, SessionOK
<1>8. EndsOK' /\ TaskOK'
  BY <1>1, SameEnds, FaultType
<1> QED BY <1>5, <1>6, <1>7, <1>8, TypePartsNext

LEMMA RefuseType ==
    ASSUME TypeOK, NEW s \in Streams, Refuse(s)
    PROVE  TypeOK'
<1>1. /\ faults < MaxFaults /\ faults' = faults + 1
      /\ answer' = [answer EXCEPT ![s] = "refused"] /\ connackTimer' = FALSE
      /\ connected' = connected /\ disconnecting' = disconnecting
      /\ disconnected' = disconnected /\ deferred' = deferred /\ stream' = stream
      /\ onClose' = onClose /\ ending' = ending /\ sent' = sent /\ store' = store
      /\ queued' = queued /\ announce' = announce /\ immediate' = immediate
      /\ run' = run /\ wanted' = wanted /\ calls' = calls
  BY DEF Refuse
<1>2. /\ state' \in [Streams -> {"open", "ended", "destroyed", "closed"}]
      /\ busy' \in BOOLEAN /\ keepalive' \in BOOLEAN
      /\ reconnectTimer' \in BOOLEAN /\ reconnecting' \in BOOLEAN
  <2>1. CASE RetryRefused
    BY <2>1, DestroyType, ReconnectType DEF Refuse
  <2>2. CASE ~RetryRefused
    <3>1. state' = state /\ busy' = busy /\ keepalive' = keepalive
          /\ reconnectTimer' = reconnectTimer /\ reconnecting' = reconnecting
      BY <2>2 DEF Refuse
    <3> QED BY <3>1 DEF TypeOK
  <2> QED BY <2>1, <2>2
<1>3. ClientOK'
  BY <1>1, <1>2 DEF TypeOK, ClientOK
<1>4. StreamsOK'
  BY <1>1, <1>2 DEF TypeOK, StreamsOK
<1>5. SessionOK'
  BY <1>1, <1>2 DEF TypeOK, SessionOK
<1>6. EndsOK' /\ TaskOK'
  BY <1>1, SameEnds, FaultType
<1> QED BY <1>3, <1>4, <1>5, <1>6, TypePartsNext

LEMMA CloseType ==
    ASSUME TypeOK, NEW s \in Streams, Close(s)
    PROVE  TypeOK'
<1>1. /\ state' = [state EXCEPT ![s] = "closed"]
      /\ onClose' = [onClose EXCEPT ![s] = {}]
      /\ ending' = [e \in EndIds |-> IF e \in onClose[s] THEN "tick" ELSE ending[e]]
      /\ Lose /\ SetupReconnect
      /\ disconnecting' = disconnecting /\ disconnected' = disconnected
      /\ deferred' = deferred /\ stream' = stream /\ answer' = answer /\ busy' = busy
      /\ store' = store /\ queued' = queued /\ immediate' = immediate
      /\ run' = run /\ wanted' = wanted /\ calls' = calls
      /\ faults' = faults \/ (faults < MaxFaults /\ faults' = faults + 1)
  BY DEF Close
<1>2. /\ connected' = FALSE /\ connackTimer' = FALSE /\ keepalive' = FALSE
      /\ sent' = FALSE /\ announce' = "none"
      /\ reconnectTimer' \in BOOLEAN /\ reconnecting' \in BOOLEAN
  BY <1>1, ReconnectType DEF Lose
<1>3. onClose \in [Streams -> SUBSET EndIds] /\ Attached /\ ending \in [EndIds -> Phases]
  BY DEF TypeOK
<1>4. /\ onClose' \in [Streams -> SUBSET EndIds] /\ ending' \in [EndIds -> Phases]
      /\ \A x \in Streams : onClose'[x] = IF x = s THEN {} ELSE onClose[x]
  BY <1>1, <1>3 DEF Phases
<1>5. Attached'
  BY <1>1, <1>3, <1>4 DEF Attached
<1>6. ClientOK'
  BY <1>1, <1>2 DEF TypeOK, ClientOK
<1>7. StreamsOK'
  BY <1>1 DEF TypeOK, StreamsOK
<1>8. SessionOK'
  BY <1>1, <1>2 DEF TypeOK, SessionOK
<1>9. EndsOK' /\ TaskOK'
  BY <1>1, <1>4, <1>5, FaultType DEF EndsOK
<1> QED BY <1>6, <1>7, <1>8, <1>9, TypePartsNext

LEMMA AcknowledgeType ==
    ASSUME TypeOK, Acknowledge
    PROVE  TypeOK'
<1>1. /\ busy' = FALSE /\ sent' = FALSE
      /\ store' = IF store = "full" THEN "empty" ELSE store
      /\ announce' = IF announce = "replay" THEN "due" ELSE announce
      /\ ending' = [e \in EndIds |-> IF disconnecting /\ ending[e] = "waiting" THEN "delay"
                                     ELSE ending[e]]
      /\ onClose' = onClose /\ queued' = queued /\ immediate' = immediate
  BY DEF Acknowledge, streams
<1>2. SessionOK'
  BY <1>1 DEF TypeOK, SessionOK
<1>3. onClose \in [Streams -> SUBSET EndIds] /\ Attached /\ ending \in [EndIds -> Phases]
  BY DEF TypeOK
<1>4. ending' \in [EndIds -> Phases]
      /\ \A e \in EndIds : ending[e] = "closing" => ending'[e] = "closing"
  BY <1>1, <1>3 DEF Phases
<1>5. EndsOK'
  BY <1>1, <1>3, <1>4 DEF EndsOK, Attached
<1>6. ClientOK' /\ StreamsOK' /\ TaskOK'
  BY DEF Acknowledge, TypeOK, ClientOK, StreamsOK, TaskOK, flags, timers, streams, history
<1> QED BY <1>2, <1>5, <1>6, TypePartsNext

LEMMA NetworkType ==
    ASSUME TypeOK, Network
    PROVE  TypeOK'
BY AcceptType, RefuseType, CloseType, AcknowledgeType DEF Network

LEMMA TypeStep ==
    ASSUME TypeOK, [Next]_vars
    PROVE  TypeOK'
<1>1. CASE Next
  BY <1>1, UserType, RunType, TimeoutType, NetworkType DEF Next
<1>2. CASE UNCHANGED vars
  BY <1>2 DEF vars, flags, timers, streams, session, history, TypeOK, Attached
<1> QED BY <1>1, <1>2

LEMMA InitType == Init => TypeOK
<1> SUFFICES ASSUME Init PROVE TypeOK
  OBVIOUS
<1>1. ClientOK /\ StreamsOK /\ SessionOK
  BY DEF Init, ClientOK, StreamsOK, SessionOK
<1>2. EndsOK
  BY DEF Init, EndsOK, Attached, Phases
<1>3. run = <<>> \/ run = <<"connect">>
  BY DEF Init
<1>4. run \in Seq({"connect", "deferred", "reconnect"})
  BY <1>3, Tasks
<1>5. TaskOK
  BY <1>4, Parameters DEF Init, TaskOK
<1> QED BY <1>1, <1>2, <1>5, TypeParts


(***************************************************************************)
(* Every variable keeps its type, and a listener on a stream's 'close'     *)
(* belongs to one end() that waits for it, whatever the user, the network  *)
(* and the timers do.                                                      *)
(***************************************************************************)
THEOREM TypeCorrect == Spec => []TypeOK
<1>1. Init => TypeOK
  BY InitType
<1>2. TypeOK /\ [Next]_vars => TypeOK'
  BY TypeStep
<1> QED BY <1>1, <1>2, PTL DEF Spec

-----------------------------------------------------------------------------
(* end() calls back at most once. *)

\* An end() that has called back is not among those a step may move.
LEMMA DoneStays ==
    ASSUME TypeOK, [Next]_vars, NEW e \in Ends, ending[e] = "done"
    PROVE  ending'[e] = "done"
<1> USE InternalIsEnd
<1>1. ending \in [EndIds -> Phases] /\ e \in EndIds /\ e # Internal
  BY Parameters DEF TypeOK
<1>2. ASSUME NEW f \in EndIds, NEW force, f # e, End(f, force) PROVE ending'[e] = "done"
  <2>1. \E p \in Phases : ending' = [ending EXCEPT ![f] = p]
    BY <1>2 DEF End, Finish, Listen, Phases
  <2> QED BY <1>1, <1>2, <2>1
<1>3. CASE User
  <2>1. ASSUME NEW f \in Ends, UserEnd(f) PROVE ending'[e] = "done"
    BY <1>2, <2>1 DEF UserEnd
  <2>2. CASE UserConnect
    BY <2>2 DEF UserConnect, Connect
  <2>3. CASE UserReconnect \/ Publish
    BY <2>3 DEF UserReconnect, Publish
  <2> QED BY <1>3, <2>1, <2>2, <2>3 DEF User
<1>4. CASE Run
  <2>1. CASE RunConnect
    BY <2>1 DEF RunConnect, Connect
  <2>2. CASE RunReconnect
    BY <1>1, <1>2, <2>2 DEF RunReconnect, Connect
  <2>3. CASE RunDeferred \/ EndStream \/ Announce
    BY <2>3 DEF RunDeferred, EndStream, Announce
  <2>4. ASSUME NEW f \in EndIds, CloseStores(f) PROVE ending'[e] = "done"
    BY <1>1, <2>4 DEF CloseStores
  <2> QED BY <1>4, <2>1, <2>2, <2>3, <2>4 DEF Run
<1>5. CASE Timeout
  <2>1. CASE ReconnectTimeout \/ ConnackTimeout \/ KeepaliveTimeout
    BY <2>1 DEF ReconnectTimeout, ConnackTimeout, KeepaliveTimeout, GiveUp
  <2>2. ASSUME NEW f \in EndIds, FinishDelayed(f) PROVE ending'[e] = "done"
    <3>1. f # e /\ \E p \in Phases : ending' = [ending EXCEPT ![f] = p]
      BY <2>2 DEF FinishDelayed, Finish, Listen, Phases
    <3> QED BY <1>1, <3>1
  <2> QED BY <1>5, <2>1, <2>2 DEF Timeout
<1>6. CASE Network
  <2>1. ASSUME NEW s \in Streams, Accept(s) \/ Refuse(s) PROVE ending'[e] = "done"
    BY <2>1 DEF Accept, Refuse
  <2>2. ASSUME NEW s \in Streams, Close(s) PROVE ending'[e] = "done"
    <3>1. e \notin onClose[s]
      BY DEF TypeOK, Attached
    <3> QED BY <1>1, <2>2, <3>1 DEF Close
  <2>3. CASE Acknowledge
    BY <1>1, <2>3 DEF Acknowledge
  <2> QED BY <1>6, <2>1, <2>2, <2>3 DEF Network
<1>7. CASE UNCHANGED vars
  BY <1>7 DEF vars
<1> QED BY <1>3, <1>4, <1>5, <1>6, <1>7 DEF Next

(***************************************************************************)
(* The callback of an end() runs at most once: neither another end(), nor  *)
(* a 'close' that comes late, nor a reconnection starts it again.          *)
(***************************************************************************)
THEOREM EndsOnce == Spec => EndOnce
<1>1. TypeOK /\ [Next]_vars => [\A e \in Ends : ending[e] = "done" => ending'[e] = "done"]_vars
  BY DoneStays
<1> QED BY <1>1, TypeCorrect, PTL DEF Spec, EndOnce

-----------------------------------------------------------------------------
(* The reconnect timer. *)

\* No stream counts as connected when the stores are about to be closed.
TickIsDown == \A e \in EndIds : ending[e] = "tick" => ~connected

TimerInv == TypeOK /\ TimerIsWanted /\ TickIsDown

LEMMA ListenDown ==
    ASSUME TimerInv, NEW e \in EndIds, Listen(e), connected' = connected
    PROVE  TickIsDown'
BY DEF TimerInv, TypeOK, TickIsDown, Listen

\* end() clears the timer as it sets disconnecting.
LEMMA EndTimer ==
    ASSUME TimerInv, NEW e \in EndIds, NEW force, End(e, force)
    PROVE  TimerIsWanted' /\ TickIsDown'
<1>1. connected' = connected /\ disconnected' = disconnected
  BY DEF End
<1>2. TimerIsWanted'
  BY <1>1 DEF End, ClearReconnect, TimerInv, TimerIsWanted
<1>3. CASE disconnecting \/ Drains(force)
  <2>1. \E p \in {"waiting", "done"} : ending' = [ending EXCEPT ![e] = p]
    BY <1>3 DEF End
  <2> QED BY <1>1, <1>2, <2>1 DEF TimerInv, TypeOK, TickIsDown
<1>4. CASE ~disconnecting /\ ~Drains(force)
  <2>1. Listen(e)
    BY <1>4 DEF End, Finish
  <2> QED BY <1>1, <1>2, <2>1, ListenDown
<1> QED BY <1>3, <1>4

\* connect() clears it, and leaves an ended client as it is or revives it.
LEMMA ConnectTimer ==
    ASSUME TimerInv, Connect
    PROVE  TimerIsWanted' /\ TickIsDown'
<1>1. reconnectTimer' = FALSE /\ connected' = connected /\ ending' = ending
      /\ (disconnected' = disconnected \/ disconnected' = FALSE)
  BY DEF Connect, ClearReconnect
<1> QED BY <1>1 DEF TimerInv, TimerIsWanted, TickIsDown

\* Setting the timer up asks that the client is not ending.
LEMMA ResetTimer ==
    ASSUME TimerInv, ResetReconnect \/ SetupReconnect,
           disconnecting' = disconnecting, disconnected' = disconnected,
           connected' = connected \/ connected' = FALSE
    PROVE  TimerIsWanted'
BY DEF TimerInv, TypeOK, TimerIsWanted, ResetReconnect, SetupReconnect

LEMMA TimerStep ==
    ASSUME TimerInv, [Next]_vars
    PROVE  TimerIsWanted' /\ TickIsDown'
<1> USE InternalIsEnd
<1>0. TypeOK /\ TimerIsWanted /\ TickIsDown
  BY DEF TimerInv
<1>1. CASE User
  <2>1. ASSUME NEW e \in Ends, UserEnd(e) PROVE TimerIsWanted' /\ TickIsDown'
    BY <2>1, EndTimer DEF UserEnd
  <2>2. CASE UserConnect
    BY <2>2, ConnectTimer DEF UserConnect
  <2>3. CASE UserReconnect
    <3>1. connected' = connected /\ reconnectTimer' = reconnectTimer /\ ending' = ending
          /\ \/ disconnecting' = disconnecting /\ disconnected' = disconnected
             \/ disconnecting' = FALSE /\ disconnected' = FALSE
      BY <2>3 DEF UserReconnect, Revive, timers
    <3> QED BY <1>0, <3>1 DEF TimerIsWanted, TickIsDown
  <2>4. CASE Publish
    BY <1>0, <2>4 DEF Publish, flags, timers, TimerIsWanted, TickIsDown
  <2> QED BY <1>1, <2>1, <2>2, <2>3, <2>4 DEF User
<1>2. CASE Run
  <2>1. CASE RunConnect
    BY <2>1, ConnectTimer DEF RunConnect
  <2>2. CASE RunReconnect
    BY <2>2, ConnectTimer, EndTimer DEF RunReconnect
  <2>3. CASE RunDeferred
    <3>1. connected' = connected /\ reconnectTimer' = reconnectTimer /\ ending' = ending
          /\ (disconnected' = disconnected \/ disconnected' = FALSE)
      BY <2>3 DEF RunDeferred, Revive, timers
    <3>2. ~disconnecting => ~disconnecting'
      BY <2>3 DEF RunDeferred, Revive
    <3> QED BY <1>0, <3>1, <3>2 DEF TimerIsWanted, TickIsDown
  <2>4. ASSUME NEW e \in EndIds, CloseStores(e) PROVE TimerIsWanted' /\ TickIsDown'
    <3>1. ending[e] = "tick" /\ ending' = [ending EXCEPT ![e] = "done"]
          /\ connected' = connected /\ disconnecting' = disconnecting
          /\ reconnectTimer' = reconnectTimer
      BY <2>4 DEF CloseStores, timers
    <3>2. ~connected
      BY <1>0, <3>1 DEF TickIsDown
    <3> QED BY <1>0, <3>1, <3>2 DEF TimerIsWanted, TickIsDown
  <2>5. CASE EndStream \/ Announce
    BY <1>0, <2>5 DEF EndStream, Announce, flags, timers, TimerIsWanted, TickIsDown
  <2> QED BY <1>2, <2>1, <2>2, <2>3, <2>4, <2>5 DEF Run
<1>3. CASE Timeout
  <2>1. CASE ReconnectTimeout
    BY <1>0, <2>1 DEF ReconnectTimeout, flags, timers, TimerIsWanted, TickIsDown
  <2>2. CASE ConnackTimeout \/ KeepaliveTimeout
    <3>1. ResetReconnect /\ connected' = connected /\ disconnecting' = disconnecting
          /\ disconnected' = disconnected /\ ending' = ending
      BY <2>2 DEF ConnackTimeout, KeepaliveTimeout, GiveUp
    <3> QED BY <1>0, <3>1, ResetTimer DEF TickIsDown
  <2>3. ASSUME NEW e \in EndIds, FinishDelayed(e) PROVE TimerIsWanted' /\ TickIsDown'
    <3>1. ResetReconnect /\ Listen(e) /\ connected' = connected
          /\ disconnecting' = disconnecting /\ disconnected' = disconnected
      BY <2>3 DEF FinishDelayed, Finish
    <3> QED BY <3>1, ResetTimer, ListenDown
  <2> QED BY <1>3, <2>1, <2>2, <2>3 DEF Timeout
<1>4. CASE Network
  <2>1. ASSUME NEW s \in Streams, Accept(s) PROVE TimerIsWanted' /\ TickIsDown'
    <3>1. disconnecting' = disconnecting /\ disconnected' = disconnected
          /\ reconnectTimer' = reconnectTimer /\ ending' = ending
          /\ (disconnected => connected' = connected)
      BY <2>1 DEF Accept
    <3>2. \A e \in EndIds : ending[e] # "tick"
      BY <2>1 DEF Accept, Settled, Ready
    <3> QED BY <1>0, <3>1, <3>2 DEF TimerIsWanted, TickIsDown
  <2>2. ASSUME NEW s \in Streams, Refuse(s) PROVE TimerIsWanted' /\ TickIsDown'
    <3>1. connected' = connected /\ disconnecting' = disconnecting
          /\ disconnected' = disconnected /\ ending' = ending
          /\ (ResetReconnect \/ reconnectTimer' = reconnectTimer)
      BY <2>2 DEF Refuse
    <3>2. TickIsDown'
      BY <1>0, <3>1 DEF TickIsDown
    <3>3. CASE ResetReconnect
      BY <3>1, <3>2, <3>3, ResetTimer
    <3>4. CASE reconnectTimer' = reconnectTimer
      BY <1>0, <3>1, <3>2, <3>4 DEF TimerIsWanted
    <3> QED BY <3>1, <3>3, <3>4
  <2>3. ASSUME NEW s \in Streams, Close(s) PROVE TimerIsWanted' /\ TickIsDown'
    <3>1. SetupReconnect /\ connected' = FALSE /\ disconnecting' = disconnecting
          /\ disconnected' = disconnected
      BY <2>3 DEF Close, Lose
    <3> QED BY <3>1, ResetTimer DEF TickIsDown
  <2>4. CASE Acknowledge
    <3>1. connected' = connected /\ disconnecting' = disconnecting
          /\ disconnected' = disconnected /\ reconnectTimer' = reconnectTimer
          /\ \A e \in EndIds : ending'[e] = "tick" => ending[e] = "tick"
      BY <2>4 DEF Acknowledge, flags, timers
    <3> QED BY <1>0, <3>1 DEF TimerIsWanted, TickIsDown
  <2> QED BY <1>4, <2>1, <2>2, <2>3, <2>4 DEF Network
<1>5. CASE UNCHANGED vars
  BY <1>0, <1>5 DEF vars, flags, timers, TimerIsWanted, TickIsDown
<1> QED BY <1>1, <1>2, <1>3, <1>4, <1>5 DEF Next

(***************************************************************************)
(* The reconnect timer never runs for a client that is ending or that was  *)
(* told not to reconnect, and no ended client counts as connected.         *)
(***************************************************************************)
THEOREM TimerIsWantedAlways == Spec => []TimerIsWanted
<1>1. Init => TimerInv
  <2>1. Init => TimerIsWanted /\ TickIsDown
    BY DEF Init, TimerIsWanted, TickIsDown
  <2> QED BY <2>1, InitType DEF TimerInv
<1>2. TimerInv /\ [Next]_vars => TimerInv'
  BY TypeStep, TimerStep DEF TimerInv
<1>3. TimerInv => TimerIsWanted
  BY DEF TimerInv
<1> QED BY <1>1, <1>2, <1>3, PTL DEF Spec

-----------------------------------------------------------------------------
(***************************************************************************)
(* The calls and streams the rest is about.  Nothing in the documentation  *)
(* asks for them, and what follows is false without the first two:         *)
(* reconnect() on a connected client is not called (Polite;                *)
(* TimerBehind.cfg), and a destroyed stream closes before any timer.  The  *)
(* third is needed by EndedStaysDown and EndedIsClosed: a client made with *)
(* manualConnect does not reconnect by itself, since its end() leaves      *)
(* disconnecting unset.                                                    *)
(***************************************************************************)
Regular == Polite /\ ~SlowClose /\ (Period => ~Manual)

Down == \A s \in Streams : state[s] = "closed"
Active(e) == ending[e] \in {"waiting", "delay", "closing", "tick"}
At(task) == run # <<>> /\ Head(run) = task

\* The streams: the current one only, accepted if the client counts as
\* connected, and given up if the reconnect timer runs.
OnlyCurrent == \A s \in Streams : state[s] # "closed" => s = stream
UpIsAccepted ==
    connected => stream \in Streams /\ state[stream] # "closed" /\ answer[stream] = "accepted"
TimerIsDown == reconnectTimer => \A s \in Streams : state[s] \in {"closed", "destroyed"}
StreamsInv == OnlyCurrent /\ UpIsAccepted /\ TimerIsDown

\* The task: what is about to connect finds no stream left.
TaskInv ==
    /\ run # <<>> => Tail(run) = <<>>
    /\ At("connect") \/ At("reconnect") => Down /\ ~deferred
    /\ At("connect") => stream = None
    /\ At("deferred") => disconnected

\* The end() calls: one at a time goes on, while the client is ending; and a
\* reconnect() that waits for one finds no stream left when it is its turn.
OneEnd ==
    Period =>
        /\ disconnected => disconnecting
        /\ \A e \in EndIds : Active(e) => disconnecting /\ ~disconnected
        /\ \A e, f \in EndIds : Active(e) /\ Active(f) => e = f
DeferredInv ==
    deferred =>
        /\ connected \/ Down
        /\ stream # None
        /\ run = <<>> => disconnecting /\ ~disconnected
EndsInv == OneEnd /\ DeferredInv /\ ending[Internal] = "none"

OneInv == TimerInv /\ StreamsInv /\ TaskInv /\ EndsInv

LEMMA OneTask ==
    /\ \A t : <<t>> # <<>> /\ Head(<<t>>) = t /\ Tail(<<t>>) = <<>>
    /\ <<>> \o <<"deferred">> = <<"deferred">> /\ <<"reconnect">> \o <<>> = <<"reconnect">>
<1>1. \A t : <<t>> # <<>> /\ Head(<<t>>) = t /\ Tail(<<t>>) = <<>>
  OBVIOUS
<1>2. <<>> \o <<"deferred">> = <<"deferred">> /\ <<"reconnect">> \o <<>> = <<"reconnect">>
  OBVIOUS
<1> QED BY <1>1, <1>2

LEMMA LiveIsDown == (Live = {}) = Down
BY DEF Live, Down

\* connect() with no stream left.
LEMMA ConnectOne ==
    ASSUME TypeOK, StreamsInv, Down, ~connected, Connect
    PROVE  StreamsInv' /\ stream' # None
<1>1. PICK s \in Streams :
        /\ stream' = s
        /\ state' = [state EXCEPT ![s] = "open"]
  BY DEF Connect
<1>2. connected' = FALSE /\ reconnectTimer' = FALSE
  BY DEF Connect, ClearReconnect
<1>3. OnlyCurrent'
  BY <1>1 DEF TypeOK, OnlyCurrent, Down
<1>4. UpIsAccepted' /\ TimerIsDown'
  BY <1>2 DEF UpIsAccepted, TimerIsDown
<1>5. stream' # None
  BY <1>1, Parameters
<1> QED BY <1>3, <1>4, <1>5 DEF StreamsInv

\* A step that moves neither the streams nor the timer.
LEMMA SameStreams ==
    ASSUME StreamsInv, stream' = stream, state' = state, answer' = answer,
           connected' = connected, reconnectTimer' => reconnectTimer
    PROVE  StreamsInv'
BY DEF StreamsInv, OnlyCurrent, UpIsAccepted, TimerIsDown

\* Destroying the current stream, with or without a reconnect timer.
LEMMA DestroyOne ==
    ASSUME TypeOK, StreamsInv, Destroy, stream' = stream, answer' = answer, connected' = connected
    PROVE  StreamsInv' /\ (Down => Down')
<1>1. \A s \in Streams : state'[s] = IF s = stream /\ state[s] # "closed" THEN "destroyed" ELSE state[s]
  BY DEF Destroy, TypeOK
<1>2. OnlyCurrent' /\ TimerIsDown' /\ (Down => Down')
  BY <1>1 DEF StreamsInv, OnlyCurrent, TimerIsDown, Down
<1>3. UpIsAccepted'
  BY <1>1 DEF StreamsInv, UpIsAccepted
<1> QED BY <1>2, <1>3 DEF StreamsInv

LEMMA FinishOne ==
    ASSUME TypeOK, StreamsInv, NEW e, NEW force, Finish(e, force), connected' = connected,
           reconnectTimer' => reconnectTimer
    PROVE  StreamsInv' /\ (Down => Down')
<1>1. CASE force
  BY <1>1, DestroyOne DEF Finish
<1>2. CASE ~force
  BY <1>2, SameStreams DEF Finish, SendDisconnect, Down
<1> QED BY <1>1, <1>2

\* Whether an end() goes on, after a step that moves one of them.
LEMMA MoveEnd ==
    ASSUME TypeOK, NEW e \in EndIds, NEW p \in Phases, e # Internal, EndsInv, Active(e),
           ending' = [ending EXCEPT ![e] = p], disconnecting' = disconnecting,
           disconnected' = disconnected
    PROVE  OneEnd' /\ ending'[Internal] = "none"
<1>1. \A f \in EndIds \ {e} : ending'[f] = ending[f]
  BY DEF TypeOK
<1>2. \A f \in EndIds : Active(f)' => Active(f)
  BY <1>1 DEF Active
<1>3. ending'[Internal] = "none"
  BY <1>1, InternalIsEnd DEF EndsInv
<1>4. OneEnd'
  BY <1>2 DEF EndsInv, OneEnd
<1> QED BY <1>3, <1>4

LEMMA StartEnd ==
    ASSUME TypeOK, NEW e \in EndIds, NEW p \in Phases, e # Internal, EndsInv, ~disconnecting,
           ending' = [ending EXCEPT ![e] = p], disconnecting' = TRUE,
           disconnected' = disconnected
    PROVE  OneEnd' /\ ending'[Internal] = "none"
<1>1. \A f \in EndIds \ {e} : ending'[f] = ending[f]
  BY DEF TypeOK
<1>3. ending'[Internal] = "none"
  BY <1>1, InternalIsEnd DEF EndsInv
<1>4. ASSUME Period PROVE ~disconnected /\ \A f \in EndIds \ {e} : ~Active(f)'
  BY <1>1, <1>4 DEF EndsInv, OneEnd, Active
<1>5. OneEnd'
  BY <1>4 DEF OneEnd
<1> QED BY <1>3, <1>5

LEMMA UserEndOne ==
    ASSUME Regular, OneInv, NEW e \in Ends, UserEnd(e)
    PROVE  StreamsInv' /\ TaskInv' /\ EndsInv'
<1>1. /\ TypeOK /\ StreamsInv /\ EndsInv /\ run = <<>> /\ run' = run /\ ~deferred
      /\ e \in EndIds /\ e # Internal /\ ending[e] = "none"
  BY Parameters, InternalIsEnd DEF OneInv, TimerInv, UserEnd, Quiet, Regular
<1>2. /\ connected' = connected /\ disconnected' = disconnected /\ deferred' = deferred
      /\ End(e, ForceOf[e])
  BY DEF UserEnd, End
<1>3. TaskInv'
  BY <1>1 DEF TaskInv, At
<1>4. DeferredInv'
  BY <1>1, <1>2 DEF DeferredInv
<1>5. CASE disconnecting
  <2>1. /\ ending' = [ending EXCEPT ![e] = "done"] /\ disconnecting' = disconnecting
        /\ reconnectTimer' = reconnectTimer /\ stream' = stream /\ state' = state
        /\ answer' = answer
    BY <1>2, <1>5 DEF End, streams
  <2>2. StreamsInv'
    BY <1>1, <1>2, <2>1, SameStreams
  <2>3. /\ \A f \in EndIds : Active(f)' => Active(f)
        /\ ending'[Internal] = "none"
    BY <1>1, <2>1, InternalIsEnd DEF TypeOK, Active, EndsInv
  <2>4. OneEnd'
    BY <1>1, <1>2, <2>1, <2>3 DEF EndsInv, OneEnd
  <2> QED BY <1>3, <1>4, <2>2, <2>3, <2>4 DEF EndsInv
<1>6. CASE ~disconnecting /\ Drains(ForceOf[e])
  <2>1. /\ ending' = [ending EXCEPT ![e] = "waiting"] /\ disconnecting' = TRUE
        /\ reconnectTimer' = FALSE /\ stream' = stream /\ state' = state /\ answer' = answer
    BY <1>2, <1>6 DEF End, streams, ClearReconnect
  <2>2. StreamsInv'
    BY <1>1, <1>2, <2>1, SameStreams
  <2>3. OneEnd' /\ ending'[Internal] = "none"
    BY <1>1, <1>2, <1>6, <2>1, StartEnd DEF Phases
  <2> QED BY <1>3, <1>4, <2>2, <2>3 DEF EndsInv
<1>7. CASE ~disconnecting /\ ~Drains(ForceOf[e])
  <2>1. disconnecting' = TRUE /\ reconnectTimer' = FALSE /\ Finish(e, ForceOf[e])
    BY <1>2, <1>7 DEF End, ClearReconnect
  <2>2. StreamsInv'
    BY <1>1, <1>2, <2>1, FinishOne
  <2>3. \E p \in Phases : ending' = [ending EXCEPT ![e] = p]
    BY <2>1 DEF Finish, Listen, Phases
  <2>4. OneEnd' /\ ending'[Internal] = "none"
    BY <1>1, <1>2, <1>7, <2>1, <2>3, StartEnd
  <2> QED BY <1>3, <1>4, <2>2, <2>4 DEF EndsInv
<1> QED BY <1>5, <1>6, <1>7

LEMMA ConnectEnds ==
    ASSUME EndsInv, Connect, run' = run \/ run' = <<>>, ~deferred
    PROVE  EndsInv' /\ ~deferred'
<1>1. ending' = ending /\ deferred' = deferred
      /\ \/ disconnecting' = disconnecting /\ disconnected' = disconnected
         \/ disconnected /\ disconnecting' = FALSE /\ disconnected' = FALSE
  BY DEF Connect
<1>2. OneEnd'
  BY <1>1 DEF EndsInv, OneEnd, Active
<1> QED BY <1>1, <1>2 DEF EndsInv, DeferredInv

LEMMA UserConnectOne ==
    ASSUME OneInv, UserConnect
    PROVE  StreamsInv' /\ TaskInv' /\ EndsInv'
<1>1. /\ TypeOK /\ StreamsInv /\ EndsInv /\ run = <<>> /\ run' = run /\ Down /\ Connect
  BY LiveIsDown DEF OneInv, TimerInv, UserConnect, Quiet
<1>2. ~connected
  BY <1>1 DEF StreamsInv, UpIsAccepted, Down
<1>3. ~deferred
  BY <1>1 DEF UserConnect, EndsInv, DeferredInv
<1>4. StreamsInv'
  BY <1>1, <1>2, ConnectOne
<1>5. EndsInv'
  BY <1>1, <1>3, ConnectEnds
<1>6. TaskInv'
  BY <1>1 DEF TaskInv, At
<1> QED BY <1>4, <1>5, <1>6

LEMMA UserReconnectOne ==
    ASSUME Regular, OneInv, UserReconnect
    PROVE  StreamsInv' /\ TaskInv' /\ EndsInv'
<1>1. /\ TypeOK /\ StreamsInv /\ EndsInv /\ TimerIsWanted /\ run = <<>> /\ stream # None
      /\ connected' = connected /\ reconnectTimer' = reconnectTimer /\ stream' = stream
      /\ state' = state /\ answer' = answer /\ ending' = ending
      /\ Down \/ (disconnecting /\ connected)
  BY LiveIsDown DEF OneInv, TimerInv, UserReconnect, Quiet, timers, streams, Regular
<1>2. StreamsInv'
  BY <1>1, SameStreams
<1>3. Down' = Down
  BY <1>1 DEF Down
<1>4. CASE disconnecting /\ ~disconnected
  <2>1. deferred' /\ disconnecting' = disconnecting /\ disconnected' = disconnected /\ run' = run
    BY <1>4 DEF UserReconnect
  <2>2. TaskInv'
    BY <1>1, <2>1 DEF TaskInv, At
  <2>3. OneEnd'
    BY <1>1, <2>1 DEF EndsInv, OneEnd, Active
  <2>4. DeferredInv'
    BY <1>1, <1>3, <1>4, <2>1 DEF DeferredInv
  <2> QED BY <1>1, <1>2, <2>2, <2>3, <2>4 DEF EndsInv
<1>5. CASE ~(disconnecting /\ ~disconnected)
  <2>1. ~deferred' /\ ~disconnecting' /\ ~disconnected' /\ run' = <<"reconnect">>
    BY <1>5 DEF UserReconnect, Revive
  <2>2. Down'
    BY <1>1, <1>3, <1>5 DEF TimerIsWanted
  <2>3. TaskInv'
    BY <2>1, <2>2, OneTask DEF TaskInv, At
  <2>4. Period => \A e \in EndIds : ~Active(e)
    BY <1>1, <1>5 DEF EndsInv, OneEnd
  <2>5. OneEnd' /\ DeferredInv'
    BY <1>1, <2>1, <2>4 DEF OneEnd, Active, DeferredInv
  <2> QED BY <1>1, <1>2, <2>3, <2>5 DEF EndsInv
<1> QED BY <1>4, <1>5

LEMMA RunConnectOne ==
    ASSUME OneInv, RunConnect
    PROVE  StreamsInv' /\ TaskInv' /\ EndsInv'
<1>1. /\ TypeOK /\ StreamsInv /\ EndsInv /\ TaskInv /\ At("connect") /\ Connect
      /\ run' = Tail(run)
  BY DEF OneInv, TimerInv, RunConnect, At
<1>2. Down /\ ~deferred /\ run' = <<>>
  BY <1>1 DEF TaskInv, At
<1>3. ~connected
  BY <1>1, <1>2 DEF StreamsInv, UpIsAccepted, Down
<1>4. StreamsInv' /\ EndsInv'
  BY <1>1, <1>2, <1>3, ConnectOne, ConnectEnds
<1>5. TaskInv'
  BY <1>2 DEF TaskInv, At
<1> QED BY <1>4, <1>5

LEMMA RunReconnectOne ==
    ASSUME OneInv, RunReconnect
    PROVE  StreamsInv' /\ TaskInv' /\ EndsInv'
<1>1. /\ TypeOK /\ StreamsInv /\ EndsInv /\ TaskInv /\ At("reconnect") /\ run' = Tail(run)
  BY DEF OneInv, TimerInv, RunReconnect, At
<1>2. Down /\ ~deferred /\ run' = <<>>
  BY <1>1 DEF TaskInv, At
<1>3. ~connected
  BY <1>1, <1>2 DEF StreamsInv, UpIsAccepted, Down
<1>4. Connect
  BY <1>3 DEF RunReconnect
<1>5. StreamsInv' /\ EndsInv'
  BY <1>1, <1>2, <1>3, <1>4, ConnectOne, ConnectEnds
<1>6. TaskInv'
  BY <1>2 DEF TaskInv, At
<1> QED BY <1>5, <1>6

LEMMA RunDeferredOne ==
    ASSUME Regular, OneInv, RunDeferred
    PROVE  StreamsInv' /\ TaskInv' /\ EndsInv'
<1>1. /\ TypeOK /\ StreamsInv /\ EndsInv /\ TaskInv /\ TimerIsWanted /\ disconnected
      /\ run # <<>> /\ Tail(run) = <<>>
      /\ connected' = connected /\ reconnectTimer' = reconnectTimer /\ stream' = stream
      /\ state' = state /\ answer' = answer /\ ending' = ending
  BY DEF OneInv, TimerInv, RunDeferred, TaskInv, At, timers, streams
<1>2. StreamsInv'
  BY <1>1, SameStreams
<1>3. Period => \A e \in EndIds : ~Active(e)
  BY <1>1 DEF EndsInv, OneEnd
<1>4. CASE deferred
  <2>1. ~deferred' /\ ~disconnecting' /\ ~disconnected' /\ run' = <<"reconnect">>
    BY <1>1, <1>4, OneTask DEF RunDeferred, Revive
  <2>2. Down'
    BY <1>1, <1>4 DEF EndsInv, DeferredInv, TimerIsWanted, Down
  <2>3. TaskInv'
    BY <2>1, <2>2, OneTask DEF TaskInv, At
  <2>4. OneEnd' /\ DeferredInv'
    BY <1>1, <1>3, <2>1 DEF OneEnd, Active, DeferredInv
  <2> QED BY <1>1, <1>2, <2>3, <2>4 DEF EndsInv
<1>5. CASE ~deferred
  <2>1. /\ ~deferred' /\ disconnected' = disconnected /\ run' = <<>>
        /\ disconnecting' = (disconnecting /\ Period /\ ~Manual)
    BY <1>1, <1>5 DEF RunDeferred
  <2>2. TaskInv'
    BY <2>1 DEF TaskInv, At
  <2>3. Period => disconnecting'
    BY <1>1, <2>1 DEF EndsInv, OneEnd, Regular
  <2>4. OneEnd' /\ DeferredInv'
    BY <1>1, <1>3, <2>1, <2>3 DEF OneEnd, Active, DeferredInv
  <2> QED BY <1>1, <1>2, <2>2, <2>4 DEF EndsInv
<1> QED BY <1>4, <1>5

LEMMA CloseStoresOne ==
    ASSUME OneInv, NEW e \in EndIds, CloseStores(e)
    PROVE  StreamsInv' /\ TaskInv' /\ EndsInv'
<1>1. /\ TypeOK /\ StreamsInv /\ EndsInv /\ run = <<>> /\ ending[e] = "tick"
      /\ connected' = connected /\ reconnectTimer' = reconnectTimer /\ stream' = stream
      /\ state' = state /\ answer' = answer /\ ending' = [ending EXCEPT ![e] = "done"]
      /\ disconnecting' = disconnecting /\ disconnected' /\ deferred' = deferred
  BY DEF OneInv, TimerInv, CloseStores, Quiet, timers, streams
<1>2. e # Internal /\ Active(e)
  BY <1>1 DEF EndsInv, Active
<1>3. run' = <<"deferred">>
  BY <1>2, OneTask DEF CloseStores
<1>4. StreamsInv'
  BY <1>1, SameStreams
<1>5. TaskInv'
  BY <1>1, <1>3, OneTask DEF TaskInv, At
<1>6. DeferredInv'
  BY <1>1, <1>3, OneTask DEF EndsInv, DeferredInv, Down
<1>7. ending'[Internal] = "none" /\ \A f \in EndIds \ {e} : ending'[f] = ending[f]
  BY <1>1, <1>2, InternalIsEnd DEF TypeOK, EndsInv
<1>8. ending'[e] = "done"
  BY <1>1 DEF TypeOK
<1>9. ASSUME Period PROVE disconnecting /\ \A f \in EndIds : ~Active(f)'
  <2>1. disconnecting /\ \A f \in EndIds \ {e} : ~Active(f)
    BY <1>1, <1>2, <1>9 DEF EndsInv, OneEnd
  <2> QED BY <1>7, <1>8, <2>1 DEF Active
<1>10. OneEnd'
  BY <1>1, <1>9 DEF OneEnd
<1> QED BY <1>4, <1>5, <1>6, <1>7, <1>10 DEF EndsInv

LEMMA EndStreamOne ==
    ASSUME OneInv, EndStream
    PROVE  StreamsInv' /\ TaskInv' /\ EndsInv'
<1>1. /\ TypeOK /\ StreamsInv /\ EndsInv /\ TaskInv
      /\ state' = [state EXCEPT ![stream] = IF @ = "open" THEN "ended" ELSE @]
      /\ connected' = connected /\ reconnectTimer' = reconnectTimer /\ stream' = stream
      /\ answer' = answer /\ ending' = ending /\ disconnecting' = disconnecting
      /\ disconnected' = disconnected /\ deferred' = deferred /\ run' = run
  BY DEF OneInv, TimerInv, EndStream, flags, timers
<1>2. \A s \in Streams :
        state'[s] = IF s = stream /\ state[s] = "open" THEN "ended" ELSE state[s]
  BY <1>1 DEF TypeOK
<1>3. OnlyCurrent' /\ TimerIsDown' /\ Down' = Down
  BY <1>1, <1>2 DEF StreamsInv, OnlyCurrent, TimerIsDown, Down
<1>4. UpIsAccepted'
  BY <1>1, <1>2 DEF StreamsInv, UpIsAccepted
<1>5. TaskInv'
  BY <1>1, <1>3 DEF TaskInv, At
<1>6. EndsInv'
  BY <1>1, <1>3 DEF EndsInv, OneEnd, DeferredInv, Active
<1> QED BY <1>3, <1>4, <1>5, <1>6 DEF StreamsInv

\* A step that touches nothing the invariant speaks of.
LEMMA SameOne ==
    ASSUME OneInv, stream' = stream, state' = state, answer' = answer, ending' = ending,
           connected' = connected, disconnecting' = disconnecting,
           disconnected' = disconnected, reconnectTimer' = reconnectTimer,
           deferred' = deferred, run' = run
    PROVE  StreamsInv' /\ TaskInv' /\ EndsInv'
<1>1. StreamsInv'
  BY SameStreams DEF OneInv
<1>2. TaskInv' /\ EndsInv'
  BY DEF OneInv, TaskInv, At, EndsInv, OneEnd, DeferredInv, Active, Down
<1> QED BY <1>1, <1>2

LEMMA ReconnectTimeoutOne ==
    ASSUME Regular, OneInv, ReconnectTimeout
    PROVE  StreamsInv' /\ TaskInv' /\ EndsInv'
<1>1. /\ TypeOK /\ StreamsInv /\ EndsInv /\ TimerIsWanted /\ run = <<>> /\ reconnectTimer
      /\ run' = <<"reconnect">> /\ \A s \in Streams : state[s] # "destroyed"
      /\ connected' = connected /\ reconnectTimer' = reconnectTimer /\ stream' = stream
      /\ state' = state /\ answer' = answer /\ ending' = ending
      /\ disconnecting' = disconnecting /\ disconnected' = disconnected /\ deferred' = deferred
  BY DEF OneInv, TimerInv, ReconnectTimeout, Settled, Ready, Quiet, Regular, flags, timers,
         streams
<1>2. Down
  BY <1>1 DEF StreamsInv, TimerIsDown, Down
<1>3. ~deferred
  BY <1>1 DEF TimerIsWanted, EndsInv, DeferredInv
<1>4. StreamsInv'
  BY <1>1, SameStreams
<1>5. TaskInv'
  BY <1>1, <1>2, <1>3, OneTask DEF TaskInv, At, Down
<1>6. EndsInv'
  BY <1>1, <1>3 DEF EndsInv, OneEnd, DeferredInv, Active
<1> QED BY <1>4, <1>5, <1>6

LEMMA GiveUpOne ==
    ASSUME OneInv, GiveUp
    PROVE  StreamsInv' /\ TaskInv' /\ EndsInv'
<1>1. /\ TypeOK /\ StreamsInv /\ EndsInv /\ TaskInv /\ Destroy
      /\ connected' = connected /\ stream' = stream /\ answer' = answer /\ ending' = ending
      /\ disconnecting' = disconnecting /\ disconnected' = disconnected
      /\ deferred' = deferred /\ run' = run
  BY DEF OneInv, TimerInv, GiveUp
<1>2. StreamsInv' /\ (Down => Down')
  BY <1>1, DestroyOne
<1>3. TaskInv'
  BY <1>1, <1>2 DEF TaskInv, At
<1>4. EndsInv'
  BY <1>1, <1>2 DEF EndsInv, OneEnd, DeferredInv, Active
<1> QED BY <1>2, <1>3, <1>4

LEMMA FinishDelayedOne ==
    ASSUME OneInv, NEW e \in EndIds, FinishDelayed(e)
    PROVE  StreamsInv' /\ TaskInv' /\ EndsInv'
<1>1. /\ TypeOK /\ StreamsInv /\ EndsInv /\ TaskInv /\ ending[e] = "delay"
      /\ Finish(e, Forced(e)) /\ ResetReconnect
      /\ connected' = connected /\ stream' = stream /\ disconnecting' = disconnecting
      /\ disconnected' = disconnected /\ deferred' = deferred /\ run' = run
  BY DEF OneInv, TimerInv, FinishDelayed, Finish
<1>2. e # Internal /\ Active(e)
  BY <1>1 DEF EndsInv, Active
<1>3. reconnectTimer' => reconnectTimer
  BY <1>1, <1>2 DEF EndsInv, OneEnd, ResetReconnect
<1>4. StreamsInv' /\ (Down => Down')
  BY <1>1, <1>3, FinishOne
<1>5. TaskInv'
  BY <1>1, <1>4 DEF TaskInv, At
<1>6. \E p \in Phases : ending' = [ending EXCEPT ![e] = p]
  BY <1>1 DEF Finish, Listen, Phases
<1>7. OneEnd' /\ ending'[Internal] = "none"
  BY <1>1, <1>2, <1>6, MoveEnd
<1>8. DeferredInv'
  BY <1>1, <1>4 DEF EndsInv, DeferredInv
<1> QED BY <1>4, <1>5, <1>7, <1>8 DEF EndsInv

\* A stream that the client still reads is the current one, and no timer runs.
LEMMA ReadOne ==
    ASSUME OneInv, NEW s \in Streams, state[s] \in {"open", "ended"}
    PROVE  s = stream /\ ~Down /\ ~reconnectTimer
<1>1. state[s] # "closed" /\ state[s] # "destroyed"
  OBVIOUS
<1>2. s = stream
  BY <1>1 DEF OneInv, StreamsInv, OnlyCurrent
<1>3. ~Down
  BY <1>1 DEF Down
<1>4. ~reconnectTimer
  BY <1>1 DEF OneInv, StreamsInv, TimerIsDown
<1> QED BY <1>2, <1>3, <1>4

LEMMA AcceptOne ==
    ASSUME OneInv, NEW s \in Streams, Accept(s)
    PROVE  StreamsInv' /\ TaskInv' /\ EndsInv'
<1>1. /\ TypeOK /\ StreamsInv /\ EndsInv /\ run = <<>>
      /\ state[s] \in {"open", "ended"} /\ answer' = [answer EXCEPT ![s] = "accepted"]
      /\ stream' = stream /\ state' = state /\ ending' = ending
      /\ disconnecting' = disconnecting /\ disconnected' = disconnected
      /\ reconnectTimer' = reconnectTimer /\ deferred' = deferred /\ run' = run
      /\ (connected => connected')
  BY DEF OneInv, TimerInv, Accept, Settled, Ready, Quiet
<1>2. s = stream /\ ~Down
  BY <1>1, ReadOne
<1>3. OnlyCurrent' /\ TimerIsDown'
  BY <1>1 DEF StreamsInv, OnlyCurrent, TimerIsDown
<1>4. UpIsAccepted'
  BY <1>1, <1>2 DEF TypeOK, UpIsAccepted
<1>5. TaskInv'
  BY <1>1 DEF TaskInv, At
<1>6. EndsInv'
  BY <1>1, <1>2 DEF EndsInv, OneEnd, DeferredInv, Active
<1> QED BY <1>3, <1>4, <1>5, <1>6 DEF StreamsInv

LEMMA RefuseOne ==
    ASSUME OneInv, NEW s \in Streams, Refuse(s)
    PROVE  StreamsInv' /\ TaskInv' /\ EndsInv'
<1>1. /\ TypeOK /\ StreamsInv /\ EndsInv /\ run = <<>>
      /\ state[s] \in {"open", "ended"} /\ answer[s] = "none"
      /\ answer' = [answer EXCEPT ![s] = "refused"]
      /\ stream' = stream /\ ending' = ending /\ connected' = connected
      /\ disconnecting' = disconnecting /\ disconnected' = disconnected
      /\ deferred' = deferred /\ run' = run
  BY DEF OneInv, TimerInv, Refuse, Settled, Ready, Quiet
<1>2. s = stream /\ ~Down /\ ~reconnectTimer
  BY <1>1, ReadOne
<1>3. ~connected
  BY <1>1, <1>2 DEF StreamsInv, UpIsAccepted
<1>4. \/ \A x \in Streams : state'[x] = IF x = stream /\ state[x] # "closed" THEN "destroyed"
                                       ELSE state[x]
      \/ state' = state /\ reconnectTimer' = reconnectTimer
  BY <1>1 DEF Refuse, Destroy, TypeOK
<1>5. OnlyCurrent' /\ TimerIsDown'
  BY <1>1, <1>2, <1>4 DEF StreamsInv, OnlyCurrent, TimerIsDown
<1>6. UpIsAccepted'
  BY <1>1, <1>3 DEF UpIsAccepted
<1>7. TaskInv'
  BY <1>1 DEF TaskInv, At
<1>8. ~deferred
  BY <1>2, <1>3, <1>1 DEF EndsInv, DeferredInv
<1>9. EndsInv'
  BY <1>1, <1>8 DEF EndsInv, OneEnd, DeferredInv, Active
<1> QED BY <1>5, <1>6, <1>7, <1>9 DEF StreamsInv

LEMMA CloseOne ==
    ASSUME OneInv, NEW s \in Streams, Close(s)
    PROVE  StreamsInv' /\ TaskInv' /\ EndsInv'
<1>1. /\ TypeOK /\ StreamsInv /\ EndsInv /\ run = <<>> /\ state[s] # "closed"
      /\ state' = [state EXCEPT ![s] = "closed"] /\ connected' = FALSE
      /\ ending' = [e \in EndIds |-> IF e \in onClose[s] THEN "tick" ELSE ending[e]]
      /\ stream' = stream /\ disconnecting' = disconnecting /\ disconnected' = disconnected
      /\ deferred' = deferred /\ run' = run
  BY DEF OneInv, TimerInv, Close, Ready, Quiet, Lose, Live
<1>2. s = stream
  BY <1>1 DEF StreamsInv, OnlyCurrent
<1>3. Down'
  BY <1>1, <1>2 DEF TypeOK, StreamsInv, OnlyCurrent, Down
<1>4. StreamsInv'
  BY <1>1, <1>3 DEF StreamsInv, OnlyCurrent, UpIsAccepted, TimerIsDown, Down
<1>5. TaskInv'
  BY <1>1 DEF TaskInv, At
<1>6. \A e \in EndIds : e \in onClose[s] => ending[e] = "closing"
  BY <1>1 DEF TypeOK, Attached
<1>7. ending'[Internal] = "none" /\ \A e \in EndIds : Active(e)' => Active(e)
  BY <1>1, <1>6, InternalIsEnd DEF EndsInv, Active
<1>8. OneEnd'
  BY <1>1, <1>7 DEF EndsInv, OneEnd
<1>9. DeferredInv'
  BY <1>1, <1>3 DEF EndsInv, DeferredInv
<1> QED BY <1>4, <1>5, <1>7, <1>8, <1>9 DEF EndsInv

LEMMA AcknowledgeOne ==
    ASSUME OneInv, Acknowledge
    PROVE  StreamsInv' /\ TaskInv' /\ EndsInv'
<1>1. /\ TypeOK /\ StreamsInv /\ EndsInv /\ TaskInv
      /\ ending' = [e \in EndIds |-> IF disconnecting /\ ending[e] = "waiting" THEN "delay"
                                     ELSE ending[e]]
      /\ connected' = connected /\ reconnectTimer' = reconnectTimer /\ stream' = stream
      /\ state' = state /\ answer' = answer /\ disconnecting' = disconnecting
      /\ disconnected' = disconnected /\ deferred' = deferred /\ run' = run
  BY DEF OneInv, TimerInv, Acknowledge, flags, timers, streams
<1>2. StreamsInv'
  BY <1>1, SameStreams
<1>3. TaskInv'
  BY <1>1 DEF TaskInv, At, Down
<1>4. ending'[Internal] = "none" /\ \A e \in EndIds : Active(e)' => Active(e)
  BY <1>1, InternalIsEnd DEF EndsInv, Active
<1>5. OneEnd'
  BY <1>1, <1>4 DEF EndsInv, OneEnd
<1>6. DeferredInv'
  BY <1>1 DEF EndsInv, DeferredInv, Down
<1> QED BY <1>2, <1>3, <1>4, <1>5, <1>6 DEF EndsInv

LEMMA OneStep ==
    ASSUME Regular, OneInv, [Next]_vars
    PROVE  OneInv'
<1>1. TimerInv'
  BY TypeStep, TimerStep DEF OneInv, TimerInv
<1>2. CASE User
  <2>1. CASE Publish
    BY <1>1, <2>1, SameOne DEF Publish, flags, timers, streams, OneInv
  <2>2. ASSUME NEW e \in Ends, UserEnd(e) PROVE OneInv'
    BY <1>1, <2>2, UserEndOne DEF OneInv
  <2>3. CASE UserConnect \/ UserReconnect
    BY <1>1, <2>3, UserConnectOne, UserReconnectOne DEF OneInv
  <2> QED BY <1>2, <2>1, <2>2, <2>3 DEF User
<1>3. CASE Run
  <2>1. CASE Announce
    BY <1>1, <2>1, SameOne DEF Announce, flags, timers, streams, OneInv
  <2> QED BY <1>1, <1>3, <2>1, RunConnectOne, RunReconnectOne, RunDeferredOne, CloseStoresOne,
             EndStreamOne DEF Run, OneInv
<1>4. CASE Timeout
  <2>1. CASE ConnackTimeout \/ KeepaliveTimeout
    BY <1>1, <2>1, GiveUpOne DEF ConnackTimeout, KeepaliveTimeout, OneInv
  <2> QED BY <1>1, <1>4, <2>1, ReconnectTimeoutOne, FinishDelayedOne DEF Timeout, OneInv
<1>5. CASE Network
  BY <1>1, <1>5, AcceptOne, RefuseOne, CloseOne, AcknowledgeOne DEF Network, OneInv
<1>6. CASE UNCHANGED vars
  BY <1>1, <1>6, SameOne DEF vars, flags, timers, streams, OneInv
<1> QED BY <1>2, <1>3, <1>4, <1>5, <1>6 DEF Next

LEMMA OneInit == Init => OneInv
<1> SUFFICES ASSUME Init PROVE OneInv
  OBVIOUS
<1>1. TimerInv
  BY InitType DEF Init, TimerInv, TimerIsWanted, TickIsDown
<1>2. Down /\ ~connected /\ ~reconnectTimer /\ ~deferred /\ ~disconnected /\ stream = None
  BY DEF Init, Down
<1>3. StreamsInv
  BY <1>2 DEF StreamsInv, OnlyCurrent, UpIsAccepted, TimerIsDown, Down
<1>4. run = <<>> \/ run = <<"connect">>
  BY DEF Init
<1>5. TaskInv
  BY <1>2, <1>4, OneTask DEF TaskInv, At
<1>6. EndsInv
  BY <1>2, InternalIsEnd DEF Init, EndsInv, OneEnd, DeferredInv, Active
<1> QED BY <1>1, <1>3, <1>5, <1>6 DEF OneInv

LEMMA OneInvariant == Regular /\ Spec => []OneInv
<1> SUFFICES ASSUME Regular PROVE Spec => []OneInv
  OBVIOUS
<1>1. OneInv /\ [Next]_vars => OneInv'
  BY OneStep
<1> QED BY <1>1, OneInit, PTL DEF Spec

(***************************************************************************)
(* In such a client no stream is left open behind the current one, and one *)
(* that counts as connected has a stream that was accepted and has not     *)
(* closed (client.ts:1801, 1539).                                          *)
(***************************************************************************)
LEMMA OneConnectionCorrect ==
    ASSUME Regular
    PROVE  Spec => []OneConnection
<1>1. OneInv => OneConnection
  <2> SUFFICES ASSUME OneInv PROVE OneConnection
    OBVIOUS
  <2>1. OnlyCurrent /\ UpIsAccepted
    BY DEF OneInv, StreamsInv
  <2> QED BY <2>1 DEF OneConnection, OnlyCurrent, UpIsAccepted, Live
<1> QED BY <1>1, OneInvariant, PTL

(***************************************************************************)
(* In such a client no reconnect timer runs behind an open connection.     *)
(***************************************************************************)
LEMMA NoTimerWhenConnectedCorrect ==
    ASSUME Regular
    PROVE  Spec => []NoTimerWhenConnected
<1>1. OneInv => NoTimerWhenConnected
  BY DEF OneInv, StreamsInv, UpIsAccepted, TimerIsDown, NoTimerWhenConnected
<1> QED BY <1>1, OneInvariant, PTL

-----------------------------------------------------------------------------
(* After end(): a client that the user has ended does not connect. *)

StopInv ==
    ~wanted =>
        /\ ~reconnectTimer /\ ~deferred /\ (Period => disconnecting)
        /\ ~At("connect") /\ ~At("reconnect")

\* The timer is not set up by a client that has been stopped.
LEMMA StoppedTimer ==
    ASSUME StopInv, ~wanted, ResetReconnect \/ SetupReconnect
    PROVE  ~reconnectTimer'
<1>1. CASE Period
  BY <1>1 DEF StopInv, ResetReconnect, SetupReconnect
<1>2. CASE ~Period
  BY <1>2 DEF StopInv, ResetReconnect, SetupReconnect
<1> QED BY <1>1, <1>2

LEMMA StopFrame ==
    ASSUME StopInv, wanted' = wanted, ~wanted => ~reconnectTimer', deferred' = deferred,
           disconnecting' = disconnecting, run' = run
    PROVE  StopInv'
BY DEF StopInv, At

LEMMA StopStep ==
    ASSUME Regular, OneInv, StopInv, [Next]_vars
    PROVE  StopInv'
<1>1. TimerIsWanted /\ TaskInv
  BY DEF OneInv, TimerInv
<1>2. ASSUME NEW e \in Ends, UserEnd(e) PROVE StopInv'
  <2>1. run' = run /\ run = <<>> /\ deferred' = deferred /\ ~deferred
    BY <1>2 DEF UserEnd, Quiet, End, Regular
  <2>2. ~reconnectTimer' /\ disconnecting'
    BY <1>1, <1>2 DEF UserEnd, End, ClearReconnect, TimerIsWanted
  <2> QED BY <2>1, <2>2 DEF StopInv, At
<1>3. CASE UserConnect \/ UserReconnect
  BY <1>3 DEF UserConnect, UserReconnect, StopInv
<1>4. CASE RunConnect \/ RunReconnect
  <2>1. (At("connect") \/ At("reconnect")) /\ wanted' = wanted
    BY <1>4 DEF RunConnect, RunReconnect, At, history
  <2> QED BY <2>1 DEF StopInv
<1>5. CASE RunDeferred
  <2>1. wanted' = wanted /\ reconnectTimer' = reconnectTimer /\ At("deferred")
    BY <1>5 DEF RunDeferred, history, timers, At
  <2>2. ASSUME ~wanted PROVE ~deferred' /\ (Period => disconnecting') /\ run' = <<>>
    BY <1>1, <1>5, <2>1, <2>2 DEF StopInv, RunDeferred, TaskInv, Regular, At
  <2> QED BY <2>1, <2>2 DEF StopInv, At
<1>6. ASSUME NEW e \in EndIds, CloseStores(e) PROVE StopInv'
  <2>1. wanted' = wanted /\ reconnectTimer' = reconnectTimer /\ deferred' = deferred
        /\ disconnecting' = disconnecting /\ e # Internal
    BY <1>6 DEF CloseStores, history, timers, OneInv, EndsInv
  <2>2. run' = <<"deferred">>
    BY <1>6, <2>1, OneTask DEF CloseStores
  <2> QED BY <2>1, <2>2, OneTask DEF StopInv, At
<1>7. CASE ReconnectTimeout
  BY <1>7 DEF ReconnectTimeout, StopInv, history
<1>8. CASE ConnackTimeout \/ KeepaliveTimeout
  BY <1>8, StoppedTimer, StopFrame DEF ConnackTimeout, KeepaliveTimeout, GiveUp
<1>9. ASSUME NEW e \in EndIds, FinishDelayed(e) PROVE StopInv'
  BY <1>9, StoppedTimer, StopFrame DEF FinishDelayed, history
<1>10. ASSUME NEW s \in Streams, Close(s) PROVE StopInv'
  BY <1>10, StoppedTimer, StopFrame DEF Close
<1>11. ASSUME NEW s \in Streams, Refuse(s) PROVE StopInv'
  <2>1. ResetReconnect \/ reconnectTimer' = reconnectTimer
    BY <1>11 DEF Refuse
  <2>2. ~wanted => ~reconnectTimer'
    BY <2>1, StoppedTimer DEF StopInv
  <2> QED BY <1>11, <2>2, StopFrame DEF Refuse
<1>12. ASSUME NEW s \in Streams, Accept(s) PROVE StopInv'
  BY <1>12, StopFrame DEF Accept, history, StopInv
<1>13. CASE Publish \/ EndStream \/ Announce \/ Acknowledge \/ UNCHANGED vars
  <2>1. wanted' = wanted /\ reconnectTimer' = reconnectTimer /\ deferred' = deferred
        /\ disconnecting' = disconnecting /\ run' = run
    BY <1>13 DEF Publish, EndStream, Announce, Acknowledge, vars, flags, timers, history
  <2> QED BY <2>1, StopFrame DEF StopInv
<1>14. CASE User
  BY <1>2, <1>3, <1>13, <1>14 DEF User
<1>15. CASE Run
  BY <1>4, <1>5, <1>6, <1>13, <1>15 DEF Run
<1>16. CASE Timeout
  BY <1>7, <1>8, <1>9, <1>16 DEF Timeout
<1>17. CASE Network
  BY <1>10, <1>11, <1>12, <1>13, <1>17 DEF Network
<1> QED BY <1>13, <1>14, <1>15, <1>16, <1>17 DEF Next

LEMMA StopInvariant == Regular /\ Spec => [](OneInv /\ StopInv)
<1> SUFFICES ASSUME Regular PROVE Spec => [](OneInv /\ StopInv)
  OBVIOUS
<1>1. OneInv /\ StopInv /\ [Next]_vars => OneInv' /\ StopInv'
  BY OneStep, StopStep
<1>2. Init => StopInv
  BY DEF Init, StopInv
<1> QED BY <1>1, <1>2, OneInit, PTL DEF Spec

\* Only connect() opens a stream.
LEMMA OnlyConnectOpens ==
    ASSUME TypeOK, [Next]_vars, NEW s \in Streams, state[s] = "closed", state'[s] = "open"
    PROVE  UserConnect \/ RunConnect \/ RunReconnect
<1>1. ASSUME Destroy PROVE state'[s] # "open"
  BY <1>1 DEF Destroy, TypeOK
<1>2. ASSUME NEW e, NEW force, Finish(e, force) PROVE state'[s] # "open"
  BY <1>1, <1>2 DEF Finish, SendDisconnect
<1>3. ASSUME NEW e \in Ends, UserEnd(e) PROVE FALSE
  BY <1>2, <1>3 DEF UserEnd, End, streams
<1>4. ~UserReconnect /\ ~Publish /\ ~RunDeferred /\ ~Announce /\ ~ReconnectTimeout /\ ~Acknowledge
  BY DEF UserReconnect, Publish, RunDeferred, Announce, ReconnectTimeout, Acknowledge, streams
<1>5. ASSUME NEW e \in EndIds, CloseStores(e) \/ FinishDelayed(e) PROVE FALSE
  BY <1>2, <1>5 DEF CloseStores, FinishDelayed, streams
<1>6. ~ConnackTimeout /\ ~KeepaliveTimeout
  BY <1>1 DEF ConnackTimeout, KeepaliveTimeout, GiveUp
<1>7. ~EndStream
  BY DEF EndStream, TypeOK
<1>8. ASSUME NEW x \in Streams, Accept(x) \/ Refuse(x) PROVE FALSE
  BY <1>1, <1>8 DEF Accept, Refuse
<1>9. ASSUME NEW x \in Streams, Close(x) PROVE FALSE
  BY <1>9 DEF Close, TypeOK
<1>10. ~UNCHANGED vars
  BY DEF vars, streams
<1>11. User => UserConnect
  BY <1>3, <1>4 DEF User
<1>12. Run => RunConnect \/ RunReconnect
  BY <1>4, <1>5, <1>7 DEF Run
<1>13. ~Timeout
  BY <1>4, <1>5, <1>6 DEF Timeout
<1>14. ~Network
  BY <1>4, <1>8, <1>9 DEF Network
<1> QED BY <1>10, <1>11, <1>12, <1>13, <1>14 DEF Next

(***************************************************************************)
(* After the user's end() no step opens a stream until the user asks for   *)
(* one: no timer, no deferred reconnect() and no task left over does.      *)
(***************************************************************************)
THEOREM StaysDown ==
    ASSUME Regular
    PROVE  Spec => EndedStaysDown
<1>1. OneInv /\ StopInv /\ [Next]_vars =>
        [\A s \in Streams : state[s] = "closed" /\ state'[s] = "open" => wanted']_vars
  <2> SUFFICES ASSUME OneInv, StopInv, [Next]_vars, NEW s \in Streams,
                      state[s] = "closed", state'[s] = "open"
               PROVE  wanted'
    OBVIOUS
  <2>1. UserConnect \/ RunConnect \/ RunReconnect
    BY OnlyConnectOpens DEF OneInv, TimerInv
  <2>2. CASE UserConnect
    BY <2>2 DEF UserConnect
  <2>3. CASE RunConnect \/ RunReconnect
    BY <2>3 DEF RunConnect, RunReconnect, StopInv, At, history
  <2> QED BY <2>1, <2>2, <2>3
<1> QED BY <1>1, StopInvariant, PTL DEF Spec, EndedStaysDown

-----------------------------------------------------------------------------
(***************************************************************************)
(* The client that is ended by force only.  (An end() that drains may wait *)
(* for ever, and leaves a stream that is still connecting open.)           *)
(***************************************************************************)
ByForce == \A e \in Ends : ForceOf[e]

\* While the client is wanted it ends only for a reconnect() that waits; a
\* stopped client has given its stream up.
ForceInv ==
    /\ \A e \in EndIds : ending[e] \notin {"waiting", "delay"}
    /\ wanted /\ disconnecting => deferred
    /\ stream = None =>
         ~disconnecting /\ ~disconnected /\ \A e \in EndIds : ending[e] = "none"
    /\ ~wanted => \A s \in Streams : state[s] \in {"closed", "destroyed"}

\* A forced end() that is the first one.
LEMMA ForcedEnd ==
    ASSUME ByForce, OneInv, NEW e \in Ends, UserEnd(e), ~disconnecting
    PROVE  /\ \E p \in {"closing", "tick"} : ending' = [ending EXCEPT ![e] = p]
           /\ \A s \in Streams : state'[s] \in {"closed", "destroyed"}
           /\ stream' = stream
<1>1. Finish(e, ForceOf[e]) /\ ForceOf[e]
  BY DEF UserEnd, End, Drains, ByForce
<1>2. Listen(e) /\ Destroy /\ stream' = stream
  BY <1>1 DEF Finish
<1>3. \A s \in Streams : state'[s] \in {"closed", "destroyed"}
  BY <1>2 DEF Destroy, OneInv, TimerInv, TypeOK, StreamsInv, OnlyCurrent
<1> QED BY <1>2, <1>3 DEF Listen

\* A step that leaves the phases and the flags alone, and opens nothing.
LEMMA ForceFrame ==
    ASSUME ForceInv, wanted' = wanted, deferred' = deferred, stream' = stream,
           ending' = ending, disconnecting' = disconnecting, disconnected' = disconnected,
           \A s \in Streams : state[s] \in {"closed", "destroyed"} =>
               state'[s] \in {"closed", "destroyed"}
    PROVE  ForceInv'
BY DEF ForceInv

LEMMA DestroyKeeps ==
    ASSUME TypeOK, Destroy, NEW s \in Streams, state[s] \in {"closed", "destroyed"}
    PROVE  state'[s] \in {"closed", "destroyed"}
BY DEF TypeOK, Destroy

LEMMA ForceUser ==
    ASSUME Regular, ByForce, OneInv, ForceInv, User
    PROVE  ForceInv'
<1>1. ASSUME NEW e \in Ends, UserEnd(e) PROVE ForceInv'
  <2>1. ~wanted' /\ disconnected' = disconnected /\ stream # None /\ ~deferred
        /\ ending \in [EndIds -> Phases] /\ e \in EndIds
    BY <1>1, InternalIsEnd DEF UserEnd, End, Regular, OneInv, TimerInv, TypeOK
  <2>2. CASE disconnecting
    <3>1. ending' = [ending EXCEPT ![e] = "done"] /\ stream' = stream /\ state' = state
      BY <1>1, <2>2 DEF UserEnd, End, streams
    <3>2. ~wanted
      BY <2>1, <2>2 DEF ForceInv
    <3> QED BY <2>1, <3>1, <3>2 DEF ForceInv
  <2>3. CASE ~disconnecting
    BY <1>1, <2>1, <2>3, ForcedEnd DEF ForceInv
  <2> QED BY <2>2, <2>3
<1>2. CASE UserConnect
  <2>1. /\ wanted' /\ ending' = ending /\ stream' # None
        /\ disconnecting' => disconnecting /\ (disconnected => reconnecting)
    BY <1>2, Parameters DEF UserConnect, Connect
  <2>2. stream = None \/ (disconnected /\ ~reconnecting)
    BY <1>2 DEF UserConnect, Regular
  <2> QED BY <2>1, <2>2 DEF ForceInv
<1>3. CASE UserReconnect
  <2>1. /\ wanted' /\ ending' = ending /\ stream' = stream /\ stream # None
        /\ deferred' \/ ~disconnecting'
    BY <1>3 DEF UserReconnect, Revive, streams
  <2> QED BY <2>1 DEF ForceInv
<1>4. CASE Publish
  BY <1>4, ForceFrame DEF Publish, flags, streams, history
<1> QED BY <1>1, <1>2, <1>3, <1>4 DEF User

LEMMA ForceConnect ==
    ASSUME OneInv, ForceInv, At("connect") \/ At("reconnect"), wanted, wanted' = wanted,
           Connect
    PROVE  ForceInv'
<1>1. ending' = ending /\ (disconnecting' => disconnecting) /\ stream' # None
  BY Parameters DEF Connect
<1>2. ~deferred
  BY DEF OneInv, TaskInv
<1> QED BY <1>1, <1>2 DEF ForceInv

LEMMA ForceRun ==
    ASSUME Regular, OneInv, StopInv, ForceInv, Run
    PROVE  ForceInv'
<1>1. CASE RunConnect \/ RunReconnect
  <2>1. (At("connect") \/ At("reconnect")) /\ wanted' = wanted
    BY <1>1 DEF RunConnect, RunReconnect, At, history
  <2>2. wanted /\ Down /\ ~connected
    BY <2>1 DEF StopInv, OneInv, TaskInv, StreamsInv, UpIsAccepted, Down
  <2>3. Connect
    BY <1>1, <2>2 DEF RunConnect, RunReconnect
  <2> QED BY <2>1, <2>2, <2>3, ForceConnect
<1>2. CASE RunDeferred
  <2>1. wanted' = wanted /\ stream' = stream /\ state' = state /\ ending' = ending
        /\ At("deferred")
    BY <1>2 DEF RunDeferred, streams, history, At
  <2>2. disconnected
    BY <2>1 DEF OneInv, TaskInv
  <2>3. stream # None
    BY <2>2 DEF ForceInv
  <2>4. disconnecting' => disconnecting /\ ~deferred
    BY <1>2 DEF RunDeferred, Revive
  <2> QED BY <2>1, <2>3, <2>4 DEF ForceInv
<1>3. ASSUME NEW e \in EndIds, CloseStores(e) PROVE ForceInv'
  <2>1. /\ wanted' = wanted /\ stream' = stream /\ state' = state /\ deferred' = deferred
        /\ disconnecting' = disconnecting /\ ending[e] = "tick"
        /\ ending' = [ending EXCEPT ![e] = "done"] /\ ending \in [EndIds -> Phases]
    BY <1>3 DEF CloseStores, streams, history, OneInv, TimerInv, TypeOK
  <2>2. stream # None
    BY <2>1 DEF ForceInv
  <2> QED BY <2>1, <2>2 DEF ForceInv
<1>4. CASE EndStream
  <2>1. \A s \in Streams : state[s] \in {"closed", "destroyed"} => state'[s] = state[s]
    BY <1>4 DEF EndStream, OneInv, TimerInv, TypeOK
  <2> QED BY <1>4, <2>1, ForceFrame DEF EndStream, flags, history
<1>5. CASE Announce
  BY <1>5, ForceFrame DEF Announce, flags, streams, history
<1> QED BY <1>1, <1>2, <1>3, <1>4, <1>5 DEF Run

LEMMA ForceTimeout ==
    ASSUME OneInv, ForceInv, Timeout
    PROVE  ForceInv'
<1>1. CASE ReconnectTimeout
  BY <1>1, ForceFrame DEF ReconnectTimeout, flags, streams, history
<1>2. CASE ConnackTimeout \/ KeepaliveTimeout
  BY <1>2, ForceFrame, DestroyKeeps
     DEF ConnackTimeout, KeepaliveTimeout, GiveUp, OneInv, TimerInv
<1>3. ASSUME NEW e \in EndIds, FinishDelayed(e) PROVE FALSE
  BY <1>3 DEF FinishDelayed, ForceInv
<1> QED BY <1>1, <1>2, <1>3 DEF Timeout

LEMMA ForceNetwork ==
    ASSUME OneInv, ForceInv, Network
    PROVE  ForceInv'
<1>0. TypeOK
  BY DEF OneInv, TimerInv
<1>1. ASSUME NEW s \in Streams, Accept(s) PROVE ForceInv'
  BY <1>1, ForceFrame DEF Accept, history
<1>2. ASSUME NEW s \in Streams, Refuse(s) PROVE ForceInv'
  <2>1. Destroy \/ state' = state
    BY <1>2 DEF Refuse
  <2> QED BY <1>0, <1>2, <2>1, ForceFrame, DestroyKeeps DEF Refuse
<1>3. ASSUME NEW s \in Streams, Close(s) PROVE ForceInv'
  <2>1. /\ wanted' = wanted /\ stream' = stream /\ deferred' = deferred
        /\ disconnecting' = disconnecting /\ disconnected' = disconnected
        /\ state' = [state EXCEPT ![s] = "closed"] /\ state[s] # "closed"
        /\ ending' = [e \in EndIds |-> IF e \in onClose[s] THEN "tick" ELSE ending[e]]
    BY <1>3 DEF Close, Live
  <2>2. \A x \in Streams : state[x] \in {"closed", "destroyed"} =>
           state'[x] \in {"closed", "destroyed"}
    BY <1>0, <2>1 DEF TypeOK
  <2>3. stream # None
    BY <2>1, Parameters DEF OneInv, StreamsInv, OnlyCurrent
  <2> QED BY <2>1, <2>2, <2>3 DEF ForceInv
<1>4. CASE Acknowledge
  <2>1. \A e \in EndIds : ending'[e] = ending[e]
    BY <1>4 DEF Acknowledge, ForceInv
  <2>2. wanted' = wanted /\ stream' = stream /\ deferred' = deferred /\ state' = state
        /\ disconnecting' = disconnecting /\ disconnected' = disconnected
    BY <1>4 DEF Acknowledge, flags, streams, history
  <2> QED BY <2>1, <2>2 DEF ForceInv
<1> QED BY <1>1, <1>2, <1>3, <1>4 DEF Network

LEMMA ForceStep ==
    ASSUME Regular, ByForce, OneInv, StopInv, ForceInv, [Next]_vars
    PROVE  ForceInv'
<1>1. CASE UNCHANGED vars
  BY <1>1, ForceFrame DEF vars, flags, streams, history
<1> QED BY <1>1, ForceUser, ForceRun, ForceTimeout, ForceNetwork DEF Next

LEMMA ForceInvariant == Regular /\ ByForce /\ Spec => [](OneInv /\ StopInv /\ ForceInv)
<1> SUFFICES ASSUME Regular, ByForce PROVE Spec => [](OneInv /\ StopInv /\ ForceInv)
  OBVIOUS
<1>1. OneInv /\ StopInv /\ ForceInv /\ [Next]_vars => OneInv' /\ StopInv' /\ ForceInv'
  BY OneStep, StopStep, ForceStep
<1>2. Init => StopInv /\ ForceInv
  BY DEF Init, StopInv, ForceInv
<1> QED BY <1>1, <1>2, OneInit, PTL DEF Spec

(***************************************************************************)
(* When the callback of a forced end() has run and no other end() is under *)
(* way, no stream of the client is open: each has closed, or was destroyed *)
(* and is about to; a reconnect() that waited for the end() was asked for  *)
(* by the user.                                                            *)
(***************************************************************************)
THEOREM EndedIsClosedCorrect ==
    ASSUME Regular, ByForce
    PROVE  Spec => []EndedIsClosed
<1>1. ForceInv => EndedIsClosed
  <2> SUFFICES ASSUME ForceInv, ~wanted, NEW s \in Live PROVE state[s] = "destroyed"
    BY DEF EndedIsClosed, Ended
  <2> QED BY DEF ForceInv, Live
<1> QED BY <1>1, ForceInvariant, PTL

-----------------------------------------------------------------------------
(* A client that the user wants is not abandoned. *)

\* What will make a client connect when it has no stream.
Coming ==
    \/ connected \/ reconnectTimer \/ ~Down \/ At("reconnect")
    \/ deferred /\ (Underway \/ At("deferred"))

WantInv ==
    Period =>
        /\ disconnecting /\ ~disconnected => Underway
        /\ wanted /\ disconnected => deferred /\ At("deferred")
        /\ wanted /\ stream # None => Coming

\* A step that keeps what is coming.
LEMMA WantFrame ==
    ASSUME WantInv, wanted' = wanted, deferred' = deferred, stream' = stream, run' = run,
           disconnecting' = disconnecting, disconnected' = disconnected,
           Underway => Underway', connected => connected', reconnectTimer => reconnectTimer',
           ~Down => ~Down'
    PROVE  WantInv'
BY DEF WantInv, Coming, At

\* connect() for a client the user wants.
LEMMA WantConnect ==
    ASSUME TypeOK, Connect, WantInv, ending' = ending,
           disconnected => ~reconnecting \/ ~Period
    PROVE  WantInv'
<1>1. PICK s \in Streams : state' = [state EXCEPT ![s] = "open"]
  BY DEF Connect
<1>2. ~Down'
  BY <1>1 DEF Down, TypeOK
<1>3. Underway' = Underway
  BY DEF Underway
<1>4. Period => \/ disconnecting' = disconnecting /\ ~disconnected'
                \/ ~disconnecting' /\ ~disconnected'
  BY DEF Connect
<1>5. Period => (disconnecting' => ~disconnected /\ disconnecting)
  BY DEF Connect
<1> QED BY <1>2, <1>3, <1>4, <1>5 DEF WantInv, Coming

\* Whether an end() is under way, after a step that moves one of them.
LEMMA UnderwayStarts ==
    ASSUME TypeOK, NEW e \in EndIds, NEW p \in {"closing", "tick"},
           ending' = [ending EXCEPT ![e] = p]
    PROVE  Underway'
BY DEF TypeOK, Underway

LEMMA WantUser ==
    ASSUME Regular, ByForce, OneInv, ForceInv, WantInv, User
    PROVE  WantInv'
<1>0. TypeOK
  BY DEF OneInv, TimerInv
<1>1. ASSUME NEW e \in Ends, UserEnd(e) PROVE WantInv'
  <2>1. ~wanted' /\ disconnected' = disconnected /\ ending[e] = "none" /\ e \in EndIds
    BY <1>1, InternalIsEnd DEF UserEnd, End
  <2>2. CASE disconnecting
    <3>1. ending' = [ending EXCEPT ![e] = "done"]
      BY <1>1, <2>2 DEF UserEnd, End
    <3>2. Underway => Underway'
      BY <1>0, <2>1, <3>1 DEF TypeOK, Underway
    <3> QED BY <2>1, <2>2, <3>2 DEF WantInv
  <2>3. CASE ~disconnecting
    <3>1. Underway'
      BY <1>0, <1>1, <2>1, <2>3, ForcedEnd, UnderwayStarts
    <3> QED BY <2>1, <3>1 DEF WantInv
  <2> QED BY <2>2, <2>3
<1>2. CASE UserConnect
  <2>1. Connect /\ ending' = ending /\ (disconnected => ~reconnecting)
    BY <1>2 DEF UserConnect, Connect, Regular, ForceInv
  <2> QED BY <1>0, <2>1, WantConnect
<1>3. CASE UserReconnect
  <2>1. /\ wanted' /\ ending' = ending /\ stream' = stream /\ state' = state
        /\ connected' = connected
    BY <1>3 DEF UserReconnect, streams
  <2>2. Underway' = Underway
    BY <2>1 DEF Underway
  <2>3. CASE disconnecting /\ ~disconnected
    <3>1. deferred' /\ disconnecting' = disconnecting /\ disconnected' = disconnected
      BY <1>3, <2>3 DEF UserReconnect
    <3> QED BY <2>2, <2>3, <3>1 DEF WantInv, Coming
  <2>4. CASE ~(disconnecting /\ ~disconnected)
    <3>1. ~disconnecting' /\ ~disconnected' /\ run' = <<"reconnect">>
      BY <1>3, <2>4 DEF UserReconnect, Revive
    <3>2. At("reconnect")'
      BY <3>1, OneTask DEF At
    <3> QED BY <3>1, <3>2 DEF WantInv, Coming
  <2> QED BY <2>3, <2>4
<1>4. CASE Publish
  BY <1>4, WantFrame DEF Publish, flags, timers, streams, history, Underway, Down
<1> QED BY <1>1, <1>2, <1>3, <1>4 DEF User

LEMMA WantRun ==
    ASSUME Regular, OneInv, StopInv, ForceInv, WantInv, Run
    PROVE  WantInv'
<1>0. TypeOK
  BY DEF OneInv, TimerInv
<1>1. CASE RunConnect \/ RunReconnect
  <2>1. (At("connect") \/ At("reconnect")) /\ ~At("deferred") /\ wanted' = wanted
    BY <1>1 DEF RunConnect, RunReconnect, At, history
  <2>2. wanted /\ Down /\ ~connected
    BY <2>1 DEF StopInv, OneInv, TaskInv, StreamsInv, UpIsAccepted, Down
  <2>3. Connect /\ ending' = ending
    BY <1>1, <2>2 DEF RunConnect, RunReconnect, Connect
  <2>4. disconnected => ~Period
    BY <2>1, <2>2 DEF WantInv
  <2> QED BY <1>0, <2>3, <2>4, WantConnect
<1>2. CASE RunDeferred
  <2>1. wanted' = wanted /\ stream' = stream /\ ending' = ending /\ At("deferred")
    BY <1>2 DEF RunDeferred, streams, history, At
  <2>2. disconnected
    BY <2>1 DEF OneInv, TaskInv
  <2>3. CASE deferred
    <3>1. ~disconnecting' /\ ~disconnected' /\ run' = <<"reconnect">> \o Tail(run)
      BY <1>2, <2>3 DEF RunDeferred, Revive
    <3>2. run' = <<"reconnect">>
      BY <2>1, <3>1, OneTask DEF OneInv, TaskInv, At
    <3>3. At("reconnect")'
      BY <3>2, OneTask DEF At
    <3> QED BY <3>1, <3>3 DEF WantInv, Coming
  <2>4. CASE ~deferred
    <3>1. disconnected' = disconnected
      BY <1>2, <2>4 DEF RunDeferred
    <3>2. Period => ~wanted
      BY <2>2, <2>4 DEF WantInv
    <3> QED BY <2>1, <2>2, <3>1, <3>2 DEF WantInv
  <2> QED BY <2>3, <2>4
<1>3. ASSUME NEW e \in EndIds, CloseStores(e) PROVE WantInv'
  <2>1. /\ wanted' = wanted /\ deferred' = deferred /\ disconnected'
        /\ e # Internal /\ Active(e)
    BY <1>3 DEF CloseStores, history, OneInv, EndsInv, Active
  <2>2. run' = <<"deferred">>
    BY <1>3, <2>1, OneTask DEF CloseStores
  <2>3. At("deferred")'
    BY <2>2, OneTask DEF At
  <2>4. Period /\ wanted => deferred
    BY <2>1 DEF OneInv, EndsInv, OneEnd, ForceInv
  <2> QED BY <2>1, <2>3, <2>4 DEF WantInv, Coming
<1>4. CASE EndStream
  <2>1. Down' => Down
    BY <1>0, <1>4 DEF EndStream, TypeOK, Down
  <2> QED BY <1>4, <2>1, WantFrame DEF EndStream, flags, timers, history, Underway
<1>5. CASE Announce
  BY <1>5, WantFrame DEF Announce, flags, timers, streams, history, Underway, Down
<1> QED BY <1>1, <1>2, <1>3, <1>4, <1>5 DEF Run

\* A stream that is destroyed is still there.
LEMMA DestroyStays ==
    ASSUME TypeOK, Destroy, ~Down
    PROVE  ~Down'
BY DEF TypeOK, Destroy, Down

LEMMA ResetKeepsTimer ==
    ASSUME ResetReconnect \/ SetupReconnect, Period, reconnectTimer
    PROVE  reconnectTimer'
BY DEF ResetReconnect, SetupReconnect

LEMMA WantTimeout ==
    ASSUME OneInv, ForceInv, WantInv, Timeout
    PROVE  WantInv'
<1>0. TypeOK
  BY DEF OneInv, TimerInv
<1>1. CASE ReconnectTimeout
  <2>1. At("reconnect")'
    BY <1>1, OneTask DEF ReconnectTimeout, At
  <2>2. run = <<>> /\ disconnected' = disconnected /\ disconnecting' = disconnecting
        /\ wanted' = wanted /\ ending' = ending
    BY <1>1 DEF ReconnectTimeout, Settled, Ready, Quiet, flags, history
  <2> QED BY <2>1, <2>2 DEF WantInv, Coming, Underway, At
<1>2. CASE ConnackTimeout \/ KeepaliveTimeout
  <2>1. GiveUp
    BY <1>2 DEF ConnackTimeout, KeepaliveTimeout
  <2>2. (~Down => ~Down') /\ (Period /\ reconnectTimer => reconnectTimer')
    BY <1>0, <2>1, DestroyStays, ResetKeepsTimer DEF GiveUp
  <2>3. Period => WantInv'
    BY <2>1, <2>2, WantFrame DEF GiveUp, Underway
  <2> QED BY <2>3 DEF WantInv
<1>3. ASSUME NEW e \in EndIds, FinishDelayed(e) PROVE FALSE
  BY <1>3 DEF FinishDelayed, ForceInv
<1> QED BY <1>1, <1>2, <1>3 DEF Timeout

LEMMA WantNetwork ==
    ASSUME OneInv, ForceInv, WantInv, Network
    PROVE  WantInv'
<1>0. TypeOK
  BY DEF OneInv, TimerInv
<1>1. ASSUME NEW s \in Streams, Accept(s) PROVE WantInv'
  BY <1>1, WantFrame DEF Accept, history, Underway, Down
<1>2. ASSUME NEW s \in Streams, Refuse(s) PROVE WantInv'
  <2>1. ~Down => ~Down'
    BY <1>0, <1>2, DestroyStays DEF Refuse, Down
  <2>2. Period /\ reconnectTimer => reconnectTimer'
    BY <1>2, ResetKeepsTimer DEF Refuse
  <2>3. Period => WantInv'
    BY <1>2, <2>1, <2>2, WantFrame DEF Refuse, Underway
  <2> QED BY <2>3 DEF WantInv
<1>3. ASSUME NEW s \in Streams, Close(s) PROVE WantInv'
  <2>1. /\ wanted' = wanted /\ stream' = stream /\ deferred' = deferred /\ run' = run
        /\ disconnecting' = disconnecting /\ disconnected' = disconnected /\ run = <<>>
        /\ ending' = [e \in EndIds |-> IF e \in onClose[s] THEN "tick" ELSE ending[e]]
        /\ SetupReconnect
    BY <1>3 DEF Close, Ready, Quiet
  <2>2. Underway => Underway'
    BY <2>1 DEF Underway, ForceInv
  <2>3. CASE disconnecting
    BY <2>1, <2>2, <2>3 DEF WantInv, ForceInv, Coming, At
  <2>4. CASE ~disconnecting
    <3>1. Period => reconnectTimer'
      BY <2>1, <2>4 DEF SetupReconnect
    <3> QED BY <2>1, <2>4, <3>1 DEF WantInv, Coming, At
  <2> QED BY <2>3, <2>4
<1>4. CASE Acknowledge
  <2>1. Underway => Underway'
    BY <1>4 DEF Acknowledge, Underway, ForceInv
  <2> QED BY <1>4, <2>1, WantFrame DEF Acknowledge, flags, timers, streams, history, Down
<1> QED BY <1>1, <1>2, <1>3, <1>4 DEF Network

(***************************************************************************)
(* A client that reconnects and that the user wants is never left without  *)
(* a stream and without anything that will make it connect, whatever is    *)
(* lost and whenever the user ends and reconnects it.                      *)
(***************************************************************************)
THEOREM NotAbandonedCorrect ==
    ASSUME Regular, ByForce
    PROVE  Spec => []NotAbandoned
<1>1. OneInv /\ StopInv /\ ForceInv /\ WantInv /\ [Next]_vars => WantInv'
  <2> SUFFICES ASSUME OneInv, StopInv, ForceInv, WantInv, [Next]_vars PROVE WantInv'
    OBVIOUS
  <2>1. CASE UNCHANGED vars
    BY <2>1, WantFrame DEF vars, flags, timers, streams, history, Underway, Down
  <2> QED BY <2>1, WantUser, WantRun, WantTimeout, WantNetwork DEF Next
<1>2. Init => WantInv
  BY DEF Init, WantInv
<1>3. WantInv => NotAbandoned
  <2> SUFFICES ASSUME WantInv, Quiet, wanted, Period, stream # None
               PROVE  \/ connected \/ reconnectTimer \/ Live # {}
                      \/ Underway /\ (deferred \/ ending[Internal] \notin {"none", "done"})
    BY DEF NotAbandoned
  <2>1. Coming /\ ~At("reconnect") /\ ~At("deferred")
    BY DEF WantInv, Quiet, At
  <2> QED BY <2>1, LiveIsDown DEF Coming
<1> QED BY <1>1, <1>2, <1>3, ForceInvariant, PTL DEF Spec

-----------------------------------------------------------------------------
(***************************************************************************)
(* Draining, for a client that its user has not connected or reconnected   *)
(* by hand: such a call may revive the client while the DISCONNECT of the  *)
(* old end() is still queued.                                              *)
(***************************************************************************)
OverOrEmpty == (disconnecting /\ ~busy) \/ disconnected

DrainInv ==
    calls = 0 =>
        /\ ~deferred
        /\ stream = None => ~disconnecting /\ ~disconnected
        /\ At("reconnect") => ~disconnecting /\ ~disconnected
        /\ immediate \/ queued => OverOrEmpty
        /\ \A e \in EndIds : Active(e) => disconnecting /\ ~At("deferred")
        /\ \A e, f \in EndIds : Active(e) /\ Active(f) => e = f
        /\ \A e \in EndIds : ending[e] = "delay" => ~busy

\* A step that starts no end() and puts nothing new in flight.
LEMMA DrainFrame ==
    ASSUME DrainInv, calls' = calls, deferred' = deferred, stream' = stream, run' = run,
           disconnecting' = disconnecting, disconnected' = disconnected, busy' => busy,
           immediate' \/ queued' => immediate \/ queued,
           \A e \in EndIds : Active(e)' => Active(e),
           \A e \in EndIds : ending'[e] = "delay" => ending[e] = "delay" \/ ~busy'
    PROVE  DrainInv'
<1>1. OverOrEmpty => OverOrEmpty'
  BY DEF OverOrEmpty
<1>2. calls = 0 => (immediate' \/ queued' => OverOrEmpty')
  BY <1>1 DEF DrainInv
<1>3. calls = 0 => \A e \in EndIds : ending'[e] = "delay" => ~busy'
  BY DEF DrainInv
<1>4. calls = 0 => (At("reconnect")' => ~disconnecting' /\ ~disconnected')
  BY DEF DrainInv, At
<1>5. calls = 0 => \A e \in EndIds : Active(e)' => disconnecting' /\ ~At("deferred")'
  BY DEF DrainInv, At
<1>6. calls = 0 => \A e, f \in EndIds : Active(e)' /\ Active(f)' => e = f
  BY DEF DrainInv
<1> QED BY <1>2, <1>3, <1>4, <1>5, <1>6 DEF DrainInv

\* What _cleanUp leaves to be sent, when it is called with nothing in flight
\* or by force.
LEMMA FinishDrains ==
    ASSUME NEW e, NEW force, Finish(e, force), disconnecting', disconnected' = disconnected,
           force \/ ~busy, immediate \/ queued => OverOrEmpty
    PROVE  (busy' => busy) /\ (immediate' \/ queued' => OverOrEmpty')
<1>1. CASE force
  BY <1>1 DEF Finish, Destroy, OverOrEmpty
<1>2. CASE ~force
  BY <1>2 DEF Finish, SendDisconnect, OverOrEmpty
<1> QED BY <1>1, <1>2

LEMMA DrainUser ==
    ASSUME OneInv, DrainInv, User
    PROVE  DrainInv'
<1>0. TypeOK
  BY DEF OneInv, TimerInv
<1>1. ASSUME NEW e \in Ends, UserEnd(e) PROVE DrainInv'
  <2>1. /\ e \in EndIds /\ ending[e] = "none" /\ stream # None /\ run = <<>> /\ run' = run
        /\ calls' = calls /\ deferred' = deferred /\ disconnected' = disconnected
        /\ End(e, ForceOf[e])
    BY <1>1, InternalIsEnd DEF UserEnd, End, Quiet
  <2>2. CASE disconnecting
    <3>1. /\ ending' = [ending EXCEPT ![e] = "done"] /\ disconnecting' = disconnecting
          /\ busy' = busy /\ queued' = queued /\ immediate' = immediate /\ stream' = stream
      BY <2>1, <2>2 DEF End, streams
    <3>2. \A f \in EndIds : ending'[f] = IF f = e THEN "done" ELSE ending[f]
      BY <1>0, <2>1, <3>1 DEF TypeOK
    <3> QED BY <2>1, <3>1, <3>2, DrainFrame DEF Active
  <2>3. CASE ~disconnecting
    <3>1. /\ disconnecting' = TRUE /\ stream' = stream
          /\ \/ /\ ending' = [ending EXCEPT ![e] = "waiting"]
                /\ busy' = busy /\ queued' = queued /\ immediate' = immediate
             \/ ~Drains(ForceOf[e]) /\ Finish(e, ForceOf[e])
      BY <2>1, <2>3 DEF End, streams, Finish
    <3>2. \E p \in {"waiting", "closing", "tick"} : ending' = [ending EXCEPT ![e] = p]
      BY <3>1 DEF Finish, Listen
    <3>3. \A f \in EndIds \ {e} : ending'[f] = ending[f]
      BY <1>0, <3>2 DEF TypeOK
    <3>4. ending'[e] # "delay"
      BY <1>0, <2>1, <3>2 DEF TypeOK
    <3>5. ASSUME calls = 0 PROVE immediate' \/ queued' => OverOrEmpty'
      <4>1. immediate \/ queued => OverOrEmpty
        BY <3>5 DEF DrainInv
      <4>2. CASE busy' = busy /\ queued' = queued /\ immediate' = immediate
        BY <2>1, <2>3, <4>1, <4>2 DEF OverOrEmpty
      <4>3. CASE ~Drains(ForceOf[e]) /\ Finish(e, ForceOf[e])
        BY <2>1, <3>1, <4>1, <4>3, FinishDrains DEF Drains
      <4> QED BY <3>1, <4>2, <4>3
    <3>6. ASSUME calls = 0 PROVE \A f \in EndIds \ {e} : ~Active(f)'
      BY <2>3, <3>3, <3>6 DEF DrainInv, Active
    <3>7. ASSUME calls = 0 PROVE \A f \in EndIds : ending'[f] # "delay"
      BY <3>4, <3>6, <3>7 DEF Active
    <3> QED BY <2>1, <3>1, <3>5, <3>6, <3>7 DEF DrainInv, At
  <2> QED BY <2>2, <2>3
<1>2. CASE UserConnect \/ UserReconnect
  <2>1. calls' # 0
    BY <1>0, <1>2, Parameters DEF UserConnect, UserReconnect, TypeOK
  <2> QED BY <2>1 DEF DrainInv
<1>3. CASE Publish
  <2>1. /\ ~disconnecting /\ deferred' = deferred /\ stream' = stream /\ run' = run
        /\ disconnecting' = disconnecting /\ disconnected' = disconnected
        /\ ending' = ending /\ immediate' = immediate /\ queued' = queued /\ calls' = calls
    BY <1>3 DEF Publish, flags, streams, history
  <2>2. calls = 0 => \A e \in EndIds : ~Active(e)
    BY <2>1 DEF DrainInv
  <2>3. calls = 0 => \A e \in EndIds : ending[e] # "delay"
    BY <2>2 DEF Active
  <2>4. calls = 0 => (immediate \/ queued => disconnected)
    BY <2>1 DEF DrainInv, OverOrEmpty
  <2> QED BY <2>1, <2>2, <2>3, <2>4 DEF DrainInv, Active, At, OverOrEmpty
<1> QED BY <1>1, <1>2, <1>3 DEF User

LEMMA DrainRun ==
    ASSUME OneInv, DrainInv, Run
    PROVE  DrainInv'
<1>0. TypeOK
  BY DEF OneInv, TimerInv
<1>1. CASE RunConnect \/ RunReconnect
  <2>1. (At("connect") \/ At("reconnect")) /\ calls' = calls /\ run' = Tail(run)
    BY <1>1 DEF RunConnect, RunReconnect, At, history
  <2>2. Down /\ ~connected /\ run' = <<>>
    BY <2>1 DEF OneInv, TaskInv, StreamsInv, UpIsAccepted, Down, At
  <2>3. Connect
    BY <1>1, <2>2 DEF RunConnect, RunReconnect
  <2>4. calls = 0 => ~disconnecting /\ ~disconnected
    BY <2>1 DEF OneInv, TaskInv, DrainInv
  <2>5. calls = 0 => ~disconnecting' /\ ~disconnected'
    BY <2>3, <2>4 DEF Connect
  <2>6. /\ deferred' = deferred /\ ending' = ending /\ busy' = busy /\ immediate' = immediate
        /\ queued' = queued
    BY <2>3 DEF Connect
  <2>7. calls = 0 => \A e \in EndIds : ~Active(e)
    BY <2>4 DEF DrainInv
  <2>8. calls = 0 => \A e \in EndIds : ~Active(e)' /\ ending'[e] # "delay"
    BY <2>6, <2>7 DEF Active
  <2>9. calls = 0 => ~immediate' /\ ~queued'
    BY <2>4, <2>6 DEF DrainInv, OverOrEmpty
  <2> QED BY <2>1, <2>2, <2>5, <2>6, <2>8, <2>9 DEF DrainInv, At
<1>2. CASE RunDeferred
  <2>1. /\ calls' = calls /\ stream' = stream /\ ending' = ending /\ busy' = busy
        /\ immediate' = immediate /\ queued' = queued /\ At("deferred")
    BY <1>2 DEF RunDeferred, streams, history, At
  <2>2. disconnected /\ Tail(run) = <<>>
    BY <2>1 DEF OneInv, TaskInv, At
  <2>3. calls = 0 => ~deferred /\ \A e \in EndIds : ~Active(e)
    BY <2>1 DEF DrainInv
  <2>4. ~deferred => ~deferred' /\ run' = <<>> /\ disconnected' = disconnected
    BY <1>2, <2>2 DEF RunDeferred
  <2>5. calls = 0 => stream # None
    BY <2>2 DEF DrainInv
  <2>6. calls = 0 => \A e \in EndIds : ~Active(e)' /\ ending'[e] # "delay"
    BY <2>1, <2>3 DEF Active
  <2>7. calls = 0 => OverOrEmpty' /\ ~At("reconnect")'
    BY <2>2, <2>3, <2>4 DEF OverOrEmpty, At
  <2> QED BY <2>1, <2>3, <2>4, <2>5, <2>6, <2>7 DEF DrainInv
<1>3. ASSUME NEW e \in EndIds, CloseStores(e) PROVE DrainInv'
  <2>1. /\ calls' = calls /\ stream' = stream /\ busy' = busy /\ immediate' = immediate
        /\ queued' = queued /\ deferred' = deferred /\ disconnecting' = disconnecting
        /\ disconnected' /\ ending[e] = "tick" /\ ending' = [ending EXCEPT ![e] = "done"]
        /\ e # Internal
    BY <1>3 DEF CloseStores, streams, history, OneInv, EndsInv
  <2>2. run' = <<"deferred">>
    BY <1>3, <2>1, OneTask DEF CloseStores
  <2>3. At("deferred")' /\ ~At("reconnect")'
    BY <2>2, OneTask DEF At
  <2>4. \A f \in EndIds : ending'[f] = IF f = e THEN "done" ELSE ending[f]
    BY <1>0, <2>1 DEF TypeOK
  <2>5. calls = 0 => \A f \in EndIds \ {e} : ~Active(f)
    BY <2>1 DEF DrainInv, Active
  <2>6. calls = 0 => \A f \in EndIds : ~Active(f)' /\ ending'[f] # "delay"
    BY <2>4, <2>5 DEF Active
  <2>7. calls = 0 => stream # None
    BY <2>1 DEF DrainInv, Active
  <2> QED BY <2>1, <2>3, <2>6, <2>7 DEF DrainInv, OverOrEmpty
<1>4. CASE EndStream
  BY <1>4, DrainFrame DEF EndStream, flags, history, Active
<1>5. CASE Announce
  <2>1. /\ stream' = stream /\ deferred' = deferred /\ disconnecting' = disconnecting
        /\ disconnected' = disconnected /\ ending' = ending /\ busy' = busy
        /\ calls' = calls /\ run' = run /\ (immediate' \/ queued' => immediate \/ queued)
    BY <1>5 DEF Announce, flags, streams, history
  <2> QED BY <2>1, DrainFrame DEF Active
<1> QED BY <1>1, <1>2, <1>3, <1>4, <1>5 DEF Run

LEMMA DrainTimeout ==
    ASSUME OneInv, DrainInv, Timeout
    PROVE  DrainInv'
<1>0. TypeOK
  BY DEF OneInv, TimerInv
<1>1. CASE ReconnectTimeout
  <2>1. /\ run = <<>> /\ run' = <<"reconnect">> /\ reconnectTimer
        /\ stream' = stream /\ deferred' = deferred /\ disconnecting' = disconnecting
        /\ disconnected' = disconnected /\ ending' = ending /\ busy' = busy
        /\ immediate' = immediate /\ queued' = queued /\ calls' = calls
    BY <1>1 DEF ReconnectTimeout, Settled, Ready, Quiet, flags, streams, session, history
  <2>2. ~At("deferred")'
    BY <2>1, OneTask DEF At
  <2>3. ~disconnecting /\ ~disconnected
    BY <2>1 DEF OneInv, TimerInv, TimerIsWanted, EndsInv, OneEnd
  <2>4. calls = 0 => \A e \in EndIds : ~Active(e)
    BY <2>3 DEF DrainInv
  <2>5. calls = 0 => \A e \in EndIds : ~Active(e)' /\ ending'[e] # "delay"
    BY <2>1, <2>4 DEF Active
  <2>6. calls = 0 => ~immediate /\ ~queued
    BY <2>3 DEF DrainInv, OverOrEmpty
  <2> QED BY <2>1, <2>2, <2>3, <2>5, <2>6 DEF DrainInv
<1>2. CASE ConnackTimeout \/ KeepaliveTimeout
  <2>1. GiveUp /\ calls' = calls
    BY <1>2 DEF ConnackTimeout, KeepaliveTimeout, GiveUp
  <2> QED BY <2>1, DrainFrame DEF GiveUp, Destroy, Active
<1>3. ASSUME NEW e \in EndIds, FinishDelayed(e) PROVE DrainInv'
  <2>1. /\ ending[e] = "delay" /\ Finish(e, Forced(e)) /\ stream' = stream
        /\ deferred' = deferred /\ disconnecting' = disconnecting
        /\ disconnected' = disconnected /\ calls' = calls /\ run' = run
    BY <1>3 DEF FinishDelayed, Finish, history
  <2>2. calls = 0 => ~busy /\ disconnecting
    BY <2>1 DEF DrainInv, Active
  <2>3. calls = 0 => (busy' => busy) /\ (immediate' \/ queued' => OverOrEmpty')
    BY <2>1, <2>2, FinishDrains DEF DrainInv
  <2>4. \E p \in {"closing", "tick"} : ending' = [ending EXCEPT ![e] = p]
    BY <2>1 DEF Finish, Listen
  <2>5. \A f \in EndIds \ {e} : ending'[f] = ending[f]
    BY <1>0, <2>4 DEF TypeOK
  <2>6. ending'[e] # "delay"
    BY <1>0, <2>4 DEF TypeOK
  <2>7. \A f \in EndIds : (Active(f)' => Active(f)) /\ (ending'[f] = "delay" => ending[f] = "delay")
    BY <2>1, <2>5, <2>6 DEF Active
  <2>8. calls = 0 => \A f \in EndIds : Active(f)' => disconnecting' /\ ~At("deferred")'
    BY <2>1, <2>7 DEF DrainInv, At
  <2>9. calls = 0 => \A f, g \in EndIds : Active(f)' /\ Active(g)' => f = g
    BY <2>7 DEF DrainInv
  <2>10. calls = 0 => ~busy' /\ (At("reconnect")' => ~disconnecting' /\ ~disconnected')
    BY <2>1, <2>2, <2>3 DEF DrainInv, At
  <2> QED BY <2>1, <2>3, <2>8, <2>9, <2>10 DEF DrainInv
<1> QED BY <1>1, <1>2, <1>3 DEF Timeout

LEMMA DrainNetwork ==
    ASSUME OneInv, DrainInv, Network
    PROVE  DrainInv'
<1>0. TypeOK
  BY DEF OneInv, TimerInv
<1>1. ASSUME NEW s \in Streams, Accept(s) PROVE DrainInv'
  <2>1. /\ stream' = stream /\ deferred' = deferred /\ disconnecting' = disconnecting
        /\ disconnected' = disconnected /\ ending' = ending /\ immediate' = immediate
        /\ queued' = queued /\ calls' = calls /\ run' = run
        /\ busy' => busy \/ (~disconnecting /\ ~disconnected)
    BY <1>1 DEF Accept, history
  <2>2. calls = 0 /\ busy' /\ ~busy =>
           ~immediate /\ ~queued /\ \A e \in EndIds : ending[e] # "delay"
    BY <2>1 DEF DrainInv, OverOrEmpty, Active
  <2>3. CASE busy' => busy
    BY <2>1, <2>3, DrainFrame DEF Active
  <2>4. CASE busy' /\ ~busy
    BY <2>1, <2>2, <2>4 DEF DrainInv, Active, At
  <2> QED BY <2>3, <2>4
<1>2. ASSUME NEW s \in Streams, Refuse(s) PROVE DrainInv'
  <2>1. busy' => busy
    BY <1>2 DEF Refuse, Destroy
  <2> QED BY <1>2, <2>1, DrainFrame DEF Refuse, Active
<1>3. ASSUME NEW s \in Streams, Close(s) PROVE DrainInv'
  <2>1. /\ stream' = stream /\ deferred' = deferred /\ disconnecting' = disconnecting
        /\ disconnected' = disconnected /\ busy' = busy /\ immediate' = immediate
        /\ queued' = queued /\ calls' = calls /\ run' = run
        /\ ending' = [e \in EndIds |-> IF e \in onClose[s] THEN "tick" ELSE ending[e]]
    BY <1>3 DEF Close
  <2>2. \A e \in EndIds : e \in onClose[s] => ending[e] = "closing"
    BY <1>0 DEF TypeOK, Attached
  <2>3. \A e \in EndIds : (Active(e)' => Active(e)) /\ (ending'[e] = "delay" => ending[e] = "delay")
    BY <2>1, <2>2 DEF Active
  <2> QED BY <2>1, <2>3, DrainFrame
<1>4. CASE Acknowledge
  <2>1. /\ stream' = stream /\ deferred' = deferred /\ disconnecting' = disconnecting
        /\ disconnected' = disconnected /\ ~busy' /\ immediate' = immediate
        /\ queued' = queued /\ calls' = calls /\ run' = run
        /\ \A e \in EndIds : ending'[e] = IF disconnecting /\ ending[e] = "waiting" THEN "delay"
                                          ELSE ending[e]
    BY <1>4 DEF Acknowledge, flags, streams, history
  <2>2. \A e \in EndIds : Active(e)' => Active(e)
    BY <2>1 DEF Active
  <2> QED BY <2>1, <2>2, DrainFrame
<1> QED BY <1>1, <1>2, <1>3, <1>4 DEF Network

LEMMA DrainStep ==
    ASSUME OneInv, DrainInv, [Next]_vars
    PROVE  DrainInv'
<1>1. CASE UNCHANGED vars
  BY <1>1, DrainFrame DEF vars, flags, streams, session, history, Active
<1> QED BY <1>1, DrainUser, DrainRun, DrainTimeout, DrainNetwork DEF Next

(***************************************************************************)
(* Until the user connects or reconnects it by hand, a client never ends   *)
(* its stream while a message is in flight on it: an end() without force   *)
(* waits for the last ack, no publish comes after it, and nothing is       *)
(* replayed into the connection that is about to end.                      *)
(***************************************************************************)
THEOREM DrainedFirstCorrect ==
    ASSUME Regular
    PROVE  Spec => [](calls = 0 => DrainedFirst)
<1>1. OneInv /\ DrainInv /\ [Next]_vars => OneInv' /\ DrainInv'
  BY OneStep, DrainStep
<1>2. Init => DrainInv
  <2> SUFFICES ASSUME Init PROVE DrainInv
    OBVIOUS
  <2>1. run = <<>> \/ run = <<"connect">>
    BY DEF Init
  <2>2. ~At("reconnect")
    BY <2>1, OneTask DEF At
  <2> QED BY <2>2 DEF Init, DrainInv, Active
<1>3. OneInv /\ DrainInv => (calls = 0 => DrainedFirst)
  BY DEF OneInv, TimerInv, TimerIsWanted, DrainInv, OverOrEmpty, DrainedFirst
<1> QED BY <1>1, <1>2, <1>3, OneInit, PTL DEF Spec
=============================================================================
