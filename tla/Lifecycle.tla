------------------------------ MODULE Lifecycle ------------------------------
(***************************************************************************)
(* The life cycle of an MqttClient's connections (src/src/lib/client.ts):  *)
(* connect, CONNACK, the loss of a stream, the connack, keepalive and      *)
(* reconnect timers, end and reconnect.                                    *)
(*                                                                         *)
(* A stream is live until its 'close' is emitted.  "stream" is             *)
(* client.stream; a stream the client no longer names still has its        *)
(* listeners on the client.  The requests of the session are reduced to    *)
(* one publish of QoS 1 ("busy": its entry in client.outgoing).            *)
(*                                                                         *)
(* One task runs to completion: "run" lists what is left of it, nothing    *)
(* else happens until it is empty, and a nextTick precedes all I/O.        *)
(***************************************************************************)
EXTENDS Integers, Sequences

CONSTANTS
    MaxStreams,    \* bound: streams that have not closed yet
    None,          \* no stream, no end() call
    Ends,          \* the calls of end() the user makes, each at most once
    ForceOf,         \* [Ends -> BOOLEAN], their first argument
    Internal,      \* the end() call that _reconnect makes
    Period,        \* options.reconnectPeriod > 0
    Manual,        \* options.manualConnect
    Clean,         \* options.clean
    RetryRefused,  \* options.reconnectOnConnackError
    SlowClose,     \* TRUE: 'close' may follow destroy() later than a timer
                   \* (connect/wx.ts), FALSE: in the same turn of the event loop
    Polite,        \* TRUE: the user calls reconnect() only when no stream is left
                   \* or while the end() of a connected client is under way,
                   \* connect() only on a client that is not "reconnecting",
                   \* and no end() while a reconnect() waits for one
    Publishes,     \* TRUE: the user publishes
    MaxCalls,      \* bound: calls of connect() and reconnect() by the user
    MaxFaults      \* bound: streams lost, CONNACKs refused or late, pings lost

Streams == 1..MaxStreams
EndIds == Ends \cup {Internal}

ASSUME Parameters ==
    /\ None \notin Streams /\ None \notin EndIds /\ Internal \notin Ends
    /\ ForceOf \in [Ends -> BOOLEAN]
    /\ {Period, Manual, Clean, RetryRefused, SlowClose, Polite, Publishes} \subseteq BOOLEAN
    /\ MaxStreams \in Nat \ {0} /\ MaxCalls \in Nat /\ MaxFaults \in Nat

VARIABLES
    connected,       \* client.connected
    disconnecting,   \* client.disconnecting
    disconnected,    \* client.disconnected
    reconnecting,    \* client.reconnecting
    reconnectTimer,  \* client.reconnectTimer # null
    connackTimer,    \* client.connackTimer is pending
    keepalive,       \* client.keepaliveManager # null
    deferred,        \* client._deferredReconnect # null
    stream,          \* client.stream
    state,           \* of each stream: open, ended by us, destroyed, or closed
    answer,          \* the CONNACK each stream has received
    onClose,         \* the end() calls that listen to each stream's 'close'
    ending,          \* how far each end() call is
    busy,            \* client.outgoing has an entry
    store,           \* client.outgoingStore: empty, full, or closed
    queued,          \* client.queue has a DISCONNECT
    sent,            \* the entry's packet was written on the connection
    announce,        \* 'connect' is due, or after the "replay" of the store
    immediate,       \* setImmediate(() => this.stream.end()) is pending
    run,             \* the rest of the running task
    wanted,          \* history: the user's last call was not end()
    calls, faults    \* history, for the bounds

flags == <<connected, disconnecting, disconnected, reconnecting>>
timers == <<reconnectTimer, connackTimer, keepalive>>
streams == <<stream, state, answer, onClose>>
session == <<busy, sent, store, queued, announce, immediate>>
history == <<wanted, calls, faults>>
vars == <<flags, timers, deferred, streams, ending, session, run, history>>

Phases == {"none", "waiting", "delay", "closing", "tick", "done"}

\* A listener on a stream belongs to an end() that waits for that stream alone.
Attached ==
    \A s \in Streams : \A e \in onClose[s] :
        ending[e] = "closing" /\ \A t \in Streams \ {s} : e \notin onClose[t]

TypeOK ==
    /\ connected \in BOOLEAN /\ disconnecting \in BOOLEAN /\ disconnected \in BOOLEAN
    /\ reconnecting \in BOOLEAN /\ reconnectTimer \in BOOLEAN /\ connackTimer \in BOOLEAN
    /\ keepalive \in BOOLEAN /\ deferred \in BOOLEAN /\ busy \in BOOLEAN /\ sent \in BOOLEAN
    /\ queued \in BOOLEAN /\ immediate \in BOOLEAN /\ wanted \in BOOLEAN
    /\ stream \in Streams \cup {None}
    /\ state \in [Streams -> {"open", "ended", "destroyed", "closed"}]
    /\ answer \in [Streams -> {"none", "accepted", "refused"}]
    /\ onClose \in [Streams -> SUBSET EndIds] /\ Attached
    /\ ending \in [EndIds -> Phases]
    /\ store \in {"empty", "full", "closed"}
    /\ announce \in {"none", "replay", "due"}
    /\ run \in Seq({"connect", "deferred", "reconnect"})
    /\ calls \in 0..MaxCalls /\ faults \in 0..MaxFaults

\* The constructor calls connect() unless manualConnect is set.
Init ==
    /\ connected = FALSE /\ disconnecting = FALSE /\ disconnected = FALSE
    /\ reconnecting = FALSE /\ reconnectTimer = FALSE /\ connackTimer = FALSE
    /\ keepalive = FALSE /\ deferred = FALSE
    /\ stream = None /\ state = [s \in Streams |-> "closed"]
    /\ answer = [s \in Streams |-> "none"] /\ onClose = [s \in Streams |-> {}]
    /\ ending = [e \in EndIds |-> "none"]
    /\ busy = FALSE /\ sent = FALSE /\ store = "empty" /\ queued = FALSE
    /\ announce = "none" /\ immediate = FALSE
    /\ run = IF Manual THEN <<>> ELSE <<"connect">>
    /\ wanted = TRUE /\ calls = 0 /\ faults = 0

Live == {s \in Streams : state[s] # "closed"}
Forced(e) == e # Internal /\ ForceOf[e]

\* No task runs; no nextTick waits either; nor has a stream to close at once.
Quiet == run = <<>>
Ready == Quiet /\ \A e \in EndIds : ending[e] # "tick"
Settled == Ready /\ (SlowClose \/ \A s \in Streams : state[s] # "destroyed")

-----------------------------------------------------------------------------
\* Variants of the operators below, each with one slip.
ClearNothing == UNCHANGED reconnectTimer

SetupWhileEnding ==
    IF ~reconnectTimer /\ Period
    THEN reconnectTimer' = TRUE /\ reconnecting' = TRUE
    ELSE UNCHANGED <<reconnectTimer, reconnecting>>

SetupOnce ==
    IF ~disconnecting /\ ~reconnectTimer /\ Period /\ ~reconnecting
    THEN reconnectTimer' = TRUE /\ reconnecting' = TRUE
    ELSE UNCHANGED <<reconnectTimer, reconnecting>>

ListenKept(e) ==
    /\ onClose' = [onClose EXCEPT ![stream] = @ \cup {e}]
    /\ ending' = [ending EXCEPT ![e] = IF connected THEN "closing" ELSE "tick"]

ListenAlways(e) ==
    /\ onClose' = [onClose EXCEPT ![stream] = @ \cup {e}]
    /\ ending' = [ending EXCEPT ![e] = "closing"]

ListenAtOnce(e) == UNCHANGED onClose /\ ending' = [ending EXCEPT ![e] = "tick"]

DestroyConnected ==
    /\ state' = [state EXCEPT ![stream] = IF connected THEN "destroyed" ELSE @]
    /\ busy' = (busy /\ (Period \/ ~Clean))
    /\ keepalive' = FALSE

NeverDrains(force) == FALSE

RunDeferredLate ==
    /\ run # <<>> /\ Head(run) = "deferred" /\ run' = Tail(run)
    /\ disconnecting' = (disconnecting /\ Period /\ ~Manual)
    /\ UNCHANGED <<connected, disconnected, reconnecting, timers, deferred, streams, ending,
                   session, history>>

-----------------------------------------------------------------------------
(* _clearReconnect, _setupReconnect, and the client's 'close' handler. *)
ClearReconnect == reconnectTimer' = FALSE

SetupReconnect ==
    IF ~disconnecting /\ ~reconnectTimer /\ Period
    THEN reconnectTimer' = TRUE /\ reconnecting' = TRUE
    ELSE UNCHANGED <<reconnectTimer, reconnecting>>

Lose ==
    /\ connected' = FALSE /\ connackTimer' = FALSE /\ keepalive' = FALSE
    /\ sent' = FALSE /\ announce' = "none"

(***************************************************************************)
(* connect(): a new stream and its CONNECT.  After end() the stores are    *)
(* made anew and the client revives.  The old stream is not destroyed.     *)
(***************************************************************************)
Connect ==
    /\ \E s \in Streams \ Live :
         /\ \A x \in Streams \ Live : s <= x
         /\ stream' = s
         /\ state' = [state EXCEPT ![s] = "open"]
         /\ answer' = [answer EXCEPT ![s] = "none"]
         /\ onClose' = [onClose EXCEPT ![s] = {}]
    /\ ClearReconnect /\ connackTimer' = TRUE
    /\ IF disconnected /\ ~reconnecting
       THEN store' = "empty" /\ disconnecting' = FALSE /\ disconnected' = FALSE
       ELSE UNCHANGED <<store, disconnecting, disconnected>>
    /\ UNCHANGED <<connected, reconnecting, keepalive, deferred, ending, busy, sent,
                   queued, announce, immediate>>

(***************************************************************************)
(* _cleanUp: forced, it destroys the stream (and flushes the requests of a *)
(* client that will not reconnect); otherwise it sends a DISCONNECT and    *)
(* ends the stream, or queues the DISCONNECT offline.  An end() goes on at *)
(* the stream's 'close', or at once when the client is not connected.      *)
(***************************************************************************)
Listen(e) ==
    IF connected
    THEN /\ onClose' = [onClose EXCEPT ![stream] = @ \cup {e}]
         /\ ending' = [ending EXCEPT ![e] = "closing"]
    ELSE UNCHANGED onClose /\ ending' = [ending EXCEPT ![e] = "tick"]

Destroy ==
    /\ state' = [state EXCEPT ![stream] = IF @ = "closed" THEN @ ELSE "destroyed"]
    /\ busy' = (busy /\ (Period \/ ~Clean))
    /\ keepalive' = FALSE

SendDisconnect ==
    /\ IF connected
       THEN immediate' = (immediate \/ state[stream] = "open") /\ UNCHANGED queued
       ELSE queued' = TRUE /\ UNCHANGED immediate
    /\ keepalive' = FALSE
    /\ UNCHANGED <<state, busy>>

Finish(e, force) ==
    /\ Listen(e)
    /\ IF force THEN Destroy /\ UNCHANGED <<queued, immediate>> ELSE SendDisconnect
    /\ UNCHANGED <<stream, answer>>

\* _clearReconnect and _setupReconnect, unless the client is ending or retries.
ResetReconnect ==
    IF ~disconnecting /\ ~reconnecting
    THEN reconnectTimer' = Period /\ reconnecting' = Period
    ELSE UNCHANGED <<reconnectTimer, reconnecting>>

\* _cleanUp(true) without an end(): the stream is given up.
GiveUp ==
    /\ Destroy /\ ResetReconnect
    /\ UNCHANGED <<connected, disconnecting, disconnected, deferred, stream, answer, onClose,
                   ending, sent, store, queued, announce, immediate, run, wanted, calls>>

(***************************************************************************)
(* end(): without force it waits until nothing is in flight.  A client     *)
(* that is ending already calls back at once.                              *)
(***************************************************************************)
Drains(force) == ~force /\ busy

End(e, force) ==
    /\ UNCHANGED <<connected, disconnected, reconnecting, connackTimer, deferred, sent, store,
                   announce>>
    /\ IF disconnecting
       THEN /\ ending' = [ending EXCEPT ![e] = "done"]
            /\ UNCHANGED <<disconnecting, reconnectTimer, keepalive, streams, busy, queued,
                           immediate>>
       ELSE /\ disconnecting' = TRUE /\ ClearReconnect
            /\ IF Drains(force)
               THEN /\ ending' = [ending EXCEPT ![e] = "waiting"]
                    /\ UNCHANGED <<keepalive, streams, busy, queued, immediate>>
               ELSE Finish(e, force)

-----------------------------------------------------------------------------
(* The user. *)
UserEnd(e) ==
    /\ Quiet /\ stream # None /\ ending[e] = "none"
    /\ Polite => ~deferred
    /\ wanted' = FALSE
    /\ End(e, ForceOf[e])
    /\ UNCHANGED <<run, calls, faults>>

\* connect() by hand: the first one, or after end().
UserConnect ==
    /\ Quiet /\ Live = {} /\ calls < MaxCalls
    /\ stream = None \/ (disconnected /\ (Polite => ~reconnecting))
    /\ wanted' = TRUE /\ calls' = calls + 1
    /\ Connect
    /\ UNCHANGED <<run, faults>>

\* reconnect(): new stores, and a new connection, after the end() under way.
Revive ==
    /\ store' = "empty" /\ disconnecting' = FALSE /\ disconnected' = FALSE
    /\ deferred' = FALSE

UserReconnect ==
    /\ Quiet /\ stream # None /\ calls < MaxCalls
    /\ Polite => Live = {} \/ (disconnecting /\ connected)
    /\ wanted' = TRUE /\ calls' = calls + 1
    /\ IF disconnecting /\ ~disconnected
       THEN deferred' = TRUE /\ UNCHANGED <<store, disconnecting, disconnected, run>>
       ELSE Revive /\ run' = <<"reconnect">>
    /\ UNCHANGED <<connected, reconnecting, timers, streams, ending, busy, sent, queued,
                   announce, immediate, faults>>

\* A closed store cannot take a message: publish() throws, but leaves its entry.
Publish ==
    /\ Publishes /\ Quiet /\ stream # None /\ ~disconnecting /\ ~busy
    /\ busy' = TRUE
    /\ IF store = "closed" THEN UNCHANGED store /\ sent' = FALSE
       ELSE store' = "full" /\ sent' = connected
    /\ UNCHANGED <<flags, timers, deferred, streams, ending, queued, announce, immediate, run,
                   history>>

-----------------------------------------------------------------------------
(* The rest of a running task. *)
RunConnect ==
    /\ run # <<>> /\ Head(run) = "connect" /\ run' = Tail(run)
    /\ Connect
    /\ UNCHANGED history

\* _reconnect: a connected client ends first, and connects at the end's callback.
RunReconnect ==
    /\ run # <<>> /\ Head(run) = "reconnect" /\ run' = Tail(run)
    /\ IF connected /\ ~disconnecting
       THEN ending[Internal] \in {"none", "done"} /\ End(Internal, FALSE)
       ELSE Connect
    /\ UNCHANGED history

\* closeStores, after the callback.
RunDeferred ==
    /\ run # <<>> /\ Head(run) = "deferred"
    /\ IF deferred
       THEN Revive /\ run' = <<"reconnect">> \o Tail(run)
       ELSE /\ run' = Tail(run)
            /\ disconnecting' = (disconnecting /\ Period /\ ~Manual)
            /\ UNCHANGED <<deferred, disconnected, store>>
    /\ UNCHANGED <<connected, reconnecting, timers, streams, ending, busy, sent, queued, announce,
                   immediate, history>>

\* finish, 10 ms after nothing is in flight.
FinishDelayed(e) ==
    /\ Settled /\ ending[e] = "delay"
    /\ Finish(e, Forced(e)) /\ ResetReconnect
    /\ UNCHANGED <<connected, disconnecting, disconnected, connackTimer, deferred, sent, store,
                   announce, run, history>>

\* closeStores, on nextTick: the stores close and the callback runs.
CloseStores(e) ==
    /\ Quiet /\ ending[e] = "tick"
    /\ disconnected' = TRUE /\ store' = "closed"
    /\ ending' = [ending EXCEPT ![e] = "done"]
    /\ run' = (IF e = Internal THEN <<"connect">> ELSE <<>>) \o <<"deferred">>
    /\ UNCHANGED <<connected, disconnecting, reconnecting, timers, deferred, streams, busy,
                   sent, queued, announce, immediate, history>>

-----------------------------------------------------------------------------
(* Packets. *)

\* A CONNACK on any stream that the client still reads: the store is replayed,
\* unless the client is ending or about to reconnect.  An ended client only
\* announces the CONNACK, and stays disconnected.
Accept(s) ==
    /\ Settled /\ state[s] \in {"open", "ended"} /\ answer[s] = "none"
    /\ answer' = [answer EXCEPT ![s] = "accepted"]
    /\ connackTimer' = FALSE /\ reconnecting' = FALSE
    /\ IF disconnected
       THEN UNCHANGED <<connected, keepalive, busy, sent, announce>>
       ELSE /\ connected' = TRUE /\ keepalive' = TRUE
            /\ LET replays == store = "full" /\ ~disconnecting /\ ~reconnectTimer IN
                 /\ busy' = (busy \/ replays) /\ sent' = (sent \/ replays)
                 /\ announce' = IF replays THEN "replay"
                                ELSE IF store = "full" THEN "none" ELSE "due"
    /\ UNCHANGED <<disconnecting, disconnected, reconnectTimer, deferred, stream, state, onClose,
                   ending, store, queued, immediate, run, history>>

Refuse(s) ==
    /\ Settled /\ state[s] \in {"open", "ended"} /\ answer[s] = "none"
    /\ faults < MaxFaults /\ faults' = faults + 1
    /\ answer' = [answer EXCEPT ![s] = "refused"]
    /\ connackTimer' = FALSE
    /\ IF RetryRefused
       THEN Destroy /\ ResetReconnect
       ELSE UNCHANGED <<state, busy, keepalive, reconnectTimer, reconnecting>>
    /\ UNCHANGED <<connected, disconnecting, disconnected, deferred, stream, onClose, ending,
                   sent, store, queued, announce, immediate, run, wanted, calls>>

\* 'connect', once the store is replayed: the queued DISCONNECT is sent.
Announce ==
    /\ Ready /\ announce = "due" /\ announce' = "none"
    /\ IF queued /\ connected
       THEN queued' = FALSE /\ immediate' = (immediate \/ state[stream] = "open")
       ELSE UNCHANGED <<queued, immediate>>
    /\ UNCHANGED <<flags, timers, deferred, streams, ending, busy, sent, store, run, history>>

\* The last ack; "outgoingEmpty" is emitted while the client is ending.
Acknowledge ==
    /\ Ready /\ connected /\ busy /\ sent /\ state[stream] \in {"open", "ended"}
    /\ busy' = FALSE /\ sent' = FALSE /\ store' = IF store = "full" THEN "empty" ELSE store
    /\ announce' = IF announce = "replay" THEN "due" ELSE announce
    /\ ending' = [e \in EndIds |-> IF disconnecting /\ ending[e] = "waiting" THEN "delay"
                                   ELSE ending[e]]
    /\ UNCHANGED <<flags, timers, deferred, streams, queued, immediate, run, history>>

-----------------------------------------------------------------------------
(* Timers and streams. *)
ReconnectTimeout ==
    /\ Settled /\ reconnectTimer
    /\ run' = <<"reconnect">>
    /\ UNCHANGED <<flags, timers, deferred, streams, ending, session, history>>

ConnackTimeout ==
    /\ Settled /\ connackTimer
    /\ faults < MaxFaults /\ faults' = faults + 1
    /\ connackTimer' = FALSE
    /\ GiveUp

KeepaliveTimeout ==
    /\ Settled /\ keepalive
    /\ faults < MaxFaults /\ faults' = faults + 1
    /\ UNCHANGED connackTimer
    /\ GiveUp

EndStream ==
    /\ Ready /\ immediate /\ immediate' = FALSE
    /\ state' = [state EXCEPT ![stream] = IF @ = "open" THEN "ended" ELSE @]
    /\ UNCHANGED <<flags, timers, deferred, stream, answer, onClose, ending, busy, sent, store,
                   queued, announce, run, history>>

\* The network loses an open stream; the broker closes one that it refused.
Expected(s) == state[s] \in {"ended", "destroyed"} \/ answer[s] = "refused"

Close(s) ==
    /\ Ready /\ s \in Live
    /\ IF Expected(s) THEN UNCHANGED faults ELSE faults < MaxFaults /\ faults' = faults + 1
    /\ state' = [state EXCEPT ![s] = "closed"]
    /\ onClose' = [onClose EXCEPT ![s] = {}]
    /\ ending' = [e \in EndIds |-> IF e \in onClose[s] THEN "tick" ELSE ending[e]]
    /\ Lose /\ SetupReconnect
    /\ UNCHANGED <<disconnecting, disconnected, deferred, stream, answer, busy, store, queued,
                   immediate, run, wanted, calls>>

-----------------------------------------------------------------------------
Run ==
    \/ RunConnect \/ RunReconnect \/ RunDeferred
    \/ \E e \in EndIds : CloseStores(e)
    \/ EndStream \/ Announce

Timeout ==
    \/ ReconnectTimeout \/ ConnackTimeout \/ KeepaliveTimeout
    \/ \E e \in EndIds : FinishDelayed(e)

User == (\E e \in Ends : UserEnd(e)) \/ UserConnect \/ UserReconnect \/ Publish

Network ==
    \/ \E s \in Streams : Accept(s) \/ Refuse(s) \/ Close(s)
    \/ Acknowledge

Next == Run \/ Timeout \/ User \/ Network

Spec == Init /\ [][Next]_vars

(***************************************************************************)
(* The event loop runs what is due; a stream that was ended, destroyed or  *)
(* refused closes; the broker answers CONNECT and PUBLISH.  Nothing is     *)
(* asked of the user, nor of the faults.                                   *)
(***************************************************************************)
Fairness ==
    /\ WF_vars(Run) /\ WF_vars(ReconnectTimeout)
    /\ \A e \in EndIds : WF_vars(FinishDelayed(e))
    /\ \A s \in Streams : WF_vars(Accept(s)) /\ WF_vars(Expected(s) /\ Close(s))
    /\ WF_vars(Acknowledge)

FairSpec == Spec /\ Fairness

-----------------------------------------------------------------------------
(***************************************************************************)
(* The reconnect timer runs only while the client wants to reconnect, and  *)
(* a client that has ended is not connected.                               *)
(***************************************************************************)
TimerIsWanted ==
    /\ reconnectTimer => Period /\ ~disconnecting
    /\ disconnected => ~connected

(***************************************************************************)
(* A client has one connection: no stream is left open behind the current  *)
(* one, taking part in the protocol under the same client identifier; and  *)
(* a client that counts as connected has a stream that has not closed and  *)
(* whose CONNECT was accepted, so that what it writes may reach the broker.*)
(***************************************************************************)
OneConnection ==
    /\ \A s \in Live : s = stream \/ state[s] = "destroyed"
    /\ connected => stream \in Live /\ answer[stream] = "accepted"

(***************************************************************************)
(* No reconnect timer runs behind a connection that is up: it would tear   *)
(* the connection down.                                                    *)
(***************************************************************************)
NoTimerWhenConnected == connected /\ state[stream] = "open" => ~reconnectTimer

(***************************************************************************)
(* A client the user wants is never abandoned: it is connected or          *)
(* connecting, or a timer, a stream about to close or an end() with a      *)
(* reconnection behind it will make it connect.                            *)
(***************************************************************************)
Underway == \E e \in EndIds : ending[e] \in {"delay", "closing", "tick"}
NotAbandoned ==
    Quiet /\ wanted /\ Period /\ stream # None =>
        \/ connected \/ reconnectTimer \/ Live # {}
        \/ Underway /\ (deferred \/ ending[Internal] \notin {"none", "done"})

(***************************************************************************)
(* After the user's end() the client makes no new connection until the     *)
(* user asks for one.                                                      *)
(***************************************************************************)
EndedStaysDown ==
    [][\A s \in Streams : state[s] = "closed" /\ state'[s] = "open" => wanted']_vars

(***************************************************************************)
(* The callback of end() runs once the client is closed: its streams have  *)
(* closed, or were destroyed and are about to.                             *)
(***************************************************************************)
Ended == ~wanted /\ \E e \in Ends : ending[e] = "done"
EndedIsClosed == Quiet /\ Ended /\ ~Underway => \A s \in Live : state[s] = "destroyed"

(***************************************************************************)
(* A publish in flight is in the store while the client is in use: it is   *)
(* sent again when the connection breaks.                                  *)
(***************************************************************************)
PendingIsStored == Quiet /\ busy /\ ~disconnecting => store = "full"

(***************************************************************************)
(* A CONNECT that was refused is not retried by the client itself unless   *)
(* the options ask for it.                                                 *)
(***************************************************************************)
RefusedIsNotRetried ==
    ~RetryRefused /\ stream # None /\ answer[stream] = "refused" => ~reconnectTimer

(***************************************************************************)
(* An end() without force ends the stream only when nothing is in flight:  *)
(* no request of the connection is cut short.                              *)
(***************************************************************************)
DrainedFirst == immediate /\ connected => ~busy

(***************************************************************************)
(* Every end() calls back.                                                 *)
(***************************************************************************)
EndIsAnswered == \A e \in Ends : ending[e] # "none" ~> ending[e] = "done"

(***************************************************************************)
(* end() calls back at most once: a call that did never starts again, nor  *)
(* does it close the stores again.                                         *)
(***************************************************************************)
EndOnce == [][\A e \in Ends : ending[e] = "done" => ending'[e] = "done"]_vars

(***************************************************************************)
(* Once the network stays up, a client the user wants becomes connected    *)
(* and stays so.  Over refused CONNACKs this is promised only to a client  *)
(* with reconnectOnConnackError (README.md:283); the code retries without  *)
(* it too (RefusedIsNotRetried).                                           *)
(***************************************************************************)
Reconnects == <>[](wanted /\ Period /\ RetryRefused => connected)
=============================================================================
