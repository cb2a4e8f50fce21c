----------------------------- MODULE Keepalive -----------------------------
(***************************************************************************)
(* KeepaliveManager: the interval timer that asks for a PINGREQ and gives  *)
(* a silent connection up, rescheduled by what the client receives, beside *)
(* a work queue that a slow handleMessage can hold up.  Time is discrete;  *)
(* the timer's interval, half the keepalive, is Half units, and nothing    *)
(* that is due is put off.                                                 *)
(*                                                                         *)
(* External: the network, which keeps the order and delivers an answer     *)
(* within MaxDelay of the packet it answers, until it goes dead silently.  *)
(***************************************************************************)
EXTENDS Integers, Sequences

CONSTANTS
    Half,               \* half of options.keepalive
    MaxDelay,           \* the longest an answer takes
    MaxBusy,            \* the longest handleMessage takes
    ReschedulePings,    \* options.reschedulePings
    MaxInFlight         \* bound: packets under way to the client

ASSUME TimesAssumption ==
    Half \in Nat \ {0} /\ MaxDelay \in Nat /\ MaxBusy \in Nat /\ MaxInFlight \in Nat
ASSUME ReschedulePingsAssumption == ReschedulePings \in BOOLEAN

VARIABLES
    connected,      \* this.connected, with a keepalive manager
    left,           \* time until the interval fires
    counter,        \* KeepaliveManager.counter
    inFlight,       \* packets under way to the client, and the time each takes
    packets,        \* received and not yet handled
    busy,           \* how long handleMessage will still run
    dead,           \* the connection is dead, though no close has been seen
    sinceHeard,     \* history: time since the timer was set or rescheduled
    sinceSent,      \* history: time since the client sent a packet
    sinceDead,      \* history: time since the connection went dead
    gaveUp          \* history: the last connection was given up though it was not dead

timerVars == <<left, counter, sinceHeard>>
netVars == <<inFlight, dead, sinceDead>>
workVars == <<packets, busy>>
vars == <<connected, timerVars, netVars, workVars, sinceSent, gaveUp>>

Received == {"pingresp", "ack", "publish", "pubrel"}
MessagePackets == {"publish", "pubrel"}   \* handleMessage runs for these

TypeOK ==
    /\ connected \in BOOLEAN /\ dead \in BOOLEAN /\ gaveUp \in BOOLEAN
    /\ left \in 0..Half /\ counter \in 0..2
    /\ inFlight \in Seq([cmd : Received, due : Nat])
    /\ packets \in Seq(Received) /\ busy \in 0..MaxBusy
    /\ sinceHeard \in Nat /\ sinceSent \in Nat /\ sinceDead \in Nat

Init ==
    /\ connected = FALSE /\ left = 0 /\ counter = 0
    /\ inFlight = <<>> /\ packets = <<>> /\ busy = 0 /\ dead = FALSE
    /\ sinceHeard = 0 /\ sinceSent = 0 /\ sinceDead = 0 /\ gaveUp = FALSE

-----------------------------------------------------------------------------
\* reschedule, and the constructor: the counter and the interval start again.
Reschedule == left' = Half /\ counter' = 0 /\ sinceHeard' = 0

\* A packet that the broker answers: the answer arrives after some delay.
Sends(answer) ==
    /\ sinceSent' = 0
    /\ \E d \in 0..MaxDelay :
         inFlight' = IF dead THEN inFlight
                     ELSE Append(inFlight, [cmd |-> answer, due |-> d])

Connack ==
    /\ ~connected /\ connected' = TRUE
    /\ Reschedule
    /\ inFlight' = <<>> /\ packets' = <<>> /\ busy' = 0
    /\ dead' = FALSE /\ sinceDead' = 0 /\ sinceSent' = 0 /\ gaveUp' = FALSE

\* The interval: a PINGREQ at the second, onKeepaliveTimeout at the third.
Counts ==
    /\ counter' = counter + 1 /\ UNCHANGED <<connected, sinceHeard, gaveUp>>
\* Mutant: no PINGREQ is sent.
PingsNever == counter < 2 /\ Counts /\ UNCHANGED <<sinceSent, inFlight>>
Pings ==
    /\ counter < 2 /\ Counts
    /\ IF counter = 1 THEN Sends("pingresp") ELSE UNCHANGED <<sinceSent, inFlight>>

TimesOutNever ==   \* Mutant: another PINGREQ instead.
    counter = 2 /\ Sends("pingresp") /\ UNCHANGED <<connected, counter, sinceHeard, gaveUp>>
TimesOut ==
    /\ counter = 2 /\ connected' = FALSE
    /\ gaveUp' = ~dead
    /\ UNCHANGED <<counter, sinceHeard, sinceSent, inFlight>>

Interval ==
    /\ connected /\ left = 0 /\ left' = Half
    /\ Pings \/ TimesOut
    /\ UNCHANGED <<workVars, dead, sinceDead>>

-----------------------------------------------------------------------------
Room == Len(inFlight) + Len(packets) < MaxInFlight

\* A publish of QoS 1, a subscription: the answer is an ack.  A PUBREC, sent when
\* a publish of QoS 2 is read: the answer is a PUBREL.
ClientSends ==
    /\ connected /\ Room
    /\ \E answer \in {"ack", "pubrel"} : Sends(answer)
    /\ UNCHANGED <<connected, timerVars, workVars, dead, sinceDead, gaveUp>>

BrokerPublishes ==
    /\ connected /\ ~dead /\ Room
    /\ inFlight' = Append(inFlight, [cmd |-> "publish", due |-> 0])
    /\ UNCHANGED <<connected, timerVars, workVars, dead, sinceDead, sinceSent, gaveUp>>

Receive ==
    /\ connected /\ inFlight # <<>> /\ Head(inFlight).due = 0
    /\ packets' = Append(packets, Head(inFlight).cmd) /\ inFlight' = Tail(inFlight)
    /\ UNCHANGED <<connected, timerVars, busy, dead, sinceDead, sinceSent, gaveUp>>

\* handle of handlers/index.ts: a PINGRESP always reschedules, an ack and a PUBREL
\* if the option says so, a PUBLISH never (#1861).  A PUBLISH and a PUBREL take
\* some time; the PUBACK or PUBCOMP after it is not counted as sent.
ReschedulesOnAck(cmd) == cmd \in {"ack", "pubrel"} /\ ReschedulePings   \* Mutant.
Reschedules(cmd) == cmd = "pingresp" \/ (cmd \in {"ack", "pubrel"} /\ ReschedulePings)
Handle ==
    /\ connected /\ packets # <<>> /\ busy = 0
    /\ packets' = Tail(packets)
    /\ IF Reschedules(Head(packets)) THEN Reschedule ELSE UNCHANGED timerVars
    /\ busy' \in (IF Head(packets) \in MessagePackets THEN 0..MaxBusy ELSE {0})
    /\ UNCHANGED <<connected, netVars, sinceSent, gaveUp>>

\* A half-open connection: nothing arrives any more, and nothing says so.
GoesDead ==
    /\ connected /\ ~dead /\ dead' = TRUE /\ sinceDead' = 0
    /\ inFlight' = <<>>
    /\ UNCHANGED <<connected, timerVars, workVars, sinceSent, gaveUp>>

-----------------------------------------------------------------------------
Due ==
    \/ left = 0
    \/ inFlight # <<>> /\ Head(inFlight).due = 0
    \/ packets # <<>> /\ busy = 0

Less(n) == IF n = 0 THEN 0 ELSE n - 1

Tick ==
    /\ connected /\ ~Due
    /\ left' = left - 1 /\ busy' = Less(busy)
    /\ inFlight' = [i \in DOMAIN inFlight |-> [inFlight[i] EXCEPT !.due = Less(@)]]
    /\ sinceHeard' = sinceHeard + 1 /\ sinceSent' = sinceSent + 1
    /\ sinceDead' = IF dead THEN sinceDead + 1 ELSE 0
    /\ UNCHANGED <<connected, counter, packets, dead, gaveUp>>

Next ==
    \/ Connack \/ Interval \/ ClientSends \/ BrokerPublishes
    \/ Receive \/ Handle \/ GoesDead \/ Tick

Spec == Init /\ [][Next]_vars

-----------------------------------------------------------------------------
\* How long the handling of what was received can take.
Backlog == (MaxInFlight + 1) * MaxBusy
Quick == MaxDelay + Backlog < Half

(***************************************************************************)
(* A silent connection is given up one and a half keepalives after the     *)
(* last packet that counts.                                                *)
(***************************************************************************)
SilentIsFound == connected => sinceHeard <= 3 * Half

(***************************************************************************)
(* So is one that is half open, once what it had received is handled.      *)
(***************************************************************************)
DeadIsFound == SilentIsFound /\ (connected => sinceDead <= 3 * Half + Backlog)

(***************************************************************************)
(* A connection whose answers arrive and are handled within half a         *)
(* keepalive is not given up.                                              *)
(***************************************************************************)
AnsweredIsKept == Quick => ~gaveUp

(***************************************************************************)
(* And the broker hears of the client within its patience of one and a     *)
(* half keepalives, though every ack puts the next PINGREQ off.            *)
(***************************************************************************)
BrokerHears == connected /\ Quick => sinceSent < 3 * Half
=============================================================================
