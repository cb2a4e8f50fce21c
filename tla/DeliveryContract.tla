-------------------------- MODULE DeliveryContract --------------------------
(***************************************************************************)
(* What publish() promises (src/README.md, "About QoS"), without a client, *)
(* a connection or a broker in sight: which messages were published, in    *)
(* which order, how often the broker has passed each on or refused it, and *)
(* which callbacks have run, with or without an error.                     *)
(***************************************************************************)
EXTENDS Integers, Sequences

CONSTANTS
    Messages,     \* the publishes
    QoS           \* [Messages -> 0..2]

VARIABLES
    published,    \* the messages published, in order
    delivered,    \* how often each was delivered
    answered,     \* how often the callback of each ran
    accepted,     \* the messages whose callback ran without an error
    refused       \* the messages the broker has refused

vars == <<published, delivered, answered, accepted, refused>>

TypeOK ==
    /\ published \in Seq(Messages)
    /\ delivered \in [Messages -> Nat]
    /\ answered \in [Messages -> {0, 1}]
    /\ accepted \subseteq Messages /\ refused \subseteq Messages

Init ==
    /\ published = <<>> /\ accepted = {} /\ refused = {}
    /\ delivered = [m \in Messages |-> 0]
    /\ answered = [m \in Messages |-> 0]

Before(m) == {published[i] : i \in {i \in DOMAIN published :
                \E j \in DOMAIN published : i < j /\ published[j] = m}}
WasPublished(m) == \E i \in DOMAIN published : published[i] = m
Pending(m) == WasPublished(m) /\ answered[m] = 0

Publish(m) ==
    /\ ~WasPublished(m)
    /\ published' = Append(published, m)
    /\ UNCHANGED <<delivered, answered, accepted, refused>>

\* QoS 0 and 2 at most once; QoS 1 and 2 never after the callback, and the
\* first time not before an earlier one that is pending and was not refused.
Overtakes(m) == \E n \in Before(m) :
    QoS[n] # 0 /\ answered[n] = 0 /\ delivered[n] = 0 /\ n \notin refused

MayDeliver(m) ==
    /\ WasPublished(m)
    /\ QoS[m] # 1 => delivered[m] = 0
    /\ QoS[m] # 0 => answered[m] = 0 /\ (delivered[m] > 0 \/ ~Overtakes(m))

Deliver(m) ==
    /\ MayDeliver(m)
    /\ delivered' = [delivered EXCEPT ![m] = @ + 1]
    /\ UNCHANGED <<published, answered, accepted, refused>>

Refuse(m) ==
    /\ Pending(m) /\ QoS[m] # 0
    /\ refused' = refused \cup {m}
    /\ UNCHANGED <<published, delivered, answered, accepted>>

\* Once.  For QoS 1 and 2, no error means that it was delivered, and an error
\* that it was not, or that the broker refused it.
Answer(m, good) ==
    /\ Pending(m)
    /\ QoS[m] # 0 => IF good THEN delivered[m] > 0 ELSE delivered[m] = 0 \/ m \in refused
    /\ answered' = [answered EXCEPT ![m] = 1]
    /\ accepted' = IF good THEN accepted \cup {m} ELSE accepted
    /\ UNCHANGED <<published, delivered, refused>>

\* A QoS 0 publish on a connected client is answered as it is made.
PublishAndAnswer(m, good) ==
    /\ QoS[m] = 0 /\ ~WasPublished(m)
    /\ published' = Append(published, m)
    /\ answered' = [answered EXCEPT ![m] = 1]
    /\ accepted' = IF good THEN accepted \cup {m} ELSE accepted
    /\ UNCHANGED <<delivered, refused>>

Next == \E m \in Messages :
    \/ Publish(m) \/ Deliver(m) \/ Refuse(m)
    \/ \E good \in BOOLEAN : Answer(m, good) \/ PublishAndAnswer(m, good)

Spec == Init /\ [][Next]_vars
=============================================================================
