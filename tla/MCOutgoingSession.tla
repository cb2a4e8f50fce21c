------------------------- MODULE MCOutgoingSession -------------------------
(* Instances of OutgoingSession for TLC: which calls the user makes. *)
EXTENDS OutgoingSession

CONSTANTS t1, t2          \* topic filters
CONSTANTS a, b, c, d      \* calls

MCTopics == [r \in Requests |-> IF Kind[r] \in {"sub", "unsub"} THEN {t1} ELSE {}]

\* Publishes of every quality of service, three of which need an identifier.
KindPublish ==
    [r \in Requests |-> CASE r = b -> "qos2" [] r = c -> "qos0" [] OTHER -> "qos1"]
\* A subscription and its removal beside a QoS 2 publish.
KindMixed ==
    [r \in Requests |-> CASE r = a -> "sub" [] r = b -> "unsub" [] OTHER -> "qos2"]
\* Calls that all need an identifier beside calls that do not.
KindWaiting ==
    [r \in Requests |-> CASE r \in {a, b} -> "qos1" [] OTHER -> "qos0"]
=============================================================================
