--------------------------- MODULE MCPublishFlow ---------------------------
(* Instances of PublishFlow for TLC: which publishes the user makes. *)
EXTENDS PublishFlow

CONSTANTS a, b, c, d

NoTopics == [r \in Requests |-> {}]
KindFlow == 
    [r \in Requests |-> CASE r = b -> "qos1" [] r = d -> "qos0" [] OTHER -> "qos2"]
=============================================================================
