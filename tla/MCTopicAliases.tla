--------------------------- MODULE MCTopicAliases ---------------------------
(* Instances of TopicAliases for TLC. *)
EXTENDS TopicAliases

CONSTANTS t, u   \* topics
=============================================================================
