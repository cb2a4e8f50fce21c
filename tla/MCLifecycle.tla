---------------------------- MODULE MCLifecycle ----------------------------
(* Small instances of Lifecycle for TLC. *)
EXTENDS Lifecycle

CONSTANTS e1, e2

AllForced == [e \in Ends |-> TRUE]
NoneForced == [e \in Ends |-> FALSE]
FirstForced == [e \in Ends |-> e = e1]
=============================================================================
