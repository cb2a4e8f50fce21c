----------------------------- MODULE MCIncoming -----------------------------
(* Instances of Incoming for TLC: which messages the broker has. *)
EXTENDS Incoming

CONSTANTS a, b, c, d, e    \* messages
CONSTANTS t, u             \* topics

MCQoS == [m \in Messages |-> CASE m = a -> 1 [] m \in {d, e} -> 0 [] OTHER -> 2]
MCTopic == [m \in Messages |-> IF m = a THEN t ELSE u]
\* The broker uses one identifier again and again, or not.
SharedId == [m \in Messages |-> IF QoS[m] = 0 THEN 2 ELSE 1]
OwnId == [m \in Messages |-> CASE m = a -> 1 [] m = b -> 2 [] m = c -> 3 [] OTHER -> 4]
\* The aliases of messages that are not QoS 2, and of all.
AliasQoS01 == [m \in Messages |-> IF QoS[m] = 2 THEN 0 ELSE 1]
AliasAll == [m \in Messages |-> 1]
\* b first, then a, d and e in this order, and c with them; or any order.
MCAfter ==
    [m \in Messages |-> CASE m \in {a, c} -> {b} [] m = d -> {a} [] m = e -> {d} [] OTHER -> {}]
AnyOrder == [m \in Messages |-> {}]
=============================================================================
