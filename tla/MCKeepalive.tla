---------------------------- MODULE MCKeepalive ----------------------------
(* Keepalive for TLC: its constants are numbers. *)
EXTENDS Keepalive
=============================================================================
