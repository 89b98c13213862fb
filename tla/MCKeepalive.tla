---------------------------- MODULE MCKeepalive ----------------------------
(* Keepalive with two render threads: one that is stopped, one that follows. *)
EXTENDS Keepalive
=============================================================================
