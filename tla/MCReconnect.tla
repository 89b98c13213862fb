---------------------------- MODULE MCReconnect ----------------------------
(* Reconnect with two sockets, the hold and the attempt that may replace it. *)
EXTENDS Reconnect
=============================================================================
