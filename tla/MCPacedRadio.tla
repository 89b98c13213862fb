---------------------------- MODULE MCPacedRadio ----------------------------
(* PacedRadio for TLC: a window of three ticks, the real number of cycles. *)
EXTENDS PacedRadio
=============================================================================
