--------------------------- MODULE MCRadioJournal ---------------------------
(* RadioJournal for TLC: ports are model values, the daemon and the tools too. *)
EXTENDS RadioJournal
=============================================================================
