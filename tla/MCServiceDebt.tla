--------------------------- MODULE MCServiceDebt ---------------------------
(* ServiceDebt with two profiles and two re-enable attempts. *)
EXTENDS ServiceDebt
=============================================================================
