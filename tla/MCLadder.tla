------------------------------ MODULE MCLadder ------------------------------
(* Ladder with the arm times, spacings and limits scaled down in order. *)
EXTENDS Ladder
=============================================================================
