---------------------------- MODULE UndoJournal ----------------------------
(***************************************************************************)
(* What both crash-safe markers of the daemon promise.  A marker file is a *)
(* durable promise to undo a persistent change; the change may be made     *)
(* only on something already promised, and a promise may be dropped only   *)
(* for something that is not (or no longer) changed.                       *)
(*                                                                         *)
(* ServiceDebt implements it with a single-slot marker that names a        *)
(* profile, RadioJournal with a marker whose mere existence covers every   *)
(* radio devnode.                                                          *)
(***************************************************************************)
CONSTANT Resource     \* what can be damaged: profile drivers, radio devnodes

VARIABLES
  promised,           \* resources the marker on disk covers
  damaged             \* resources changed by us and not put back yet

vars == <<promised, damaged>>

Init == /\ promised \in SUBSET Resource
        /\ damaged \in SUBSET promised

\* The marker is rewritten; nothing that is damaged may lose its promise.
Remark == /\ promised' \in SUBSET Resource
          /\ damaged \subseteq promised'
          /\ UNCHANGED damaged

\* The persistent change: allowed under a promise that is already durable.
Damage(r) == /\ r \in promised
             /\ damaged' = damaged \cup {r}
             /\ UNCHANGED promised

\* The change is undone; the promise stays until it is dropped separately.
Undo(r) == /\ damaged' = damaged \ {r}
           /\ UNCHANGED promised

Next == Remark \/ \E r \in Resource : Damage(r) \/ Undo(r)

Spec == Init /\ [][Next]_vars

-----------------------------------------------------------------------------
\* Nothing is damaged without a durable promise to undo it.
NothingForgotten == damaged \subseteq promised
=============================================================================
