-------------------------- MODULE ExclusiveStream --------------------------
(***************************************************************************)
(* What the keepalive promises to the poll worker: one session at a time,  *)
(* and a flag that is up only while a session is open.  A session may be   *)
(* closed only after its flag is down, so whoever reads the flag up has a  *)
(* session behind it.  Keepalive implements this with two threads, three   *)
(* atomics and a guard.                                                    *)
(***************************************************************************)
CONSTANT Holder       \* who can hold the device: render threads

VARIABLES
  holders,            \* holders with an open session
  flag                \* what the others read: audio flows to the target

vars == <<holders, flag>>

Init == holders = {} /\ flag = FALSE

Open(h) == holders = {} /\ holders' = {h} /\ UNCHANGED flag

Raise == holders # {} /\ flag' = TRUE /\ UNCHANGED holders

Lower == flag' = FALSE /\ UNCHANGED holders

Close == ~flag /\ holders' = {} /\ UNCHANGED flag

Next == Raise \/ Lower \/ Close \/ \E h \in Holder : Open(h)

Spec == Init /\ [][Next]_vars
=============================================================================
