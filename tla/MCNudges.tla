------------------------------ MODULE MCNudges ------------------------------
(***************************************************************************)
(* Nudges for TLC: two reminders that compete for fires and for the bubble.*)
(* The liveness run has one, whose tracked and loose tasks compete.        *)
(***************************************************************************)
EXTENDS Nudges, TLC

Perms == Permutations(Ids)
=============================================================================
