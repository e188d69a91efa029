---------------------------- MODULE MCFleetState ----------------------------
(* Small instances of FleetState for TLC. *)
EXTENDS FleetState, TLC

CONSTANTS a, b    \* two robots; which of them are numbered is the cfg's choice

Symmetric == Permutations(Robot)
==============================================================================
