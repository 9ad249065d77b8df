---------------------------- MODULE MCSpmCache ----------------------------
(* Instances of SpmCache for TLC. *)
EXTENDS SpmCache, TLC

Symmetry == Permutations(Lines) \cup Permutations(Ways)
=============================================================================
