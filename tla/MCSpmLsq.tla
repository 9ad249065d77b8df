------------------------------ MODULE MCSpmLsq ------------------------------
(* Small instances of SpmLsq for TLC. *)
EXTENDS SpmLsq, TLC

CONSTANTS l1, l2

\* Lines are interchangeable: no definition tells one from another.
LineSymmetry == Permutations(Lines)
=============================================================================
