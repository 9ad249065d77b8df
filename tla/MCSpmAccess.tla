---------------------------- MODULE MCSpmAccess ----------------------------
(* Small instances of SpmAccess for TLC. *)
EXTENDS SpmAccess
=============================================================================
