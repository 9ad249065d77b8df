---------------------------- MODULE MCStoreQueue ----------------------------
(* Small instances of StoreQueue for TLC. *)
EXTENDS StoreQueue, TLC

OwnBlocks == [w \in Words |-> w]
=============================================================================
