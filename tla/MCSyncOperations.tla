--------------------------- MODULE MCSyncOperations ---------------------------
(* Bounded instances of SyncOperations for TLC. *)
EXTENDS SyncOperations
=============================================================================
