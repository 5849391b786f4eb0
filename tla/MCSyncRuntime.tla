---------------------------- MODULE MCSyncRuntime ----------------------------
(* SyncRuntime on small instances. *)
EXTENDS SyncRuntime, TLC

WorkerSymmetry == Permutations(Workers)
=============================================================================
