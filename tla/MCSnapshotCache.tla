--------------------------- MODULE MCSnapshotCache ---------------------------
(* SnapshotCache on small instances. *)
EXTENDS SnapshotCache, TLC

Symmetry == Permutations(Readers) \union Permutations(Files)
=============================================================================
