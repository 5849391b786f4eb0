----------------------------- MODULE MCKimiLogin -----------------------------
(* KimiLogin with refreshers that are all alike. *)
EXTENDS KimiLogin, TLC

Symmetry == Permutations(Refreshers)
=============================================================================
