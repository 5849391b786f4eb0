------------------------------- MODULE MCGapRead -------------------------------
(* GapRead on small instances: two windows that overlap, as the split leaves *)
(* them to the live half of a source that has not been consolidated.         *)
EXTENDS GapRead, WindowSplit, TLC

MCWindows == {[from |-> GapStart(w, 0), to |-> w.end] : w \in {Window(0, 2), Window(1, 3)}}
RequestSymmetry == Permutations(Requests)
=============================================================================
