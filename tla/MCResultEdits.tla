--------------------------- MODULE MCResultEdits ---------------------------
(* ResultEdits for TLC: the requests are interchangeable. *)
EXTENDS ResultEdits, TLC

PatchSymmetry == Permutations(Patches)
=============================================================================
