--------------------------- MODULE MCPartialExits ---------------------------
(* PartialExits on small instances; the positions are interchangeable. *)
EXTENDS PartialExits, TLC

Symmetry == Permutations(Positions)
=============================================================================
