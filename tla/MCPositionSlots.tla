-------------------------- MODULE MCPositionSlots --------------------------
(* Model values and symmetry for checking PositionSlots. *)
EXTENDS PositionSlots, TLC

Symmetry ==
    Permutations(Ids) \cup Permutations(Mints) \cup Permutations(Openers)
        \cup Permutations(Requests)

=============================================================================
