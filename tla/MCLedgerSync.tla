---------------------------- MODULE MCLedgerSync ----------------------------
(* The resync tasks are interchangeable. *)
EXTENDS LedgerSync, TLC

Symmetry == Permutations(Tasks)
=============================================================================
