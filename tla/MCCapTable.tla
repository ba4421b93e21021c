----------------------------- MODULE MCCapTable -----------------------------
(* TLC instance of CapTable. *)
EXTENDS CapTable, TLC

Symmetry == Permutations(Table) \cup Permutations(Root)
=============================================================================
