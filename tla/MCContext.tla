----------------------------- MODULE MCContext -----------------------------
(* Instances of ContextSwitch for TLC. *)
EXTENDS ContextSwitch, TLC

Symmetry == Permutations(Thread)
=============================================================================
