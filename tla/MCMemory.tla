------------------------------ MODULE MCMemory ------------------------------
(* Memory for TLC. *)
EXTENDS Memory

Symmetry == Permutations(Ids)
=============================================================================
