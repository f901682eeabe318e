----------------------------- MODULE MCHnswIndex ------------------------------
EXTENDS HnswIndex, TLC

(* The keys are interchangeable. *)
Symmetry == Permutations(Keys)
=============================================================================
