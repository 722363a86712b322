-------------------------- MODULE MCIndexDirectory --------------------------
(* IndexDirectory for TLC: writers are model values and interchangeable. *)
EXTENDS IndexDirectory, TLC

Symmetry == Permutations(Writers)
=============================================================================
