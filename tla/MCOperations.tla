---------------------------- MODULE MCOperations ----------------------------
(* Model values and symmetry for model checking Operations.                 *)
EXTENDS Operations, TLC

Symmetry == Permutations(Operation) \cup Permutations(Key)
=============================================================================
