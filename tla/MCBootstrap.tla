---------------------------- MODULE MCBootstrap ----------------------------
(* Setup requests for model checking Bootstrap: two ask for the same name,   *)
(* the third for another one.                                                *)
EXTENDS Bootstrap, TLC

CONSTANTS r1, r2, r3, home, lab

Names == [r \in Request |-> IF r = r3 THEN lab ELSE home]

Symmetry == Permutations(KEK)
=============================================================================
