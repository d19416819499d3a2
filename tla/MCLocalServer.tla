--------------------------- MODULE MCLocalServer ----------------------------
(* Three machines for model checking LocalServer, two of them in one file    *)
(* and in one cluster, which has one guest ID to give.                       *)
EXTENDS LocalServer, TLC

CONSTANTS a, b, c

\* a was written by hand with a guest ID of its own, after it had been made
\* with another one; the document of c names a.
MCUnitOf == a :> 1 @@ b :> 1 @@ c :> 2
MCWritten == a :> [vmid |-> 2, power |-> "running", file |-> b]
               @@ b :> [vmid |-> 1, power |-> "stopped", file |-> b]
MCMade == a :> [vmid |-> 1, power |-> "running"]
MCMentions == {<<c, a>>}

Symmetry == Permutations(Client)
=============================================================================
