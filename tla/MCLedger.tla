------------------------------ MODULE MCLedger ------------------------------
(* Requests, keys and symmetry for model checking Ledger.                   *)
EXTENDS Ledger, TLC

CONSTANTS r1, r2, r3, p1, p2, a1, a2, k1, k2

\* The first two commands carry the same key, the third another one; plans
\* and applies have keys of their own.
SharedKeys == [r \in Request |-> IF r \in {r1, r2, p1, a1} THEN k1 ELSE k2]

\* The second plan is destructive; only the first apply was sent with approval.
SomeDestructive == Plans \cap {p2}
SomeApproved == Applies \cap {a1}

Symmetry == Permutations(SHA \ {Root})

\* The event log is written and never read by the ledger.
View == <<changesets, operations, artifacts, clock, drafted, git, host, aux, req>>
=============================================================================
