---------------------------- MODULE MCAdmission -----------------------------
(* A workspace of two clusters for model checking Admission: more documents  *)
(* than guest IDs, addresses and separate nodes to give them.                *)
EXTENDS Admission, TLC

CONSTANTS v1, v2, v3, v4, t1, lan, main, edge

Blank(nics) == [uid |-> 0, node |-> "", vmid |-> 0,
                addresses |-> [i \in 1 .. nics |-> 0], macs |-> [i \in 1 .. nics |-> 0]]

Auto == [network |-> lan, mode |-> "auto"]

Guest(node, memory, separate, keep, nics, given) ==
  [kind |-> "VirtualMachine", cluster |-> main, env |-> "prod", node |-> node,
   memory |-> memory, separateFrom |-> separate, keepWith |-> keep, nics |-> nics,
   given |-> given]

\* v1 must be apart from v2 and v3, and v2 is to be with v3, which says so, is
\* pinned and was given the guest ID and the address that others would get.
\* v4 is pinned to a node its cluster does not have, and has no environment.
MCDeclared ==
  v1 :> Guest("", 2, {v2}, {}, <<Auto, Auto>>, Blank(2))
  @@ v2 :> Guest("", 1, {}, {}, <<Auto>>, [Blank(1) EXCEPT !.uid = 3])
  @@ v3 :> Guest("n2", 4, {v1}, {v2}, <<[Auto EXCEPT !.mode = "manual"]>>,
                 [uid |-> 4, node |-> "", vmid |-> 101, addresses |-> <<13>>, macs |-> <<4>>])
  @@ v4 :> [Guest("n2", 1, {}, {}, <<Auto>>, [Blank(1) EXCEPT !.uid = 5])
              EXCEPT !.cluster = edge, !.env = ""]
  @@ t1 :> [Guest("", 0, {}, {}, <<>>, Blank(0)) EXCEPT !.kind = "Template"]

MCClusters == main :> [nodes |-> {"n1", "n2"}, endpoints |-> {11}]
              @@ edge :> [nodes |-> {"n1"}, endpoints |-> {}]
MCNetworks == lan :> [base |-> 8, size |-> 8, static |-> <<9, 15>>, gateway |-> 9]
MCEnvironments == [prod |-> <<100, 102>>, templates |-> <<102, 102>>]

MCRank == v2 :> 1 @@ v1 :> 2 @@ t1 :> 3 @@ v3 :> 4 @@ v4 :> 5
MCFile == v1 :> "a" @@ v2 :> "b" @@ v3 :> "a" @@ t1 :> "b" @@ v4 :> "a"

\* The interfaces of v1 share the candidates 1 and 2, v2 has 2 and 3.
MCHashed(u, i, a) == ((u + a + 1) % 4) + 1
=============================================================================
