------------------------------- MODULE Intent -------------------------------
(***************************************************************************)
(* The intent documents of a workspace, as admission and validation read   *)
(* them: src/internal/nrm and src/internal/nrm/v1alpha1.                   *)
(*                                                                         *)
(* A document is what its author wrote, Declared[d], and the values that   *)
(* nodr allocates for it.  An intent is a function from the documents that *)
(* are there to their allocated values.  An unset number is 0 and an unset *)
(* node is "".  Clusters, networks and environments are valid and do not   *)
(* change; addresses and MAC addresses are numbers.  Fields that are       *)
(* neither allocated nor read by an allocation are left out.               *)
(***************************************************************************)
EXTENDS Integers, FiniteSets, Sequences

CONSTANTS
  Document,     \* names of virtual machines and templates
  Declared,     \* what the author of each document wrote
  Clusters,     \* [name -> [nodes, endpoints]]
  Networks,     \* [name -> [base, size, static, gateway]]; static is <<>> or <<first, last>>
  Environments  \* [name -> <<first, last>>], the VMID ranges in nodr.yaml

VirtualMachine(d) == Declared[d].kind = "VirtualMachine"

Cluster(d) == Declared[d].cluster

NICs(d) == DOMAIN Declared[d].nics

NIC(d, i) == Declared[d].nics[i]

\* The environment whose range a guest ID comes from.
Environment(d) == IF VirtualMachine(d) THEN Declared[d].env ELSE "templates"

VMIDs(d) == IF Environment(d) \in DOMAIN Environments
            THEN Environments[Environment(d)][1] .. Environments[Environment(d)][2]
            ELSE {}

\* The addresses of a subnet without its network and broadcast addresses,
\* which subnets of one or two addresses do not have.
Hosts(net) == LET last == net.base + net.size - 1
              IN  (net.base .. last) \ (IF net.size <= 2 THEN {} ELSE {net.base, last})

StaticRange(net) == IF net.static = <<>> THEN {} ELSE net.static[1] .. net.static[2]

Assignable(n) == (StaticRange(Networks[n]) \cap Hosts(Networks[n])) \ {Networks[n].gateway}

\* Whether two guests must not share a node: either may say so.
Separate(d, e) == d \in Declared[e].separateFrom \/ e \in Declared[d].separateFrom

KeptWith(d, e) == d \in Declared[e].keepWith \/ e \in Declared[d].keepWith

Allocation(d) == [uid : Nat, node : STRING, vmid : Nat,
                  addresses : [NICs(d) -> Nat], macs : [NICs(d) -> Nat]]

\* The interfaces of the virtual machines in docs.
Interfaces(docs) == UNION {{<<d, i>> : i \in NICs(d)} : d \in docs}

AddressOf(intent, f) == intent[f[1]].addresses[f[2]]
MACOf(intent, f) == intent[f[1]].macs[f[2]]

\* Guest IDs are unique in a cluster.
UniqueIDs(intent) ==
  \A d, e \in DOMAIN intent :
    (d # e /\ Cluster(d) = Cluster(e) /\ intent[d].vmid # 0) => intent[d].vmid # intent[e].vmid

\* Addresses are unique in a network and none is an endpoint of the guest's
\* cluster.
UniqueAddresses(intent) ==
  LET assigned == {f \in Interfaces(DOMAIN intent) : AddressOf(intent, f) # 0}
  IN  /\ \A f \in assigned : AddressOf(intent, f) \notin Clusters[Cluster(f[1])].endpoints
      /\ \A f, g \in assigned :
           (f # g /\ NIC(f[1], f[2]).network = NIC(g[1], g[2]).network)
             => AddressOf(intent, f) # AddressOf(intent, g)

\* MAC addresses are unique in a cluster.
UniqueMACs(intent) ==
  LET assigned == {f \in Interfaces(DOMAIN intent) : MACOf(intent, f) # 0}
  IN  \A f, g \in assigned :
        (f # g /\ Cluster(f[1]) = Cluster(g[1])) => MACOf(intent, f) # MACOf(intent, g)

UniqueUIDs(intent) ==
  \A d, e \in DOMAIN intent : (d # e /\ intent[d].uid # 0) => intent[d].uid # intent[e].uid

\* The checks of one virtual machine: no guest is separated from itself or
\* from one it is kept with, an interface with mode dhcp has no address, and
\* a pinned guest is assigned to the node it is pinned to.
CheckVirtualMachine(intent, d) ==
  /\ d \notin Declared[d].separateFrom
  /\ Declared[d].separateFrom \cap Declared[d].keepWith = {}
  /\ \A i \in NICs(d) : NIC(d, i).mode = "dhcp" => intent[d].addresses[i] = 0
  /\ Declared[d].node # "" => intent[d].node \in {"", Declared[d].node}

\* The checks of one network: its ranges are inside its subnet.
CheckNetwork(net) ==
  net.static # <<>> => /\ net.static[1] <= net.static[2]
                       /\ net.base <= net.static[1]
                       /\ net.static[2] < net.base + net.size

\* Every guest that a document names is there.
NoneDangling(docs) ==
  \A d \in docs : Declared[d].separateFrom \cup Declared[d].keepWith \subseteq docs

\* Validation reports no error.
Valid(intent) ==
  /\ NoneDangling(DOMAIN intent)
  /\ UniqueUIDs(intent)
  /\ \A d \in DOMAIN intent : VirtualMachine(d) => CheckVirtualMachine(intent, d)
  /\ UniqueIDs(intent)
  /\ UniqueAddresses(intent)
  /\ UniqueMACs(intent)

\* Nothing that nodr allocates is missing.
Complete(intent, d) ==
  /\ intent[d].vmid # 0
  /\ VirtualMachine(d) =>
       /\ intent[d].uid # 0 /\ intent[d].node # ""
       /\ \A i \in NICs(d) : /\ intent[d].macs[i] # 0
                             /\ NIC(d, i).mode = "auto" => intent[d].addresses[i] # 0

\* What was set in before is the same in after, which has the same documents.
Keeps(before, after) ==
  /\ DOMAIN after = DOMAIN before
  /\ \A d \in DOMAIN before :
       /\ before[d].uid \in {0, after[d].uid}
       /\ before[d].node \in {"", after[d].node}
       /\ before[d].vmid \in {0, after[d].vmid}
       /\ \A i \in NICs(d) : /\ before[d].addresses[i] \in {0, after[d].addresses[i]}
                             /\ before[d].macs[i] \in {0, after[d].macs[i]}

\* What the schemas and the checks of clusters, networks and environments
\* guarantee, and references between the declared documents.
ASSUME IntentAssumption ==
  /\ \A c \in DOMAIN Clusters : /\ Clusters[c].nodes \subseteq STRING \ {""}
                                /\ Clusters[c].endpoints \subseteq Nat \ {0}
  /\ \A n \in DOMAIN Networks :
       /\ Networks[n].base \in Nat \ {0} /\ Networks[n].size \in Nat \ {0}
       /\ CheckNetwork(Networks[n])
  /\ \A e \in DOMAIN Environments : /\ Environments[e][1] \in Nat \ {0}
                                    /\ Environments[e][2] \in Nat
  /\ IsFiniteSet(Document) /\ DOMAIN Declared = Document
  /\ \A d \in Document :
       /\ Cluster(d) \in DOMAIN Clusters
       /\ Len(Declared[d].nics) \in Nat /\ NICs(d) = 1 .. Len(Declared[d].nics)
       /\ Declared[d].node \in STRING /\ Declared[d].memory \in Nat
       /\ \A i \in NICs(d) : NIC(d, i).network \in DOMAIN Networks
       /\ Declared[d].given \in Allocation(d)
       /\ ~VirtualMachine(d) => NICs(d) = {}
=============================================================================
