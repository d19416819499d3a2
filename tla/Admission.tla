----------------------------- MODULE Admission ------------------------------
(***************************************************************************)
(* Admission: src/internal/admission and the admit command of              *)
(* src/internal/cli/commands.go.                                           *)
(*                                                                         *)
(* While no admission runs, the author adds and removes documents.  nodr   *)
(* admit loads the workspace, refuses an invalid one, and fills the values *)
(* of its targets in, one value at a time, from an allocator that holds    *)
(* the values in use.  If some value cannot be allocated it writes         *)
(* nothing; else it writes the files one by one, and a write can fail.     *)
(***************************************************************************)
EXTENDS Intent, FiniteSetsExt

CONSTANTS
  Rank,   \* the place of each document by file and name
  File,   \* the file each document is in
  UID,    \* the UIDs nodr can make
  Hashed(_, _, _), \* the MAC candidate of a UID, an interface and an attempt
  Attempts \* the candidates tried for an interface, 65536 in the code

ASSUME AdmissionAssumption ==
  /\ Rank \in [Document -> Nat]
  /\ \A d, e \in Document : d # e => Rank[d] # Rank[e]
  /\ UID \subseteq Nat \ {0}
  /\ Attempts \in Nat \ {0}
  /\ \A u \in (UID \cup {Declared[d].given.uid : d \in Document}) \ {0}, d \in Document :
       \A i \in NICs(d), a \in 1 .. Attempts : Hashed(u, i, a) \in Nat \ {0}

VARIABLES
  intent,   \* the documents on disk
  at,       \* the step admission is at
  targets,  \* the documents that were asked for
  todo,     \* the targets that are not complete yet
  nic,      \* the next interface of the current target
  planned,  \* the documents with the values assigned so far
  used,     \* the allocator
  errors,   \* the values that cannot be allocated
  files,    \* the files left to write
  before,   \* what was on disk when admission started
  result    \* how the last admission ended

vars == <<intent, at, targets, todo, nic, planned, used, errors, files, before, result>>

Steps == {"idle", "uid", "node", "vmid", "address", "mac", "write"}

\* The node a guest is assigned or pinned to.
NodeOf(docs, d) == IF docs[d].node # "" THEN docs[d].node ELSE Declared[d].node

\* Mutant: the endpoints of the clusters are not reserved.
InUseNoEndpoints(docs) ==
  [vmids     |-> [c \in DOMAIN Clusters |->
                    {docs[d].vmid : d \in {e \in DOMAIN docs : Cluster(e) = c}} \ {0}],
   macs      |-> [c \in DOMAIN Clusters |->
                    {MACOf(docs, f) : f \in Interfaces({e \in DOMAIN docs : Cluster(e) = c})} \ {0}],
   addresses |-> {AddressOf(docs, f) : f \in Interfaces(DOMAIN docs)} \ {0},
   nodes     |-> [d \in {e \in DOMAIN docs : VirtualMachine(e)} |-> NodeOf(docs, d)],
   memory    |-> [c \in DOMAIN Clusters |->
                    [n \in Clusters[c].nodes |->
                       MapThenSumSet(LAMBDA d : Declared[d].memory,
                                     {d \in DOMAIN docs : /\ VirtualMachine(d) /\ Cluster(d) = c
                                                          /\ NodeOf(docs, d) = n})]]]

\* The values docs uses: what the allocator starts from.
InUse(docs) ==
  [vmids     |-> [c \in DOMAIN Clusters |->
                    {docs[d].vmid : d \in {e \in DOMAIN docs : Cluster(e) = c}} \ {0}],
   macs      |-> [c \in DOMAIN Clusters |->
                    {MACOf(docs, f) : f \in Interfaces({e \in DOMAIN docs : Cluster(e) = c})} \ {0}],
   addresses |-> ({AddressOf(docs, f) : f \in Interfaces(DOMAIN docs)} \ {0})
                   \cup UNION {Clusters[c].endpoints : c \in DOMAIN Clusters},
   nodes     |-> [d \in {e \in DOMAIN docs : VirtualMachine(e)} |-> NodeOf(docs, d)],
   memory    |-> [c \in DOMAIN Clusters |->
                    [n \in Clusters[c].nodes |->
                       MapThenSumSet(LAMBDA d : Declared[d].memory,
                                     {d \in DOMAIN docs : /\ VirtualMachine(d) /\ Cluster(d) = c
                                                          /\ NodeOf(docs, d) = n})]]]

NothingUsed == [vmids |-> <<>>, macs |-> <<>>, addresses |-> {}, nodes |-> <<>>, memory |-> <<>>]

Init ==
  /\ intent = [d \in {} |-> Declared[d].given]
  /\ at = "idle" /\ targets = {} /\ todo = {} /\ nic = 1
  /\ planned = intent /\ used = NothingUsed /\ errors = {} /\ files = {}
  /\ before = intent /\ result = "none"

-----------------------------------------------------------------------------
(* The author, and the start of admission. *)

Edited == /\ at = "idle" /\ result' = "none" /\ targets' = {} /\ errors' = {}
          /\ planned' = intent' /\ before' = intent'
          /\ UNCHANGED <<at, todo, nic, used, files>>

AddDocument(d) ==
  /\ d \in Document \ DOMAIN intent
  /\ intent' = [e \in DOMAIN intent \cup {d} |->
                  IF e = d THEN Declared[d].given ELSE intent[e]]
  /\ Edited

RemoveDocument(d) ==
  /\ d \in DOMAIN intent
  /\ intent' = [e \in DOMAIN intent \ {d} |-> intent[e]]
  /\ Edited

\* nodr admit with the names of virtual machines, or with none: then all
\* virtual machines and templates are targets.
Admit ==
  /\ at = "idle"
  /\ Valid(intent)
  /\ \E names \in SUBSET {d \in DOMAIN intent : VirtualMachine(d)} :
       targets' = IF names = {} THEN DOMAIN intent ELSE names
  /\ todo' = targets' /\ at' = "uid" /\ nic' = 1
  /\ planned' = intent /\ before' = intent
  /\ used' = InUse(intent)
  /\ errors' = {} /\ result' = "none"
  /\ UNCHANGED <<intent, files>>

\* Virtual machines come before templates, each in the order of file and name.
Precedes(d, e) == IF VirtualMachine(d) = VirtualMachine(e) THEN Rank[d] < Rank[e]
                                                           ELSE VirtualMachine(d)

Current == CHOOSE d \in todo : \A e \in todo \ {d} : Precedes(d, e)

At(step) == at = step /\ todo # {}

\* The step goes on to the next one with or without an error about a value.
GoOn(step) == at' = step /\ UNCHANGED <<intent, targets, todo, files, before, result>>

Fail(field, i) == /\ errors' = errors \cup {[doc |-> Current, field |-> field, nic |-> i]}
                  /\ UNCHANGED <<planned, used>>

Skip == UNCHANGED <<planned, used, errors>>

-----------------------------------------------------------------------------
(* Admission of the current target, one value at a time. *)

AssignUID ==
  /\ At("uid") /\ VirtualMachine(Current)
  /\ IF planned[Current].uid # 0
     THEN Skip
     ELSE \E u \in UID \ {planned[d].uid : d \in DOMAIN planned} :
            /\ planned' = [planned EXCEPT ![Current].uid = u]
            /\ UNCHANGED <<used, errors>>
  /\ GoOn("node") /\ UNCHANGED nic

BeginTemplate ==
  /\ At("uid") /\ ~VirtualMachine(Current)
  /\ Skip /\ GoOn("vmid") /\ UNCHANGED nic

Nodes == Clusters[Cluster(Current)].nodes

Others == {d \in DOMAIN used.nodes \ {Current} : Cluster(d) = Cluster(Current)}

\* Mutant: only the guest's own list of guests to be apart from is read.
CandidatesOneWay == Nodes \ {used.nodes[d] : d \in Others \cap Declared[Current].separateFrom}

Candidates == Nodes \ {used.nodes[d] : d \in {e \in Others : Separate(e, Current)}}

Preferred == Candidates \cap {used.nodes[d] : d \in {e \in Others : KeptWith(e, Current)}}

\* The nodes with the least memory assigned to guests.  The code takes the
\* first by name, any of them may be taken here.
LeastUsed(nodes) ==
  LET memory == used.memory[Cluster(Current)]
  IN  {n \in nodes : \A m \in nodes : memory[n] <= memory[m]}

KeepNode ==
  /\ At("node") /\ planned[Current].node # ""
  /\ Skip /\ GoOn("vmid") /\ UNCHANGED nic

PinNode ==
  /\ At("node") /\ planned[Current].node = "" /\ Declared[Current].node # ""
  /\ IF Nodes # {} /\ Declared[Current].node \notin Nodes
     THEN Fail("node", 0)
     ELSE /\ planned' = [planned EXCEPT ![Current].node = Declared[Current].node]
          /\ UNCHANGED <<used, errors>>
  /\ GoOn("vmid") /\ UNCHANGED nic

ChooseNode ==
  /\ At("node") /\ planned[Current].node = "" /\ Declared[Current].node = ""
  /\ \E n \in LeastUsed(IF Preferred # {} THEN Preferred ELSE Candidates) :
       /\ planned' = [planned EXCEPT ![Current].node = n]
       /\ used' = [used EXCEPT !.nodes[Current] = n,
                               !.memory[Cluster(Current)][n] = @ + Declared[Current].memory]
       /\ UNCHANGED errors
  /\ GoOn("vmid") /\ UNCHANGED nic

\* The cluster lists no nodes, or a guest to be separated from is on each.
NoNode ==
  /\ At("node") /\ planned[Current].node = "" /\ Declared[Current].node = ""
  /\ Candidates = {}
  /\ Fail("node", 0) /\ GoOn("vmid") /\ UNCHANGED nic

\* Mutant: the last guest ID of the range is never given out.
AllocateVMIDShort ==
  LET c    == Cluster(Current)
      free == {id \in VMIDs(Current) : id + 1 \in VMIDs(Current)} \ used.vmids[c]
  IN  /\ At("vmid")
      /\ IF planned[Current].vmid # 0 THEN Skip
         ELSE IF free = {} THEN Fail("vmid", 0)
         ELSE /\ planned' = [planned EXCEPT ![Current].vmid = Min(free)]
              /\ used' = [used EXCEPT !.vmids[c] = @ \cup {Min(free)}]
              /\ UNCHANGED errors
      /\ IF VirtualMachine(Current)
         THEN GoOn("address")
         ELSE /\ at' = "uid" /\ todo' = todo \ {Current}
              /\ UNCHANGED <<intent, targets, files, before, result>>
      /\ UNCHANGED nic

AllocateVMID ==
  LET c    == Cluster(Current)
      free == VMIDs(Current) \ used.vmids[c]
  IN  /\ At("vmid")
      /\ IF planned[Current].vmid # 0 THEN Skip
         ELSE IF free = {} THEN Fail("vmid", 0)
         ELSE /\ planned' = [planned EXCEPT ![Current].vmid = Min(free)]
              /\ used' = [used EXCEPT !.vmids[c] = @ \cup {Min(free)}]
              /\ UNCHANGED errors
      /\ IF VirtualMachine(Current)
         THEN GoOn("address")
         ELSE /\ at' = "uid" /\ todo' = todo \ {Current}
              /\ UNCHANGED <<intent, targets, files, before, result>>
      /\ UNCHANGED nic

\* Mutant: an assigned address is not recorded.
AllocateAddressUnrecorded ==
  LET free == Assignable(NIC(Current, nic).network) \ used.addresses
  IN  /\ At("address") /\ nic \in NICs(Current)
      /\ IF NIC(Current, nic).mode # "auto" \/ planned[Current].addresses[nic] # 0 THEN Skip
         ELSE IF free = {} THEN Fail("address", nic)
         ELSE /\ planned' = [planned EXCEPT ![Current].addresses[nic] = Min(free)]
              /\ UNCHANGED <<used, errors>>
      /\ nic' = nic + 1 /\ GoOn("address")

AllocateAddress ==
  LET free == Assignable(NIC(Current, nic).network) \ used.addresses
  IN  /\ At("address") /\ nic \in NICs(Current)
      /\ IF NIC(Current, nic).mode # "auto" \/ planned[Current].addresses[nic] # 0 THEN Skip
         ELSE IF free = {} THEN Fail("address", nic)
         ELSE /\ planned' = [planned EXCEPT ![Current].addresses[nic] = Min(free)]
              /\ used' = [used EXCEPT !.addresses = @ \cup {Min(free)}]
              /\ UNCHANGED errors
      /\ nic' = nic + 1 /\ GoOn("address")

AddressesDone ==
  /\ At("address") /\ nic \notin NICs(Current)
  /\ nic' = 1 /\ Skip /\ GoOn("mac")

\* The attempts of an interface whose candidates no guest of the cluster has.
FreeAttempts(d, i) ==
  {a \in 1 .. Attempts : Hashed(planned[d].uid, i, a) \notin used.macs[Cluster(d)]}

AllocateMAC ==
  LET free == FreeAttempts(Current, nic)
      mac  == Hashed(planned[Current].uid, nic, Min(free))
  IN  /\ At("mac") /\ nic \in NICs(Current)
      /\ IF planned[Current].macs[nic] # 0 THEN Skip
         ELSE IF free = {} THEN Fail("mac", nic)
         ELSE /\ planned' = [planned EXCEPT ![Current].macs[nic] = mac]
              /\ used' = [used EXCEPT !.macs[Cluster(Current)] = @ \cup {mac}]
              /\ UNCHANGED errors
      /\ nic' = nic + 1 /\ GoOn("mac")

TargetDone ==
  /\ At("mac") /\ nic \notin NICs(Current)
  /\ nic' = 1 /\ todo' = todo \ {Current} /\ at' = "uid"
  /\ Skip /\ UNCHANGED <<intent, targets, files, before, result>>

-----------------------------------------------------------------------------
(* The end: nothing is written, or every file with an assignment is. *)

Planned == at = "uid" /\ todo = {}

End(r) == /\ at' = "idle" /\ result' = r /\ nic' = 1 /\ used' = NothingUsed /\ files' = {}
          /\ UNCHANGED <<targets, todo, planned, errors, before>>

Refuse == Planned /\ errors # {} /\ End("refused") /\ UNCHANGED intent

DryRun == Planned /\ errors = {} /\ End("dry run") /\ UNCHANGED intent

\* Mutant: what could be assigned is written, whatever could not.
ApplyAnyway ==
  /\ Planned
  /\ files' = {File[d] : d \in {e \in DOMAIN intent : planned[e] # intent[e]}}
  /\ at' = "write"
  /\ UNCHANGED <<intent, targets, todo, nic, planned, used, errors, before, result>>

Apply ==
  /\ Planned /\ errors = {}
  /\ files' = {File[d] : d \in {e \in DOMAIN intent : planned[e] # intent[e]}}
  /\ at' = "write"
  /\ UNCHANGED <<intent, targets, todo, nic, planned, used, errors, before, result>>

\* The files are written in the order of their first assignment; any order
\* is taken here.
WriteFile(f) ==
  /\ at = "write" /\ f \in files
  /\ intent' = [d \in DOMAIN intent |-> IF File[d] = f THEN planned[d] ELSE intent[d]]
  /\ files' = files \ {f}
  /\ UNCHANGED <<at, targets, todo, nic, planned, used, errors, before, result>>

WriteFails == at = "write" /\ files # {} /\ End("write failed") /\ UNCHANGED intent

Written == at = "write" /\ files = {} /\ End("written") /\ UNCHANGED intent

Next ==
  \/ \E d \in Document : AddDocument(d) \/ RemoveDocument(d)
  \/ Admit
  \/ AssignUID \/ BeginTemplate
  \/ KeepNode \/ PinNode \/ ChooseNode \/ NoNode
  \/ AllocateVMID
  \/ AllocateAddress \/ AddressesDone
  \/ AllocateMAC \/ TargetDone
  \/ Refuse \/ DryRun \/ Apply
  \/ \E f \in files : WriteFile(f)
  \/ WriteFails \/ Written

Spec == Init /\ [][Next]_vars

-----------------------------------------------------------------------------
(* Properties *)

\* While admission plans, the allocator holds exactly the values that the
\* documents use, given and assigned, and the memory of every node: a value
\* that it missed would be handed out twice.
AllocatorIsCurrent == at \notin {"idle", "write"} => used = InUse(planned)

\* Every variable has its type, the steps have what they need, and the
\* allocator misses nothing.
TypeOK ==
  /\ DOMAIN intent \subseteq Document /\ DOMAIN planned = DOMAIN intent
  /\ \A d \in DOMAIN intent : intent[d] \in Allocation(d) /\ planned[d] \in Allocation(d)
  /\ at \in Steps /\ todo \subseteq targets /\ targets \subseteq DOMAIN intent
  /\ nic \in Nat \ {0} /\ files \subseteq {File[d] : d \in DOMAIN intent}
  /\ errors \subseteq [doc : targets, field : {"node", "vmid", "address", "mac"}, nic : Nat]
  /\ result \in {"none", "refused", "dry run", "write failed", "written"}
  /\ AllocatorIsCurrent

\* What admission starts from and what it leaves on disk is valid after every
\* write, also when a later write fails: no guest ID, address or MAC address
\* is shared, no address is an endpoint's, pinned guests are on their node.
DiskStaysValid == (at # "idle" \/ result # "none") => Valid(intent)

\* Two guests that nodr placed are not on one node when either of them must
\* be separated from the other, in whichever order they were admitted.
SeparatedApart ==
  LET chosen == {d \in DOMAIN intent : /\ VirtualMachine(d) /\ Declared[d].node = ""
                                       /\ Declared[d].given.node = "" /\ intent[d].node # ""}
  IN  \A d, e \in chosen :
        (Cluster(d) = Cluster(e) /\ Separate(d, e)) => intent[d].node # intent[e].node

\* The value e is about could not be had: the node a guest is pinned to is
\* not one of the cluster, or every node has a guest to be separated from,
\* or every guest ID, address or candidate in reach is taken by a document.
Exhausted(e) ==
  LET d == e.doc
      guests == {g \in DOMAIN planned : VirtualMachine(g) /\ g # d /\ Cluster(g) = Cluster(d)}
      there  == Interfaces(DOMAIN planned)
  IN  CASE e.field = "node" ->
             IF Declared[d].node # ""
             THEN Declared[d].node \notin Clusters[Cluster(d)].nodes
             ELSE \A n \in Clusters[Cluster(d)].nodes :
                    \E g \in guests : Separate(g, d) /\ NodeOf(planned, g) = n
        [] e.field = "vmid" ->
             \A id \in VMIDs(d) :
               \E g \in DOMAIN planned : g # d /\ Cluster(g) = Cluster(d) /\ planned[g].vmid = id
        [] e.field = "address" ->
             \A a \in Assignable(NIC(d, e.nic).network) :
               \/ \E c \in DOMAIN Clusters : a \in Clusters[c].endpoints
               \/ \E f \in there : AddressOf(planned, f) = a
        [] e.field = "mac" ->
             \A a \in 1 .. Attempts :
               \E f \in there : /\ Cluster(f[1]) = Cluster(d)
                                /\ MACOf(planned, f) = Hashed(planned[d].uid, e.nic, a)

\* Admission refuses only what cannot be had: a free value at either end of
\* a range is found.
RefusalIsHonest == \A e \in errors : Exhausted(e)

\* Admission that wrote leaves every target complete; one that refused, or
\* was a dry run, leaves the disk as it was; and no admission, not even one
\* whose writing failed half way, changes or drops a value that was set.
AdmitOutcome ==
  /\ result = "written" => \A d \in targets : Complete(intent, d)
  /\ result \in {"refused", "dry run"} => intent = before
  /\ at # "idle" \/ result # "none" => Keeps(before, intent)
=============================================================================
