--------------------------- MODULE AdmissionProofs ---------------------------
(***************************************************************************)
(* Proofs about admission, for every workspace: any documents, clusters,   *)
(* networks, ranges, UIDs and MAC candidates, and any edits between runs.  *)
(*                                                                         *)
(* AdmissionInv adds to the properties that the documents as planned are   *)
(* valid, and keep what is on disk; what the current target has at each    *)
(* step, and what a target that is done has; and what is left to write.    *)
(* The memory of a node is a sum over a set, which the fold of the library *)
(* defines by recursion; that it grows by the memory of a guest is proved  *)
(* from the least number of elements for which it would not.               *)
(***************************************************************************)
EXTENDS Admission, FiniteSetTheorems, FunctionTheorems, TLAPS

IsFunction(docs) == docs = [d \in DOMAIN docs |-> docs[d]]

TypeInv ==
  /\ DOMAIN intent \subseteq Document /\ DOMAIN planned = DOMAIN intent /\ DOMAIN before = DOMAIN intent
  /\ IsFunction(intent) /\ IsFunction(planned)
  /\ \A d \in DOMAIN intent : intent[d] \in Allocation(d) /\ planned[d] \in Allocation(d)
  /\ at \in Steps /\ todo \subseteq targets /\ targets \subseteq DOMAIN intent
  /\ nic \in Nat \ {0} /\ files \subseteq {File[d] : d \in DOMAIN intent}
  /\ errors \subseteq [doc : targets, field : {"node", "vmid", "address", "mac"}, nic : Nat]
  /\ result \in {"none", "refused", "dry run", "write failed", "written"}

\* The UIDs a document can have.
UIDs == UID \cup {Declared[d].given.uid : d \in Document}

UIDInv == \A d \in DOMAIN planned : planned[d].uid \in UIDs \cup {0}

\* What there is at each step, and what is on disk then.
StepInv ==
  /\ at \in {"idle", "write"} => todo = {}
  /\ at \in {"node", "vmid", "address", "mac"} => todo # {}
  /\ at \in {"node", "address", "mac"} => VirtualMachine(Current)
  /\ at \notin {"address", "mac"} => nic = 1
  /\ at # "idle" => result = "none"
  /\ at \notin {"idle", "write"} \/ result \in {"refused", "dry run"} => intent = before
  /\ at = "write" \/ result = "written" => errors = {}
  /\ at # "write" => files = {}
  /\ at = "write" => \A d \in DOMAIN intent : intent[d] = planned[d] \/ File[d] \in files
  /\ result = "written" => intent = planned

\* What is planned keeps what is on disk, which keeps what was there.
KeepInv == Keeps(before, intent) /\ Keeps(intent, planned)

ValidInv == at # "idle" \/ result # "none" => Valid(planned)

\* Whether the node of d is chosen by admission, and is there.
Chosen(docs, d) == /\ VirtualMachine(d) /\ Declared[d].node = ""
                   /\ Declared[d].given.node = "" /\ docs[d].node # ""

Apart(docs) == \A d, e \in DOMAIN docs :
                 (Chosen(docs, d) /\ Chosen(docs, e) /\ Cluster(d) = Cluster(e) /\ Separate(d, e))
                   => docs[d].node # docs[e].node

HasError(d) == \E e \in errors : e.doc = d

\* What the current target has at each step, unless it has an error.
Has(d) ==
  /\ at \in {"node", "vmid", "address", "mac"} /\ VirtualMachine(d) => planned[d].uid # 0
  /\ at \in {"vmid", "address", "mac"} /\ VirtualMachine(d) => planned[d].node # "" \/ HasError(d)
  /\ at \in {"address", "mac"} => planned[d].vmid # 0 \/ HasError(d)
  /\ \A i \in NICs(d) :
       /\ (at = "mac" \/ (at = "address" /\ i < nic)) /\ NIC(d, i).mode = "auto" =>
            planned[d].addresses[i] # 0 \/ HasError(d)
       /\ at = "mac" /\ i < nic => planned[d].macs[i] # 0 \/ HasError(d)

DoneInv ==
  /\ todo # {} => Has(Current)
  /\ \A d \in targets \ todo : Complete(planned, d) \/ HasError(d)

\* What an error is about: an interface of the document for an address or a
\* MAC address, whose candidates come from a UID that is there.
ErrorInv ==
  \A e \in errors : /\ e.field \in {"address", "mac"} => e.nic \in NICs(e.doc)
                    /\ e.field = "mac" => planned[e.doc].uid # 0

AdmissionInv ==
  /\ TypeInv /\ UIDInv /\ StepInv /\ KeepInv /\ ValidInv /\ AllocatorIsCurrent
  /\ Apart(planned) /\ RefusalIsHonest /\ ErrorInv /\ DoneInv

-----------------------------------------------------------------------------
(* Least elements, and the memory of a set of guests. *)

Memory(d) == Declared[d].memory

Load(S) == MapThenSumSet(LAMBDA d : Declared[d].memory, S)

Some(s) == CHOOSE x \in s : TRUE

\* f has the sums over the subsets of S, as the fold of the library finds them.
Sums(f, S) == f = [s \in SUBSET S |-> IF s = {} THEN 0 ELSE Memory(Some(s)) + f[s \ {Some(s)}]]

LEMMA MemoryIsNat == \A d \in Document : Memory(d) \in Nat
  BY IntentAssumption DEF Memory

\* A set of natural numbers that is not empty has a least one: otherwise
\* subtracting 1 would map the numbers from it up to any of them into
\* themselves, one to one, but not onto the last.
LEMMA Least ==
  ASSUME NEW S \in SUBSET Nat, S # {}
  PROVE  \E m \in S : \A n \in S : m <= n
<1> SUFFICES ASSUME \A m \in S : \E n \in S : n < m PROVE FALSE
  OBVIOUS
<1> PICK top \in S : TRUE
  OBVIOUS
<1> DEFINE U == {n \in 0 .. top : \E m \in S : m <= n}
           f == [n \in U |-> n - 1]
<1>1. IsFiniteSet(U)
  <2>1. IsFiniteSet(0 .. top) /\ U \in SUBSET (0 .. top)
    BY FS_Interval
  <2>2. QED
    BY <2>1, FS_Subset
<1>2. f \in Injection(U, U)
  <2>1. \A n \in U : n - 1 \in U
    OBVIOUS
  <2>2. f \in [U -> U]
    BY <2>1
  <2>3. \A a, b \in U : f[a] = f[b] => a = b
    OBVIOUS
  <2>4. QED
    BY <2>2, <2>3, Fun_IsInj
<1>3. f \in Surjection(U, U)
  BY <1>1, <1>2, FS_Injection
<1>4. top \in U
  OBVIOUS
<1>5. \A t \in U : \E n \in U : f[n] = t
  <2> HIDE DEF U, f
  <2>1. QED
    BY <1>3, Fun_SurjectionProperties
<1>6. PICK n \in U : f[n] = top
  BY <1>4, <1>5
<1>7. QED
  BY <1>6

LEMMA LoadIs ==
  ASSUME NEW S
  PROVE  Load(S) = (CHOOSE f : Sums(f, S))[S]
  BY DEF Load, MapThenSumSet, MapThenFoldSet, Sums, Some, Memory

LEMMA SomeIn ==
  ASSUME NEW s, s # {}
  PROVE  Some(s) \in s
  BY DEF Some

\* There is such a function.
LEMMA SumsExist ==
  ASSUME NEW S \in SUBSET Document, IsFiniteSet(S)
  PROVE  \E f : Sums(f, S)
<1> DEFINE Small(n) == {s \in SUBSET S : Cardinality(s) <= n}
           OK(n, f) == \A s \in Small(n) : f[s] = IF s = {} THEN 0 ELSE Memory(Some(s)) + f[s \ {Some(s)}]
           Bad == {n \in Nat : ~\E f \in [Small(n) -> Nat] : OK(n, f)}
<1>0. \A s \in SUBSET S : IsFiniteSet(s) /\ Cardinality(s) \in Nat /\ Cardinality(s) <= Cardinality(S)
  BY FS_Subset, FS_CardinalityType
<1>1. \A s \in SUBSET S : s # {} => /\ Some(s) \in S /\ Memory(Some(s)) \in Nat /\ s \ {Some(s)} \in SUBSET S
                                    /\ Cardinality(s \ {Some(s)}) = Cardinality(s) - 1
  BY <1>0, SomeIn, FS_RemoveElement, MemoryIsNat
<1>2. Bad = {}
  <2> SUFFICES ASSUME Bad # {} PROVE FALSE
    OBVIOUS
  <2> PICK m \in Bad : \A n \in Bad : m <= n
    BY Least
  <2>1. CASE m = 0
    <3>1. \A s \in Small(0) : s = {}
      BY <1>0, FS_EmptySet
    <3>2. [s \in Small(0) |-> 0] \in [Small(0) -> Nat] /\ OK(0, [s \in Small(0) |-> 0])
      BY <3>1
    <3>3. QED
      BY <2>1, <3>2
  <2>2. CASE m # 0
    <3>1. m - 1 \in Nat /\ m - 1 \notin Bad
      <4>1. m \in Nat /\ m - 1 \in Nat
        BY <2>2
      <4> HIDE DEF Bad
      <4>2. QED
        BY <4>1
    <3>2. PICK f \in [Small(m - 1) -> Nat] : OK(m - 1, f)
      BY <3>1
    <3> DEFINE g == [s \in Small(m) |-> IF s = {} THEN 0 ELSE Memory(Some(s)) + f[s \ {Some(s)}]]
    <3>3. \A s \in Small(m) : s # {} => s \ {Some(s)} \in Small(m - 1)
      BY <1>0, <1>1, <3>1
    <3>4. \A s \in Small(m - 1) : s \in Small(m) /\ g[s] = f[s]
      BY <1>0, <3>1, <3>2
    <3>5. g \in [Small(m) -> Nat]
      BY <1>1, <3>2, <3>3
    <3>6. OK(m, g)
      BY <3>3, <3>4
    <3> HIDE DEF g
    <3>7. QED
      BY <3>5, <3>6
  <2>3. QED
    BY <2>1, <2>2
<1>3. Small(Cardinality(S)) = SUBSET S /\ Cardinality(S) \in Nat
  BY <1>0
<1>4. PICK f \in [SUBSET S -> Nat] : OK(Cardinality(S), f)
  BY <1>2, <1>3
<1>5. f = [s \in SUBSET S |-> IF s = {} THEN 0 ELSE Memory(Some(s)) + f[s \ {Some(s)}]]
  BY <1>3, <1>4
<1>6. QED
  BY <1>5 DEF Sums

\* The sums are numbers, do not depend on the order in which the elements are
\* taken, and any two such functions agree.
LEMMA SumsProperties ==
  ASSUME NEW D \in SUBSET Document, IsFiniteSet(D), NEW f, Sums(f, D)
  PROVE  /\ \A s \in SUBSET D : f[s] \in Nat
         /\ \A s \in SUBSET D : \A x \in s : f[s] = Memory(x) + f[s \ {x}]
         /\ \A S \in SUBSET D : \A g : Sums(g, S) => \A s \in SUBSET S : g[s] = f[s]
<1>0. \A s \in SUBSET D : IsFiniteSet(s) /\ Cardinality(s) \in Nat
  BY FS_Subset, FS_CardinalityType
<1>1. \A s \in SUBSET D : \A x \in s : s \ {x} \in SUBSET D /\ Cardinality(s \ {x}) = Cardinality(s) - 1
  BY <1>0, FS_RemoveElement
<1>2. \A s \in SUBSET D : f[s] = IF s = {} THEN 0 ELSE Memory(Some(s)) + f[s \ {Some(s)}]
  BY DEF Sums
<1>3. \A s \in SUBSET D : s # {} => Some(s) \in s
  BY SomeIn
<1>4. \A x \in D : Memory(x) \in Nat
  BY MemoryIsNat
<1>5. \A s \in SUBSET D : f[s] \in Nat
  <2> DEFINE Bad == {n \in Nat : \E s \in SUBSET D : Cardinality(s) = n /\ f[s] \notin Nat}
  <2> SUFFICES Bad = {}
    BY <1>0
  <2> SUFFICES ASSUME Bad # {} PROVE FALSE
    OBVIOUS
  <2> PICK m \in Bad : \A n \in Bad : m <= n
    BY Least
  <2> PICK s \in SUBSET D : Cardinality(s) = m /\ f[s] \notin Nat
    OBVIOUS
  <2>1. s # {}
    <3>1. f[{}] = 0
      BY <1>2
    <3>2. QED
      BY <3>1
  <2>2. s \ {Some(s)} \in SUBSET D /\ Cardinality(s \ {Some(s)}) = m - 1 /\ m - 1 \in Nat
    <3>1. PICK y \in s : y = Some(s)
      BY <2>1, <1>3
    <3>2. s \ {y} \in SUBSET D /\ Cardinality(s \ {y}) = m - 1 /\ m - 1 \in Nat
      BY <2>1, <1>0, <1>1
    <3>3. QED
      BY <3>1, <3>2
  <2>3. m - 1 \notin Bad
    BY <2>2
  <2>4. f[s \ {Some(s)}] \in Nat
    BY <2>2, <2>3
  <2>5. QED
    BY <2>1, <2>4, <1>2, <1>3, <1>4
<1>6. \A s \in SUBSET D : \A x \in s : f[s] = Memory(x) + f[s \ {x}]
  <2> DEFINE Bad == {n \in Nat : \E s \in SUBSET D : Cardinality(s) = n /\ \E x \in s : f[s] # Memory(x) + f[s \ {x}]}
  <2> SUFFICES Bad = {}
    BY <1>0
  <2> SUFFICES ASSUME Bad # {} PROVE FALSE
    OBVIOUS
  <2> PICK m \in Bad : \A n \in Bad : m <= n
    BY Least
  <2> PICK s \in SUBSET D : Cardinality(s) = m /\ \E x \in s : f[s] # Memory(x) + f[s \ {x}]
    OBVIOUS
  <2> PICK x \in s : f[s] # Memory(x) + f[s \ {x}]
    OBVIOUS
  <2> PICK y : y = Some(s)
    OBVIOUS
  <2>1. f[s] = Memory(y) + f[s \ {y}] /\ y \in s /\ x # y
    BY <1>2, <1>3
  <2>2. s \ {y} \in SUBSET D /\ Cardinality(s \ {y}) = m - 1 /\ s \ {x} \in SUBSET D /\ Cardinality(s \ {x}) = m - 1
        /\ m - 1 \in Nat
    <3>1. /\ s \ {y} \in SUBSET D /\ Cardinality(s \ {y}) = m - 1
          /\ s \ {x} \in SUBSET D /\ Cardinality(s \ {x}) = m - 1
      BY <2>1, <1>1
    <3>2. Cardinality(s \ {y}) \in Nat
      BY <3>1, <1>0
    <3>3. QED
      BY <3>1, <3>2
  <2>3. m - 1 \notin Bad
    BY <2>2
  <2>4. f[s \ {y}] = Memory(x) + f[(s \ {y}) \ {x}]
    BY <2>1, <2>2, <2>3
  <2>5. f[s \ {x}] = Memory(y) + f[(s \ {x}) \ {y}]
    BY <2>1, <2>2, <2>3
  <2>6. (s \ {y}) \ {x} = (s \ {x}) \ {y} /\ (s \ {y}) \ {x} \in SUBSET D
    OBVIOUS
  <2>7. Memory(x) \in Nat /\ Memory(y) \in Nat /\ f[(s \ {y}) \ {x}] \in Nat
    BY <2>1, <2>6, <1>4, <1>5
  <2>8. f[s] = Memory(y) + (Memory(x) + f[(s \ {y}) \ {x}]) /\ f[s \ {x}] = Memory(y) + f[(s \ {y}) \ {x}]
    BY <2>1, <2>4, <2>5, <2>6
  <2>9. f[s] = Memory(x) + f[s \ {x}]
    BY <2>7, <2>8
  <2>10. QED
    BY <2>9
<1>7. ASSUME NEW S \in SUBSET D, NEW g, Sums(g, S), NEW t \in SUBSET S PROVE g[t] = f[t]
  <2> DEFINE Bad == {n \in Nat : \E s \in SUBSET S : Cardinality(s) = n /\ f[s] # g[s]}
  <2>0. \A s \in SUBSET S : g[s] = IF s = {} THEN 0 ELSE Memory(Some(s)) + g[s \ {Some(s)}]
    BY <1>7 DEF Sums
  <2> SUFFICES Bad = {}
    BY <1>0
  <2> SUFFICES ASSUME Bad # {} PROVE FALSE
    OBVIOUS
  <2> PICK m \in Bad : \A n \in Bad : m <= n
    BY Least
  <2> PICK s \in SUBSET S : Cardinality(s) = m /\ f[s] # g[s]
    OBVIOUS
  <2>1. s # {} /\ s \in SUBSET D
    BY <1>2, <2>0
  <2>2. s \ {Some(s)} \in SUBSET S /\ Cardinality(s \ {Some(s)}) = m - 1 /\ m - 1 \in Nat
    <3>1. PICK y \in s : y = Some(s)
      BY <2>1, <1>3
    <3>2. s \ {y} \in SUBSET S /\ Cardinality(s \ {y}) = m - 1 /\ m - 1 \in Nat
      BY <2>1, <1>0, <1>1
    <3>3. QED
      BY <3>1, <3>2
  <2>3. m - 1 \notin Bad
    BY <2>2
  <2>4. f[s \ {Some(s)}] = g[s \ {Some(s)}]
    BY <2>2, <2>3
  <2>5. QED
    BY <2>0, <2>1, <2>4, <1>2
<1>8. QED
  BY <1>5, <1>6, <1>7

\* A guest adds its memory.
LEMMA LoadAdds ==
  ASSUME NEW S \in SUBSET Document, IsFiniteSet(S), NEW x \in Document \ S
  PROVE  Load(S \cup {x}) = Load(S) + Memory(x) /\ Load(S) \in Nat
<1>1. S \cup {x} \in SUBSET Document /\ IsFiniteSet(S \cup {x}) /\ S = (S \cup {x}) \ {x} 
  BY FS_AddElement
<1>2. PICK g : g = CHOOSE f : Sums(f, S)
  OBVIOUS
<1>3. PICK h : h = CHOOSE f : Sums(f, S \cup {x})
  OBVIOUS
<1>4. Sums(g, S) /\ Sums(h, S \cup {x})
  BY <1>1, <1>2, <1>3, SumsExist
<1>5. Load(S) = g[S] /\ Load(S \cup {x}) = h[S \cup {x}]
  BY <1>2, <1>3, LoadIs
<1>6. PICK D \in SUBSET Document : D = S \cup {x}
  BY <1>1
<1>7. h[D] = Memory(x) + h[D \ {x}] /\ h[S] = g[S] /\ h[S] \in Nat
  <2>1. Sums(h, D) /\ IsFiniteSet(D) /\ S \in SUBSET D /\ x \in D
    BY <1>1, <1>4, <1>6
  <2>2. /\ \A s \in SUBSET D : h[s] \in Nat
        /\ \A s \in SUBSET D : \A z \in s : h[s] = Memory(z) + h[s \ {z}]
        /\ \A R \in SUBSET D : \A k : Sums(k, R) => \A s \in SUBSET R : k[s] = h[s]
    BY <2>1, SumsProperties
  <2>3. QED
    BY <2>1, <2>2, <1>4
<1>8. Memory(x) \in Nat /\ D \ {x} = S
  BY <1>6, MemoryIsNat
<1>9. Load(S \cup {x}) = Memory(x) + g[S] /\ Load(S) = g[S] /\ g[S] \in Nat
  BY <1>5, <1>6, <1>7, <1>8
<1>10. QED
  BY <1>8, <1>9

-----------------------------------------------------------------------------
(* What filling a value in does to the documents. *)

\* q is p with values filled in for d.
Filled(p, d, q) ==
  /\ d \in DOMAIN p /\ DOMAIN q = DOMAIN p /\ IsFunction(q)
  /\ \A e \in DOMAIN p : e # d => q[e] = p[e]
  /\ q[d] \in Allocation(d)
  /\ p[d].uid \in {0, q[d].uid} /\ p[d].node \in {"", q[d].node} /\ p[d].vmid \in {0, q[d].vmid}
  /\ \A i \in NICs(d) : /\ p[d].addresses[i] \in {0, q[d].addresses[i]}
                        /\ p[d].macs[i] \in {0, q[d].macs[i]}

\* The values that are filled in are not in use, and one interface at most is
\* given an address or a MAC address.
FreshUID(p, d, u) == \A e \in DOMAIN p : p[e].uid # u

FreshID(p, d, id) == \A e \in DOMAIN p : Cluster(e) = Cluster(d) => p[e].vmid # id

FreshAddress(p, d, i, a) ==
  /\ NIC(d, i).mode = "auto"
  /\ \A c \in DOMAIN Clusters : a \notin Clusters[c].endpoints
  /\ \A e \in DOMAIN p : \A j \in NICs(e) : p[e].addresses[j] # a

FreshMAC(p, d, m) ==
  \A e \in DOMAIN p : Cluster(e) = Cluster(d) => \A j \in NICs(e) : p[e].macs[j] # m

FreshNode(p, d, n) ==
  /\ Declared[d].node \in {"", n}
  /\ Declared[d].node = "" =>
       \A e \in DOMAIN p : (VirtualMachine(e) /\ e # d /\ Cluster(e) = Cluster(d) /\ Separate(e, d))
                             => NodeOf(p, e) # n

Fresh(p, d, q) ==
  /\ q[d].uid = p[d].uid \/ FreshUID(p, d, q[d].uid)
  /\ q[d].node = p[d].node \/ FreshNode(p, d, q[d].node)
  /\ q[d].vmid = p[d].vmid \/ FreshID(p, d, q[d].vmid)
  /\ \A i \in NICs(d) :
       /\ \/ q[d].addresses[i] = p[d].addresses[i]
          \/ /\ FreshAddress(p, d, i, q[d].addresses[i])
             /\ \A j \in NICs(d) : j # i => q[d].addresses[j] = p[d].addresses[j]
       /\ \/ q[d].macs[i] = p[d].macs[i]
          \/ /\ FreshMAC(p, d, q[d].macs[i])
             /\ \A j \in NICs(d) : j # i => q[d].macs[j] = p[d].macs[j]

LEMMA InterfacesAre ==
  ASSUME NEW docs, NEW f
  PROVE  /\ f \in Interfaces(docs) <=> \E d \in docs : \E i \in NICs(d) : f = <<d, i>>
         /\ f \in Interfaces(docs) => f[1] \in docs /\ f[2] \in NICs(f[1]) /\ f = <<f[1], f[2]>>
  BY DEF Interfaces

LEMMA KeepsItself == \A docs : Keeps(docs, docs)
  BY DEF Keeps

LEMMA KeepsOn ==
  ASSUME NEW p, NEW q, NEW r, Keeps(p, q), Keeps(q, r)
  PROVE  Keeps(p, r)
<1> SUFFICES ASSUME NEW d \in DOMAIN p
             PROVE  /\ p[d].uid \in {0, r[d].uid} /\ p[d].node \in {"", r[d].node} /\ p[d].vmid \in {0, r[d].vmid}
                    /\ \A i \in NICs(d) : /\ p[d].addresses[i] \in {0, r[d].addresses[i]}
                                          /\ p[d].macs[i] \in {0, r[d].macs[i]}
  BY DEF Keeps
<1>1. d \in DOMAIN q
  BY DEF Keeps
<1>2. QED
  BY <1>1 DEF Keeps

LEMMA FilledKeeps ==
  ASSUME NEW p, NEW d, NEW q, Filled(p, d, q)
  PROVE  Keeps(p, q)
  BY DEF Filled, Keeps

\* What is kept is valid if what it becomes is.
LEMMA KeptIsValid ==
  ASSUME NEW p, NEW q, Keeps(p, q), Valid(q)
  PROVE  Valid(p)
<1>0. /\ DOMAIN q = DOMAIN p
      /\ \A d \in DOMAIN p :
           /\ p[d].uid = 0 \/ p[d].uid = q[d].uid
           /\ p[d].node = "" \/ p[d].node = q[d].node
           /\ p[d].vmid = 0 \/ p[d].vmid = q[d].vmid
           /\ \A i \in NICs(d) : /\ p[d].addresses[i] = 0 \/ p[d].addresses[i] = q[d].addresses[i]
                                 /\ p[d].macs[i] = 0 \/ p[d].macs[i] = q[d].macs[i]
  BY DEF Keeps
<1>1. NoneDangling(DOMAIN p)
  BY <1>0 DEF Valid
<1>2. UniqueUIDs(p)
  <2>1. UniqueUIDs(q)
    BY DEF Valid
  <2>2. QED
    <3> SUFFICES ASSUME NEW d \in DOMAIN p, NEW e \in DOMAIN p, d # e, p[d].uid # 0, p[d].uid = p[e].uid
                 PROVE  FALSE
      BY DEF UniqueUIDs
    <3>1. d \in DOMAIN q /\ e \in DOMAIN q
      BY <1>0
    <3>2. q[d].uid # 0 /\ q[d].uid = q[e].uid
      BY <1>0
    <3>3. QED
      BY <2>1, <3>1, <3>2 DEF UniqueUIDs
<1>3. ASSUME NEW d \in DOMAIN p, VirtualMachine(d) PROVE CheckVirtualMachine(p, d)
  <2>1. CheckVirtualMachine(q, d)
    BY <1>0, <1>3 DEF Valid
  <2>2. QED
    BY <1>0, <2>1 DEF CheckVirtualMachine
<1>4. UniqueIDs(p)
  <2>1. UniqueIDs(q)
    BY DEF Valid
  <2>2. QED
    <3> SUFFICES ASSUME NEW d \in DOMAIN p, NEW e \in DOMAIN p, d # e, Cluster(d) = Cluster(e),
                        p[d].vmid # 0, p[d].vmid = p[e].vmid
                 PROVE  FALSE
      BY DEF UniqueIDs
    <3>1. d \in DOMAIN q /\ e \in DOMAIN q
      BY <1>0
    <3>2. q[d].vmid # 0 /\ q[d].vmid = q[e].vmid
      BY <1>0
    <3>3. QED
      BY <2>1, <3>1, <3>2 DEF UniqueIDs
<1>5. \A f \in Interfaces(DOMAIN p) :
        /\ f \in Interfaces(DOMAIN q)
        /\ AddressOf(p, f) # 0 => AddressOf(q, f) = AddressOf(p, f)
        /\ MACOf(p, f) # 0 => MACOf(q, f) = MACOf(p, f)
  <2> SUFFICES ASSUME NEW f \in Interfaces(DOMAIN p)
               PROVE  /\ f \in Interfaces(DOMAIN q)
                      /\ AddressOf(p, f) # 0 => AddressOf(q, f) = AddressOf(p, f)
                      /\ MACOf(p, f) # 0 => MACOf(q, f) = MACOf(p, f)
    OBVIOUS
  <2>1. f[1] \in DOMAIN p /\ f[2] \in NICs(f[1])
    BY InterfacesAre
  <2>2. DOMAIN q = DOMAIN p
    BY <1>0
  <2>3. QED
    BY <1>0, <2>1, <2>2 DEF AddressOf, MACOf
<1>6. UniqueAddresses(p)
  BY <1>5 DEF Valid, UniqueAddresses
<1>7. UniqueMACs(p)
  BY <1>5 DEF Valid, UniqueMACs
<1>8. QED
  BY <1>1, <1>2, <1>3, <1>4, <1>6, <1>7 DEF Valid

\* Fresh values keep what is planned valid.
LEMMA FreshIsValid ==
  ASSUME NEW p, NEW d, NEW q, Valid(p), DOMAIN p \subseteq Document, Filled(p, d, q), Fresh(p, d, q)
  PROVE  Valid(q)
<1>1. NoneDangling(DOMAIN q)
  BY DEF Filled, Valid
<1>2. UniqueUIDs(q)
  <2>1. \A e \in DOMAIN p : e # d => q[e] = p[e]
    BY DEF Filled
  <2>2. UniqueUIDs(p)
    BY DEF Valid
  <2>3. q[d].uid = p[d].uid \/ \A e \in DOMAIN p : p[e].uid # q[d].uid
    BY DEF Fresh, FreshUID
  <2>4. d \in DOMAIN p /\ DOMAIN q = DOMAIN p
    BY DEF Filled
  <2>5. QED
    BY <2>1, <2>2, <2>3, <2>4 DEF UniqueUIDs
<1>3. ASSUME NEW e \in DOMAIN q, VirtualMachine(e) PROVE CheckVirtualMachine(q, e)
  <2>1. CheckVirtualMachine(p, e)
    BY <1>3 DEF Valid, Filled
  <2>2. CASE e # d
    BY <2>1, <2>2 DEF CheckVirtualMachine, Filled
  <2>3. CASE e = d
    <3>1. \A i \in NICs(d) : NIC(d, i).mode = "dhcp" => q[d].addresses[i] = 0
      BY <2>1, <2>3 DEF CheckVirtualMachine, Fresh, FreshAddress
    <3>2. Declared[d].node # "" => q[d].node \in {"", Declared[d].node}
      BY <2>1, <2>3 DEF CheckVirtualMachine, Fresh, FreshNode
    <3>3. QED
      BY <2>1, <2>3, <3>1, <3>2 DEF CheckVirtualMachine
  <2>4. QED
    BY <2>2, <2>3
<1>4. UniqueIDs(q)
  <2>1. \A e \in DOMAIN p : e # d => q[e] = p[e]
    BY DEF Filled
  <2>2. UniqueIDs(p)
    BY DEF Valid
  <2>3. q[d].vmid = p[d].vmid \/ \A e \in DOMAIN p : Cluster(e) = Cluster(d) => p[e].vmid # q[d].vmid
    BY DEF Fresh, FreshID
  <2>4. d \in DOMAIN p /\ DOMAIN q = DOMAIN p
    BY DEF Filled
  <2>5. QED
    BY <2>1, <2>2, <2>3, <2>4 DEF UniqueIDs
<1>5. Interfaces(DOMAIN q) = Interfaces(DOMAIN p)
      /\ \A f \in Interfaces(DOMAIN p) : f[1] \in DOMAIN p /\ f[2] \in NICs(f[1]) /\ f = <<f[1], f[2]>>
  BY InterfacesAre DEF Filled
<1>6. UniqueAddresses(q)
  <2>1. \A f \in Interfaces(DOMAIN q) :
          \/ AddressOf(q, f) = AddressOf(p, f)
          \/ /\ f[1] = d
             /\ \A c \in DOMAIN Clusters : AddressOf(q, f) \notin Clusters[c].endpoints
             /\ \A g \in Interfaces(DOMAIN q) :
                  g # f => AddressOf(q, g) # AddressOf(q, f)
    <3> SUFFICES ASSUME NEW f \in Interfaces(DOMAIN q), AddressOf(q, f) # AddressOf(p, f)
                 PROVE  /\ f[1] = d
                        /\ \A c \in DOMAIN Clusters : AddressOf(q, f) \notin Clusters[c].endpoints
                        /\ \A g \in Interfaces(DOMAIN q) : g # f => AddressOf(q, g) # AddressOf(q, f)
      OBVIOUS
    <3>1. f[1] = d /\ f[2] \in NICs(d) /\ q[d].addresses[f[2]] # p[d].addresses[f[2]]
      BY <1>5 DEF AddressOf, Filled
    <3>2. /\ FreshAddress(p, d, f[2], q[d].addresses[f[2]])
          /\ \A j \in NICs(d) : j # f[2] => q[d].addresses[j] = p[d].addresses[j]
      BY <3>1 DEF Fresh
    <3>3. ASSUME NEW g \in Interfaces(DOMAIN q), g # f PROVE AddressOf(q, g) = AddressOf(p, g)
      <4>1. g[1] = d => g[2] # f[2]
        BY <1>5, <3>1, <3>3
      <4>2. CASE g[1] = d
        BY <1>5, <3>2, <4>1, <4>2 DEF AddressOf
      <4>3. CASE g[1] # d
        BY <1>5, <4>3 DEF AddressOf, Filled
      <4>4. QED
        BY <4>2, <4>3
    <3>4. ASSUME NEW g \in Interfaces(DOMAIN q) PROVE AddressOf(p, g) # AddressOf(q, f)
      BY <1>5, <3>1, <3>2 DEF AddressOf, FreshAddress
    <3>5. QED
      BY <3>1, <3>2, <3>3, <3>4 DEF FreshAddress, AddressOf
  <2>2. \A f \in Interfaces(DOMAIN q) : Cluster(f[1]) \in DOMAIN Clusters
    BY <1>5, IntentAssumption
  <2>3. UniqueAddresses(p)
    BY DEF Valid
  <2>4. QED
    BY <1>5, <2>1, <2>2, <2>3 DEF UniqueAddresses
<1>7. UniqueMACs(q)
  <2>1. \A f \in Interfaces(DOMAIN q) :
          \/ MACOf(q, f) = MACOf(p, f)
          \/ \A g \in Interfaces(DOMAIN q) :
               g # f /\ Cluster(g[1]) = Cluster(f[1]) => MACOf(q, g) # MACOf(q, f)
    <3> SUFFICES ASSUME NEW f \in Interfaces(DOMAIN q), MACOf(q, f) # MACOf(p, f),
                        NEW g \in Interfaces(DOMAIN q), g # f, Cluster(g[1]) = Cluster(f[1])
                 PROVE  MACOf(q, g) # MACOf(q, f)
      OBVIOUS
    <3>1. f[1] = d /\ f[2] \in NICs(d) /\ q[d].macs[f[2]] # p[d].macs[f[2]]
      BY <1>5 DEF MACOf, Filled
    <3>2. /\ FreshMAC(p, d, q[d].macs[f[2]])
          /\ \A j \in NICs(d) : j # f[2] => q[d].macs[j] = p[d].macs[j]
      BY <3>1 DEF Fresh
    <3>3. MACOf(q, g) = MACOf(p, g)
      <4>1. g[1] = d => g[2] # f[2]
        BY <1>5, <3>1
      <4>2. CASE g[1] = d
        BY <1>5, <3>2, <4>1, <4>2 DEF MACOf
      <4>3. CASE g[1] # d
        BY <1>5, <4>3 DEF MACOf, Filled
      <4>4. QED
        BY <4>2, <4>3
    <3>4. MACOf(p, g) # MACOf(q, f)
      BY <1>5, <3>1, <3>2 DEF MACOf, FreshMAC
    <3>5. QED
      BY <3>3, <3>4
  <2>2. UniqueMACs(p)
    BY DEF Valid
  <2>3. QED
    BY <1>5, <2>1, <2>2 DEF UniqueMACs
<1>8. QED
  BY <1>1, <1>2, <1>3, <1>4, <1>6, <1>7 DEF Valid

\* A guest that must be apart from another is placed on another node.
LEMMA FreshIsApart ==
  ASSUME NEW p, NEW d, NEW q, Valid(p), Apart(p), Filled(p, d, q), Fresh(p, d, q)
  PROVE  Apart(q)
<1>1. SUFFICES ASSUME NEW x \in DOMAIN p, NEW y \in DOMAIN p, Chosen(q, x), Chosen(q, y),
                      Cluster(x) = Cluster(y), Separate(x, y), x = d \/ y = d, q[d].node # p[d].node
               PROVE  q[x].node # q[y].node
  <2>1. DOMAIN q = DOMAIN p /\ \A e \in DOMAIN p : e # d => q[e] = p[e]
    BY DEF Filled
  <2>2. \A e \in DOMAIN p : q[e].node = p[e].node => (Chosen(q, e) <=> Chosen(p, e))
    BY DEF Chosen
  <2>3. ASSUME NEW x \in DOMAIN p, NEW y \in DOMAIN p, Chosen(q, x), Chosen(q, y),
               Cluster(x) = Cluster(y), Separate(x, y), x # d, y # d
        PROVE  q[x].node # q[y].node
    BY <2>1, <2>2, <2>3 DEF Apart
  <2>4. ASSUME NEW x \in DOMAIN p, NEW y \in DOMAIN p, Chosen(q, x), Chosen(q, y),
               Cluster(x) = Cluster(y), Separate(x, y), q[d].node = p[d].node
        PROVE  q[x].node # q[y].node
    <3>1. q[x].node = p[x].node /\ q[y].node = p[y].node
      BY <2>1, <2>4
    <3>2. QED
      BY <2>2, <2>4, <3>1 DEF Apart
  <2>5. QED
    BY <2>1, <2>3, <2>4 DEF Apart
<1>2. x # y
  BY <1>1 DEF Valid, CheckVirtualMachine, Chosen, Separate
<1>3. PICK e \in {x, y} : e # d /\ e \in DOMAIN p
  BY <1>2
<1>4. Declared[d].node = "" /\ FreshNode(p, d, q[d].node)
  BY <1>1 DEF Fresh, Chosen
<1>5. q[e] = p[e] /\ Separate(e, d) /\ Cluster(e) = Cluster(d) /\ Chosen(q, e)
  <2>1. q[e] = p[e]
    BY <1>3 DEF Filled
  <2>2. (x = e /\ y = d) \/ (x = d /\ y = e)
    BY <1>1, <1>2, <1>3
  <2>3. QED
    BY <1>1, <2>1, <2>2 DEF Separate
<1>6. NodeOf(p, e) = q[e].node
  BY <1>5 DEF NodeOf, Chosen
<1>7. QED
  BY <1>1, <1>2, <1>3, <1>4, <1>5, <1>6 DEF FreshNode, Chosen

\* On disk the guests are as far apart as planned.
LEMMA KeptIsApart ==
  ASSUME NEW p, NEW q, Keeps(p, q), Apart(q)
  PROVE  Apart(p)
<1>1. DOMAIN q = DOMAIN p /\ \A d \in DOMAIN p : p[d].node = "" \/ p[d].node = q[d].node
  BY DEF Keeps
<1>2. \A d \in DOMAIN p : Chosen(p, d) => Chosen(q, d) /\ p[d].node = q[d].node
  BY <1>1 DEF Chosen
<1>3. QED
  BY <1>1, <1>2 DEF Apart

-----------------------------------------------------------------------------
(* The allocator. *)

UsedIDs(p) == [c \in DOMAIN Clusters |->
                 {p[d].vmid : d \in {e \in DOMAIN p : Cluster(e) = c}} \ {0}]

UsedMACs(p) == [c \in DOMAIN Clusters |->
                  {MACOf(p, f) : f \in Interfaces({e \in DOMAIN p : Cluster(e) = c})} \ {0}]

UsedAddresses(p) == ({AddressOf(p, f) : f \in Interfaces(DOMAIN p)} \ {0})
                      \cup UNION {Clusters[c].endpoints : c \in DOMAIN Clusters}

UsedNodes(p) == [d \in {e \in DOMAIN p : VirtualMachine(e)} |-> NodeOf(p, d)]

\* The guests on a node of a cluster.
On(p, c, n) == {d \in DOMAIN p : VirtualMachine(d) /\ Cluster(d) = c /\ NodeOf(p, d) = n}

UsedMemory(p) == [c \in DOMAIN Clusters |-> [n \in Clusters[c].nodes |-> Load(On(p, c, n))]]

LEMMA InUseIs ==
  ASSUME NEW p
  PROVE  InUse(p) = [vmids |-> UsedIDs(p), macs |-> UsedMACs(p), addresses |-> UsedAddresses(p),
                     nodes |-> UsedNodes(p), memory |-> UsedMemory(p)]
  BY DEF InUse, UsedIDs, UsedMACs, UsedAddresses, UsedNodes, UsedMemory, On, Load

LEMMA IDsAre ==
  ASSUME NEW p, NEW c \in DOMAIN Clusters, NEW x
  PROVE  x \in UsedIDs(p)[c] <=> x # 0 /\ \E d \in DOMAIN p : Cluster(d) = c /\ p[d].vmid = x
  BY DEF UsedIDs

LEMMA MACsAre ==
  ASSUME NEW p, NEW c \in DOMAIN Clusters, NEW x
  PROVE  x \in UsedMACs(p)[c] <=>
           x # 0 /\ \E d \in DOMAIN p : Cluster(d) = c /\ \E i \in NICs(d) : p[d].macs[i] = x
<1>1. x \in UsedMACs(p)[c] <=>
        x # 0 /\ \E f \in Interfaces({e \in DOMAIN p : Cluster(e) = c}) : MACOf(p, f) = x
  BY DEF UsedMACs
<1> PICK S : S = {e \in DOMAIN p : Cluster(e) = c}
  OBVIOUS
<1>2. ASSUME NEW f \in Interfaces(S)
      PROVE  f[1] \in S /\ f[2] \in NICs(f[1]) /\ MACOf(p, f) = p[f[1]].macs[f[2]]
  BY InterfacesAre DEF MACOf
<1>3. ASSUME NEW d \in S, NEW i \in NICs(d)
      PROVE  <<d, i>> \in Interfaces(S) /\ MACOf(p, <<d, i>>) = p[d].macs[i]
  BY InterfacesAre DEF MACOf
<1>4. (\E f \in Interfaces(S) : MACOf(p, f) = x) <=> \E d \in S : \E i \in NICs(d) : p[d].macs[i] = x
  <2>1. ASSUME NEW f \in Interfaces(S), MACOf(p, f) = x
        PROVE  \E d \in S : \E i \in NICs(d) : p[d].macs[i] = x
    BY <2>1, <1>2
  <2>2. ASSUME NEW d \in S, NEW i \in NICs(d), p[d].macs[i] = x
        PROVE  \E f \in Interfaces(S) : MACOf(p, f) = x
    BY <2>2, <1>3
  <2>3. QED
    BY <2>1, <2>2
<1>5. QED
  BY <1>1, <1>4

LEMMA AddressesAre ==
  ASSUME NEW p, NEW x
  PROVE  x \in UsedAddresses(p) <=>
           \/ x # 0 /\ \E d \in DOMAIN p : \E i \in NICs(d) : p[d].addresses[i] = x
           \/ \E c \in DOMAIN Clusters : x \in Clusters[c].endpoints
<1>1. x \in UsedAddresses(p) <=>
        \/ x # 0 /\ \E f \in Interfaces(DOMAIN p) : AddressOf(p, f) = x
        \/ \E c \in DOMAIN Clusters : x \in Clusters[c].endpoints
  BY DEF UsedAddresses
<1>2. ASSUME NEW f \in Interfaces(DOMAIN p)
      PROVE  f[1] \in DOMAIN p /\ f[2] \in NICs(f[1]) /\ AddressOf(p, f) = p[f[1]].addresses[f[2]]
  BY InterfacesAre DEF AddressOf
<1>3. ASSUME NEW d \in DOMAIN p, NEW i \in NICs(d)
      PROVE  <<d, i>> \in Interfaces(DOMAIN p) /\ AddressOf(p, <<d, i>>) = p[d].addresses[i]
  BY InterfacesAre DEF AddressOf
<1>4. (\E f \in Interfaces(DOMAIN p) : AddressOf(p, f) = x)
         <=> \E d \in DOMAIN p : \E i \in NICs(d) : p[d].addresses[i] = x
  <2>1. ASSUME NEW f \in Interfaces(DOMAIN p), AddressOf(p, f) = x
        PROVE  \E d \in DOMAIN p : \E i \in NICs(d) : p[d].addresses[i] = x
    BY <2>1, <1>2
  <2>2. ASSUME NEW d \in DOMAIN p, NEW i \in NICs(d), p[d].addresses[i] = x
        PROVE  \E f \in Interfaces(DOMAIN p) : AddressOf(p, f) = x
    BY <2>2, <1>3
  <2>3. QED
    BY <2>1, <2>2
<1>5. QED
  BY <1>1, <1>4

\* The parts of the allocator that a value is not about stay the same, and the
\* part that it is about gains it.
LEMMA IDsStay ==
  ASSUME NEW p, NEW d, NEW q, Filled(p, d, q), q[d].vmid = p[d].vmid
  PROVE  UsedIDs(q) = UsedIDs(p)
<1>1. DOMAIN q = DOMAIN p /\ \A e \in DOMAIN p : q[e].vmid = p[e].vmid
  BY DEF Filled
<1>2. ASSUME NEW c \in DOMAIN Clusters PROVE UsedIDs(q)[c] = UsedIDs(p)[c]
  <2>1. \A x : x \in UsedIDs(q)[c] <=> x \in UsedIDs(p)[c]
    BY <1>1, IDsAre
  <2>2. QED
    BY <2>1
<1>3. QED
  BY <1>2 DEF UsedIDs

LEMMA IDsGrow ==
  ASSUME NEW p, NEW d, NEW q, Filled(p, d, q), Cluster(d) \in DOMAIN Clusters,
         p[d].vmid = 0, q[d].vmid # 0
  PROVE  UsedIDs(q) = [UsedIDs(p) EXCEPT ![Cluster(d)] = @ \cup {q[d].vmid}]
<1>1. d \in DOMAIN p /\ DOMAIN q = DOMAIN p /\ \A e \in DOMAIN p : e # d => q[e] = p[e]
  BY DEF Filled
<1>2. ASSUME NEW c \in DOMAIN Clusters
      PROVE  UsedIDs(q)[c] = IF c = Cluster(d) THEN UsedIDs(p)[c] \cup {q[d].vmid} ELSE UsedIDs(p)[c]
  <2>1. \A x : x \in UsedIDs(q)[c] <=> x \in UsedIDs(p)[c] \/ (c = Cluster(d) /\ x = q[d].vmid)
    BY <1>1, IDsAre
  <2>2. QED
    BY <2>1
<1>3. QED
  BY <1>2 DEF UsedIDs

LEMMA MACsStay ==
  ASSUME NEW p, NEW d, NEW q, Filled(p, d, q), q[d].macs = p[d].macs
  PROVE  UsedMACs(q) = UsedMACs(p)
<1>1. DOMAIN q = DOMAIN p /\ \A e \in DOMAIN p : q[e].macs = p[e].macs
  BY DEF Filled
<1>2. ASSUME NEW c \in DOMAIN Clusters PROVE UsedMACs(q)[c] = UsedMACs(p)[c]
  <2>1. \A x : x \in UsedMACs(q)[c] <=> x \in UsedMACs(p)[c]
    BY <1>1, MACsAre
  <2>2. QED
    BY <2>1
<1>3. QED
  BY <1>2 DEF UsedMACs

LEMMA MACsGrow ==
  ASSUME NEW p, NEW d, NEW q, Filled(p, d, q), Cluster(d) \in DOMAIN Clusters, NEW i \in NICs(d),
         p[d].macs[i] = 0, q[d].macs[i] # 0, \A j \in NICs(d) : j # i => q[d].macs[j] = p[d].macs[j]
  PROVE  UsedMACs(q) = [UsedMACs(p) EXCEPT ![Cluster(d)] = @ \cup {q[d].macs[i]}]
<1>1. d \in DOMAIN p /\ DOMAIN q = DOMAIN p /\ \A e \in DOMAIN p : e # d => q[e] = p[e]
  BY DEF Filled
<1>2. ASSUME NEW c \in DOMAIN Clusters
      PROVE  UsedMACs(q)[c] = IF c = Cluster(d) THEN UsedMACs(p)[c] \cup {q[d].macs[i]} ELSE UsedMACs(p)[c]
  <2>1. \A x : x \in UsedMACs(q)[c] <=> x \in UsedMACs(p)[c] \/ (c = Cluster(d) /\ x = q[d].macs[i])
    BY <1>1, MACsAre
  <2>2. QED
    BY <2>1
<1>3. QED
  BY <1>2 DEF UsedMACs

LEMMA AddressesStay ==
  ASSUME NEW p, NEW d, NEW q, Filled(p, d, q), q[d].addresses = p[d].addresses
  PROVE  UsedAddresses(q) = UsedAddresses(p)
<1>1. DOMAIN q = DOMAIN p /\ \A e \in DOMAIN p : q[e].addresses = p[e].addresses
  BY DEF Filled
<1>2. QED
  <2>1. \A x : x \in UsedAddresses(q) <=> x \in UsedAddresses(p)
    BY <1>1, AddressesAre
  <2>2. QED
    BY <2>1

LEMMA AddressesGrow ==
  ASSUME NEW p, NEW d, NEW q, Filled(p, d, q), NEW i \in NICs(d),
         p[d].addresses[i] = 0, q[d].addresses[i] # 0,
         \A j \in NICs(d) : j # i => q[d].addresses[j] = p[d].addresses[j]
  PROVE  UsedAddresses(q) = UsedAddresses(p) \cup {q[d].addresses[i]}
<1>1. d \in DOMAIN p /\ DOMAIN q = DOMAIN p /\ \A e \in DOMAIN p : e # d => q[e] = p[e]
  BY DEF Filled
<1>2. \A x : x \in UsedAddresses(q) <=> x \in UsedAddresses(p) \/ x = q[d].addresses[i]
  BY <1>1, AddressesAre
<1>3. QED
  BY <1>2

LEMMA NodesStay ==
  ASSUME NEW p, NEW d, NEW q, Filled(p, d, q), NodeOf(q, d) = NodeOf(p, d)
  PROVE  UsedNodes(q) = UsedNodes(p) /\ UsedMemory(q) = UsedMemory(p)
<1>1. DOMAIN q = DOMAIN p /\ \A e \in DOMAIN p : NodeOf(q, e) = NodeOf(p, e)
  BY DEF Filled, NodeOf
<1>2. UsedNodes(q) = UsedNodes(p)
  BY <1>1 DEF UsedNodes
<1>3. \A c, n : On(q, c, n) = On(p, c, n)
  BY <1>1 DEF On
<1>4. QED
  BY <1>2, <1>3 DEF UsedMemory

LEMMA NodesGrow ==
  ASSUME NEW p, DOMAIN p \subseteq Document, NEW d, NEW q, Filled(p, d, q), VirtualMachine(d),
         NodeOf(p, d) = "", Cluster(d) \in DOMAIN Clusters,
         q[d].node \in Clusters[Cluster(d)].nodes
  PROVE  UsedNodes(q) = [UsedNodes(p) EXCEPT ![d] = q[d].node]
<1>1. /\ DOMAIN q = DOMAIN p /\ d \in DOMAIN p
      /\ \A e \in DOMAIN p : e # d => NodeOf(q, e) = NodeOf(p, e)
  BY DEF Filled, NodeOf
<1>2. q[d].node # "" /\ \A c \in DOMAIN Clusters : "" \notin Clusters[c].nodes
  BY IntentAssumption
<1>3. NodeOf(q, d) = q[d].node
  BY <1>2 DEF NodeOf
<1>4. QED
  BY <1>1, <1>3 DEF UsedNodes

LEMMA MemoryGrows ==
  ASSUME NEW p, DOMAIN p \subseteq Document, NEW d, NEW q, Filled(p, d, q), VirtualMachine(d),
         NodeOf(p, d) = "", Cluster(d) \in DOMAIN Clusters,
         q[d].node \in Clusters[Cluster(d)].nodes
  PROVE  UsedMemory(q) = [UsedMemory(p) EXCEPT ![Cluster(d)][q[d].node] = @ + Declared[d].memory]
<1>1. /\ DOMAIN q = DOMAIN p /\ d \in DOMAIN p
      /\ \A e \in DOMAIN p : e # d => NodeOf(q, e) = NodeOf(p, e)
  BY DEF Filled, NodeOf
<1>2. q[d].node # "" /\ \A c \in DOMAIN Clusters : "" \notin Clusters[c].nodes
  BY IntentAssumption
<1>3. NodeOf(q, d) = q[d].node
  BY <1>2 DEF NodeOf
<1>4. ASSUME NEW c \in DOMAIN Clusters, NEW n \in Clusters[c].nodes, c # Cluster(d) \/ n # q[d].node
      PROVE  On(q, c, n) = On(p, c, n)
  <2>1. d \notin On(q, c, n) /\ d \notin On(p, c, n)
    BY <1>2, <1>3, <1>4 DEF On
  <2>2. \A e \in DOMAIN p : e # d => (e \in On(q, c, n) <=> e \in On(p, c, n))
    BY <1>1 DEF On
  <2>3. On(q, c, n) \subseteq DOMAIN p /\ On(p, c, n) \subseteq DOMAIN p
    BY <1>1 DEF On
  <2>4. \A e : e \in On(q, c, n) <=> e \in On(p, c, n)
    BY <2>1, <2>2, <2>3
  <2>5. QED
    BY <2>4
<1>5. PICK S : S = On(p, Cluster(d), q[d].node)
  OBVIOUS
<1>6. On(q, Cluster(d), q[d].node) = S \cup {d} /\ d \notin S /\ S \in SUBSET Document /\ d \in Document
  <2>1. d \notin S /\ S \subseteq DOMAIN p
    BY <1>2, <1>5 DEF On
  <2>2. d \in On(q, Cluster(d), q[d].node) /\ On(q, Cluster(d), q[d].node) \subseteq DOMAIN p
    BY <1>1, <1>3 DEF On
  <2>3. \A e \in DOMAIN p : e # d => (e \in On(q, Cluster(d), q[d].node) <=> e \in S)
    BY <1>1, <1>5 DEF On
  <2>4. QED
    BY <1>1, <2>1, <2>2, <2>3
<1>7. IsFiniteSet(S)
  BY <1>6, IntentAssumption, FS_Subset
<1>8. Load(On(q, Cluster(d), q[d].node)) = Load(On(p, Cluster(d), q[d].node)) + Declared[d].memory
  BY <1>5, <1>6, <1>7, LoadAdds DEF Memory
<1>9. UsedMemory(q) = [UsedMemory(p) EXCEPT ![Cluster(d)][q[d].node] = @ + Declared[d].memory]
  BY <1>4, <1>8 DEF UsedMemory
<1>10. QED
  BY <1>9

-----------------------------------------------------------------------------
(* One value at a time. *)

WithUID(p, d, u) == [p EXCEPT ![d].uid = u]
WithNode(p, d, n) == [p EXCEPT ![d].node = n]
WithID(p, d, id) == [p EXCEPT ![d].vmid = id]
WithAddress(p, d, i, a) == [p EXCEPT ![d].addresses[i] = a]
WithMAC(p, d, i, m) == [p EXCEPT ![d].macs[i] = m]

LEMMA FillsNothing ==
  ASSUME NEW p, IsFunction(p), NEW d \in DOMAIN p, p[d] \in Allocation(d)
  PROVE  Filled(p, d, p) /\ Fresh(p, d, p)
  BY DEF Filled, Fresh

LEMMA FillsUID ==
  ASSUME NEW p, IsFunction(p), NEW d \in DOMAIN p, p[d] \in Allocation(d),
         p[d].uid = 0, NEW u \in Nat, FreshUID(p, d, u), NEW q, q = WithUID(p, d, u)
  PROVE  /\ Filled(p, d, q) /\ Fresh(p, d, q)
         /\ q[d].uid = u /\ q[d].node = p[d].node /\ q[d].vmid = p[d].vmid
         /\ q[d].addresses = p[d].addresses /\ q[d].macs = p[d].macs
<1>1. /\ DOMAIN q = DOMAIN p /\ IsFunction(q) /\ q[d] = [p[d] EXCEPT !.uid = u]
      /\ \A e \in DOMAIN p : e # d => q[e] = p[e]
  BY DEF IsFunction, WithUID
<1>2. /\ q[d].uid = u /\ q[d].node = p[d].node /\ q[d].vmid = p[d].vmid
      /\ q[d].addresses = p[d].addresses /\ q[d].macs = p[d].macs /\ q[d] \in Allocation(d)
  BY <1>1 DEF Allocation
<1>3. QED
  BY <1>1, <1>2 DEF Filled, Fresh

LEMMA FillsNode ==
  ASSUME NEW p, IsFunction(p), NEW d \in DOMAIN p, p[d] \in Allocation(d),
         p[d].node = "", NEW n \in STRING, FreshNode(p, d, n), NEW q, q = WithNode(p, d, n)
  PROVE  /\ Filled(p, d, q) /\ Fresh(p, d, q)
         /\ q[d].uid = p[d].uid /\ q[d].node = n /\ q[d].vmid = p[d].vmid
         /\ q[d].addresses = p[d].addresses /\ q[d].macs = p[d].macs
<1>1. /\ DOMAIN q = DOMAIN p /\ IsFunction(q) /\ q[d] = [p[d] EXCEPT !.node = n]
      /\ \A e \in DOMAIN p : e # d => q[e] = p[e]
  BY DEF IsFunction, WithNode
<1>2. /\ q[d].uid = p[d].uid /\ q[d].node = n /\ q[d].vmid = p[d].vmid
      /\ q[d].addresses = p[d].addresses /\ q[d].macs = p[d].macs /\ q[d] \in Allocation(d)
  BY <1>1 DEF Allocation
<1>3. QED
  BY <1>1, <1>2 DEF Filled, Fresh

LEMMA FillsID ==
  ASSUME NEW p, IsFunction(p), NEW d \in DOMAIN p, p[d] \in Allocation(d),
         p[d].vmid = 0, NEW id \in Nat, FreshID(p, d, id), NEW q, q = WithID(p, d, id)
  PROVE  /\ Filled(p, d, q) /\ Fresh(p, d, q)
         /\ q[d].uid = p[d].uid /\ q[d].node = p[d].node /\ q[d].vmid = id
         /\ q[d].addresses = p[d].addresses /\ q[d].macs = p[d].macs
<1>1. /\ DOMAIN q = DOMAIN p /\ IsFunction(q) /\ q[d] = [p[d] EXCEPT !.vmid = id]
      /\ \A e \in DOMAIN p : e # d => q[e] = p[e]
  BY DEF IsFunction, WithID
<1>2. /\ q[d].uid = p[d].uid /\ q[d].node = p[d].node /\ q[d].vmid = id
      /\ q[d].addresses = p[d].addresses /\ q[d].macs = p[d].macs /\ q[d] \in Allocation(d)
  BY <1>1 DEF Allocation
<1>3. QED
  BY <1>1, <1>2 DEF Filled, Fresh

LEMMA FillsAddress ==
  ASSUME NEW p, IsFunction(p), NEW d \in DOMAIN p, p[d] \in Allocation(d), NEW i \in NICs(d),
         p[d].addresses[i] = 0, NEW a \in Nat, FreshAddress(p, d, i, a),
         NEW q, q = WithAddress(p, d, i, a)
  PROVE  /\ Filled(p, d, q) /\ Fresh(p, d, q)
         /\ q[d].uid = p[d].uid /\ q[d].node = p[d].node /\ q[d].vmid = p[d].vmid
         /\ q[d].addresses[i] = a /\ q[d].macs = p[d].macs
         /\ \A j \in NICs(d) : j # i => q[d].addresses[j] = p[d].addresses[j]
<1>1. /\ DOMAIN q = DOMAIN p /\ IsFunction(q) /\ q[d] = [p[d] EXCEPT !.addresses[i] = a]
      /\ \A e \in DOMAIN p : e # d => q[e] = p[e]
  BY DEF IsFunction, WithAddress
<1>2. /\ q[d].uid = p[d].uid /\ q[d].node = p[d].node /\ q[d].vmid = p[d].vmid
      /\ q[d].addresses = [p[d].addresses EXCEPT ![i] = a] /\ q[d].macs = p[d].macs
      /\ q[d] \in Allocation(d)
  BY <1>1 DEF Allocation
<1>3. /\ q[d].addresses[i] = a
      /\ \A j \in NICs(d) : j # i => q[d].addresses[j] = p[d].addresses[j]
  BY <1>2 DEF Allocation
<1>4. Filled(p, d, q)
  <2>1. \A j \in NICs(d) : p[d].addresses[j] \in {0, q[d].addresses[j]}
    BY <1>3
  <2>2. QED
    BY <1>1, <1>2, <2>1 DEF Filled
<1>5. Fresh(p, d, q)
  <2>1. ASSUME NEW j \in NICs(d)
        PROVE  \/ q[d].addresses[j] = p[d].addresses[j]
               \/ /\ FreshAddress(p, d, j, q[d].addresses[j])
                  /\ \A k \in NICs(d) : k # j => q[d].addresses[k] = p[d].addresses[k]
    BY <1>3
  <2>2. QED
    BY <1>2, <2>1 DEF Fresh
<1>6. QED
  BY <1>2, <1>3, <1>4, <1>5

LEMMA FillsMAC ==
  ASSUME NEW p, IsFunction(p), NEW d \in DOMAIN p, p[d] \in Allocation(d), NEW i \in NICs(d),
         p[d].macs[i] = 0, NEW m \in Nat, FreshMAC(p, d, m),
         NEW q, q = WithMAC(p, d, i, m)
  PROVE  /\ Filled(p, d, q) /\ Fresh(p, d, q)
         /\ q[d].uid = p[d].uid /\ q[d].node = p[d].node /\ q[d].vmid = p[d].vmid
         /\ q[d].addresses = p[d].addresses /\ q[d].macs[i] = m
         /\ \A j \in NICs(d) : j # i => q[d].macs[j] = p[d].macs[j]
<1>1. /\ DOMAIN q = DOMAIN p /\ IsFunction(q) /\ q[d] = [p[d] EXCEPT !.macs[i] = m]
      /\ \A e \in DOMAIN p : e # d => q[e] = p[e]
  BY DEF IsFunction, WithMAC
<1>2. /\ q[d].uid = p[d].uid /\ q[d].node = p[d].node /\ q[d].vmid = p[d].vmid
      /\ q[d].macs = [p[d].macs EXCEPT ![i] = m] /\ q[d].addresses = p[d].addresses
      /\ q[d] \in Allocation(d)
  BY <1>1 DEF Allocation
<1>3. /\ q[d].macs[i] = m
      /\ \A j \in NICs(d) : j # i => q[d].macs[j] = p[d].macs[j]
  BY <1>2 DEF Allocation
<1>4. Filled(p, d, q)
  <2>1. \A j \in NICs(d) : p[d].macs[j] \in {0, q[d].macs[j]}
    BY <1>3
  <2>2. QED
    BY <1>1, <1>2, <2>1 DEF Filled
<1>5. Fresh(p, d, q)
  <2>1. ASSUME NEW j \in NICs(d)
        PROVE  \/ q[d].macs[j] = p[d].macs[j]
               \/ /\ FreshMAC(p, d, q[d].macs[j])
                  /\ \A k \in NICs(d) : k # j => q[d].macs[k] = p[d].macs[k]
    BY <1>3
  <2>2. QED
    BY <1>2, <2>1 DEF Fresh
<1>6. QED
  BY <1>2, <1>3, <1>4, <1>5

LEMMA One == 1 \in Nat \ {0}
  OBVIOUS

LEMMA LeastFree ==
  ASSUME NEW S \in SUBSET Nat, S # {}
  PROVE  Min(S) \in S
  BY Least DEF Min

\* There is a current target as long as one is left.
LEMMA CurrentIs ==
  ASSUME todo \subseteq Document, todo # {}
  PROVE  Current \in todo
<1> DEFINE First == IF \E d \in todo : VirtualMachine(d) THEN {d \in todo : VirtualMachine(d)} ELSE todo
           Ranks == {Rank[d] : d \in First}
<1>1. Ranks \in SUBSET Nat /\ Ranks # {}
  BY AdmissionAssumption
<1>2. PICK d \in First : \A e \in First : Rank[d] <= Rank[e]
  <2>1. PICK m \in Ranks : \A n \in Ranks : m <= n
    BY <1>1, Least
  <2>2. PICK d \in First : Rank[d] = m
    OBVIOUS
  <2>3. \A e \in First : Rank[e] \in Ranks
    OBVIOUS
  <2>4. QED
    BY <2>1, <2>2, <2>3
<1>3. d \in todo /\ \A e \in todo \ {d} : Precedes(d, e)
  <2>1. \A e \in First : e # d => Rank[d] < Rank[e]
    <3>1. \A e \in First : e \in Document /\ Rank[e] \in Nat
      BY AdmissionAssumption
    <3>2. \A e \in First : e # d => Rank[e] # Rank[d]
      BY <3>1, AdmissionAssumption
    <3>3. QED
      BY <1>2, <3>1, <3>2
  <2>2. CASE VirtualMachine(d)
    <3>1. \A e \in todo : VirtualMachine(e) => e \in First
      OBVIOUS
    <3>2. QED
      BY <2>1, <2>2, <3>1, <1>2 DEF Precedes
  <2>3. CASE ~VirtualMachine(d)
    <3>1. First = todo /\ \A e \in todo : ~VirtualMachine(e)
      BY <2>3, <1>2
    <3>2. QED
      BY <2>1, <2>3, <3>1, <1>2 DEF Precedes, VirtualMachine
  <2>4. QED
    BY <2>2, <2>3
<1>4. QED
  BY <1>3 DEF Current

LEMMA Ranges ==
  ASSUME NEW d \in Document
  PROVE  /\ VMIDs(d) \subseteq Nat \ {0} /\ Cluster(d) \in DOMAIN Clusters
         /\ \A i \in NICs(d) : Assignable(NIC(d, i).network) \subseteq Nat \ {0}
<1>1. VMIDs(d) \subseteq Nat \ {0} /\ Cluster(d) \in DOMAIN Clusters
  <2>1. \A e \in DOMAIN Environments : Environments[e][1] .. Environments[e][2] \subseteq Nat \ {0}
    <3> SUFFICES ASSUME NEW e \in DOMAIN Environments
                 PROVE  Environments[e][1] .. Environments[e][2] \subseteq Nat \ {0}
      OBVIOUS
    <3>1. Environments[e][1] \in Nat \ {0} /\ Environments[e][2] \in Nat
      BY IntentAssumption
    <3>2. QED
      BY <3>1
  <2>2. QED
    BY <2>1, IntentAssumption DEF VMIDs
<1>2. ASSUME NEW i \in NICs(d) PROVE Assignable(NIC(d, i).network) \subseteq Nat \ {0}
  <2>1. PICK n \in DOMAIN Networks : n = NIC(d, i).network
    BY IntentAssumption
  <2>2. Networks[n].base \in Nat \ {0} /\ Networks[n].size \in Nat \ {0}
    BY IntentAssumption
  <2>3. Hosts(Networks[n]) \subseteq Nat \ {0}
    BY <2>2 DEF Hosts
  <2>4. QED
    BY <2>1, <2>3 DEF Assignable
<1>3. QED
  BY <1>1, <1>2

-----------------------------------------------------------------------------
(* What every step of planning does. *)

\* The value that e is about could not be had among the documents p.
Out(p, e) ==
  LET d == e.doc
      guests == {g \in DOMAIN p : VirtualMachine(g) /\ g # d /\ Cluster(g) = Cluster(d)}
      there  == Interfaces(DOMAIN p)
  IN  CASE e.field = "node" ->
             IF Declared[d].node # ""
             THEN Declared[d].node \notin Clusters[Cluster(d)].nodes
             ELSE \A n \in Clusters[Cluster(d)].nodes :
                    \E g \in guests : Separate(g, d) /\ NodeOf(p, g) = n
        [] e.field = "vmid" ->
             \A id \in VMIDs(d) :
               \E g \in DOMAIN p : g # d /\ Cluster(g) = Cluster(d) /\ p[g].vmid = id
        [] e.field = "address" ->
             \A a \in Assignable(NIC(d, e.nic).network) :
               \/ \E c \in DOMAIN Clusters : a \in Clusters[c].endpoints
               \/ \E f \in there : AddressOf(p, f) = a
        [] e.field = "mac" ->
             \A a \in 1 .. Attempts :
               \E f \in there : /\ Cluster(f[1]) = Cluster(d)
                                /\ MACOf(p, f) = Hashed(p[d].uid, e.nic, a)

LEMMA ExhaustedIs == \A e : (Exhausted(e) <=> Out(planned, e)) /\ (Exhausted(e)' <=> Out(planned', e))
<1>1. ASSUME NEW e PROVE Exhausted(e) <=> Out(planned, e)
  BY DEF Exhausted, Out
<1>2. ASSUME NEW e PROVE Exhausted(e)' <=> Out(planned', e)
  BY DEF Exhausted, Out
<1>3. QED
  BY <1>1, <1>2

\* What could not be had still cannot when values are filled in elsewhere.
LEMMA StaysOut ==
  ASSUME NEW p, DOMAIN p \subseteq Document, NEW d, NEW q, Filled(p, d, q), Fresh(p, d, q),
         NEW e, e.doc \in DOMAIN p, e.field \in {"node", "vmid", "address", "mac"}, Out(p, e),
         p[e.doc].uid \in UIDs \cup {0},
         e.field \in {"address", "mac"} => e.nic \in NICs(e.doc),
         e.field = "mac" => p[e.doc].uid # 0
  PROVE  Out(q, e)
<1>1. /\ DOMAIN q = DOMAIN p /\ d \in DOMAIN p /\ e.doc \in Document
      /\ \A g \in DOMAIN p : g # d => q[g] = p[g]
  BY DEF Filled
<1>2. \A g \in DOMAIN p : /\ p[g].uid # 0 => q[g].uid = p[g].uid
                          /\ p[g].vmid # 0 => q[g].vmid = p[g].vmid
                          /\ \A i \in NICs(g) : /\ p[g].addresses[i] # 0 => q[g].addresses[i] = p[g].addresses[i]
                                                /\ p[g].macs[i] # 0 => q[g].macs[i] = p[g].macs[i]
  BY <1>1 DEF Filled
<1>3. \A f \in Interfaces(DOMAIN p) : /\ AddressOf(p, f) # 0 => AddressOf(q, f) = AddressOf(p, f)
                                      /\ MACOf(p, f) # 0 => MACOf(q, f) = MACOf(p, f)
  <2> SUFFICES ASSUME NEW f \in Interfaces(DOMAIN p)
               PROVE  /\ AddressOf(p, f) # 0 => AddressOf(q, f) = AddressOf(p, f)
                      /\ MACOf(p, f) # 0 => MACOf(q, f) = MACOf(p, f)
    OBVIOUS
  <2>1. f[1] \in DOMAIN p /\ f[2] \in NICs(f[1])
    BY InterfacesAre
  <2>2. QED
    BY <1>2, <2>1 DEF AddressOf, MACOf
<1>4. CASE e.field = "node"
  <2>1. CASE Declared[e.doc].node # ""
    BY <1>4, <2>1 DEF Out
  <2>2. CASE Declared[e.doc].node = ""
    <3>1. \A g \in DOMAIN p : NodeOf(p, g) # "" => NodeOf(q, g) = NodeOf(p, g)
      <4>1. ASSUME NEW g \in DOMAIN p, g # d PROVE NodeOf(q, g) = NodeOf(p, g)
        BY <1>1, <4>1 DEF NodeOf
      <4>2. ASSUME NodeOf(p, d) # "" PROVE NodeOf(q, d) = NodeOf(p, d)
        <5>1. p[d].node # "" => q[d].node = p[d].node
          BY DEF Filled
        <5>2. q[d].node = p[d].node \/ Declared[d].node \in {"", q[d].node}
          BY DEF Fresh, FreshNode
        <5>3. QED
          BY <4>2, <5>1, <5>2 DEF NodeOf
      <4>3. QED
        BY <4>1, <4>2
    <3>2. "" \notin Clusters[Cluster(e.doc)].nodes
      BY <1>1, IntentAssumption
    <3>3. ASSUME NEW n \in Clusters[Cluster(e.doc)].nodes
          PROVE  \E g \in {h \in DOMAIN q : VirtualMachine(h) /\ h # e.doc /\ Cluster(h) = Cluster(e.doc)} :
                   Separate(g, e.doc) /\ NodeOf(q, g) = n
      <4>1. PICK g \in {h \in DOMAIN p : VirtualMachine(h) /\ h # e.doc /\ Cluster(h) = Cluster(e.doc)} :
                   Separate(g, e.doc) /\ NodeOf(p, g) = n
        BY <1>4, <2>2, <3>3 DEF Out
      <4>2. NodeOf(q, g) = n
        BY <3>1, <3>2, <3>3, <4>1
      <4>3. QED
        BY <1>1, <4>1, <4>2
    <3>4. QED
      BY <1>4, <2>2, <3>3 DEF Out
  <2>3. QED
    BY <2>1, <2>2
<1>5. CASE e.field = "vmid"
  <2>1. \A id \in VMIDs(e.doc) : \E g \in DOMAIN p : g # e.doc /\ Cluster(g) = Cluster(e.doc) /\ p[g].vmid = id
    BY <1>5 DEF Out
  <2>2. 0 \notin VMIDs(e.doc)
    BY <1>1, Ranges
  <2>3. \A id \in VMIDs(e.doc) : \E g \in DOMAIN q : g # e.doc /\ Cluster(g) = Cluster(e.doc) /\ q[g].vmid = id
    BY <1>1, <1>2, <2>1, <2>2
  <2>4. QED
    BY <1>5, <2>3 DEF Out
<1>6. CASE e.field = "address"
  <2> DEFINE Taken(r, a) == \/ \E c \in DOMAIN Clusters : a \in Clusters[c].endpoints
                            \/ \E f \in Interfaces(DOMAIN r) : AddressOf(r, f) = a
  <2>1. \A a \in Assignable(NIC(e.doc, e.nic).network) : Taken(p, a)
    BY <1>6 DEF Out
  <2>2. 0 \notin Assignable(NIC(e.doc, e.nic).network)
    BY <1>1, <1>6, Ranges
  <2>3. \A a \in Assignable(NIC(e.doc, e.nic).network) : Taken(q, a)
    BY <1>1, <1>3, <2>1, <2>2
  <2>4. QED
    BY <1>6, <2>3 DEF Out
<1>7. CASE e.field = "mac"
  <2>1. \A a \in 1 .. Attempts : \E f \in Interfaces(DOMAIN p) :
          Cluster(f[1]) = Cluster(e.doc) /\ MACOf(p, f) = Hashed(p[e.doc].uid, e.nic, a)
    BY <1>7 DEF Out
  <2>2. \A a \in 1 .. Attempts : Hashed(p[e.doc].uid, e.nic, a) # 0
    BY <1>1, <1>7, AdmissionAssumption DEF UIDs
  <2>3. q[e.doc].uid = p[e.doc].uid
    BY <1>2, <1>7
  <2>4. \A a \in 1 .. Attempts : \E f \in Interfaces(DOMAIN q) :
          Cluster(f[1]) = Cluster(e.doc) /\ MACOf(q, f) = Hashed(q[e.doc].uid, e.nic, a)
    BY <1>1, <1>3, <2>1, <2>2, <2>3
  <2>5. QED
    BY <1>7, <2>4 DEF Out
<1>8. QED
  BY <1>4, <1>5, <1>6, <1>7

\* An error about d, honest before the step.
AboutOf(d, e) ==
  /\ e \in [doc : targets, field : {"node", "vmid", "address", "mac"}, nic : Nat] /\ e.doc = d
  /\ Out(planned, e)
  /\ e.field \in {"address", "mac"} => e.nic \in NICs(d)
  /\ e.field = "mac" => planned[d].uid # 0

Fills(d) ==
  /\ Filled(planned, d, planned') /\ Fresh(planned, d, planned')
  /\ planned'[d].uid = planned[d].uid \/ planned'[d].uid \in UID
  /\ used' = InUse(planned')
  /\ \/ errors' = errors
     \/ planned' = planned /\ \E e : AboutOf(d, e) /\ errors' = errors \cup {e}
  /\ UNCHANGED <<intent, targets, files, before, result>>

\* What every step of planning keeps.
Typed ==
  /\ DOMAIN intent \subseteq Document /\ DOMAIN planned = DOMAIN intent /\ DOMAIN before = DOMAIN intent
  /\ IsFunction(intent) /\ IsFunction(planned)
  /\ \A d \in DOMAIN intent : intent[d] \in Allocation(d) /\ planned[d] \in Allocation(d)
  /\ targets \subseteq DOMAIN intent /\ files \subseteq {File[d] : d \in DOMAIN intent}
  /\ errors \subseteq [doc : targets, field : {"node", "vmid", "address", "mac"}, nic : Nat]
  /\ result \in {"none", "refused", "dry run", "write failed", "written"}

Common ==
  /\ Typed /\ UIDInv /\ KeepInv /\ Valid(planned) /\ used = InUse(planned)
  /\ Apart(planned) /\ RefusalIsHonest /\ ErrorInv

LEMMA FillsCommon ==
  ASSUME AdmissionInv, at \notin {"idle", "write"}, NEW d \in todo, Fills(d)
  PROVE  /\ Common'
         /\ \A e \in targets \ todo : Complete(planned, e) \/ HasError(e) => (Complete(planned, e) \/ HasError(e))'
         /\ \A e : HasError(e) => HasError(e)'
<1> USE DEF AdmissionInv
<1>1. /\ DOMAIN planned' = DOMAIN planned /\ IsFunction(planned') /\ planned'[d] \in Allocation(d)
      /\ \A e \in DOMAIN planned : e # d => planned'[e] = planned[e]
  BY DEF Fills, Filled
<1>2. /\ DOMAIN intent' \subseteq Document /\ DOMAIN planned' = DOMAIN intent' /\ DOMAIN before' = DOMAIN intent'
      /\ IsFunction(intent') /\ targets' \subseteq DOMAIN intent' /\ files' \subseteq {File[e] : e \in DOMAIN intent'}
      /\ result' \in {"none", "refused", "dry run", "write failed", "written"}
  BY <1>1 DEF TypeInv, Fills
<1>3. \A e \in DOMAIN intent' : intent'[e] \in Allocation(e) /\ planned'[e] \in Allocation(e)
  BY <1>1 DEF TypeInv, Fills
<1>4. errors' \subseteq [doc : targets', field : {"node", "vmid", "address", "mac"}, nic : Nat]
  BY DEF TypeInv, Fills, AboutOf
<1>5. UIDInv'
  BY <1>1 DEF UIDInv, UIDs, Fills
<1>6. KeepInv'
  <2>1. Keeps(planned, planned')
    BY FilledKeeps DEF Fills
  <2>2. Keeps(intent, planned')
    BY <2>1, KeepsOn DEF KeepInv
  <2>3. QED
    BY <2>2 DEF KeepInv, Fills
<1>7. Valid(planned)
  BY DEF ValidInv
<1>8. Valid(planned')
  BY <1>7, FreshIsValid DEF Fills, TypeInv
<1>9. Apart(planned')
  BY <1>7, FreshIsApart DEF Fills
<1>10. \A e \in errors' : Out(planned, e)
  BY ExhaustedIs DEF RefusalIsHonest, Fills, AboutOf
<1>11. \A e \in errors' : /\ e.field \in {"address", "mac"} => e.nic \in NICs(e.doc)
                          /\ e.field = "mac" => planned[e.doc].uid # 0
  BY DEF ErrorInv, Fills, AboutOf
<1>12. ASSUME NEW e \in errors' PROVE Out(planned', e)
  <2>1. e.doc \in DOMAIN planned /\ e.field \in {"node", "vmid", "address", "mac"}
    <3>1. PICK t : t = e
      OBVIOUS
    <3>2. t \in [doc : targets, field : {"node", "vmid", "address", "mac"}, nic : Nat]
      BY <1>4, <1>12, <3>1 DEF Fills
    <3>3. QED
      BY <3>1, <3>2 DEF TypeInv
  <2>2. planned[e.doc].uid \in UIDs \cup {0}
    BY <2>1 DEF UIDInv
  <2>3. DOMAIN planned \subseteq Document /\ Filled(planned, d, planned') /\ Fresh(planned, d, planned')
    BY DEF TypeInv, Fills
  <2>4. QED
    BY <1>10, <1>11, <1>12, <2>1, <2>2, <2>3, StaysOut
<1>13. RefusalIsHonest'
  BY <1>12, ExhaustedIs DEF RefusalIsHonest
<1>14. ErrorInv'
  <2>1. \A e \in errors' : e.doc \in DOMAIN planned
    BY <1>4 DEF Fills, TypeInv
  <2>2. \A g \in DOMAIN planned : planned[g].uid # 0 => planned'[g].uid # 0
    BY <1>1 DEF Fills, Filled
  <2>3. QED
    BY <1>11, <2>1, <2>2 DEF ErrorInv
<1>15. Common'
  <2>1. (used = InUse(planned))'
    BY DEF Fills
  <2>2. Valid(planned)' /\ Apart(planned)' /\ UIDInv' /\ KeepInv' /\ RefusalIsHonest' /\ ErrorInv'
    BY <1>5, <1>6, <1>8, <1>9, <1>13, <1>14
  <2>3. Typed'
    BY <1>1, <1>2, <1>3, <1>4 DEF Typed
  <2>4. QED
    BY <2>1, <2>2, <2>3 DEF Common
<1>16. \A e : HasError(e) => HasError(e)'
  BY DEF HasError, Fills
<1>17. \A e \in targets \ todo : Complete(planned, e) => Complete(planned, e)'
  <2> SUFFICES ASSUME NEW e \in targets \ todo, Complete(planned, e) PROVE Complete(planned', e)
    BY DEF Complete
  <2>1. planned'[e] = planned[e]
    BY <1>1 DEF TypeInv
  <2>2. QED
    BY <2>1 DEF Complete
<1>18. QED
  BY <1>15, <1>16, <1>17

\* The current target at a step of planning.
LEMMA Here ==
  ASSUME AdmissionInv, at \notin {"idle", "write"}, todo # {}, NEW d, d = Current
  PROVE  /\ d \in todo /\ d \in Document /\ d \in DOMAIN planned /\ DOMAIN planned \subseteq Document
         /\ planned[d] \in Allocation(d) /\ IsFunction(planned) /\ d \in targets
         /\ used = InUse(planned) /\ Valid(planned) /\ nic \in Nat \ {0} /\ Cluster(d) \in DOMAIN Clusters
         /\ Has(d)
<1>1. d \in todo
  <2>1. todo \subseteq Document
    BY DEF AdmissionInv, TypeInv
  <2>2. QED
    BY <2>1, CurrentIs
<1>2. /\ d \in Document /\ d \in DOMAIN planned /\ DOMAIN planned \subseteq Document /\ d \in targets
      /\ planned[d] \in Allocation(d) /\ IsFunction(planned) /\ nic \in Nat \ {0}
  BY <1>1 DEF AdmissionInv, TypeInv
<1>3. used = InUse(planned) /\ Valid(planned)
  BY DEF AdmissionInv, AllocatorIsCurrent, ValidInv
<1>4. Has(d)
  BY DEF AdmissionInv, DoneInv
<1>5. Cluster(d) \in DOMAIN Clusters
  BY <1>2, IntentAssumption
<1>6. QED
  BY <1>1, <1>2, <1>3, <1>4, <1>5

LEMMA GoesOn ==
  ASSUME AdmissionInv, at \notin {"idle", "write"}, todo # {}, NEW d, d = Current, Fills(d), todo' = todo,
         at' \in {"node", "vmid", "address", "mac"}, nic' \in Nat \ {0},
         at' # "vmid" => VirtualMachine(d), at' \notin {"address", "mac"} => nic' = 1,
         Has(d)'
  PROVE  AdmissionInv'
<1>1. d \in todo
  BY Here
<1>2. /\ Common'
      /\ \A e \in targets \ todo : Complete(planned, e) \/ HasError(e) => (Complete(planned, e) \/ HasError(e))'
  BY <1>1, FillsCommon
<1>3. UNCHANGED <<intent, targets, files, before, result>>
  BY DEF Fills
<1>4. TypeInv'
  <2>1. todo' \subseteq targets' /\ at' \in Steps
    BY <1>3 DEF AdmissionInv, TypeInv, Steps
  <2>2. QED
    BY <1>2, <2>1 DEF Common, Typed, TypeInv
<1>5. Current' = d
  BY DEF Current
<1>6. StepInv'
  BY <1>3, <1>5 DEF AdmissionInv, StepInv
<1>7. DoneInv'
  <2>1. \A e \in targets' \ todo' : (Complete(planned, e) \/ HasError(e))'
    BY <1>2, <1>3 DEF AdmissionInv, DoneInv
  <2>2. Has(Current)'
    BY <1>5 DEF Has, HasError
  <2>3. QED
    BY <2>1, <2>2 DEF DoneInv
<1>8. QED
  <2>1. ValidInv' /\ AllocatorIsCurrent'
    BY <1>2 DEF Common, ValidInv, AllocatorIsCurrent
  <2>2. QED
    BY <1>2, <1>4, <1>6, <1>7, <2>1 DEF AdmissionInv, Common

LEMMA Finishes ==
  ASSUME AdmissionInv, at \notin {"idle", "write"}, todo # {}, NEW d, d = Current, Fills(d), todo' = todo \ {d},
         at' = "uid", nic' = 1, (Complete(planned, d) \/ HasError(d))'
  PROVE  AdmissionInv'
<1>1. d \in todo
  BY Here
<1>2. /\ Common'
      /\ \A e \in targets \ todo : Complete(planned, e) \/ HasError(e) => (Complete(planned, e) \/ HasError(e))'
  BY <1>1, FillsCommon
<1>3. UNCHANGED <<intent, targets, files, before, result>>
  BY DEF Fills
<1>4. TypeInv'
  <2>1. todo' \subseteq targets'
    BY <1>3 DEF AdmissionInv, TypeInv
  <2>2. at' \in Steps /\ nic' \in Nat \ {0}
    BY DEF Steps
  <2>3. QED
    BY <1>2, <2>1, <2>2 DEF Common, Typed, TypeInv
<1>5. StepInv'
  BY <1>3 DEF AdmissionInv, StepInv
<1>6. DoneInv'
  <2>1. \A e \in targets' \ todo' : (Complete(planned, e) \/ HasError(e))'
    BY <1>2, <1>3 DEF AdmissionInv, DoneInv
  <2>2. Has(Current)'
    BY DEF Has
  <2>3. QED
    BY <2>1, <2>2 DEF DoneInv
<1>7. QED
  <2>1. ValidInv' /\ AllocatorIsCurrent'
    BY <1>2 DEF Common, ValidInv, AllocatorIsCurrent
  <2>2. QED
    BY <1>2, <1>4, <1>5, <1>6, <2>1 DEF AdmissionInv, Common

\* Nothing is filled in, with or without an error.
LEMMA SkipFills ==
  ASSUME AdmissionInv, at \notin {"idle", "write"}, todo # {}, NEW d, d = Current,
         Skip, UNCHANGED <<intent, targets, files, before, result>>
  PROVE  Fills(d)
<1>1. d \in DOMAIN planned /\ planned[d] \in Allocation(d) /\ IsFunction(planned) /\ used = InUse(planned)
  BY Here
<1>2. Filled(planned, d, planned) /\ Fresh(planned, d, planned)
  BY <1>1, FillsNothing
<1>3. QED
  BY <1>1, <1>2 DEF Skip, Fills

LEMMA FailFills ==
  ASSUME AdmissionInv, at \notin {"idle", "write"}, todo # {}, NEW d, d = Current,
         NEW field \in {"node", "vmid", "address", "mac"}, NEW i \in Nat, Fail(field, i),
         Out(planned, [doc |-> d, field |-> field, nic |-> i]),
         field \in {"address", "mac"} => i \in NICs(d), field = "mac" => planned[d].uid # 0,
         UNCHANGED <<intent, targets, files, before, result>>
  PROVE  Fills(d) /\ HasError(d)'
<1>1. /\ d \in DOMAIN planned /\ planned[d] \in Allocation(d) /\ IsFunction(planned) /\ used = InUse(planned)
      /\ d \in targets
  BY Here
<1>2. Filled(planned, d, planned) /\ Fresh(planned, d, planned)
  BY <1>1, FillsNothing
<1>3. PICK e : e = [doc |-> d, field |-> field, nic |-> i]
  OBVIOUS
<1>4. AboutOf(d, e) /\ errors' = errors \cup {e}
  BY <1>1, <1>3 DEF Fail, AboutOf
<1>5. HasError(d)'
  BY <1>3, <1>4 DEF HasError
<1>6. QED
  BY <1>1, <1>2, <1>4, <1>5 DEF Fail, Fills

LEMMA UIDKeeps ==
  ASSUME AdmissionInv, AssignUID
  PROVE  AdmissionInv'
<1>0. at = "uid" /\ todo # {} /\ at' = "node" /\ todo' = todo /\ nic' = nic
      /\ UNCHANGED <<intent, targets, files, before, result>> /\ VirtualMachine(Current)
  BY DEF AssignUID, At, GoOn
<1>1. PICK d : d = Current
  OBVIOUS
<1>2. /\ d \in todo /\ d \in Document /\ d \in DOMAIN planned /\ planned[d] \in Allocation(d) /\ IsFunction(planned)
      /\ used = InUse(planned)
  BY <1>0, <1>1, Here
<1>3. ASSUME planned[d].uid # 0 PROVE Fills(d) /\ planned'[d].uid # 0
  <2>1. Skip
    BY <1>1, <1>3 DEF AssignUID
  <2>2. Fills(d)
    BY <1>0, <1>1, <2>1, SkipFills
  <2>3. QED
    BY <1>3, <2>1, <2>2 DEF Skip
<1>4. ASSUME planned[d].uid = 0 PROVE Fills(d) /\ planned'[d].uid # 0
  <2>1. PICK u \in UID \ {planned[e].uid : e \in DOMAIN planned} :
          planned' = WithUID(planned, d, u) /\ UNCHANGED <<used, errors>>
    BY <1>1, <1>4 DEF AssignUID, WithUID
  <2>2. FreshUID(planned, d, u) /\ u \in Nat /\ u # 0
    BY <2>1, AdmissionAssumption DEF FreshUID
  <2>3. /\ Filled(planned, d, planned') /\ Fresh(planned, d, planned')
        /\ planned'[d].uid = u /\ planned'[d].node = planned[d].node /\ planned'[d].vmid = planned[d].vmid
        /\ planned'[d].addresses = planned[d].addresses /\ planned'[d].macs = planned[d].macs
    BY <1>2, <1>4, <2>1, <2>2, FillsUID
  <2>4. InUse(planned') = InUse(planned)
    <3>1. NodeOf(planned', d) = NodeOf(planned, d)
      BY <2>3 DEF NodeOf
    <3>2. QED
      BY <2>3, <3>1, InUseIs, IDsStay, MACsStay, AddressesStay, NodesStay
  <2>5. Fills(d) /\ planned'[d].uid # 0
    BY <1>0, <1>2, <2>1, <2>2, <2>3, <2>4 DEF Fills
  <2>6. QED
    BY <2>5
<1>5. Fills(d) /\ planned'[d].uid # 0
  BY <1>3, <1>4
<1>6. nic = 1
  BY <1>0 DEF AdmissionInv, StepInv
<1>7. Has(d)'
  BY <1>0, <1>5 DEF Has
<1>8. QED
  BY <1>0, <1>1, <1>5, <1>6, <1>7, GoesOn

LEMMA TemplateKeeps ==
  ASSUME AdmissionInv, BeginTemplate
  PROVE  AdmissionInv'
<1>0. /\ at = "uid" /\ todo # {} /\ at' = "vmid" /\ todo' = todo /\ nic' = nic /\ Skip
      /\ UNCHANGED <<intent, targets, files, before, result>> /\ ~VirtualMachine(Current)
  BY DEF BeginTemplate, At, GoOn
<1>1. PICK d : d = Current
  OBVIOUS
<1>2. Fills(d)
  BY <1>0, <1>1, SkipFills
<1>3. nic = 1
  BY <1>0 DEF AdmissionInv, StepInv
<1>4. Has(d)'
  BY <1>0, <1>1 DEF Has
<1>5. QED
  BY <1>0, <1>1, <1>2, <1>3, <1>4, GoesOn

\* After the node comes the guest ID.
LEMMA NodeDone ==
  ASSUME AdmissionInv, at = "node", todo # {}, NEW d, d = Current, Fills(d), GoOn("vmid"), UNCHANGED nic,
         (planned[d].node # "" \/ HasError(d))'
  PROVE  AdmissionInv'
<1>0. at' = "vmid" /\ todo' = todo /\ nic' = nic
  BY DEF GoOn
<1>1. nic = 1
  BY DEF AdmissionInv, StepInv
<1>2. planned'[d].uid # 0
  <2>1. VirtualMachine(d)
    BY DEF AdmissionInv, StepInv
  <2>2. planned[d].uid # 0
    BY <2>1, Here DEF Has
  <2>3. QED
    BY <2>2 DEF Fills, Filled
<1>3. Has(d)'
  BY <1>0, <1>2 DEF Has
<1>4. at \notin {"idle", "write"}
  OBVIOUS
<1>5. at' \in {"node", "vmid", "address", "mac"} /\ (at' # "vmid" => VirtualMachine(d))
  BY <1>0
<1>6. nic' = 1
  BY <1>0, <1>1
<1>7. nic' \in Nat \ {0}
  BY <1>6, One, Zenon
<1>8. QED
  BY <1>0, <1>3, <1>4, <1>5, <1>6, <1>7, GoesOn

LEMMA KeepNodeKeeps ==
  ASSUME AdmissionInv, KeepNode
  PROVE  AdmissionInv'
<1>0. /\ at = "node" /\ todo # {} /\ Skip /\ GoOn("vmid") /\ UNCHANGED nic
      /\ UNCHANGED <<intent, targets, files, before, result>> /\ planned[Current].node # ""
  BY DEF KeepNode, At, GoOn
<1>1. PICK d : d = Current
  OBVIOUS
<1>2. Fills(d)
  BY <1>0, <1>1, SkipFills
<1>3. planned'[d].node # ""
  BY <1>0, <1>1 DEF Skip
<1>4. QED
  BY <1>0, <1>1, <1>2, <1>3, NodeDone

LEMMA PinNodeKeeps ==
  ASSUME AdmissionInv, PinNode
  PROVE  AdmissionInv'
<1>0. /\ at = "node" /\ todo # {} /\ GoOn("vmid") /\ UNCHANGED nic
      /\ UNCHANGED <<intent, targets, files, before, result>>
      /\ planned[Current].node = "" /\ Declared[Current].node # ""
  BY DEF PinNode, At, GoOn
<1>1. PICK d : d = Current
  OBVIOUS
<1>2. /\ d \in todo /\ d \in Document /\ d \in DOMAIN planned /\ planned[d] \in Allocation(d) /\ IsFunction(planned)
      /\ used = InUse(planned)
  BY <1>0, <1>1, Here
<1>3. ASSUME Nodes # {} /\ Declared[Current].node \notin Nodes
      PROVE  Fills(d) /\ HasError(d)'
  <2>1. Fail("node", 0)
    BY <1>3 DEF PinNode
  <2>2. Out(planned, [doc |-> d, field |-> "node", nic |-> 0])
    BY <1>0, <1>1, <1>3 DEF Out, Nodes
  <2>3. QED
    BY <1>0, <1>1, <2>1, <2>2, FailFills
<1>4. ASSUME ~(Nodes # {} /\ Declared[Current].node \notin Nodes)
      PROVE  Fills(d) /\ planned'[d].node # ""
  <2>1. PICK n : n = Declared[d].node
    OBVIOUS
  <2>2. planned' = WithNode(planned, d, n) /\ UNCHANGED <<used, errors>>
    BY <1>1, <1>4, <2>1 DEF PinNode, WithNode
  <2>3. n \in STRING /\ n # "" /\ FreshNode(planned, d, n) /\ planned[d].node = ""
    BY <1>0, <1>1, <1>2, <2>1, IntentAssumption DEF FreshNode
  <2>4. /\ Filled(planned, d, planned') /\ Fresh(planned, d, planned')
        /\ planned'[d].uid = planned[d].uid /\ planned'[d].node = n /\ planned'[d].vmid = planned[d].vmid
        /\ planned'[d].addresses = planned[d].addresses /\ planned'[d].macs = planned[d].macs
    <3>1. \A q : q = WithNode(planned, d, n) =>
            /\ Filled(planned, d, q) /\ Fresh(planned, d, q)
            /\ q[d].uid = planned[d].uid /\ q[d].node = n /\ q[d].vmid = planned[d].vmid
            /\ q[d].addresses = planned[d].addresses /\ q[d].macs = planned[d].macs
      BY <1>2, <2>3, FillsNode
    <3>2. QED
      BY <2>2, <3>1, Zenon
  <2>5. InUse(planned') = InUse(planned)
    <3>1. NodeOf(planned', d) = NodeOf(planned, d)
      BY <2>1, <2>3, <2>4 DEF NodeOf
    <3>2. QED
      BY <2>4, <3>1, InUseIs, IDsStay, MACsStay, AddressesStay, NodesStay
  <2>6. QED
    BY <1>0, <1>2, <2>2, <2>3, <2>4, <2>5 DEF Fills
<1>5. QED
  BY <1>0, <1>1, <1>3, <1>4, NodeDone

\* The nodes of the guests that the current one must be apart from.
LEMMA TakenNodes ==
  ASSUME AdmissionInv, at \notin {"idle", "write"}, todo # {}, NEW d, d = Current, NEW n
  PROVE  n \in Candidates <=>
           /\ n \in Clusters[Cluster(d)].nodes
           /\ ~\E e \in DOMAIN planned : /\ VirtualMachine(e) /\ e # d /\ Cluster(e) = Cluster(d)
                                         /\ Separate(e, d) /\ NodeOf(planned, e) = n
<1>1. used.nodes = UsedNodes(planned)
  <2>1. used = InUse(planned)
    BY Here
  <2>2. QED
    BY <2>1, InUseIs
<1>2. DOMAIN used.nodes = {e \in DOMAIN planned : VirtualMachine(e)}
      /\ \A e \in DOMAIN used.nodes : used.nodes[e] = NodeOf(planned, e)
  BY <1>1 DEF UsedNodes
<1>3. QED
  BY <1>2 DEF Candidates, Others, Nodes

LEMMA ChooseNodeKeeps ==
  ASSUME AdmissionInv, ChooseNode
  PROVE  AdmissionInv'
<1>0. /\ at = "node" /\ todo # {} /\ GoOn("vmid") /\ UNCHANGED nic
      /\ UNCHANGED <<intent, targets, files, before, result>>
      /\ planned[Current].node = "" /\ Declared[Current].node = ""
  BY DEF ChooseNode, At, GoOn
<1>1. PICK d : d = Current
  OBVIOUS
<1>2. /\ d \in todo /\ d \in Document /\ d \in DOMAIN planned /\ planned[d] \in Allocation(d) /\ IsFunction(planned)
      /\ used = InUse(planned) /\ DOMAIN planned \subseteq Document /\ Cluster(d) \in DOMAIN Clusters
  BY <1>0, <1>1, Here
<1>3. PICK n \in Candidates :
        /\ planned' = WithNode(planned, d, n)
        /\ used' = [used EXCEPT !.nodes[d] = n, !.memory[Cluster(d)][n] = @ + Declared[d].memory]
        /\ UNCHANGED errors
  BY <1>1 DEF ChooseNode, LeastUsed, Preferred, WithNode
<1>4. n \in Clusters[Cluster(d)].nodes /\ n \in STRING /\ n # "" /\ FreshNode(planned, d, n)
  <2>1. /\ n \in Clusters[Cluster(d)].nodes
        /\ ~\E e \in DOMAIN planned : /\ VirtualMachine(e) /\ e # d /\ Cluster(e) = Cluster(d)
                                      /\ Separate(e, d) /\ NodeOf(planned, e) = n
    BY <1>0, <1>1, TakenNodes
  <2>2. n \in STRING /\ n # ""
    BY <1>2, <2>1, IntentAssumption
  <2>3. FreshNode(planned, d, n)
    BY <1>0, <1>1, <2>1 DEF FreshNode
  <2>4. QED
    BY <2>1, <2>2, <2>3
<1>5. planned[d].node = ""
  BY <1>0, <1>1
<1>6. /\ Filled(planned, d, planned') /\ Fresh(planned, d, planned')
      /\ planned'[d].uid = planned[d].uid /\ planned'[d].node = n /\ planned'[d].vmid = planned[d].vmid
      /\ planned'[d].addresses = planned[d].addresses /\ planned'[d].macs = planned[d].macs
  <2>1. \A q : q = WithNode(planned, d, n) =>
          /\ Filled(planned, d, q) /\ Fresh(planned, d, q)
          /\ q[d].uid = planned[d].uid /\ q[d].node = n /\ q[d].vmid = planned[d].vmid
          /\ q[d].addresses = planned[d].addresses /\ q[d].macs = planned[d].macs
    BY <1>2, <1>4, <1>5, FillsNode
  <2>2. QED
    BY <1>3, <2>1, Zenon
<1>7. used' = InUse(planned')
  <2>1. VirtualMachine(d) /\ NodeOf(planned, d) = ""
    BY <1>0, <1>1 DEF AdmissionInv, StepInv, NodeOf
  <2>2. /\ UsedNodes(planned') = [UsedNodes(planned) EXCEPT ![d] = n]
        /\ UsedMemory(planned') = [UsedMemory(planned) EXCEPT ![Cluster(d)][n] = @ + Declared[d].memory]
    <3>1. PICK q : q = planned'
      OBVIOUS
    <3>2. q[d].node = n /\ n \in Clusters[Cluster(d)].nodes /\ Filled(planned, d, q)
      BY <1>4, <1>6, <3>1
    <3>3. UsedNodes(q) = [UsedNodes(planned) EXCEPT ![d] = q[d].node]
      BY <1>2, <2>1, <3>2, NodesGrow
    <3>4. UsedMemory(q) = [UsedMemory(planned) EXCEPT ![Cluster(d)][q[d].node] = @ + Declared[d].memory]
      BY <1>2, <2>1, <3>2, MemoryGrows
    <3>5. QED
      BY <3>1, <3>2, <3>3, <3>4
  <2>3. /\ UsedIDs(planned') = UsedIDs(planned) /\ UsedMACs(planned') = UsedMACs(planned)
        /\ UsedAddresses(planned') = UsedAddresses(planned)
    BY <1>6, IDsStay, MACsStay, AddressesStay
  <2>4. QED
    BY <1>2, <1>3, <2>2, <2>3, InUseIs
<1>8. Fills(d) /\ planned'[d].node # ""
  BY <1>0, <1>3, <1>4, <1>6, <1>7 DEF Fills
<1>9. QED
  BY <1>0, <1>1, <1>8, NodeDone

LEMMA NoNodeKeeps ==
  ASSUME AdmissionInv, NoNode
  PROVE  AdmissionInv'
<1>0. /\ at = "node" /\ todo # {} /\ GoOn("vmid") /\ UNCHANGED nic /\ Fail("node", 0)
      /\ UNCHANGED <<intent, targets, files, before, result>>
      /\ Declared[Current].node = "" /\ Candidates = {}
  BY DEF NoNode, At, GoOn
<1>1. PICK d : d = Current
  OBVIOUS
<1>2. \A n \in Clusters[Cluster(d)].nodes :
        \E e \in {g \in DOMAIN planned : VirtualMachine(g) /\ g # d /\ Cluster(g) = Cluster(d)} :
          Separate(e, d) /\ NodeOf(planned, e) = n
  BY <1>0, <1>1, TakenNodes
<1>3. Out(planned, [doc |-> d, field |-> "node", nic |-> 0])
  BY <1>0, <1>1, <1>2 DEF Out
<1>4. Fills(d) /\ HasError(d)'
  BY <1>0, <1>1, <1>3, FailFills
<1>5. QED
  BY <1>0, <1>1, <1>4, NodeDone

\* The parts of the allocator.
LEMMA UsedIs ==
  ASSUME AdmissionInv, at \notin {"idle", "write"}
  PROVE  /\ used = [vmids |-> UsedIDs(planned), macs |-> UsedMACs(planned), addresses |-> UsedAddresses(planned),
                    nodes |-> UsedNodes(planned), memory |-> UsedMemory(planned)]
         /\ used.vmids = UsedIDs(planned) /\ used.macs = UsedMACs(planned)
         /\ used.addresses = UsedAddresses(planned)
<1>1. used = InUse(planned)
  BY DEF AdmissionInv, AllocatorIsCurrent
<1>2. QED
  BY <1>1, InUseIs

LEMMA IDFills ==
  ASSUME AdmissionInv, AllocateVMID, NEW d, d = Current
  PROVE  Fills(d) /\ (planned[d].vmid # 0 \/ HasError(d))'
<1>0. /\ at = "vmid" /\ todo # {} /\ UNCHANGED <<intent, targets, files, before, result>>
  BY DEF AllocateVMID, At, GoOn
<1>1. /\ d \in todo /\ d \in Document /\ d \in DOMAIN planned /\ planned[d] \in Allocation(d) /\ IsFunction(planned)
      /\ used = InUse(planned) /\ Cluster(d) \in DOMAIN Clusters /\ Valid(planned)
  BY <1>0, Here
<1>2. PICK free : free = VMIDs(d) \ used.vmids[Cluster(d)]
  OBVIOUS
<1>3. \A id : id \in free <=> id \in VMIDs(d) /\ ~\E e \in DOMAIN planned : Cluster(e) = Cluster(d) /\ planned[e].vmid = id
  <2>1. used.vmids = UsedIDs(planned)
    BY <1>0, UsedIs
  <2>2. \A id \in VMIDs(d) : id # 0
    BY <1>1, Ranges
  <2>3. QED
    BY <1>1, <1>2, <2>1, <2>2, IDsAre
<1>4. CASE planned[d].vmid # 0
  <2>1. Skip
    BY <1>4 DEF AllocateVMID
  <2>2. Fills(d)
    BY <1>0, <2>1, SkipFills
  <2>3. QED
    BY <1>4, <2>1, <2>2 DEF Skip
<1>5. CASE planned[d].vmid = 0 /\ free = {}
  <2>1. Fail("vmid", 0)
    BY <1>2, <1>5 DEF AllocateVMID
  <2>2. \A id \in VMIDs(d) : \E e \in DOMAIN planned : e # d /\ Cluster(e) = Cluster(d) /\ planned[e].vmid = id
    <3>1. \A id \in VMIDs(d) : id # 0
      BY <1>1, Ranges
    <3>2. QED
      BY <1>3, <1>5, <3>1
  <2>3. Out(planned, [doc |-> d, field |-> "vmid", nic |-> 0])
    BY <2>2 DEF Out
  <2>4. QED
    BY <1>0, <2>1, <2>3, FailFills
<1>6. CASE planned[d].vmid = 0 /\ free # {}
  <2>1. PICK id : id = Min(free)
    OBVIOUS
  <2>2. /\ planned' = WithID(planned, d, id)
        /\ used' = [used EXCEPT !.vmids[Cluster(d)] = @ \cup {id}] /\ UNCHANGED errors
    BY <1>2, <1>6, <2>1 DEF AllocateVMID, WithID
  <2>3. id \in Nat /\ id # 0 /\ FreshID(planned, d, id)
    <3>1. VMIDs(d) \subseteq Nat \ {0}
      BY <1>1, Ranges
    <3>2. free \in SUBSET Nat
      BY <1>2, <3>1
    <3>3. id \in free
      BY <1>6, <2>1, <3>2, LeastFree
    <3>4. QED
      BY <1>3, <3>1, <3>3 DEF FreshID
  <2>4. planned[d].vmid = 0
    BY <1>6
  <2>5. PICK q : q = planned'
    OBVIOUS
  <2>6. /\ Filled(planned, d, q) /\ Fresh(planned, d, q)
        /\ q[d].uid = planned[d].uid /\ q[d].node = planned[d].node /\ q[d].vmid = id
        /\ q[d].addresses = planned[d].addresses /\ q[d].macs = planned[d].macs
    BY <1>1, <2>2, <2>3, <2>4, <2>5, FillsID
  <2>7. used' = InUse(q)
    <3>1. NodeOf(q, d) = NodeOf(planned, d)
      BY <2>6 DEF NodeOf
    <3>2. /\ UsedMACs(q) = UsedMACs(planned) /\ UsedAddresses(q) = UsedAddresses(planned)
          /\ UsedNodes(q) = UsedNodes(planned) /\ UsedMemory(q) = UsedMemory(planned)
      BY <2>6, <3>1, MACsStay, AddressesStay, NodesStay
    <3>3. planned[d].vmid = 0 /\ q[d].vmid # 0
      BY <1>6, <2>3, <2>6
    <3>4. UsedIDs(q) = [UsedIDs(planned) EXCEPT ![Cluster(d)] = @ \cup {q[d].vmid}]
      BY <1>1, <2>6, <3>3, IDsGrow
    <3>5. QED
      BY <1>0, <2>2, <2>6, <3>2, <3>4, InUseIs, UsedIs
  <2>8. QED
    BY <1>0, <2>2, <2>3, <2>5, <2>6, <2>7 DEF Fills
<1>7. QED
  BY <1>4, <1>5, <1>6

LEMMA VMIDKeeps ==
  ASSUME AdmissionInv, AllocateVMID
  PROVE  AdmissionInv'
<1>0. at = "vmid" /\ todo # {} /\ nic' = nic
  BY DEF AllocateVMID, At
<1>1. PICK d : d = Current
  OBVIOUS
<1>2. Fills(d) /\ (planned[d].vmid # 0 \/ HasError(d))'
  BY <1>1, IDFills
<1>3. d \in todo /\ Has(d)
  BY <1>0, <1>1, Here
<1>4. nic' = 1
  BY <1>0 DEF AdmissionInv, StepInv
<1>5. \A e : HasError(e) => HasError(e)'
  BY <1>0, <1>3, <1>2, FillsCommon
<1>6. CASE VirtualMachine(d)
  <2>1. at' = "address" /\ todo' = todo
    BY <1>1, <1>6 DEF AllocateVMID, GoOn
  <2>2. planned'[d].uid # 0 /\ (planned[d].node # "" \/ HasError(d))'
    BY <1>0, <1>2, <1>3, <1>5, <1>6 DEF Has, Fills, Filled
  <2>3. \A i \in NICs(d) : ~(i < nic')
    <3>1. \A i \in NICs(d) : i \in Nat /\ i >= 1
      <4>1. d \in Document
        BY <1>0, <1>1, Here
      <4>2. Len(Declared[d].nics) \in Nat /\ NICs(d) = 1 .. Len(Declared[d].nics)
        BY <4>1, IntentAssumption
      <4>3. QED
        BY <4>2
    <3>2. QED
      BY <1>4, <3>1
  <2>4. Has(d)'
    BY <1>2, <2>1, <2>2, <2>3 DEF Has
  <2>5. nic' \in Nat \ {0}
    BY <1>4, One, Zenon
  <2>6. QED
    BY <1>0, <1>1, <1>2, <1>6, <2>1, <2>4, <2>5, GoesOn
<1>7. CASE ~VirtualMachine(d)
  <2>1. at' = "uid" /\ todo' = todo \ {d}
    BY <1>1, <1>7 DEF AllocateVMID
  <2>2. (Complete(planned, d) \/ HasError(d))'
    BY <1>2, <1>7 DEF Complete
  <2>3. QED
    BY <1>0, <1>1, <1>2, <1>4, <2>1, <2>2, Finishes
<1>8. QED
  BY <1>6, <1>7

LEMMA NICsAre ==
  ASSUME NEW d \in Document
  PROVE  /\ \A i \in NICs(d) : i \in Nat /\ i >= 1
         /\ \A n \in Nat \ {0} : n \notin NICs(d) => \A i \in NICs(d) : i < n
<1>1. Len(Declared[d].nics) \in Nat /\ NICs(d) = 1 .. Len(Declared[d].nics)
  BY IntentAssumption
<1>2. QED
  BY <1>1

LEMMA AddressFills ==
  ASSUME AdmissionInv, AllocateAddress, NEW d, d = Current, NEW i, i = nic
  PROVE  /\ Fills(d)
         /\ (NIC(d, i).mode = "auto" => planned[d].addresses[i] # 0 \/ HasError(d))'
<1>0. /\ at = "address" /\ todo # {} /\ UNCHANGED <<intent, targets, files, before, result>> /\ i \in NICs(d)
  BY DEF AllocateAddress, At, GoOn
<1>1. /\ d \in todo /\ d \in Document /\ d \in DOMAIN planned /\ planned[d] \in Allocation(d) /\ IsFunction(planned)
      /\ used = InUse(planned) /\ Cluster(d) \in DOMAIN Clusters /\ i \in Nat
  BY <1>0, Here
<1>2. PICK free : free = Assignable(NIC(d, i).network) \ used.addresses
  OBVIOUS
<1>3. PICK reach : reach = Assignable(NIC(d, i).network) /\ reach \subseteq Nat \ {0}
  BY <1>0, <1>1, Ranges
<1>4. \A a : a \in free <=>
        /\ a \in reach /\ ~\E c \in DOMAIN Clusters : a \in Clusters[c].endpoints
        /\ ~\E e \in DOMAIN planned : \E j \in NICs(e) : planned[e].addresses[j] = a
  <2>1. used.addresses = UsedAddresses(planned)
    BY <1>0, UsedIs
  <2>2. QED
    BY <1>2, <1>3, <2>1, AddressesAre
<1>5. CASE NIC(d, i).mode # "auto" \/ planned[d].addresses[i] # 0
  <2>1. Skip
    BY <1>5 DEF AllocateAddress
  <2>2. Fills(d)
    BY <1>0, <2>1, SkipFills
  <2>3. QED
    BY <1>5, <2>1, <2>2 DEF Skip
<1>6. CASE ~(NIC(d, i).mode # "auto" \/ planned[d].addresses[i] # 0) /\ free = {}
  <2>1. Fail("address", i)
    BY <1>2, <1>6 DEF AllocateAddress
  <2>2. \A a \in Assignable(NIC(d, i).network) :
          \/ \E c \in DOMAIN Clusters : a \in Clusters[c].endpoints
          \/ \E f \in Interfaces(DOMAIN planned) : AddressOf(planned, f) = a
    <3> SUFFICES ASSUME NEW a \in reach, ~\E c \in DOMAIN Clusters : a \in Clusters[c].endpoints
                 PROVE  \E f \in Interfaces(DOMAIN planned) : AddressOf(planned, f) = a
      BY <1>3
    <3>1. PICK e \in DOMAIN planned : \E j \in NICs(e) : planned[e].addresses[j] = a
      BY <1>4, <1>6
    <3>2. PICK j \in NICs(e) : planned[e].addresses[j] = a
      BY <3>1
    <3>3. <<e, j>> \in Interfaces(DOMAIN planned) /\ AddressOf(planned, <<e, j>>) = a
      BY <3>2, InterfacesAre DEF AddressOf
    <3>4. QED
      BY <3>3
  <2>3. Out(planned, [doc |-> d, field |-> "address", nic |-> i])
    BY <2>2 DEF Out
  <2>4. QED
    BY <1>0, <1>1, <2>1, <2>3, FailFills
<1>7. CASE ~(NIC(d, i).mode # "auto" \/ planned[d].addresses[i] # 0) /\ free # {}
  <2>1. PICK a : a = Min(free)
    OBVIOUS
  <2>2. /\ planned' = WithAddress(planned, d, i, a)
        /\ used' = [used EXCEPT !.addresses = @ \cup {a}] /\ UNCHANGED errors
    BY <1>2, <1>7, <2>1 DEF AllocateAddress, WithAddress
  <2>3. a \in Nat /\ a # 0 /\ FreshAddress(planned, d, i, a)
    <3>1. free \in SUBSET Nat
      BY <1>2, <1>3
    <3>2. a \in free
      BY <1>7, <2>1, <3>1, LeastFree
    <3>3. QED
      BY <1>3, <1>4, <1>7, <3>2 DEF FreshAddress
  <2>4. planned[d].addresses[i] = 0
    BY <1>7
  <2>5. PICK q : q = planned'
    OBVIOUS
  <2>6. /\ Filled(planned, d, q) /\ Fresh(planned, d, q)
        /\ q[d].uid = planned[d].uid /\ q[d].node = planned[d].node /\ q[d].vmid = planned[d].vmid
        /\ q[d].addresses[i] = a /\ q[d].macs = planned[d].macs
        /\ \A j \in NICs(d) : j # i => q[d].addresses[j] = planned[d].addresses[j]
    BY <1>0, <1>1, <2>2, <2>3, <2>4, <2>5, FillsAddress
  <2>7. used' = InUse(q)
    <3>1. NodeOf(q, d) = NodeOf(planned, d)
      BY <2>6 DEF NodeOf
    <3>2. /\ UsedMACs(q) = UsedMACs(planned) /\ UsedIDs(q) = UsedIDs(planned)
          /\ UsedNodes(q) = UsedNodes(planned) /\ UsedMemory(q) = UsedMemory(planned)
      BY <2>6, <3>1, MACsStay, IDsStay, NodesStay
    <3>3. q[d].addresses[i] # 0
      BY <2>3, <2>6
    <3>4. UsedAddresses(q) = UsedAddresses(planned) \cup {q[d].addresses[i]}
      BY <1>0, <2>4, <2>6, <3>3, AddressesGrow
    <3>5. QED
      BY <1>0, <2>2, <2>6, <3>2, <3>4, InUseIs, UsedIs
  <2>8. Fills(d)
    BY <1>0, <2>2, <2>5, <2>6, <2>7 DEF Fills
  <2>9. QED
    BY <2>3, <2>5, <2>6, <2>8
<1>8. QED
  BY <1>5, <1>6, <1>7

LEMMA AddressKeeps ==
  ASSUME AdmissionInv, AllocateAddress
  PROVE  AdmissionInv'
<1>0. /\ at = "address" /\ todo # {} /\ nic \in NICs(Current) /\ nic' = nic + 1 /\ at' = "address" /\ todo' = todo
  BY DEF AllocateAddress, At, GoOn
<1>1. PICK d : d = Current
  OBVIOUS
<1>2. PICK i : i = nic
  OBVIOUS
<1>3. Fills(d) /\ (NIC(d, i).mode = "auto" => planned[d].addresses[i] # 0 \/ HasError(d))'
  BY <1>1, <1>2, AddressFills
<1>4. d \in todo /\ Has(d) /\ d \in Document /\ i \in Nat \ {0}
  BY <1>0, <1>1, <1>2, Here
<1>5. \A e : HasError(e) => HasError(e)'
  BY <1>0, <1>3, <1>4, FillsCommon
<1>6. VirtualMachine(d)
  BY <1>0, <1>1 DEF AdmissionInv, StepInv
<1>7. /\ planned'[d].uid # 0 /\ (planned[d].node # "" \/ HasError(d))' /\ (planned[d].vmid # 0 \/ HasError(d))'
  BY <1>0, <1>3, <1>4, <1>5, <1>6 DEF Has, Fills, Filled
<1>8. \A j \in NICs(d) : (j < nic /\ NIC(d, j).mode = "auto") => (planned[d].addresses[j] # 0 \/ HasError(d))'
  BY <1>0, <1>3, <1>4, <1>5 DEF Has, Fills, Filled
<1>9. \A j \in NICs(d) : (j < nic' /\ NIC(d, j).mode = "auto") => (planned[d].addresses[j] # 0 \/ HasError(d))'
  <2>1. \A j \in NICs(d) : j < nic' => j < nic \/ j = i
    BY <1>0, <1>2, <1>4, NICsAre
  <2>2. QED
    BY <1>3, <1>8, <2>1
<1>10. Has(d)'
  BY <1>0, <1>7, <1>9 DEF Has
<1>11. nic' \in Nat \ {0}
  BY <1>0, <1>2, <1>4
<1>12. QED
  BY <1>0, <1>1, <1>3, <1>6, <1>10, <1>11, GoesOn

LEMMA AddressesDoneKeeps ==
  ASSUME AdmissionInv, AddressesDone
  PROVE  AdmissionInv'
<1>0. /\ at = "address" /\ todo # {} /\ nic \notin NICs(Current) /\ nic' = 1 /\ at' = "mac" /\ todo' = todo
      /\ Skip /\ UNCHANGED <<intent, targets, files, before, result>>
  BY DEF AddressesDone, At, GoOn
<1>1. PICK d : d = Current
  OBVIOUS
<1>2. Fills(d)
  BY <1>0, <1>1, SkipFills
<1>3. d \in todo /\ Has(d) /\ d \in Document /\ nic \in Nat \ {0}
  BY <1>0, <1>1, Here
<1>4. VirtualMachine(d)
  BY <1>0, <1>1 DEF AdmissionInv, StepInv
<1>5. \A i \in NICs(d) : i < nic /\ ~(i < 1)
  BY <1>0, <1>1, <1>3, NICsAre
<1>6. planned' = planned /\ errors' = errors
  BY <1>0 DEF Skip
<1>7. Has(d)'
  BY <1>0, <1>3, <1>4, <1>5, <1>6 DEF Has, HasError
<1>8. nic' \in Nat \ {0}
  BY <1>0, One, Zenon
<1>9. QED
  BY <1>0, <1>1, <1>2, <1>4, <1>7, <1>8, GoesOn

LEMMA MACFills ==
  ASSUME AdmissionInv, AllocateMAC, NEW d, d = Current, NEW i, i = nic
  PROVE  Fills(d) /\ (planned[d].macs[i] # 0 \/ HasError(d))'
<1>0. /\ at = "mac" /\ todo # {} /\ UNCHANGED <<intent, targets, files, before, result>> /\ i \in NICs(d)
  BY DEF AllocateMAC, At, GoOn
<1>1. /\ d \in todo /\ d \in Document /\ d \in DOMAIN planned /\ planned[d] \in Allocation(d) /\ IsFunction(planned)
      /\ used = InUse(planned) /\ Cluster(d) \in DOMAIN Clusters /\ i \in Nat /\ Has(d)
  BY <1>0, Here
<1>2. planned[d].uid # 0 /\ planned[d].uid \in UIDs \cup {0}
  <2>1. VirtualMachine(d)
    BY <1>0 DEF AdmissionInv, StepInv
  <2>2. QED
    BY <1>0, <1>1, <2>1 DEF Has, AdmissionInv, UIDInv
<1>3. \A a \in 1 .. Attempts : Hashed(planned[d].uid, i, a) \in Nat /\ Hashed(planned[d].uid, i, a) # 0
  BY <1>0, <1>1, <1>2, AdmissionAssumption DEF UIDs
<1>4. PICK free : free = FreeAttempts(d, i)
  OBVIOUS
<1>5. \A a : a \in free <=>
        /\ a \in 1 .. Attempts
        /\ ~\E e \in DOMAIN planned : Cluster(e) = Cluster(d) /\ \E j \in NICs(e) :
              planned[e].macs[j] = Hashed(planned[d].uid, i, a)
  <2>1. used.macs = UsedMACs(planned)
    BY <1>0, UsedIs
  <2>2. \A a : a \in free <=> a \in 1 .. Attempts /\ Hashed(planned[d].uid, i, a) \notin UsedMACs(planned)[Cluster(d)]
    BY <1>4, <2>1 DEF FreeAttempts
  <2>3. QED
    BY <1>1, <1>3, <2>2, MACsAre
<1>6. CASE planned[d].macs[i] # 0
  <2>1. Skip
    BY <1>6 DEF AllocateMAC
  <2>2. Fills(d)
    BY <1>0, <2>1, SkipFills
  <2>3. QED
    BY <1>6, <2>1, <2>2 DEF Skip
<1>7. CASE planned[d].macs[i] = 0 /\ free = {}
  <2>1. Fail("mac", i)
    BY <1>4, <1>7 DEF AllocateMAC
  <2>2. \A a \in 1 .. Attempts : \E f \in Interfaces(DOMAIN planned) :
          Cluster(f[1]) = Cluster(d) /\ MACOf(planned, f) = Hashed(planned[d].uid, i, a)
    <3> SUFFICES ASSUME NEW a \in 1 .. Attempts
                 PROVE  \E f \in Interfaces(DOMAIN planned) :
                          Cluster(f[1]) = Cluster(d) /\ MACOf(planned, f) = Hashed(planned[d].uid, i, a)
      OBVIOUS
    <3>1. PICK e \in DOMAIN planned : Cluster(e) = Cluster(d) /\ \E j \in NICs(e) :
              planned[e].macs[j] = Hashed(planned[d].uid, i, a)
      BY <1>5, <1>7
    <3>2. PICK j \in NICs(e) : planned[e].macs[j] = Hashed(planned[d].uid, i, a)
      BY <3>1
    <3>3. PICK f : f = <<e, j>>
      OBVIOUS
    <3>4. f \in Interfaces(DOMAIN planned) /\ f[1] = e /\ f[2] = j
      BY <3>2, <3>3, InterfacesAre
    <3>5. QED
      BY <3>1, <3>2, <3>4 DEF MACOf
  <2>3. Out(planned, [doc |-> d, field |-> "mac", nic |-> i])
    BY <2>2 DEF Out
  <2>4. QED
    BY <1>0, <1>1, <1>2, <2>1, <2>3, FailFills
<1>8. CASE planned[d].macs[i] = 0 /\ free # {}
  <2>1. PICK m : m = Hashed(planned[d].uid, i, Min(free))
    OBVIOUS
  <2>2. /\ planned' = WithMAC(planned, d, i, m)
        /\ used' = [used EXCEPT !.macs[Cluster(d)] = @ \cup {m}] /\ UNCHANGED errors
    BY <1>4, <1>8, <2>1 DEF AllocateMAC, WithMAC
  <2>3. m \in Nat /\ m # 0 /\ FreshMAC(planned, d, m)
    <3>1. free \in SUBSET Nat
      BY <1>4, AdmissionAssumption DEF FreeAttempts
    <3>2. PICK a : a = Min(free)
      OBVIOUS
    <3>3. a \in free
      BY <1>8, <3>1, <3>2, LeastFree
    <3>4. QED
      BY <1>3, <1>5, <2>1, <3>2, <3>3 DEF FreshMAC
  <2>4. planned[d].macs[i] = 0
    BY <1>8
  <2>5. PICK q : q = planned'
    OBVIOUS
  <2>6. /\ Filled(planned, d, q) /\ Fresh(planned, d, q)
        /\ q[d].uid = planned[d].uid /\ q[d].node = planned[d].node /\ q[d].vmid = planned[d].vmid
        /\ q[d].addresses = planned[d].addresses /\ q[d].macs[i] = m
        /\ \A j \in NICs(d) : j # i => q[d].macs[j] = planned[d].macs[j]
    BY <1>0, <1>1, <2>2, <2>3, <2>4, <2>5, FillsMAC
  <2>7. used' = InUse(q)
    <3>1. NodeOf(q, d) = NodeOf(planned, d)
      BY <2>6 DEF NodeOf
    <3>2. /\ UsedAddresses(q) = UsedAddresses(planned) /\ UsedIDs(q) = UsedIDs(planned)
          /\ UsedNodes(q) = UsedNodes(planned) /\ UsedMemory(q) = UsedMemory(planned)
      BY <2>6, <3>1, AddressesStay, IDsStay, NodesStay
    <3>3. q[d].macs[i] # 0
      BY <2>3, <2>6
    <3>4. UsedMACs(q) = [UsedMACs(planned) EXCEPT ![Cluster(d)] = @ \cup {q[d].macs[i]}]
      BY <1>0, <1>1, <2>4, <2>6, <3>3, MACsGrow
    <3>5. QED
      BY <1>0, <2>2, <2>6, <3>2, <3>4, InUseIs, UsedIs
  <2>8. Fills(d)
    BY <1>0, <2>2, <2>5, <2>6, <2>7 DEF Fills
  <2>9. QED
    BY <2>3, <2>5, <2>6, <2>8
<1>9. QED
  BY <1>6, <1>7, <1>8

LEMMA MACKeeps ==
  ASSUME AdmissionInv, AllocateMAC
  PROVE  AdmissionInv'
<1>0. /\ at = "mac" /\ todo # {} /\ nic \in NICs(Current) /\ nic' = nic + 1 /\ at' = "mac" /\ todo' = todo
  BY DEF AllocateMAC, At, GoOn
<1>1. PICK d : d = Current
  OBVIOUS
<1>2. PICK i : i = nic
  OBVIOUS
<1>3. Fills(d) /\ (planned[d].macs[i] # 0 \/ HasError(d))'
  BY <1>1, <1>2, MACFills
<1>4. d \in todo /\ Has(d) /\ d \in Document /\ i \in Nat \ {0}
  BY <1>0, <1>1, <1>2, Here
<1>5. \A e : HasError(e) => HasError(e)'
  BY <1>0, <1>3, <1>4, FillsCommon
<1>6. VirtualMachine(d)
  BY <1>0, <1>1 DEF AdmissionInv, StepInv
<1>7. /\ planned'[d].uid # 0 /\ (planned[d].node # "" \/ HasError(d))' /\ (planned[d].vmid # 0 \/ HasError(d))'
  BY <1>0, <1>3, <1>4, <1>5, <1>6 DEF Has, Fills, Filled
<1>8. \A j \in NICs(d) : /\ NIC(d, j).mode = "auto" => (planned[d].addresses[j] # 0 \/ HasError(d))'
                         /\ j < nic => (planned[d].macs[j] # 0 \/ HasError(d))'
  BY <1>0, <1>3, <1>4, <1>5 DEF Has, Fills, Filled
<1>9. \A j \in NICs(d) : j < nic' => (planned[d].macs[j] # 0 \/ HasError(d))'
  <2>1. \A j \in NICs(d) : j < nic' => j < nic \/ j = i
    BY <1>0, <1>2, <1>4, NICsAre
  <2>2. QED
    BY <1>3, <1>8, <2>1
<1>10. Has(d)'
  BY <1>0, <1>7, <1>8, <1>9 DEF Has
<1>11. nic' \in Nat \ {0}
  BY <1>0, <1>2, <1>4
<1>12. QED
  BY <1>0, <1>1, <1>3, <1>6, <1>10, <1>11, GoesOn

LEMMA TargetKeeps ==
  ASSUME AdmissionInv, TargetDone
  PROVE  AdmissionInv'
<1>0. /\ at = "mac" /\ todo # {} /\ nic \notin NICs(Current) /\ nic' = 1 /\ at' = "uid"
      /\ todo' = todo \ {Current} /\ Skip /\ UNCHANGED <<intent, targets, files, before, result>>
  BY DEF TargetDone, At
<1>1. PICK d : d = Current
  OBVIOUS
<1>2. Fills(d)
  BY <1>0, <1>1, SkipFills
<1>3. d \in todo /\ Has(d) /\ d \in Document /\ nic \in Nat \ {0}
  BY <1>0, <1>1, Here
<1>4. VirtualMachine(d)
  BY <1>0, <1>1 DEF AdmissionInv, StepInv
<1>5. \A i \in NICs(d) : i < nic
  BY <1>0, <1>1, <1>3, NICsAre
<1>6. planned' = planned /\ errors' = errors
  BY <1>0 DEF Skip
<1>7. Complete(planned, d) \/ HasError(d)
  BY <1>0, <1>3, <1>4, <1>5 DEF Has, Complete
<1>8. (Complete(planned, d) \/ HasError(d))'
  BY <1>6, <1>7 DEF HasError
<1>9. QED
  BY <1>0, <1>1, <1>2, <1>8, Finishes

-----------------------------------------------------------------------------
(* Before and after planning. *)

LEMMA InitHolds == Init => AdmissionInv
<1> SUFFICES ASSUME Init PROVE AdmissionInv
  OBVIOUS
<1> USE DEF Init
<1>1. DOMAIN intent = {} /\ planned = intent /\ before = intent /\ IsFunction(intent)
  BY DEF IsFunction
<1>2. TypeInv /\ UIDInv
  BY <1>1 DEF TypeInv, UIDInv, Steps
<1>3. StepInv /\ ValidInv /\ AllocatorIsCurrent /\ RefusalIsHonest /\ ErrorInv /\ DoneInv
  BY DEF StepInv, ValidInv, AllocatorIsCurrent, RefusalIsHonest, ErrorInv, DoneInv
<1>4. KeepInv
  BY <1>1, KeepsItself DEF KeepInv
<1>5. Apart(planned)
  BY <1>1 DEF Apart
<1>6. QED
  BY <1>2, <1>3, <1>4, <1>5 DEF AdmissionInv

\* What is on disk has the UIDs that a document can have.
LEMMA OnDisk ==
  ASSUME AdmissionInv
  PROVE  /\ \A d \in DOMAIN intent : intent[d].uid \in UIDs \cup {0}
         /\ Apart(intent) /\ (at # "idle" \/ result # "none" => Valid(intent))
<1>1. Keeps(intent, planned)
  BY DEF AdmissionInv, KeepInv
<1>2. \A d \in DOMAIN intent : intent[d].uid \in UIDs \cup {0}
  BY <1>1 DEF Keeps, AdmissionInv, UIDInv
<1>3. Apart(intent)
  BY <1>1, KeptIsApart DEF AdmissionInv
<1>4. at # "idle" \/ result # "none" => Valid(intent)
  BY <1>1, KeptIsValid DEF AdmissionInv, ValidInv
<1>5. QED
  BY <1>2, <1>3, <1>4

LEMMA EditedKeeps ==
  ASSUME AdmissionInv, Edited, DOMAIN intent' \subseteq Document, IsFunction(intent'), Apart(intent'),
         \A d \in DOMAIN intent' : intent'[d] \in Allocation(d) /\ intent'[d].uid \in UIDs \cup {0}
  PROVE  AdmissionInv'
<1>0. /\ at = "idle" /\ at' = "idle" /\ result' = "none" /\ targets' = {} /\ errors' = {}
      /\ planned' = intent' /\ before' = intent' /\ todo' = todo /\ nic' = nic /\ files' = files
  BY DEF Edited
<1>1. todo = {} /\ nic = 1 /\ files = {}
  BY <1>0 DEF AdmissionInv, StepInv
<1>2. nic' \in Nat \ {0}
  BY <1>0, <1>1, One, Zenon
<1>3. TypeInv'
  BY <1>0, <1>1, <1>2 DEF TypeInv, Steps
<1>4. UIDInv'
  BY <1>0 DEF UIDInv
<1>5. StepInv' /\ ValidInv' /\ AllocatorIsCurrent' /\ RefusalIsHonest' /\ ErrorInv' /\ DoneInv'
  BY <1>0, <1>1 DEF StepInv, ValidInv, AllocatorIsCurrent, RefusalIsHonest, ErrorInv, DoneInv
<1>6. KeepInv'
  BY <1>0, KeepsItself DEF KeepInv
<1>7. Apart(planned)'
  BY <1>0
<1>8. QED
  BY <1>3, <1>4, <1>5, <1>6, <1>7 DEF AdmissionInv

LEMMA AddKeeps ==
  ASSUME AdmissionInv, NEW d \in Document, AddDocument(d)
  PROVE  AdmissionInv'
<1>0. /\ d \notin DOMAIN intent /\ DOMAIN intent' = DOMAIN intent \cup {d} /\ Edited
      /\ intent'[d] = Declared[d].given /\ \A e \in DOMAIN intent : intent'[e] = intent[e]
  BY DEF AddDocument
<1>1. IsFunction(intent')
  BY DEF AddDocument, IsFunction
<1>2. DOMAIN intent' \subseteq Document
  BY <1>0 DEF AdmissionInv, TypeInv
<1>3. \A e \in DOMAIN intent' : intent'[e] \in Allocation(e) /\ intent'[e].uid \in UIDs \cup {0}
  <2>1. Declared[d].given \in Allocation(d) /\ Declared[d].given.uid \in UIDs
    BY IntentAssumption DEF UIDs
  <2>2. \A e \in DOMAIN intent : intent[e] \in Allocation(e) /\ intent[e].uid \in UIDs \cup {0}
    BY OnDisk DEF AdmissionInv, TypeInv
  <2>3. QED
    BY <1>0, <2>1, <2>2
<1>4. Apart(intent')
  <2>1. ~Chosen(intent', d)
    BY <1>0 DEF Chosen
  <2>2. \A e \in DOMAIN intent : Chosen(intent', e) <=> Chosen(intent, e)
    BY <1>0 DEF Chosen
  <2>3. Apart(intent)
    BY OnDisk
  <2>4. QED
    BY <1>0, <2>1, <2>2, <2>3 DEF Apart
<1>5. QED
  BY <1>0, <1>1, <1>2, <1>3, <1>4, EditedKeeps

LEMMA RemoveKeeps ==
  ASSUME AdmissionInv, NEW d \in Document, RemoveDocument(d)
  PROVE  AdmissionInv'
<1>0. /\ DOMAIN intent' = DOMAIN intent \ {d} /\ Edited /\ \A e \in DOMAIN intent' : intent'[e] = intent[e]
  BY DEF RemoveDocument
<1>1. IsFunction(intent')
  BY DEF RemoveDocument, IsFunction
<1>2. DOMAIN intent' \subseteq Document
  BY <1>0 DEF AdmissionInv, TypeInv
<1>3. \A e \in DOMAIN intent' : intent'[e] \in Allocation(e) /\ intent'[e].uid \in UIDs \cup {0}
  BY <1>0, OnDisk DEF AdmissionInv, TypeInv
<1>4. Apart(intent')
  <2>1. \A e \in DOMAIN intent' : Chosen(intent', e) <=> Chosen(intent, e)
    BY <1>0 DEF Chosen
  <2>2. Apart(intent)
    BY OnDisk
  <2>3. QED
    BY <1>0, <2>1, <2>2 DEF Apart
<1>5. QED
  BY <1>0, <1>1, <1>2, <1>3, <1>4, EditedKeeps

LEMMA AdmitKeeps ==
  ASSUME AdmissionInv, Admit
  PROVE  AdmissionInv'
<1>0. /\ at = "idle" /\ Valid(intent) /\ todo' = targets' /\ at' = "uid" /\ nic' = 1
      /\ planned' = intent /\ before' = intent /\ used' = InUse(intent) /\ errors' = {} /\ result' = "none"
      /\ intent' = intent /\ files' = files
  BY DEF Admit
<1>1. targets' \subseteq DOMAIN intent
  BY DEF Admit
<1>2. files = {}
  BY <1>0 DEF AdmissionInv, StepInv
<1>3. nic' \in Nat \ {0}
  BY <1>0, One, Zenon
<1>4. TypeInv'
  BY <1>0, <1>1, <1>2, <1>3 DEF AdmissionInv, TypeInv, Steps
<1>5. UIDInv'
  BY <1>0, OnDisk DEF UIDInv
<1>6. StepInv' /\ ValidInv' /\ AllocatorIsCurrent' /\ RefusalIsHonest' /\ ErrorInv'
  BY <1>0, <1>2 DEF StepInv, ValidInv, AllocatorIsCurrent, RefusalIsHonest, ErrorInv
<1>7. DoneInv'
  BY <1>0 DEF DoneInv, Has
<1>8. KeepInv'
  BY <1>0, KeepsItself DEF KeepInv
<1>9. Apart(planned)'
  BY <1>0, OnDisk
<1>10. QED
  BY <1>4, <1>5, <1>6, <1>7, <1>8, <1>9 DEF AdmissionInv

\* What concerns neither the step nor the disk stays.
LEMMA PlanStays ==
  ASSUME AdmissionInv, UNCHANGED <<planned, errors, targets, todo>>, todo = {}
  PROVE  UIDInv' /\ Apart(planned)' /\ RefusalIsHonest' /\ ErrorInv' /\ DoneInv'
<1>1. UIDInv' /\ Apart(planned)' /\ ErrorInv'
  BY DEF AdmissionInv, UIDInv, ErrorInv
<1>2. RefusalIsHonest'
  BY ExhaustedIs DEF AdmissionInv, RefusalIsHonest
<1>3. DoneInv'
  <2>1. \A d \in targets : Complete(planned, d) \/ HasError(d)
    BY DEF AdmissionInv, DoneInv
  <2>2. QED
    BY <2>1 DEF DoneInv, HasError
<1>4. QED
  BY <1>1, <1>2, <1>3

LEMMA EndKeeps ==
  ASSUME AdmissionInv, at # "idle", todo = {}, UNCHANGED intent,
         NEW r \in {"refused", "dry run", "write failed", "written"}, End(r),
         r \in {"refused", "dry run"} => at = "uid",
         r = "written" => at = "write" /\ files = {}
  PROVE  AdmissionInv'
<1>0. /\ at' = "idle" /\ result' = r /\ nic' = 1 /\ files' = {}
      /\ UNCHANGED <<targets, todo, planned, errors, before>>
  BY DEF End
<1>1. nic' \in Nat \ {0}
  BY <1>0, One, Zenon
<1>2. TypeInv'
  BY <1>0, <1>1 DEF AdmissionInv, TypeInv, Steps
<1>3. r = "written" => intent = planned /\ errors = {}
  BY DEF AdmissionInv, StepInv, TypeInv, IsFunction
<1>4. StepInv'
  BY <1>0, <1>3 DEF AdmissionInv, StepInv
<1>5. ValidInv' /\ KeepInv' /\ AllocatorIsCurrent'
  BY <1>0 DEF AdmissionInv, ValidInv, KeepInv, AllocatorIsCurrent
<1>6. QED
  BY <1>0, <1>2, <1>4, <1>5, PlanStays DEF AdmissionInv

LEMMA ApplyKeeps ==
  ASSUME AdmissionInv, Apply
  PROVE  AdmissionInv'
<1>0. /\ at = "uid" /\ todo = {} /\ errors = {} /\ at' = "write"
      /\ files' = {File[d] : d \in {e \in DOMAIN intent : planned[e] # intent[e]}}
      /\ UNCHANGED <<intent, targets, todo, nic, planned, used, errors, before, result>>
  BY DEF Apply, Planned
<1>1. TypeInv'
  BY <1>0 DEF AdmissionInv, TypeInv, Steps
<1>2. \A d \in DOMAIN intent : intent[d] = planned[d] \/ File[d] \in files'
  BY <1>0
<1>3. StepInv'
  BY <1>0, <1>2 DEF AdmissionInv, StepInv
<1>4. ValidInv' /\ KeepInv' /\ AllocatorIsCurrent'
  BY <1>0 DEF AdmissionInv, ValidInv, KeepInv, AllocatorIsCurrent
<1>5. QED
  BY <1>0, <1>1, <1>3, <1>4, PlanStays DEF AdmissionInv

LEMMA WriteKeeps ==
  ASSUME AdmissionInv, NEW f \in files, WriteFile(f)
  PROVE  AdmissionInv'
<1>0. /\ at = "write" /\ files' = files \ {f}
      /\ UNCHANGED <<at, targets, todo, nic, planned, used, errors, before, result>>
      /\ DOMAIN intent' = DOMAIN intent
      /\ \A d \in DOMAIN intent : intent'[d] = IF File[d] = f THEN planned[d] ELSE intent[d]
  BY DEF WriteFile
<1>1. todo = {}
  BY <1>0 DEF AdmissionInv, StepInv
<1>2. IsFunction(intent')
  BY DEF WriteFile, IsFunction
<1>3. TypeInv'
  BY <1>0, <1>2 DEF AdmissionInv, TypeInv
<1>4. \A d \in DOMAIN intent' : intent'[d] = planned[d] \/ File[d] \in files'
  BY <1>0 DEF AdmissionInv, StepInv
<1>5. StepInv'
  BY <1>0, <1>4 DEF AdmissionInv, StepInv
<1>6. Keeps(intent, intent') /\ Keeps(intent', planned)
  <2>1. PICK q : q = intent'
    OBVIOUS
  <2>2. Keeps(intent, planned)
    BY DEF AdmissionInv, KeepInv
  <2>3. DOMAIN q = DOMAIN intent /\ \A d \in DOMAIN intent : q[d] = intent[d] \/ q[d] = planned[d]
    BY <1>0, <2>1
  <2>4. Keeps(intent, q)
    BY <2>2, <2>3 DEF Keeps
  <2>5. Keeps(q, planned)
    BY <2>2, <2>3 DEF Keeps
  <2>6. QED
    BY <2>1, <2>4, <2>5
<1>7. KeepInv'
  BY <1>0, <1>6, KeepsOn DEF AdmissionInv, KeepInv
<1>8. ValidInv' /\ AllocatorIsCurrent'
  BY <1>0 DEF AdmissionInv, ValidInv, AllocatorIsCurrent
<1>9. QED
  BY <1>0, <1>1, <1>3, <1>5, <1>7, <1>8, PlanStays DEF AdmissionInv

LEMMA StutterKeeps ==
  ASSUME AdmissionInv, UNCHANGED vars
  PROVE  AdmissionInv'
<1>0. UNCHANGED <<intent, at, targets, todo, nic, planned, used, errors, files, before, result>>
  BY DEF vars
<1>1. TypeInv' /\ UIDInv' /\ KeepInv' /\ ValidInv' /\ AllocatorIsCurrent' /\ Apart(planned)' /\ ErrorInv'
  BY <1>0 DEF AdmissionInv, TypeInv, UIDInv, KeepInv, ValidInv, AllocatorIsCurrent, ErrorInv
<1>2. Current' = Current
  BY <1>0 DEF Current
<1>3. StepInv'
  BY <1>0, <1>2 DEF AdmissionInv, StepInv
<1>4. RefusalIsHonest'
  BY <1>0, ExhaustedIs DEF AdmissionInv, RefusalIsHonest
<1>5. DoneInv'
  BY <1>0, <1>2 DEF AdmissionInv, DoneInv, Has, HasError
<1>6. QED
  BY <1>1, <1>3, <1>4, <1>5 DEF AdmissionInv

LEMMA NextKeeps == AdmissionInv /\ [Next]_vars => AdmissionInv'
<1> SUFFICES ASSUME AdmissionInv, [Next]_vars PROVE AdmissionInv'
  OBVIOUS
<1>1. ASSUME NEW d \in Document, AddDocument(d) \/ RemoveDocument(d) PROVE AdmissionInv'
  BY <1>1, AddKeeps, RemoveKeeps
<1>2. CASE Admit
  BY <1>2, AdmitKeeps
<1>3. CASE AssignUID \/ BeginTemplate
  BY <1>3, UIDKeeps, TemplateKeeps
<1>4. CASE KeepNode \/ PinNode \/ ChooseNode \/ NoNode
  BY <1>4, KeepNodeKeeps, PinNodeKeeps, ChooseNodeKeeps, NoNodeKeeps
<1>5. CASE AllocateVMID
  BY <1>5, VMIDKeeps
<1>6. CASE AllocateAddress \/ AddressesDone
  BY <1>6, AddressKeeps, AddressesDoneKeeps
<1>7. CASE AllocateMAC \/ TargetDone
  BY <1>7, MACKeeps, TargetKeeps
<1>8. CASE Refuse
  BY <1>8, EndKeeps DEF Refuse, Planned
<1>9. CASE DryRun
  BY <1>9, EndKeeps DEF DryRun, Planned
<1>10. CASE Apply
  BY <1>10, ApplyKeeps
<1>11. ASSUME NEW f \in files, WriteFile(f) PROVE AdmissionInv'
  BY <1>11, WriteKeeps
<1>12. ASSUME at = "write" PROVE todo = {}
  BY <1>12 DEF AdmissionInv, StepInv
<1>13. CASE WriteFails
  BY <1>12, <1>13, EndKeeps DEF WriteFails
<1>14. CASE Written
  BY <1>12, <1>14, EndKeeps DEF Written
<1>15. CASE UNCHANGED vars
  BY <1>15, StutterKeeps
<1>16. QED
  BY <1>1, <1>2, <1>3, <1>4, <1>5, <1>6, <1>7, <1>8, <1>9, <1>10, <1>11, <1>13, <1>14, <1>15 DEF Next

-----------------------------------------------------------------------------
(* The theorems. *)

\* The inductive invariant: whatever the author edits between admissions and
\* wherever a write fails, what is planned is valid and keeps what was set,
\* every guest is apart from those it must be apart from, the allocator misses
\* no value, every error is about a value that cannot be had, and every target
\* that is done is complete or has an error.
THEOREM AdmissionInvariant == Spec => []AdmissionInv
  BY InitHolds, NextKeeps, PTL DEF Spec

\* Every variable has its type and the allocator holds exactly the values in
\* use, the memory of every node included.
THEOREM AllocatorMissesNothing == Spec => []TypeOK
<1>1. AdmissionInv => TypeOK
  BY DEF AdmissionInv, TypeInv, TypeOK
<1>2. QED
  BY <1>1, AdmissionInvariant, PTL

\* What is on disk stays valid after every write, also if a later one fails.
THEOREM ValidOnDisk == Spec => []DiskStaysValid
<1>1. AdmissionInv => DiskStaysValid
  BY OnDisk DEF DiskStaysValid
<1>2. QED
  BY <1>1, AdmissionInvariant, PTL

\* No two guests that admission placed and that must be apart share a node, in
\* whichever order they were admitted and whichever of them says so.
THEOREM PlacedApart == Spec => []SeparatedApart
<1>1. ASSUME AdmissionInv PROVE SeparatedApart
  <2>1. Apart(intent)
    BY <1>1, OnDisk
  <2>2. QED
    BY <2>1 DEF Apart, Chosen, SeparatedApart
<1>2. QED
  BY <1>1, AdmissionInvariant, PTL

\* Admission reports only values that cannot be had, and they still cannot
\* when it is done with the other targets.
THEOREM HonestRefusal == Spec => []RefusalIsHonest
<1>1. AdmissionInv => RefusalIsHonest
  BY DEF AdmissionInv
<1>2. QED
  BY <1>1, AdmissionInvariant, PTL

\* Admission that wrote leaves every target complete, one that refused or was
\* a dry run leaves the disk as it was, and none changes a value that was set.
THEOREM AllOrNothing == Spec => []AdmitOutcome
<1>1. ASSUME AdmissionInv PROVE AdmitOutcome
  <2>1. ASSUME result = "written", NEW d \in targets PROVE Complete(intent, d)
    <3>1. at = "idle" /\ todo = {} /\ errors = {} /\ intent = planned
      BY <1>1, <2>1 DEF AdmissionInv, StepInv
    <3>2. Complete(planned, d)
      BY <1>1, <3>1 DEF AdmissionInv, DoneInv, HasError
    <3>3. QED
      BY <3>1, <3>2
  <2>2. result \in {"refused", "dry run"} => intent = before
    BY <1>1 DEF AdmissionInv, StepInv
  <2>3. Keeps(before, intent)
    BY <1>1 DEF AdmissionInv, KeepInv
  <2>4. QED
    BY <2>1, <2>2, <2>3 DEF AdmitOutcome
<1>2. QED
  BY <1>1, AdmissionInvariant, PTL
==============================================================================
