--------------------------- MODULE FileSyncProofs ---------------------------
(***************************************************************************)
(* Proofs about synchronization and compilation.                           *)
(*                                                                         *)
(* What people took over is kept by every function that writes: by the     *)
(* one that writes an attribute, an item, a block and the managed block,   *)
(* which also keep the items it is in in their order.                      *)
(*                                                                         *)
(* A document and a block are in step when the block says what the         *)
(* document does, or holds what intent cannot say or people took over,     *)
(* and when whatever the block has beyond the document stays there.        *)
(* Writing the document into such a block changes nothing, and reading     *)
(* the block gives the document back.  Compiling leaves the files in       *)
(* step, unless two disks of the block say one interface, and so does a    *)
(* synchronization whose check of the round trip goes through.  The block  *)
(* that a synchronization wrote is then read with an intent that took      *)
(* over only some of what was written.  A value is lost only where the     *)
(* block holds one that intent cannot say, whatever intent it is read      *)
(* with, so that reading finds a document that is in step with the block   *)
(* as well, and nothing that intent does not say already.                  *)
(***************************************************************************)
EXTENDS FileSync, FiniteSetTheorems, SequenceTheorems, TLAPS

-----------------------------------------------------------------------------
(* The numbers of a set in their order. *)

Rank(S, i) == Cardinality({k \in S : k <= i})

\* A number that is larger has the larger rank.
LEMMA RankGrows ==
  ASSUME NEW S \in SUBSET Nat, IsFiniteSet(S)
  PROVE  /\ Cardinality(S) \in Nat
         /\ \A i \in S : Rank(S, i) \in 1 .. Cardinality(S)
         /\ \A i, j \in S : i < j => Rank(S, i) < Rank(S, j)
<1>1. Cardinality(S) \in Nat
  BY FS_CardinalityType
<1>2. ASSUME NEW i \in S
      PROVE  /\ IsFiniteSet({k \in S : k <= i}) /\ Rank(S, i) \in Nat
             /\ Rank(S, i) \in 1 .. Cardinality(S)
  <2>1. {k \in S : k <= i} \in SUBSET S
    OBVIOUS
  <2>2. IsFiniteSet({k \in S : k <= i}) /\ Rank(S, i) <= Cardinality(S)
    BY <2>1, FS_Subset DEF Rank
  <2>3. Rank(S, i) \in Nat
    BY <2>2, FS_CardinalityType DEF Rank
  <2>4. i \in {k \in S : k <= i}
    OBVIOUS
  <2>5. Rank(S, i) # 0
    BY <2>2, <2>4, FS_EmptySet DEF Rank
  <2> QED
    BY <1>1, <2>2, <2>3, <2>5
<1>3. ASSUME NEW i \in S, NEW j \in S, i < j
      PROVE  Rank(S, i) < Rank(S, j)
  <2> DEFINE I == {k \in S : k <= i}
             J == {k \in S : k <= j}
  <2>1. I \in SUBSET J /\ j \in J /\ j \notin I
    <3>1. i \in Nat /\ j \in Nat /\ \A k \in S : k \in Nat
      OBVIOUS
    <3>2. j \in J /\ j \notin I
      BY <1>3, <3>1
    <3>3. \A k \in S : k <= i => k <= j
      BY <1>3, <3>1
    <3> QED
      BY <3>2, <3>3
  <2>2. Cardinality(I) <= Cardinality(J) /\ Cardinality(I) # Cardinality(J)
    BY <1>2, <2>1, FS_Subset
  <2> QED
    BY <1>2, <2>2 DEF Rank
<1> QED
  BY <1>1, <1>2, <1>3

\* A function that grows and meets every number of the set enumerates it.
LEMMA Enumeration ==
  ASSUME NEW S \in SUBSET Nat, NEW n \in Nat, NEW f \in [1 .. n -> S],
         \A i, j \in 1 .. n : i < j => f[i] < f[j],
         \A s \in S : \E i \in 1 .. n : f[i] = s
  PROVE  IsFiniteSet(S) /\ Cardinality(S) = n /\ InOrder(S) = f
<1>1. \A i, j \in 1 .. n : f[i] = f[j] => i = j
  <2> SUFFICES ASSUME NEW i \in 1 .. n, NEW j \in 1 .. n, f[i] = f[j], i # j PROVE FALSE
    OBVIOUS
  <2>1. f[i] \in S /\ f[j] \in S /\ i \in Nat /\ j \in Nat
    OBVIOUS
  <2>2. i < j \/ j < i
    BY <2>1
  <2>3. f[i] < f[j] \/ f[j] < f[i]
    BY <2>2
  <2>4. \A s \in S : s \in Nat /\ ~ s < s
    OBVIOUS
  <2>5. f[j] < f[j]
    BY <2>3
  <2> QED
    BY <2>1, <2>4, <2>5
<1>2. f \in Bijection(1 .. n, S)
  BY <1>1 DEF Bijection, Injection, Surjection, IsInjective
<1>3. IsFiniteSet(1 .. n) /\ Cardinality(1 .. n) = n
  BY FS_Interval
<1>4. IsFiniteSet(S) /\ Cardinality(S) = n
  BY <1>2, <1>3, FS_Bijection DEF ExistsBijection
<1>5. ASSUME NEW j \in 1 .. n PROVE Rank(S, f[j]) = j
  <2> DEFINE T == {k \in S : k <= f[j]}
             g == [i \in 1 .. j |-> f[i]]
  <2>1. \A i \in 1 .. n : f[i] \in Nat
    OBVIOUS
  <2>2. \A i \in 1 .. n : f[i] <= f[j] => i <= j
    <3> SUFFICES ASSUME NEW i \in 1 .. n, f[i] <= f[j], j < i PROVE FALSE
      OBVIOUS
    <3>1. f[j] < f[i]
      OBVIOUS
    <3> QED
      BY <2>1, <3>1
  <2>3. \A i \in 1 .. j : i \in 1 .. n /\ f[i] <= f[j]
    <3> SUFFICES ASSUME NEW i \in 1 .. j PROVE i \in 1 .. n /\ f[i] <= f[j]
      OBVIOUS
    <3>1. i \in 1 .. n /\ (i < j \/ i = j)
      OBVIOUS
    <3> QED
      BY <2>1, <3>1
  <2>4. g \in [1 .. j -> T]
    BY <2>3
  <2>5. \A s \in T : \E i \in 1 .. j : g[i] = s
    <3> SUFFICES ASSUME NEW s \in T PROVE \E i \in 1 .. j : g[i] = s
      OBVIOUS
    <3>1. PICK i \in 1 .. n : f[i] = s
      OBVIOUS
    <3>2. i <= j
      BY <2>2, <3>1
    <3>3. i \in 1 .. j /\ g[i] = s
      BY <3>1, <3>2
    <3> QED
      BY <3>3
  <2>6. g \in Bijection(1 .. j, T)
    BY <1>1, <2>3, <2>4, <2>5 DEF Bijection, Injection, Surjection, IsInjective
  <2>7. IsFiniteSet(1 .. j) /\ Cardinality(1 .. j) = j
    BY FS_Interval
  <2>8. Cardinality(T) = j
    BY <2>6, <2>7, FS_Bijection DEF ExistsBijection
  <2> QED
    BY <2>8 DEF Rank
<1>6. ASSUME NEW j \in 1 .. n PROVE InOrder(S)[j] = f[j]
  <2>1. InOrder(S)[j] = CHOOSE i \in S : Rank(S, i) = j
    BY <1>4 DEF InOrder, Rank
  <2>2. ASSUME NEW i \in S, Rank(S, i) = j PROVE i = f[j]
    <3>1. PICK k \in 1 .. n : f[k] = i
      OBVIOUS
    <3>2. Rank(S, i) = k
      BY <1>5, <3>1
    <3> QED
      BY <2>2, <3>1, <3>2
  <2> QED
    BY <1>5, <2>1, <2>2
<1>7. InOrder(S) = [j \in 1 .. n |-> InOrder(S)[j]]
  BY <1>4 DEF InOrder
<1> QED
  BY <1>4, <1>6, <1>7

\* Every finite set of numbers is enumerated.
LEMMA Enumerated ==
  ASSUME NEW S \in SUBSET Nat, IsFiniteSet(S)
  PROVE  /\ Cardinality(S) \in Nat /\ InOrder(S) \in [1 .. Cardinality(S) -> S]
         /\ \A i, j \in 1 .. Cardinality(S) : i < j => InOrder(S)[i] < InOrder(S)[j]
         /\ \A s \in S : \E i \in 1 .. Cardinality(S) : InOrder(S)[i] = s
<1> DEFINE n == Cardinality(S)
           r == [i \in S |-> Rank(S, i)]
<1>1. n \in Nat /\ (\A i \in S : Rank(S, i) \in 1 .. n)
      /\ (\A i, j \in S : i < j => Rank(S, i) < Rank(S, j))
  BY RankGrows
<1>2. \A i, j \in S : Rank(S, i) = Rank(S, j) => i = j
  <2> SUFFICES ASSUME NEW i \in S, NEW j \in S, Rank(S, i) = Rank(S, j), i # j PROVE FALSE
    OBVIOUS
  <2>1. i \in Nat /\ j \in Nat /\ Rank(S, i) \in Nat
    BY <1>1
  <2>2. i < j \/ j < i
    BY <2>1
  <2> QED
    BY <1>1, <2>1, <2>2
<1>3. r \in Injection(S, 1 .. n)
  BY <1>1, <1>2 DEF Injection, IsInjective
<1>4. IsFiniteSet(1 .. n) /\ Cardinality(1 .. n) = n
  BY <1>1, FS_Interval
<1>5. r \in Surjection(S, 1 .. n)
  BY <1>3, <1>4, FS_Injection
<1>6. \A j \in 1 .. n : \E i \in S : Rank(S, i) = j
  BY <1>5 DEF Surjection
<1>7. ASSUME NEW j \in 1 .. n
      PROVE  InOrder(S)[j] \in S /\ Rank(S, InOrder(S)[j]) = j
  <2>1. InOrder(S)[j] = CHOOSE i \in S : Rank(S, i) = j
    BY DEF InOrder, Rank
  <2> QED
    BY <1>6, <2>1
<1>8. InOrder(S) \in [1 .. n -> S]
  <2> DEFINE e(j) == CHOOSE i \in S : Cardinality({k \in S : k <= i}) = j
  <2>1. InOrder(S) = [j \in 1 .. n |-> e(j)]
    BY DEF InOrder
  <2> HIDE DEF e
  <2>2. \A j \in 1 .. n : e(j) \in S
    BY <1>7, <2>1
  <2> QED
    BY <2>1, <2>2
<1>9. ASSUME NEW i \in 1 .. n, NEW j \in 1 .. n, i < j
      PROVE  InOrder(S)[i] < InOrder(S)[j]
  <2>1. InOrder(S)[i] \in Nat /\ InOrder(S)[j] \in Nat
    BY <1>7
  <2>2. InOrder(S)[i] # InOrder(S)[j]
    BY <1>7, <1>9
  <2>3. ~ InOrder(S)[j] < InOrder(S)[i]
    <3>1. InOrder(S)[i] \in S /\ InOrder(S)[j] \in S
      BY <1>7
    <3>2. InOrder(S)[j] < InOrder(S)[i] => j < i
      BY <1>1, <1>7, <3>1
    <3> QED
      BY <1>9, <3>2
  <2> QED
    BY <2>1, <2>2, <2>3
<1>10. ASSUME NEW s \in S PROVE \E i \in 1 .. n : InOrder(S)[i] = s
  BY <1>1, <1>2, <1>7
<1> QED
  BY <1>1, <1>8, <1>9, <1>10

\* The order of a set carries over to its image under what grows.
LEMMA ImageInOrder ==
  ASSUME NEW S \in SUBSET Nat, IsFiniteSet(S), NEW T \in SUBSET Nat, NEW p \in [S -> T],
         \A i, j \in S : i < j => p[i] < p[j],
         \A t \in T : \E s \in S : p[s] = t
  PROVE  /\ IsFiniteSet(T) /\ Cardinality(T) = Cardinality(S) /\ Cardinality(S) \in Nat
         /\ \A j \in 1 .. Cardinality(S) : InOrder(S)[j] \in S /\ InOrder(T)[j] = p[InOrder(S)[j]]
<1> DEFINE n == Cardinality(S)
           f == [j \in 1 .. n |-> p[InOrder(S)[j]]]
<1>1. /\ n \in Nat /\ (\A j \in 1 .. n : InOrder(S)[j] \in S)
      /\ \A i, j \in 1 .. n : i < j => InOrder(S)[i] < InOrder(S)[j]
      /\ \A s \in S : \E i \in 1 .. n : InOrder(S)[i] = s
  BY Enumerated
<1>2. f \in [1 .. n -> T] /\ \A i, j \in 1 .. n : i < j => f[i] < f[j]
  BY <1>1
<1>3. \A t \in T : \E i \in 1 .. n : f[i] = t
  BY <1>1
<1> HIDE DEF n
<1>4. IsFiniteSet(T) /\ Cardinality(T) = n /\ InOrder(T) = f
  BY <1>1, <1>2, <1>3, Enumeration
<1> QED
  BY <1>1, <1>4 DEF n

-----------------------------------------------------------------------------
(* Lists: what the blocks of a document and of the code hold. *)

IsList(s) == Len(s) \in Nat /\ s = [i \in 1 .. Len(s) |-> s[i]]

LEMMA Listed ==
  ASSUME NEW n \in Nat, NEW s, s = [i \in 1 .. n |-> s[i]]
  PROVE  IsList(s) /\ Len(s) = n /\ DOMAIN s = 1 .. n /\ s \in Seq({s[i] : i \in 1 .. n})
<1> DEFINE S == {s[i] : i \in 1 .. n}
<1>1. s \in [1 .. n -> S]
  OBVIOUS
<1>2. s \in Seq(S)
  BY <1>1, SeqDef
<1>3. Len(s) = n /\ DOMAIN s = 1 .. n
  BY <1>1, <1>2, LenProperties
<1> QED
  BY <1>2, <1>3 DEF IsList

LEMMA ListDomain ==
  ASSUME NEW s, IsList(s)
  PROVE  DOMAIN s = 1 .. Len(s)
BY DEF IsList

LEMMA Joined ==
  ASSUME NEW s, NEW t, IsList(s), IsList(t)
  PROVE  /\ IsList(s \o t) /\ Len(s \o t) = Len(s) + Len(t)
         /\ \A i \in 1 .. Len(s) : (s \o t)[i] = s[i]
         /\ \A i \in 1 .. Len(s) + Len(t) : i > Len(s) => (s \o t)[i] = t[i - Len(s)]
<1> DEFINE S == {s[i] : i \in 1 .. Len(s)}
           T == {t[i] : i \in 1 .. Len(t)}
           u == s \o t
<1>1. s \in Seq(S) /\ t \in Seq(T) /\ Len(s) \in Nat /\ Len(t) \in Nat
  BY Listed DEF IsList
<1> HIDE DEF S, T
<1>2. s \in Seq(S \cup T) /\ t \in Seq(S \cup T)
  BY <1>1, SeqMonotonic
<1>3. /\ u \in Seq(S \cup T) /\ Len(u) = Len(s) + Len(t)
      /\ \A i \in 1 .. Len(s) + Len(t) : u[i] = IF i <= Len(s) THEN s[i] ELSE t[i - Len(s)]
  BY <1>2, ConcatProperties
<1>4. u \in [1 .. Len(u) -> S \cup T]
  BY <1>3, LenProperties
<1> HIDE DEF u
<1>5. IsList(u)
  BY <1>1, <1>3, <1>4 DEF IsList
<1> QED
  BY <1>1, <1>3, <1>5 DEF u

LEMMA Longer ==
  ASSUME NEW s, IsList(s), NEW e
  PROVE  /\ IsList(Append(s, e)) /\ Len(Append(s, e)) = Len(s) + 1
         /\ \A i \in 1 .. Len(s) : Append(s, e)[i] = s[i]
         /\ Append(s, e)[Len(s) + 1] = e
<1> DEFINE S == {s[i] : i \in 1 .. Len(s)} \cup {e}
           u == Append(s, e)
<1>1. s \in Seq(S) /\ Len(s) \in Nat /\ e \in S
  BY Listed, SeqMonotonic DEF IsList
<1> HIDE DEF S
<1>2. /\ u \in Seq(S) /\ Len(u) = Len(s) + 1
      /\ \A i \in 1 .. Len(s) : u[i] = s[i]
      /\ u[Len(s) + 1] = e
  BY <1>1, AppendProperties
<1>3. u \in [1 .. Len(u) -> S]
  BY <1>2, LenProperties
<1> HIDE DEF u
<1>4. IsList(u)
  BY <1>1, <1>2, <1>3 DEF IsList
<1> QED
  BY <1>2, <1>4 DEF u

LEMMA Shorter ==
  ASSUME NEW s, IsList(s), s # <<>>
  PROVE  /\ IsList(Front(s)) /\ Len(s) > 0 /\ Len(Front(s)) = Len(s) - 1
         /\ \A i \in 1 .. Len(s) - 1 : Front(s)[i] = s[i]
<1> DEFINE S == {s[i] : i \in 1 .. Len(s)}
           u == SubSeq(s, 1, Len(s) - 1)
<1>1. s \in Seq(S) /\ Len(s) \in Nat
  BY Listed DEF IsList
<1> HIDE DEF S
<1>2. Len(s) \in Nat \ {0}
  BY <1>1, EmptySeq
<1>3. 1 \in Int /\ Len(s) - 1 \in Int /\ \A i \in 1 .. Len(s) - 1 : s[i] \in S
  <2>1. s \in [1 .. Len(s) -> S]
    BY <1>1, LenProperties
  <2> QED
    BY <1>2, <2>1
<1>4. /\ u \in Seq(S)
      /\ Len(u) = IF 1 <= Len(s) - 1 THEN (Len(s) - 1) - 1 + 1 ELSE 0
      /\ \A i \in 1 .. (Len(s) - 1) - 1 + 1 : u[i] = s[1 + i - 1]
  BY <1>3, SubSeqProperties
<1>5. u \in [1 .. Len(u) -> S] /\ Len(u) \in Nat
  BY <1>4, LenProperties
<1> HIDE DEF u
<1>6. IsList(u) /\ Len(u) = Len(s) - 1 /\ \A i \in 1 .. Len(s) - 1 : u[i] = s[i]
  <2>1. Len(u) = Len(s) - 1 /\ (Len(s) - 1) - 1 + 1 = Len(s) - 1
    <3> DEFINE n == Len(s)
               m == Len(u)
    <3>1. n \in Nat \ {0} /\ m = IF 1 <= n - 1 THEN (n - 1) - 1 + 1 ELSE 0
      BY <1>2, <1>4
    <3> HIDE DEF n, m
    <3>2. n \in Nat /\ n # 0
      BY <3>1
    <3>3. m = n - 1 /\ (n - 1) - 1 + 1 = n - 1
      BY <3>1, <3>2
    <3> QED
      BY <3>3 DEF n, m
  <2>2. \A i \in 1 .. Len(s) - 1 : u[i] = s[i]
    <3> SUFFICES ASSUME NEW i \in 1 .. Len(s) - 1 PROVE u[i] = s[i]
      OBVIOUS
    <3>1. i \in 1 .. (Len(s) - 1) - 1 + 1 /\ 1 + i - 1 = i
      BY <2>1
    <3> QED
      BY <1>4, <3>1
  <2> QED
    BY <1>5, <2>1, <2>2 DEF IsList
<1> QED
  BY <1>2, <1>6 DEF u, Front

-----------------------------------------------------------------------------
(* The schema. *)

LEMMA Schema ==
  /\ Block = {"vm", "cpu", "clone", "disk"}
  /\ Attributes["vm"] = {"name", "protection", "bios", "started"} /\ Attributes["cpu"] = {"cores"}
  /\ Attributes["clone"] = {"vm_id", "node_name"} /\ Attributes["disk"] = {"interface", "size", "ssd"}
  /\ Said("vm") = {"name", "protection", "bios", "started"} /\ Said("cpu") = {"cores"}
  /\ Said("clone") = {"vm_id"} /\ Said("disk") = {"size", "ssd"}
  /\ \A b \in Block : Said(b) \subseteq Attributes[b]
BY DEF Block, Attributes, Said

LEMMA ZeroIs ==
  /\ Zero("bios") = "" /\ Zero("vm_id") = 0 /\ Zero("interface") = 0 /\ Zero("size") = 0
  /\ Zero("started") = None /\ Zero("node_name") = "" /\ Zero("ssd") = "false"
BY DEF Zero

-----------------------------------------------------------------------------
(* Documents and managed blocks. *)

Kinds == {"absent", "null", "expression", "invalid", "literal", "pinned"}

IsCell(a, cell) ==
  /\ cell = Cell(cell.kind, cell.value) /\ cell.kind \in Kinds
  /\ cell.kind = "literal" /\ a # "interface" => cell.value # None

IsItem(b, item) ==
  /\ item = [attrs |-> [a \in Attributes[b] |-> item.attrs[a]], extra |-> item.extra]
  /\ item.extra \in BOOLEAN
  /\ \A a \in Attributes[b] : IsCell(a, item.attrs[a])

IsCode(c) ==
  /\ c = [meta |-> c.meta, marker |-> c.marker, label |-> c.label, dynamic |-> c.dynamic,
          blocks |-> [b \in Block |-> c.blocks[b]]]
  /\ c.meta \in BOOLEAN
  /\ \A b \in Block : IsList(c.blocks[b])
  /\ \A b \in Block : \A i \in 1 .. Len(c.blocks[b]) : IsItem(b, c.blocks[b][i])

FilesInv == IsDocument(intent) /\ IsCode(code)

\* What a document holds, one item at a time.
LEMMA DocumentIs ==
  ASSUME NEW m, IsDocument(m)
  PROVE  /\ \A b \in Block : IsList(m[b]) /\ DOMAIN m[b] = 1 .. Len(m[b]) /\ Len(m[b]) \in Nat
         /\ Len(m["vm"]) = 1 /\ Len(m["cpu"]) = 1 /\ Len(m["clone"]) \in {0, 1}
         /\ \A b \in Block : \A i \in 1 .. Len(m[b]) :
              /\ m[b][i] = [a \in Said(b) |-> m[b][i][a]]
              /\ \A a \in Said(b) : Sayable(a, m[b][i][a])
<1>1. ASSUME NEW b \in Block
      PROVE  /\ Len(m[b]) \in Nat
             /\ m[b] = [i \in 1 .. Len(m[b]) |-> [a \in Said(b) |-> m[b][i][a]]]
  BY DEF IsDocument
<1>2. ASSUME NEW b \in Block
      PROVE  m[b] = [i \in 1 .. Len(m[b]) |-> m[b][i]]
  BY <1>1
<1>3. Len(m["vm"]) = 1 /\ Len(m["cpu"]) = 1 /\ Len(m["clone"]) <= 1
  BY DEF IsDocument
<1>4. Len(m["clone"]) \in {0, 1}
  <2>1. Len(m["clone"]) \in Nat
    BY <1>1, Schema
  <2>2. \A n \in Nat : n <= 1 => n \in {0, 1}
    OBVIOUS
  <2> QED
    BY <1>3, <2>1, <2>2
<1>5. ASSUME NEW b \in Block, NEW i \in 1 .. Len(m[b])
      PROVE  m[b][i] = [a \in Said(b) |-> m[b][i][a]]
  BY <1>1
<1>6. \A b \in Block : IsList(m[b]) /\ DOMAIN m[b] = 1 .. Len(m[b])
  BY <1>1, <1>2, ListDomain DEF IsList
<1>7. \A b \in Block : \A i \in 1 .. Len(m[b]) : \A a \in Said(b) : Sayable(a, m[b][i][a])
  BY DEF IsDocument
<1> QED
  BY <1>1, <1>3, <1>4, <1>5, <1>6, <1>7

LEMMA CodeIs ==
  ASSUME NEW c, IsCode(c)
  PROVE  /\ c.meta \in BOOLEAN
         /\ \A b \in Block : /\ IsList(c.blocks[b]) /\ DOMAIN c.blocks[b] = 1 .. Len(c.blocks[b])
                             /\ Len(c.blocks[b]) \in Nat
         /\ \A b \in Block : \A i \in 1 .. Len(c.blocks[b]) : IsItem(b, c.blocks[b][i])
         /\ \A b \in Block : \A i \in 1 .. Len(c.blocks[b]) : \A a \in Attributes[b] :
              IsCell(a, c.blocks[b][i].attrs[a])
<1>1. \A b \in Block : IsList(c.blocks[b])
  BY DEF IsCode
<1>2. \A b \in Block : Len(c.blocks[b]) \in Nat
  BY <1>1 DEF IsList
<1>3. \A b \in Block : DOMAIN c.blocks[b] = 1 .. Len(c.blocks[b])
  BY <1>1, ListDomain
<1>4. \A b \in Block : \A i \in 1 .. Len(c.blocks[b]) : IsItem(b, c.blocks[b][i])
  BY DEF IsCode
<1>5. \A b \in Block : \A i \in 1 .. Len(c.blocks[b]) : \A a \in Attributes[b] :
        IsCell(a, c.blocks[b][i].attrs[a])
  BY <1>4 DEF IsItem
<1>6. c.meta \in BOOLEAN
  BY DEF IsCode
<1> QED
  BY <1>1, <1>2, <1>3, <1>4, <1>5, <1>6

\* What a document has to say in code.
LEMMA ProjectIs ==
  ASSUME NEW m, IsDocument(m)
  PROVE  \A b \in Block :
           /\ IsList(Project(m)[b]) /\ Len(Project(m)[b]) = Len(m[b])
           /\ DOMAIN Project(m)[b] = 1 .. Len(m[b])
           /\ \A i \in 1 .. Len(m[b]) : \A a \in Attributes[b] :
                Project(m)[b][i][a] = ToCode(m[b][i], a, i)
<1> SUFFICES ASSUME NEW b \in Block
             PROVE  /\ IsList(Project(m)[b]) /\ Len(Project(m)[b]) = Len(m[b])
                    /\ DOMAIN Project(m)[b] = 1 .. Len(m[b])
                    /\ \A i \in 1 .. Len(m[b]) : \A a \in Attributes[b] :
                         Project(m)[b][i][a] = ToCode(m[b][i], a, i)
  OBVIOUS
<1> DEFINE n == Len(m[b])
<1>1. n \in Nat /\ DOMAIN m[b] = 1 .. n
  BY DocumentIs
<1>2. Project(m)[b] = [i \in 1 .. n |-> [a \in Attributes[b] |-> ToCode(m[b][i], a, i)]]
  BY <1>1 DEF Project
<1>3. \A i \in 1 .. n : \A a \in Attributes[b] : Project(m)[b][i][a] = ToCode(m[b][i], a, i)
  BY <1>2
<1>4. Project(m)[b] = [i \in 1 .. n |-> Project(m)[b][i]]
  BY <1>2
<1> QED
  BY <1>1, <1>3, <1>4, Listed

-----------------------------------------------------------------------------
(* Writing one attribute. *)

\* What people took over stays, and nothing else looks like it.
LEMMA CellStays ==
  ASSUME NEW b \in Block, NEW a \in Attributes[b], NEW cell, IsCell(a, cell), NEW want
  PROVE  LET w == PutCell(a, cell, want)
         IN  /\ CodeOwned(a, cell) /\ cell.kind # "null" => w = cell
             /\ CodeOwned(a, w) /\ w.kind # "null" => w = cell
BY DEF PutCell, CodeOwned, IsCell, Kinds, Literal, Absent, Cell, Optional

LEMMA CellWritten ==
  ASSUME NEW b \in Block, NEW a \in Attributes[b], NEW cell, IsCell(a, cell), NEW want,
         a \notin {"interface", "started"} => want # None
  PROVE  IsCell(a, PutCell(a, cell, want))
BY ZeroIs DEF PutCell, IsCell, Kinds, Literal, Absent, Cell, Optional

\* Writing an attribute again changes nothing.
LEMMA CellSettles ==
  ASSUME NEW b \in Block, NEW a \in Attributes[b], NEW cell, IsCell(a, cell), NEW want
  PROVE  PutCell(a, PutCell(a, cell, want), want) = PutCell(a, cell, want)
<1> DEFINE present == a \notin Optional \/ want # Zero(a)
<1>1. CASE cell.kind \in {"expression", "pinned", "invalid"}
  BY <1>1 DEF PutCell
<1>2. CASE present /\ cell.kind \in {"literal", "null"}
  BY <1>2 DEF PutCell, Literal, Cell
<1>3. CASE present /\ cell.kind = "absent"
  BY <1>3 DEF PutCell, Literal, Cell
<1>4. CASE ~present /\ cell.kind \in {"absent", "null"}
  BY <1>4 DEF PutCell
<1>5. CASE ~present /\ cell.kind = "literal"
  BY <1>5 DEF PutCell, Literal, Absent, Cell
<1> QED
  BY <1>1, <1>2, <1>3, <1>4, <1>5 DEF IsCell, Kinds

\* So does writing what nodr would render.
LEMMA NewSettles ==
  ASSUME NEW b \in Block, NEW a \in Attributes[b], NEW want
  PROVE  LET cell == New(b, want).attrs[a]
         IN  PutCell(a, cell, want[a]) = cell
BY DEF New, PutCell, Literal, Absent, Cell

LEMMA NewIs ==
  ASSUME NEW b \in Block, NEW want,
         \A a \in Attributes[b] : a \notin {"interface", "started"} => want[a] # None
  PROVE  /\ IsItem(b, New(b, want)) /\ New(b, want).extra = FALSE
         /\ \A a \in Attributes[b] : ~ (CodeOwned(a, New(b, want).attrs[a]) /\ New(b, want).attrs[a].kind # "null")
<1>1. /\ New(b, want).extra = FALSE
      /\ New(b, want) = [attrs |-> [a \in Attributes[b] |-> New(b, want).attrs[a]], extra |-> FALSE]
      /\ \A a \in Attributes[b] : New(b, want).attrs[a] =
           IF a \in Optional /\ want[a] = Zero(a) THEN Absent ELSE Literal(want[a])
  BY DEF New
<1>2. ASSUME NEW a \in Attributes[b]
      PROVE  /\ IsCell(a, New(b, want).attrs[a])
             /\ ~ (CodeOwned(a, New(b, want).attrs[a]) /\ New(b, want).attrs[a].kind # "null")
  <2> DEFINE cell == New(b, want).attrs[a]
  <2> SUFFICES IsCell(a, cell) /\ ~ (CodeOwned(a, cell) /\ cell.kind # "null")
    OBVIOUS
  <2>1. cell = IF a \in Optional /\ want[a] = Zero(a) THEN Absent ELSE Literal(want[a])
    BY <1>1
  <2> HIDE DEF cell
  <2>2. CASE a \in Optional /\ want[a] = Zero(a)
    BY <2>1, <2>2 DEF IsCell, CodeOwned, Absent, Cell, Kinds
  <2>3. CASE ~ (a \in Optional /\ want[a] = Zero(a))
    <3>1. cell = Literal(want[a])
      BY <2>1, <2>3
    <3>2. a # "interface" => want[a] # None
      BY <2>3, ZeroIs DEF Optional
    <3> QED
      BY <3>1, <3>2 DEF IsCell, CodeOwned, Literal, Cell, Kinds
  <2> QED
    BY <2>2, <2>3
<1> QED
  BY <1>1, <1>2 DEF IsItem

\* Intent leaves nothing open in the code but the power state.
LEMMA WantSaid ==
  ASSUME NEW m, IsDocument(m), NEW b \in Block, NEW i \in 1 .. Len(m[b])
  PROVE  \A a \in Attributes[b] : a \notin {"interface", "started"} => Project(m)[b][i][a] # None
<1> SUFFICES ASSUME NEW a \in Attributes[b], a \notin {"interface", "started"}
             PROVE  Project(m)[b][i][a] # None
  OBVIOUS
<1>1. Project(m)[b][i][a] = ToCode(m[b][i], a, i)
  BY ProjectIs
<1>2. a \in Said(b) => Sayable(a, m[b][i][a])
  BY DocumentIs
<1>3. /\ a \in {"name", "protection", "bios", "cores", "vm_id", "size", "ssd", "node_name"}
      /\ a # "node_name" => a \in Said(b)
  BY Schema
<1>4. CASE a = "protection"
  BY <1>1, <1>4, FileSyncAssumption DEF ToCode
<1>5. CASE a = "vm_id"
  BY <1>1, <1>2, <1>3, <1>5, FileSyncAssumption DEF ToCode, Sayable
<1>6. CASE a \in {"name", "bios", "cores", "size", "ssd"}
  BY <1>1, <1>2, <1>3, <1>6 DEF ToCode, Sayable
<1>7. CASE a = "node_name"
  BY <1>1, <1>7, FileSyncAssumption DEF ToCode
<1> QED
  BY <1>3, <1>4, <1>5, <1>6, <1>7

LEMMA NewOfIntent ==
  ASSUME NEW m, IsDocument(m), NEW b \in Block, NEW i \in 1 .. Len(m[b])
  PROVE  LET new == New(b, Project(m)[b][i])
         IN  /\ IsItem(b, new) /\ new.extra = FALSE
             /\ \A a \in Attributes[b] : ~ (CodeOwned(a, new.attrs[a]) /\ new.attrs[a].kind # "null")
<1> DEFINE want == Project(m)[b][i]
<1>1. \A a \in Attributes[b] : a \notin {"interface", "started"} => want[a] # None
  BY WantSaid
<1> HIDE DEF want
<1>2. /\ IsItem(b, New(b, want)) /\ New(b, want).extra = FALSE
      /\ \A a \in Attributes[b] :
           ~ (CodeOwned(a, New(b, want).attrs[a]) /\ New(b, want).attrs[a].kind # "null")
  BY <1>1, NewIs
<1> QED
  BY <1>2 DEF want

-----------------------------------------------------------------------------
(* Writing a block. *)

LEMMA PutItemIs ==
  ASSUME NEW b \in Block, NEW item, IsItem(b, item), NEW i, NEW want, NEW keep,
         \A a \in Attributes[b] : a \notin {"interface", "started"} => want[a] # None
  PROVE  LET new == PutItem(b, i, item, want, keep)
         IN  /\ IsItem(b, new) /\ new.extra = item.extra
             /\ \A a \in Attributes[b] :
                  new.attrs[a] = IF <<b, i, a>> \in keep THEN item.attrs[a]
                                 ELSE PutCell(a, item.attrs[a], want[a])
<1> DEFINE cell(a) == IF <<b, i, a>> \in keep THEN item.attrs[a] ELSE PutCell(a, item.attrs[a], want[a])
           new == PutItem(b, i, item, want, keep)
<1>1. new = [attrs |-> [a \in Attributes[b] |-> cell(a)], extra |-> item.extra]
  <2> DEFINE X == [a \in Attributes[b] |-> cell(a)]
  <2>1. new = [item EXCEPT !.attrs = X]
    BY DEF PutItem
  <2> HIDE DEF X
  <2>2. item = [attrs |-> [a \in Attributes[b] |-> item.attrs[a]], extra |-> item.extra]
    BY DEF IsItem
  <2>3. [item EXCEPT !.attrs = X] = [attrs |-> X, extra |-> item.extra]
    BY <2>2
  <2> QED
    BY <2>1, <2>3 DEF X
<1>2. ASSUME NEW a \in Attributes[b] PROVE IsCell(a, cell(a))
  <2>1. IsCell(a, item.attrs[a])
    BY DEF IsItem
  <2>2. a \notin {"interface", "started"} => want[a] # None
    OBVIOUS
  <2> QED
    BY <2>1, <2>2, CellWritten
<1> HIDE DEF cell, new
<1>3. new.extra = item.extra /\ \A a \in Attributes[b] : new.attrs[a] = cell(a)
  BY <1>1
<1>4. new = [attrs |-> [a \in Attributes[b] |-> new.attrs[a]], extra |-> new.extra]
  BY <1>1
<1>5. IsItem(b, new)
  BY <1>2, <1>3, <1>4 DEF IsItem
<1> QED
  BY <1>3, <1>5 DEF new, cell

\* The items that stay, what becomes of each, and how many are added.
Remaining(c, m, keep, b) == (1 .. Len(c.blocks[b])) \ Surplus(c, Project(m), keep, b)

Rewritten(c, m, keep, b, i) ==
  IF i \in 1 .. Len(m[b]) THEN PutItem(b, i, c.blocks[b][i], Project(m)[b][i], keep)
  ELSE c.blocks[b][i]

Missing(c, m, b) ==
  IF Len(m[b]) > Len(c.blocks[b]) THEN Len(m[b]) - Len(c.blocks[b]) ELSE 0

LEMMA SurplusIs ==
  ASSUME NEW c, IsCode(c), NEW m, IsDocument(m), NEW keep, NEW b \in Block
  PROVE  /\ Opaque(c, b) => Surplus(c, Project(m), keep, b) = {}
         /\ ~Opaque(c, b) => Surplus(c, Project(m), keep, b) =
              {i \in 1 .. Len(c.blocks[b]) : i > Len(m[b]) /\ ~Kept(b, i, keep)}
BY CodeIs, ProjectIs DEF Surplus

LEMMA RemainingIs ==
  ASSUME NEW c, IsCode(c), NEW m, IsDocument(m), NEW keep, NEW b \in Block
  PROVE  LET R == Remaining(c, m, keep, b)
             K == Cardinality(R)
         IN  /\ R \in SUBSET Nat /\ R \in SUBSET (1 .. Len(c.blocks[b])) /\ IsFiniteSet(R)
             /\ K \in Nat /\ K <= Len(c.blocks[b])
             /\ InOrder(R) \in [1 .. K -> R]
             /\ \A i, j \in 1 .. K : i < j => InOrder(R)[i] < InOrder(R)[j]
             /\ \A i \in R : \E j \in 1 .. K : InOrder(R)[j] = i
<1> DEFINE N == Len(c.blocks[b])
           R == Remaining(c, m, keep, b)
<1>1. N \in Nat
  BY CodeIs
<1>2. R \in SUBSET (1 .. N)
  BY DEF Remaining
<1>3. IsFiniteSet(1 .. N) /\ Cardinality(1 .. N) = N
  BY <1>1, FS_Interval
<1> HIDE DEF N, R
<1>4. IsFiniteSet(R) /\ Cardinality(R) <= N
  BY <1>2, <1>3, FS_Subset
<1>5. R \in SUBSET Nat
  BY <1>1, <1>2
<1> QED
  BY <1>2, <1>4, <1>5, Enumerated DEF N, R

LEMMA PutBlockIs ==
  ASSUME NEW c, IsCode(c), NEW m, IsDocument(m), NEW keep, NEW b \in Block, ~Opaque(c, b)
  PROVE  LET R == Remaining(c, m, keep, b)
             K == Cardinality(R)
             N == Len(c.blocks[b])
             new == PutBlock(c, Project(m), keep, b)
         IN  /\ IsList(new) /\ Len(new) = K + Missing(c, m, b)
             /\ \A j \in 1 .. K : new[j] = Rewritten(c, m, keep, b, InOrder(R)[j])
             /\ \A j \in 1 .. K + Missing(c, m, b) : j > K =>
                  /\ N + (j - K) \in 1 .. Len(m[b])
                  /\ new[j] = New(b, Project(m)[b][N + (j - K)])
<1> DEFINE R == Remaining(c, m, keep, b)
           K == Cardinality(R)
           N == Len(c.blocks[b])
           n == Len(m[b])
           k == Missing(c, m, b)
           old == [j \in 1 .. K |-> Rewritten(c, m, keep, b, InOrder(R)[j])]
           add == [j \in 1 .. k |-> New(b, Project(m)[b][N + j])]
           new == PutBlock(c, Project(m), keep, b)
<1>1. N \in Nat /\ n \in Nat
  BY CodeIs, DocumentIs
<1>2. k \in Nat /\ 1 .. k = 1 .. n - N /\ (k > 0 => N + k = n)
  <2>1. k = IF n > N THEN n - N ELSE 0
    BY DEF Missing
  <2> HIDE DEF k, n, N
  <2>2. CASE n > N
    BY <1>1, <2>1, <2>2
  <2>3. CASE ~ n > N
    BY <1>1, <2>1, <2>3
  <2> QED
    BY <2>2, <2>3
<1>3. K \in Nat /\ InOrder(R) \in [1 .. K -> R]
  BY RemainingIs
<1>4. new = old \o add
  <2>1. DOMAIN InOrder(R) = 1 .. K
    BY <1>3
  <2>2. DOMAIN c.blocks[b] = 1 .. N /\ DOMAIN Project(m)[b] = 1 .. n /\ Len(Project(m)[b]) = n
    BY CodeIs, ProjectIs
  <2>3. new = [j \in DOMAIN InOrder(R) |-> Rewritten(c, m, keep, b, InOrder(R)[j])]
              \o [j \in 1 .. n - N |-> New(b, Project(m)[b][N + j])]
    BY <2>2 DEF PutBlock, Remaining, Rewritten
  <2> QED
    BY <1>2, <2>1, <2>3
<1> HIDE DEF new, K, k, N, n, R
<1>5. IsList(old) /\ Len(old) = K /\ IsList(add) /\ Len(add) = k
  <2>1. old = [j \in 1 .. K |-> old[j]] /\ add = [j \in 1 .. k |-> add[j]]
    OBVIOUS
  <2> QED
    BY <1>2, <1>3, <2>1, Listed
<1>6. /\ IsList(new) /\ Len(new) = K + k
      /\ \A j \in 1 .. K : new[j] = old[j]
      /\ \A j \in 1 .. K + k : j > K => new[j] = add[j - K]
  <2> HIDE DEF old, add
  <2>1. /\ IsList(old \o add) /\ Len(old \o add) = Len(old) + Len(add)
        /\ \A i \in 1 .. Len(old) : (old \o add)[i] = old[i]
        /\ \A i \in 1 .. Len(old) + Len(add) : i > Len(old) => (old \o add)[i] = add[i - Len(old)]
    BY <1>5, Joined
  <2> QED
    BY <1>4, <1>5, <2>1
<1>7. ASSUME NEW j \in 1 .. K + k, j > K
      PROVE  N + (j - K) \in 1 .. n /\ new[j] = New(b, Project(m)[b][N + (j - K)])
  <2>1. j - K \in 1 .. k
    BY <1>2, <1>3, <1>7
  <2>2. new[j] = New(b, Project(m)[b][N + (j - K)])
    BY <1>6, <1>7, <2>1
  <2>3. N + (j - K) \in 1 .. n
    BY <1>1, <1>2, <2>1
  <2> QED
    BY <2>2, <2>3
<1>8. \A j \in 1 .. K : new[j] = Rewritten(c, m, keep, b, InOrder(R)[j])
  BY <1>6
<1> QED
  BY <1>6, <1>7, <1>8 DEF new, K, k, N, n, R

\* What becomes of an item: x is the item i of the block b after it was
\* written.
After(c, m, keep, b, i, x) ==
  LET y == c.blocks[b][i]
  IN  /\ IsItem(b, x) /\ x.extra = y.extra
      /\ i \notin 1 .. Len(m[b]) => x = y
      /\ i \in 1 .. Len(m[b]) =>
           \A a \in Attributes[b] :
             x.attrs[a] = IF <<b, i, a>> \in keep THEN y.attrs[a]
                          ELSE PutCell(a, y.attrs[a], Project(m)[b][i][a])

LEMMA RewrittenIs ==
  ASSUME NEW c, IsCode(c), NEW m, IsDocument(m), NEW keep, NEW b \in Block,
         NEW i \in 1 .. Len(c.blocks[b])
  PROVE  After(c, m, keep, b, i, Rewritten(c, m, keep, b, i))
<1>1. IsItem(b, c.blocks[b][i])
  BY CodeIs
<1>2. CASE i \notin 1 .. Len(m[b])
  <2>1. Rewritten(c, m, keep, b, i) = c.blocks[b][i]
    BY <1>2 DEF Rewritten
  <2> QED
    BY <1>1, <1>2, <2>1 DEF After
<1>3. CASE i \in 1 .. Len(m[b])
  <2> DEFINE y == c.blocks[b][i]
             want == Project(m)[b][i]
             x == PutItem(b, i, y, want, keep)
  <2>1. \A a \in Attributes[b] : a \notin {"interface", "started"} => want[a] # None
    BY <1>3, WantSaid
  <2>2. Rewritten(c, m, keep, b, i) = x
    BY <1>3 DEF Rewritten
  <2>3. IsItem(b, y)
    BY <1>1
  <2> HIDE DEF y, want
  <2>4. /\ IsItem(b, x) /\ x.extra = y.extra
        /\ \A a \in Attributes[b] :
             x.attrs[a] = IF <<b, i, a>> \in keep THEN y.attrs[a] ELSE PutCell(a, y.attrs[a], want[a])
    BY <2>1, <2>3, PutItemIs
  <2> HIDE DEF x
  <2> QED
    BY <1>3, <2>2, <2>4 DEF After, y, want
<1> QED
  BY <1>2, <1>3

LEMMA EmptyList ==
  ASSUME NEW s, IsList(s)
  PROVE  s = <<>> <=> Len(s) = 0
<1>1. s \in Seq({s[i] : i \in 1 .. Len(s)})
  BY Listed DEF IsList
<1> QED
  BY <1>1, EmptySeq

LEMMA OpaqueIs ==
  ASSUME NEW c, IsCode(c), NEW b \in Block
  PROVE  /\ Opaque(c, b) \in BOOLEAN
         /\ Opaque(c, b) <=> \/ c.meta \/ b \in c.dynamic
                             \/ b \in {"vm", "cpu"} /\ Len(c.blocks[b]) # 1
                             \/ b = "clone" /\ Len(c.blocks[b]) > 1
<1> DEFINE s == c.blocks[b]
           n == Len(s)
<1>1. n \in Nat /\ (s = <<>> <=> n = 0)
  BY CodeIs, EmptyList
<1>2. Opaque(c, b) <=> \/ c.meta \/ b \in c.dynamic
                       \/ b \notin Repeated /\ n > 1
                       \/ b \notin Repeated \cup OptionalBlock /\ s = <<>>
  BY DEF Opaque
<1>3. Opaque(c, b) \in BOOLEAN
  BY DEF Opaque
<1> HIDE DEF n, s
<1>4. \A k \in Nat : k # 1 <=> k > 1 \/ k = 0
  OBVIOUS
<1>5. n # 1 <=> n > 1 \/ n = 0
  BY <1>1, <1>4
<1>6. b \in {"vm", "cpu", "clone", "disk"}
  BY Schema
<1>7. CASE b \in {"vm", "cpu"}
  BY <1>1, <1>2, <1>3, <1>5, <1>7 DEF Repeated, OptionalBlock, n, s
<1>8. CASE b = "clone"
  BY <1>1, <1>2, <1>3, <1>5, <1>8 DEF Repeated, OptionalBlock, n, s
<1>9. CASE b = "disk"
  BY <1>1, <1>2, <1>3, <1>5, <1>9 DEF Repeated, OptionalBlock, n, s
<1> QED
  BY <1>6, <1>7, <1>8, <1>9

\* Writing keeps the shape of the block, and what is the code's as a whole.
LEMMA PutBlockList ==
  ASSUME NEW c, IsCode(c), NEW m, IsDocument(m), NEW keep, NEW b \in Block
  PROVE  LET new == PutBlock(c, Project(m), keep, b)
         IN  /\ IsList(new) /\ \A j \in 1 .. Len(new) : IsItem(b, new[j])
             /\ Opaque(c, b) => new = c.blocks[b]
             /\ ~Opaque(c, b) => /\ b \in {"vm", "cpu"} => Len(new) = 1
                                 /\ b = "clone" => Len(new) <= 1
<1> DEFINE new == PutBlock(c, Project(m), keep, b)
           R == Remaining(c, m, keep, b)
           K == Cardinality(R)
           N == Len(c.blocks[b])
           n == Len(m[b])
           k == Missing(c, m, b)
<1>1. CASE Opaque(c, b)
  <2>1. new = c.blocks[b]
    BY <1>1 DEF PutBlock
  <2> QED
    BY <1>1, <2>1, CodeIs
<1>2. CASE ~Opaque(c, b)
  <2>1. /\ IsList(new) /\ Len(new) = K + k
        /\ \A j \in 1 .. K : new[j] = Rewritten(c, m, keep, b, InOrder(R)[j])
        /\ \A j \in 1 .. K + k : j > K =>
             N + (j - K) \in 1 .. n /\ new[j] = New(b, Project(m)[b][N + (j - K)])
    BY <1>2, PutBlockIs
  <2>2. /\ K \in Nat /\ K <= N /\ InOrder(R) \in [1 .. K -> R] /\ R \in SUBSET (1 .. N)
        /\ N \in Nat /\ n \in Nat
    BY RemainingIs, CodeIs, DocumentIs
  <2>3. ASSUME NEW j \in 1 .. K PROVE IsItem(b, new[j])
    <3>1. InOrder(R)[j] \in 1 .. N
      BY <2>2
    <3>2. IsItem(b, Rewritten(c, m, keep, b, InOrder(R)[j]))
      BY <3>1, RewrittenIs DEF After
    <3> QED
      BY <2>1, <3>2
  <2>4. ASSUME NEW j \in 1 .. K + k, j > K PROVE IsItem(b, new[j])
    <3>1. N + (j - K) \in 1 .. n /\ new[j] = New(b, Project(m)[b][N + (j - K)])
      BY <2>1, <2>4
    <3> QED
      BY <3>1, NewOfIntent
  <2>5. k = IF n > N THEN n - N ELSE 0
    BY DEF Missing
  <2>6. \A j \in 1 .. Len(new) : IsItem(b, new[j])
    <3> HIDE DEF K, k, new
    <3> SUFFICES ASSUME NEW j \in 1 .. K + k PROVE IsItem(b, new[j])
      BY <2>1
    <3>1. k \in Nat
      BY <2>2, <2>5
    <3>2. j \in 1 .. K \/ j > K
      BY <2>2, <3>1
    <3> QED
      BY <2>3, <2>4, <3>2
  <2>7. b \in {"vm", "cpu"} => Len(new) = 1
    <3> SUFFICES ASSUME b \in {"vm", "cpu"} PROVE Len(new) = 1
      OBVIOUS
    <3>1. N = 1 /\ n = 1
      BY <1>2, OpaqueIs, DocumentIs
    <3>2. Surplus(c, Project(m), keep, b) = {}
      BY <1>2, <3>1, SurplusIs
    <3>3. R = 1 .. 1
      BY <3>1, <3>2 DEF Remaining
    <3>4. K = 1
      <4>1. Cardinality(1 .. 1) = 1
        BY FS_Singleton, 1 .. 1 = {1}
      <4> HIDE DEF R
      <4> QED
        BY <3>3, <4>1
    <3> HIDE DEF K, k, N, n, new
    <3> QED
      BY <2>1, <2>5, <3>1, <3>4
  <2>8. b = "clone" => Len(new) <= 1
    <3> SUFFICES ASSUME b = "clone" PROVE Len(new) <= 1
      OBVIOUS
    <3>1. ~ N > 1 /\ n <= 1
      <4>1. ~ N > 1
        BY <1>2, OpaqueIs
      <4>2. n \in {0, 1}
        BY DocumentIs
      <4> HIDE DEF n
      <4>3. n <= 1
        BY <4>2
      <4> QED
        BY <4>1, <4>3
    <3> HIDE DEF K, k, N, n, new
    <3> QED
      BY <2>1, <2>2, <2>5, <3>1
  <2> QED
    BY <1>2, <2>1, <2>6, <2>7, <2>8
<1> QED
  BY <1>1, <1>2

LEMMA PutIs ==
  ASSUME NEW c, IsCode(c), NEW m, IsDocument(m)
  PROVE  LET d == Put(m, c)
         IN  /\ d.meta = c.meta /\ d.marker = c.marker /\ d.label = c.label /\ d.dynamic = c.dynamic
             /\ \A b \in Block : d.blocks[b] = PutBlock(c, Project(m), Read(m, c).keep, b)
             /\ IsCode(d)
             /\ \A b \in Block : /\ Opaque(d, b) <=> Opaque(c, b)
                                 /\ Opaque(c, b) => d.blocks[b] = c.blocks[b]
<1> DEFINE d == Put(m, c)
           keep == Read(m, c).keep
           X == [b \in Block |-> PutBlock(c, Project(m), keep, b)]
<1>1. d = [c EXCEPT !.blocks = X]
  BY DEF Put
<1>2. c = [meta |-> c.meta, marker |-> c.marker, label |-> c.label, dynamic |-> c.dynamic,
           blocks |-> [b \in Block |-> c.blocks[b]]]
  BY DEF IsCode
<1> HIDE DEF X, d
<1>3. d = [meta |-> c.meta, marker |-> c.marker, label |-> c.label, dynamic |-> c.dynamic, blocks |-> X]
  BY <1>1, <1>2
<1>4. \A b \in Block : X[b] = PutBlock(c, Project(m), keep, b)
  BY DEF X
<1>5. X = [b \in Block |-> X[b]]
  BY DEF X
<1> HIDE DEF keep
<1>6. /\ d.meta = c.meta /\ d.marker = c.marker /\ d.label = c.label /\ d.dynamic = c.dynamic
      /\ d.blocks = X
  BY <1>3
<1>7. ASSUME NEW b \in Block
      PROVE  /\ IsList(X[b]) /\ \A j \in 1 .. Len(X[b]) : IsItem(b, X[b][j])
             /\ Opaque(c, b) => X[b] = c.blocks[b]
             /\ ~Opaque(c, b) => /\ b \in {"vm", "cpu"} => Len(X[b]) = 1
                                 /\ b = "clone" => Len(X[b]) <= 1
  BY <1>4, PutBlockList
<1>8. IsCode(d)
  <2>1. d = [meta |-> d.meta, marker |-> d.marker, label |-> d.label, dynamic |-> d.dynamic,
             blocks |-> [b \in Block |-> d.blocks[b]]]
    BY <1>3, <1>5, <1>6
  <2>2. d.meta \in BOOLEAN
    BY <1>6 DEF IsCode
  <2> QED
    BY <1>6, <1>7, <2>1, <2>2 DEF IsCode
<1>9. ASSUME NEW b \in Block PROVE Opaque(d, b) <=> Opaque(c, b)
  <2>1. CASE Opaque(c, b)
    <3>1. d.blocks[b] = c.blocks[b]
      BY <1>6, <1>7, <2>1
    <3> QED
      BY <1>6, <1>8, <2>1, <3>1, OpaqueIs
  <2>2. CASE ~Opaque(c, b)
    <3>1. Len(d.blocks[b]) \in Nat
      BY <1>8, CodeIs
    <3>2. /\ b \in {"vm", "cpu"} => Len(d.blocks[b]) = 1
          /\ b = "clone" => ~ Len(d.blocks[b]) > 1
      BY <1>6, <1>7, <2>2, <3>1
    <3>3. ~ c.meta /\ b \notin c.dynamic
      BY <2>2, OpaqueIs
    <3>4. ~ d.meta /\ b \notin d.dynamic
      BY <1>6, <3>3
    <3> QED
      BY <1>8, <2>2, <3>2, <3>4, OpaqueIs
  <2> QED
    BY <2>1, <2>2
<1> QED
  BY <1>4, <1>6, <1>7, <1>8, <1>9 DEF d, keep

-----------------------------------------------------------------------------
(* Reading a block: what intent and code say at one place. *)

Base(m, b, i, a) == IF i \in 1 .. Len(m[b]) THEN ToCode(m[b][i], a, i) ELSE Zero(a)

Heard(m, c, b, i, a) == ReadCell(a, c.blocks[b][i].attrs[a], Base(m, b, i, a))

ChangedAt(m, c, b, i, a) == i \in 1 .. Len(m[b]) => Base(m, b, i, a) # Heard(m, c, b, i, a)

LostAt(m, c, b, i, a) == ChangedAt(m, c, b, i, a) /\ ToIntent(a, i, Heard(m, c, b, i, a)) = {}

StaysAt(m, c, b, i) ==
  \E k \in 1 .. Len(c.blocks[b]) : \E a \in Attributes[b] :
    k <= i /\ LostAt(m, c, b, k, a) /\ (IF b = "clone" THEN a = "vm_id" ELSE k \notin 1 .. Len(m[b]))

LEMMA PlacesIs ==
  ASSUME NEW view
  PROVE  /\ \A b, i, a : <<b, i, a>> \in Places(view) <=>
                          b \in Block /\ i \in DOMAIN view[b] /\ a \in Attributes[b]
         /\ \A p \in Places(view) :
              /\ p = <<p[1], p[2], p[3]>>
              /\ p[1] \in Block /\ p[2] \in DOMAIN view[p[1]] /\ p[3] \in Attributes[p[1]]
<1> DEFINE of(b) == {<<b, i, a>> : i \in DOMAIN view[b], a \in Attributes[b]}
<1>1. Places(view) = UNION {of(b) : b \in Block}
  BY DEF Places
<1>2. ASSUME NEW p \in Places(view)
      PROVE  \E b \in Block : \E i \in DOMAIN view[b] : \E a \in Attributes[b] : p = <<b, i, a>>
  <2>1. PICK b \in Block : p \in of(b)
    BY <1>1
  <2> QED
    BY <2>1
<1>3. ASSUME NEW b \in Block, NEW i \in DOMAIN view[b], NEW a \in Attributes[b]
      PROVE  <<b, i, a>> \in Places(view)
  <2>1. <<b, i, a>> \in of(b)
    OBVIOUS
  <2> HIDE DEF of
  <2> QED
    BY <1>1, <2>1
<1>4. ASSUME NEW p \in Places(view)
      PROVE  /\ p = <<p[1], p[2], p[3]>>
             /\ p[1] \in Block /\ p[2] \in DOMAIN view[p[1]] /\ p[3] \in Attributes[p[1]]
  <2>1. PICK b \in Block : \E i \in DOMAIN view[b] : \E a \in Attributes[b] : p = <<b, i, a>>
    BY <1>2
  <2>2. PICK i \in DOMAIN view[b] : \E a \in Attributes[b] : p = <<b, i, a>>
    BY <2>1
  <2> QED
    BY <2>2
<1>5. ASSUME NEW b, NEW i, NEW a, <<b, i, a>> \in Places(view)
      PROVE  b \in Block /\ i \in DOMAIN view[b] /\ a \in Attributes[b]
  <2> DEFINE p == <<b, i, a>>
  <2>1. p[1] \in Block /\ p[2] \in DOMAIN view[p[1]] /\ p[3] \in Attributes[p[1]]
    BY <1>4, <1>5
  <2> QED
    BY <2>1
<1> QED
  BY <1>3, <1>4, <1>5

\* What is read from one attribute.
LEMMA ReadCellIs ==
  ASSUME NEW a, NEW cell, NEW base
  PROVE  /\ CodeOwned(a, cell) => ReadCell(a, cell, base) = base
         /\ ~CodeOwned(a, cell) => ReadCell(a, cell, base) =
                                    IF cell.kind = "literal" THEN cell.value ELSE Zero(a)
<1> DEFINE own == CodeOwned(a, cell)
           lit == cell.kind = "literal"
<1>1. ReadCell(a, cell, base) = CASE own -> base [] lit -> cell.value [] OTHER -> Zero(a)
  BY DEF ReadCell
<1>2. own \in BOOLEAN /\ lit \in BOOLEAN
  BY DEF CodeOwned
<1>3. lit => ~own
  BY DEF CodeOwned
<1> HIDE DEF own, lit
<1>4. CASE own
  BY <1>1, <1>3, <1>4 DEF own, lit
<1>5. CASE ~own
  BY <1>1, <1>5 DEF own, lit
<1> QED
  BY <1>4, <1>5 DEF own, lit

LEMMA LiftIs ==
  ASSUME NEW m, IsDocument(m), NEW c, IsCode(c), NEW b \in Block
  PROVE  LET lifted == Lift(c, Project(m))
         IN  /\ Opaque(c, b) => lifted[b] = Project(m)[b]
             /\ ~Opaque(c, b) =>
                  /\ DOMAIN lifted[b] = 1 .. Len(c.blocks[b])
                  /\ \A i \in 1 .. Len(c.blocks[b]) : \A a \in Attributes[b] :
                       lifted[b][i][a] = Heard(m, c, b, i, a)
<1> DEFINE base == Project(m)
           old(i) == IF i \in DOMAIN base[b] THEN base[b][i] ELSE Item(b)
           N == Len(c.blocks[b])
<1>1. Lift(c, base)[b] = IF Opaque(c, b) THEN base[b]
                         ELSE [i \in DOMAIN c.blocks[b] |->
                                 [a \in Attributes[b] |-> ReadCell(a, c.blocks[b][i].attrs[a], old(i)[a])]]
  BY DEF Lift
<1>2. DOMAIN c.blocks[b] = 1 .. N
  BY CodeIs
<1>3. ASSUME NEW i \in 1 .. N, NEW a \in Attributes[b]
      PROVE  old(i)[a] = Base(m, b, i, a)
  <2>1. DOMAIN base[b] = 1 .. Len(m[b])
    BY ProjectIs
  <2>2. CASE i \in 1 .. Len(m[b])
    <3>1. base[b][i][a] = ToCode(m[b][i], a, i)
      BY <2>2, ProjectIs
    <3> HIDE DEF base
    <3> QED
      BY <2>1, <2>2, <3>1 DEF Base
  <2>3. CASE i \notin 1 .. Len(m[b])
    <3> HIDE DEF base
    <3> QED
      BY <2>1, <2>3 DEF Base, Item
  <2> QED
    BY <2>2, <2>3
<1> HIDE DEF base, old, N
<1>4. CASE ~Opaque(c, b)
  <2>1. Lift(c, base)[b] = [i \in 1 .. N |->
                             [a \in Attributes[b] |-> ReadCell(a, c.blocks[b][i].attrs[a], old(i)[a])]]
    BY <1>1, <1>2, <1>4
  <2>2. ASSUME NEW i \in 1 .. N, NEW a \in Attributes[b]
        PROVE  Lift(c, base)[b][i][a] = Heard(m, c, b, i, a)
    <3>1. Lift(c, base)[b][i][a] = ReadCell(a, c.blocks[b][i].attrs[a], old(i)[a])
      BY <2>1
    <3> QED
      BY <1>3, <3>1 DEF Heard
  <2>3. DOMAIN Lift(c, base)[b] = 1 .. N
    BY <2>1
  <2> QED
    BY <1>4, <2>2, <2>3 DEF base, N
<1> QED
  BY <1>1, <1>4 DEF base

LEMMA ReadIs ==
  ASSUME NEW m, IsDocument(m), NEW c, IsCode(c)
  PROVE  LET base == Project(m)
             lifted == Lift(c, base)
             changed == Changed(base, lifted)
             lost == Lost(lifted, changed)
         IN  /\ \A b \in Block : Opaque(c, b) =>
                  /\ \A i, a : <<b, i, a>> \notin changed
                  /\ \A i, a : <<b, i, a>> \notin lost
                  /\ \A i : ~Stays(base, lost, b, i)
             /\ \A b \in Block : ~Opaque(c, b) =>
                  /\ \A i \in 1 .. Len(c.blocks[b]) : \A a \in Attributes[b] :
                       /\ <<b, i, a>> \in changed <=> ChangedAt(m, c, b, i, a)
                       /\ <<b, i, a>> \in lost <=> LostAt(m, c, b, i, a)
                  /\ \A i : Stays(base, lost, b, i) <=> StaysAt(m, c, b, i)
<1> DEFINE base == Project(m)
           lifted == Lift(c, base)
           changed == Changed(base, lifted)
           lost == Lost(lifted, changed)
<1>1. \A b, i, a : <<b, i, a>> \in changed <=>
        /\ b \in Block /\ i \in DOMAIN lifted[b] /\ a \in Attributes[b]
        /\ i \in DOMAIN base[b] => base[b][i][a] # lifted[b][i][a]
  BY PlacesIs DEF Changed, At
<1>2. \A p \in changed : /\ p = <<p[1], p[2], p[3]>>
                         /\ p[1] \in Block /\ p[2] \in DOMAIN lifted[p[1]] /\ p[3] \in Attributes[p[1]]
  BY PlacesIs DEF Changed
<1>3. \A b, i, a : <<b, i, a>> \in lost <=>
        <<b, i, a>> \in changed /\ ToIntent(a, i, lifted[b][i][a]) = {}
  BY DEF Lost, At
<1>4. lost \subseteq changed
  BY DEF Lost
<1>5. \A b \in Block : DOMAIN base[b] = 1 .. Len(m[b])
  BY ProjectIs
<1>6. ASSUME NEW b \in Block
      PROVE  /\ Opaque(c, b) => lifted[b] = base[b]
             /\ ~Opaque(c, b) =>
                  /\ DOMAIN lifted[b] = 1 .. Len(c.blocks[b])
                  /\ \A i \in 1 .. Len(c.blocks[b]) : \A a \in Attributes[b] :
                       lifted[b][i][a] = Heard(m, c, b, i, a)
  BY LiftIs
<1>7. ASSUME NEW b \in Block, NEW i \in 1 .. Len(m[b]), NEW a \in Attributes[b]
      PROVE  base[b][i][a] = Base(m, b, i, a)
  BY ProjectIs DEF Base
<1> HIDE DEF base, lifted, changed, lost
<1>8. ASSUME NEW b \in Block, Opaque(c, b)
      PROVE  /\ \A i, a : <<b, i, a>> \notin changed
             /\ \A i, a : <<b, i, a>> \notin lost
             /\ \A i : ~Stays(base, lost, b, i)
  <2>1. \A i, a : <<b, i, a>> \notin changed
    BY <1>1, <1>6, <1>8
  <2>2. \A i, a : <<b, i, a>> \notin lost
    BY <1>4, <2>1
  <2>3. \A p \in lost : p[1] # b
    BY <1>2, <1>4, <2>1
  <2> QED
    BY <2>1, <2>2, <2>3 DEF Stays
<1>9. ASSUME NEW b \in Block, ~Opaque(c, b)
      PROVE  /\ \A i \in 1 .. Len(c.blocks[b]) : \A a \in Attributes[b] :
                  /\ <<b, i, a>> \in changed <=> ChangedAt(m, c, b, i, a)
                  /\ <<b, i, a>> \in lost <=> LostAt(m, c, b, i, a)
             /\ \A i : Stays(base, lost, b, i) <=> StaysAt(m, c, b, i)
  <2> DEFINE N == Len(c.blocks[b])
  <2>1. ASSUME NEW i \in 1 .. N, NEW a \in Attributes[b]
        PROVE  /\ <<b, i, a>> \in changed <=> ChangedAt(m, c, b, i, a)
               /\ <<b, i, a>> \in lost <=> LostAt(m, c, b, i, a)
    <3>1. <<b, i, a>> \in changed <=> (i \in 1 .. Len(m[b]) => base[b][i][a] # Heard(m, c, b, i, a))
      BY <1>1, <1>5, <1>6, <1>9
    <3>2. <<b, i, a>> \in changed <=> ChangedAt(m, c, b, i, a)
      BY <1>7, <3>1 DEF ChangedAt
    <3>3. lifted[b][i][a] = Heard(m, c, b, i, a)
      BY <1>6, <1>9
    <3> QED
      BY <1>3, <3>2, <3>3 DEF LostAt
  <2>2. ASSUME NEW i, Stays(base, lost, b, i) PROVE StaysAt(m, c, b, i)
    <3>1. PICK p \in lost : p[1] = b /\ p[2] <= i /\ (IF b = "clone" THEN p[3] = "vm_id" ELSE p[2] \notin DOMAIN base[b])
      BY <2>2 DEF Stays
    <3>2. p = <<b, p[2], p[3]>> /\ p[2] \in 1 .. N /\ p[3] \in Attributes[b]
      BY <1>2, <1>4, <1>6, <1>9, <3>1
    <3>3. LostAt(m, c, b, p[2], p[3])
      BY <2>1, <3>1, <3>2
    <3> QED
      BY <1>5, <3>1, <3>2, <3>3 DEF StaysAt
  <2>3. ASSUME NEW i, StaysAt(m, c, b, i) PROVE Stays(base, lost, b, i)
    <3>1. PICK k \in 1 .. N, a \in Attributes[b] :
            k <= i /\ LostAt(m, c, b, k, a) /\ (IF b = "clone" THEN a = "vm_id" ELSE k \notin 1 .. Len(m[b]))
      BY <2>3 DEF StaysAt
    <3> DEFINE p == <<b, k, a>>
    <3>2. p \in lost /\ p[1] = b /\ p[2] = k
      BY <2>1, <3>1
    <3> QED
      BY <1>5, <3>1, <3>2 DEF Stays
  <2>4. \A i : Stays(base, lost, b, i) \in BOOLEAN /\ StaysAt(m, c, b, i) \in BOOLEAN
    BY DEF Stays, StaysAt
  <2> QED
    BY <2>1, <2>2, <2>3, <2>4
<1> QED
  BY <1>8, <1>9 DEF base, lifted, changed, lost

LEMMA KeepIs ==
  ASSUME NEW m, IsDocument(m), NEW c, IsCode(c), NEW b \in Block
  PROVE  /\ Opaque(c, b) => \A i, a : <<b, i, a>> \notin Read(m, c).keep
         /\ ~Opaque(c, b) =>
              /\ \A i, a : <<b, i, a>> \in Read(m, c).keep =>
                           i \in 1 .. Len(c.blocks[b]) /\ a \in Attributes[b]
              /\ \A i \in 1 .. Len(c.blocks[b]) : \A a \in Attributes[b] :
                   <<b, i, a>> \in Read(m, c).keep <=> LostAt(m, c, b, i, a) \/ StaysAt(m, c, b, i)
<1> DEFINE base == Project(m)
           lifted == Lift(c, base)
           changed == Changed(base, lifted)
           lost == Lost(lifted, changed)
           keep == Read(m, c).keep
<1>1. keep = {p \in Places(lifted) : p \in lost \/ Stays(base, lost, p[1], p[2])}
  BY DEF Read
<1>2. \A i, a : <<b, i, a>> \in keep <=>
        <<b, i, a>> \in Places(lifted) /\ (<<b, i, a>> \in lost \/ Stays(base, lost, b, i))
  BY <1>1
<1>3. \A i, a : <<b, i, a>> \in Places(lifted) <=> i \in DOMAIN lifted[b] /\ a \in Attributes[b]
  BY PlacesIs
<1>4. /\ Opaque(c, b) =>
            /\ \A i, a : <<b, i, a>> \notin lost
            /\ \A i : ~Stays(base, lost, b, i)
      /\ ~Opaque(c, b) =>
            /\ \A i \in 1 .. Len(c.blocks[b]) : \A a \in Attributes[b] :
                 <<b, i, a>> \in lost <=> LostAt(m, c, b, i, a)
            /\ \A i : Stays(base, lost, b, i) <=> StaysAt(m, c, b, i)
  BY ReadIs
<1>5. ~Opaque(c, b) => DOMAIN lifted[b] = 1 .. Len(c.blocks[b])
  BY LiftIs
<1> HIDE DEF base, lifted, changed, lost, keep
<1> QED
  BY <1>2, <1>3, <1>4, <1>5 DEF keep

\* The numbers up to some number, if they are without a gap.
LEMMA NoGap ==
  ASSUME NEW N \in Nat, NEW D \in SUBSET (1 .. N),
         \A i, j \in 1 .. N : i <= j /\ j \in D => i \in D
  PROVE  Cardinality(D) \in Nat /\ D = 1 .. Cardinality(D) /\ Cardinality(D) <= N
<1> DEFINE K == Cardinality(D)
<1>1. IsFiniteSet(1 .. N) /\ Cardinality(1 .. N) = N
  BY FS_Interval
<1>2. IsFiniteSet(D) /\ K <= N /\ K \in Nat
  BY <1>1, FS_Subset, FS_CardinalityType
<1> HIDE DEF K
<1>3. ASSUME NEW i \in D PROVE i \in 1 .. K
  <2>1. i \in Nat /\ i >= 1 /\ i \in 1 .. N
    OBVIOUS
  <2>2. (1 .. i) \in SUBSET D
    <3> SUFFICES ASSUME NEW j \in 1 .. i PROVE j \in D
      OBVIOUS
    <3>1. j \in 1 .. N /\ j <= i
      BY <2>1
    <3> QED
      BY <2>1, <3>1
  <2>3. Cardinality(1 .. i) = i
    BY <2>1, FS_Interval
  <2>4. i <= K
    BY <1>2, <2>2, <2>3, FS_Subset DEF K
  <2> QED
    BY <1>2, <2>1, <2>4
<1>4. D \in SUBSET (1 .. K)
  BY <1>3
<1>5. IsFiniteSet(1 .. K) /\ Cardinality(1 .. K) = K
  BY <1>2, FS_Interval
<1>6. D = 1 .. K
  BY <1>4, <1>5, FS_Subset DEF K
<1> QED
  BY <1>2, <1>6 DEF K

LEMMA IntentSayable ==
  ASSUME NEW b \in Block, NEW a \in Said(b), NEW i, NEW u, NEW v \in ToIntent(a, i, u),
         a \in {"name", "cores", "size", "ssd"} => u # None
  PROVE  Sayable(a, v)
<1>1. a \in {"name", "protection", "bios", "started", "cores", "vm_id", "size", "ssd"}
  BY Schema
<1>2. CASE a = "started"
  <2>1. v \in DOMAIN PowerState
    BY <1>2 DEF ToIntent
  <2> QED
    BY <1>2, <2>1, FileSyncAssumption DEF Sayable
<1>3. CASE a = "vm_id"
  <2>1. v \in DOMAIN Templates
    BY <1>3 DEF ToIntent
  <2> QED
    BY <1>3, <2>1, FileSyncAssumption DEF Sayable
<1>4. CASE a = "bios"
  <2>1. v \in Firmware
    BY <1>4 DEF ToIntent
  <2> QED
    BY <1>4, <2>1, FileSyncAssumption DEF Sayable
<1>5. CASE a = "size"
  <2>1. v = u /\ v # 0
    BY <1>5 DEF ToIntent
  <2> QED
    BY <1>5, <2>1 DEF Sayable
<1>6. CASE a \in {"name", "cores", "ssd"}
  <2>1. v = u
    BY <1>6 DEF ToIntent
  <2> QED
    BY <1>6, <2>1 DEF Sayable
<1>7. CASE a = "protection"
  BY <1>7 DEF Sayable
<1> QED
  BY <1>1, <1>2, <1>3, <1>4, <1>5, <1>6, <1>7

\* What an attribute that is nodr's says in the code.
Raw(a, cell) == IF cell.kind = "literal" THEN cell.value ELSE Zero(a)

LEMMA HeardIs ==
  ASSUME NEW m, NEW c, NEW b, NEW i, NEW a
  PROVE  LET cell == c.blocks[b][i].attrs[a]
         IN  /\ ~CodeOwned(a, cell) => Heard(m, c, b, i, a) = Raw(a, cell)
             /\ CodeOwned(a, cell) /\ i \in 1 .. Len(m[b]) => ~ChangedAt(m, c, b, i, a)
             /\ CodeOwned(a, cell) /\ i \notin 1 .. Len(m[b]) => Heard(m, c, b, i, a) = Zero(a)
<1> DEFINE cell == c.blocks[b][i].attrs[a]
           base == Base(m, b, i, a)
<1>1. Heard(m, c, b, i, a) = ReadCell(a, cell, base)
  BY DEF Heard
<1>2. /\ CodeOwned(a, cell) => ReadCell(a, cell, base) = base
      /\ ~CodeOwned(a, cell) => ReadCell(a, cell, base) = Raw(a, cell)
  BY ReadCellIs DEF Raw
<1>3. i \notin 1 .. Len(m[b]) => base = Zero(a)
  BY DEF Base
<1>4. ChangedAt(m, c, b, i, a) <=> (i \in 1 .. Len(m[b]) => base # Heard(m, c, b, i, a))
  BY DEF ChangedAt
<1> HIDE DEF base, cell
<1>5. ~CodeOwned(a, cell) => Heard(m, c, b, i, a) = Raw(a, cell)
  BY <1>1, <1>2
<1>6. CodeOwned(a, cell) /\ i \in 1 .. Len(m[b]) => ~ChangedAt(m, c, b, i, a)
  BY <1>1, <1>2, <1>4
<1>7. CodeOwned(a, cell) /\ i \notin 1 .. Len(m[b]) => Heard(m, c, b, i, a) = Zero(a)
  BY <1>1, <1>2, <1>3
<1> QED
  BY <1>5, <1>6, <1>7 DEF cell

\* Where intent can say what is heard, something is said.
LEMMA HeardSaid ==
  ASSUME NEW m, IsDocument(m), NEW c, IsCode(c), NEW b \in Block, ~Opaque(c, b),
         NEW i \in 1 .. Len(c.blocks[b]), NEW a \in Said(b), a \in {"name", "cores", "size", "ssd"},
         ChangedAt(m, c, b, i, a), ToIntent(a, i, Heard(m, c, b, i, a)) # {}
  PROVE  Heard(m, c, b, i, a) # None
<1> DEFINE cell == c.blocks[b][i].attrs[a]
<1>1. a \in Attributes[b] /\ (a = "ssd" \/ a \notin Optional) /\ a # "interface"
  BY Schema DEF Optional
<1>0. Zero("ssd") # None
  BY ZeroIs, FileSyncAssumption
<1>2. IsCell(a, cell)
  BY <1>1, CodeIs
<1> HIDE DEF cell
<1>3. CASE ~CodeOwned(a, cell)
  <2>1. (cell.kind = "literal" /\ cell.value # None) \/ (cell.kind # "literal" /\ a = "ssd")
    BY <1>1, <1>2, <1>3 DEF IsCell, CodeOwned, Kinds
  <2>2. Heard(m, c, b, i, a) = Raw(a, cell)
    BY <1>3, HeardIs DEF cell
  <2> QED
    BY <1>0, <2>1, <2>2 DEF Raw
<1>4. CASE CodeOwned(a, cell)
  <2>1. i \notin 1 .. Len(m[b]) /\ Heard(m, c, b, i, a) = Zero(a)
    BY <1>4, HeardIs DEF cell
  <2>2. b \notin {"vm", "cpu"}
    <3> SUFFICES ASSUME b \in {"vm", "cpu"} PROVE FALSE
      OBVIOUS
    <3>1. Len(c.blocks[b]) = 1 /\ Len(m[b]) = 1
      BY OpaqueIs, DocumentIs
    <3> QED
      BY <2>1, <3>1
  <2>3. a \in {"size", "ssd"}
    BY <2>2, Schema
  <2>4. a = "size" => ToIntent(a, i, 0) = {}
    BY DEF ToIntent
  <2> QED
    BY <1>0, <2>1, <2>3, <2>4, ZeroIs
<1> QED
  BY <1>3, <1>4

\* What intent says after reading, at a place that it has.
Told(m, c, b, i, a) ==
  IF ChangedAt(m, c, b, i, a) /\ ~LostAt(m, c, b, i, a)
  THEN CHOOSE v \in ToIntent(a, i, Heard(m, c, b, i, a)) : TRUE
  ELSE m[b][i][a]

LEMMA VmIs ==
  ASSUME NEW m, IsDocument(m), NEW c, IsCode(c)
  PROVE  LET vm == Read(m, c).vm
         IN  /\ IsDocument(vm)
             /\ \A b \in Block : Opaque(c, b) => vm[b] = m[b]
             /\ ~Opaque(c, "clone") /\ StaysAt(m, c, "clone", 1) => vm["clone"] = m["clone"]
             /\ \A b \in Block : ~Opaque(c, b) /\ ~(b = "clone" /\ StaysAt(m, c, b, 1)) =>
                  /\ 1 .. Len(vm[b]) = {i \in 1 .. Len(c.blocks[b]) : ~StaysAt(m, c, b, i)}
                  /\ \A i \in 1 .. Len(vm[b]) : \A a \in Said(b) : vm[b][i][a] = Told(m, c, b, i, a)
<1> DEFINE base == Project(m)
           lifted == Lift(c, base)
           changed == Changed(base, lifted)
           lost == Lost(lifted, changed)
           vm == Read(m, c).vm
           D(b) == {i \in DOMAIN lifted[b] : ~Stays(base, lost, b, i)}
           told(b, i, a) == IF <<b, i, a>> \in changed \ lost
                            THEN CHOOSE v \in ToIntent(a, i, lifted[b][i][a]) : TRUE
                            ELSE m[b][i][a]
<1>1. vm = [b \in Block |-> IF b = "clone" /\ Stays(base, lost, b, 1) THEN m[b]
                            ELSE [i \in D(b) |-> [a \in Said(b) |-> told(b, i, a)]]]
  BY DEF Read, Embed
<1>2. \A b \in Block : Opaque(c, b) =>
        /\ \A i, a : <<b, i, a>> \notin changed
        /\ \A i : ~Stays(base, lost, b, i)
  BY ReadIs
<1>3. \A b \in Block : ~Opaque(c, b) =>
        /\ \A i \in 1 .. Len(c.blocks[b]) : \A a \in Attributes[b] :
             /\ <<b, i, a>> \in changed <=> ChangedAt(m, c, b, i, a)
             /\ <<b, i, a>> \in lost <=> LostAt(m, c, b, i, a)
        /\ \A i : Stays(base, lost, b, i) <=> StaysAt(m, c, b, i)
  BY ReadIs
<1>4. ASSUME NEW b \in Block
      PROVE  /\ Opaque(c, b) => DOMAIN lifted[b] = 1 .. Len(m[b])
             /\ ~Opaque(c, b) =>
                  /\ DOMAIN lifted[b] = 1 .. Len(c.blocks[b])
                  /\ \A i \in 1 .. Len(c.blocks[b]) : \A a \in Attributes[b] :
                       lifted[b][i][a] = Heard(m, c, b, i, a)
  BY LiftIs, ProjectIs
<1> HIDE DEF base, lifted, changed, lost, vm
<1>5. ASSUME NEW b \in Block, Opaque(c, b)
      PROVE  vm[b] = m[b]
  <2>1. D(b) = 1 .. Len(m[b])
    BY <1>2, <1>4, <1>5
  <2>2. \A i, a : told(b, i, a) = m[b][i][a]
    BY <1>2, <1>5
  <2>3. ~Stays(base, lost, b, 1)
    BY <1>2, <1>5
  <2> HIDE DEF D, told
  <2>4. vm[b] = [i \in 1 .. Len(m[b]) |-> [a \in Said(b) |-> m[b][i][a]]]
    BY <1>1, <2>1, <2>2, <2>3
  <2> QED
    BY <2>4 DEF IsDocument
<1>6. ~Opaque(c, "clone") /\ StaysAt(m, c, "clone", 1) => vm["clone"] = m["clone"]
  BY <1>1, <1>3, Schema
<1>7. ASSUME NEW b \in Block, ~Opaque(c, b), ~(b = "clone" /\ StaysAt(m, c, b, 1))
      PROVE  /\ IsList(vm[b]) /\ Len(vm[b]) <= Len(c.blocks[b])
             /\ 1 .. Len(vm[b]) = {i \in 1 .. Len(c.blocks[b]) : ~StaysAt(m, c, b, i)}
             /\ vm[b] = [i \in 1 .. Len(vm[b]) |-> [a \in Said(b) |-> Told(m, c, b, i, a)]]
  <2> DEFINE N == Len(c.blocks[b])
             E == {i \in 1 .. N : ~StaysAt(m, c, b, i)}
  <2>1. D(b) = E
    BY <1>3, <1>4, <1>7
  <2>2. vm[b] = [i \in E |-> [a \in Said(b) |-> told(b, i, a)]]
    <3> HIDE DEF D, told, E
    <3> QED
      BY <1>1, <1>3, <1>7, <2>1
  <2>3. ASSUME NEW i \in E, NEW a \in Said(b)
        PROVE  told(b, i, a) = Told(m, c, b, i, a)
    <3>1. a \in Attributes[b] /\ i \in 1 .. N
      BY Schema
    <3>2. lifted[b][i][a] = Heard(m, c, b, i, a)
      BY <1>4, <1>7, <3>1
    <3>3. <<b, i, a>> \in changed \ lost <=> ChangedAt(m, c, b, i, a) /\ ~LostAt(m, c, b, i, a)
      BY <1>3, <1>7, <3>1
    <3> QED
      BY <3>2, <3>3 DEF Told
  <2>4. N \in Nat
    BY CodeIs
  <2>5. \A i, j \in 1 .. N : i <= j /\ j \in E => i \in E
    <3> SUFFICES ASSUME NEW i \in 1 .. N, NEW j \in 1 .. N, i <= j, StaysAt(m, c, b, i)
                 PROVE  StaysAt(m, c, b, j)
      OBVIOUS
    <3>1. PICK k \in 1 .. N, a \in Attributes[b] :
            k <= i /\ LostAt(m, c, b, k, a) /\ (IF b = "clone" THEN a = "vm_id" ELSE k \notin 1 .. Len(m[b]))
      BY DEF StaysAt
    <3>2. k <= j
      BY <2>4, <3>1
    <3> QED
      BY <3>1, <3>2 DEF StaysAt
  <2>6. E \in SUBSET (1 .. N)
    OBVIOUS
  <2> HIDE DEF N, E, told
  <2>7. PICK K \in Nat : E = 1 .. K /\ K <= N
    BY <2>4, <2>5, <2>6, NoGap
  <2>8. vm[b] = [i \in 1 .. K |-> [a \in Said(b) |-> Told(m, c, b, i, a)]]
    BY <2>2, <2>3, <2>7
  <2>9. vm[b] = [i \in 1 .. K |-> vm[b][i]]
    BY <2>8
  <2>10. IsList(vm[b]) /\ Len(vm[b]) = K
    BY <2>9, Listed
  <2> QED
    BY <2>7, <2>8, <2>10 DEF E, N
<1>8. ASSUME NEW b \in Block, ~Opaque(c, b), ~(b = "clone" /\ StaysAt(m, c, b, 1)),
             NEW i \in 1 .. Len(vm[b]), NEW a \in Said(b)
      PROVE  Sayable(a, Told(m, c, b, i, a))
  <2>1. i \in 1 .. Len(c.blocks[b]) /\ ~StaysAt(m, c, b, i) /\ a \in Attributes[b]
    <3>1. 1 .. Len(vm[b]) = {j \in 1 .. Len(c.blocks[b]) : ~StaysAt(m, c, b, j)}
      BY <1>7, <1>8
    <3>2. i \in {j \in 1 .. Len(c.blocks[b]) : ~StaysAt(m, c, b, j)}
      BY <1>8, <3>1
    <3>3. a \in Attributes[b]
      BY Schema
    <3> QED
      BY <3>2, <3>3
  <2>2. CASE ChangedAt(m, c, b, i, a) /\ ~LostAt(m, c, b, i, a)
    <3>1. ToIntent(a, i, Heard(m, c, b, i, a)) # {}
      BY <2>2 DEF LostAt
    <3>2. Told(m, c, b, i, a) \in ToIntent(a, i, Heard(m, c, b, i, a))
      BY <2>2, <3>1 DEF Told
    <3>3. a \in {"name", "cores", "size", "ssd"} => Heard(m, c, b, i, a) # None
      <4>1. ~Opaque(c, b) /\ b \in Block /\ a \in Said(b)
        BY <1>8
      <4> QED
        BY <2>1, <2>2, <3>1, <4>1, HeardSaid
    <3> QED
      BY <3>2, <3>3, IntentSayable
  <2>3. CASE ~(ChangedAt(m, c, b, i, a) /\ ~LostAt(m, c, b, i, a))
    <3>1. i \in 1 .. Len(m[b])
      <4>1. CASE ~ChangedAt(m, c, b, i, a)
        BY <4>1 DEF ChangedAt
      <4>2. CASE LostAt(m, c, b, i, a)
        <5>1. i <= i /\ (b = "clone" => a = "vm_id")
          BY <2>1, Schema
        <5> QED
          BY <2>1, <4>2, <5>1 DEF StaysAt
      <4> QED
        BY <2>3, <4>1, <4>2
    <3>2. Told(m, c, b, i, a) = m[b][i][a]
      BY <2>3 DEF Told
    <3>3. Sayable(a, m[b][i][a])
      BY <3>1, DocumentIs
    <3> QED
      BY <3>2, <3>3
  <2> QED
    BY <2>2, <2>3
<1>9. ASSUME NEW b \in Block
      PROVE  /\ vm[b] = m[b] \/ (~Opaque(c, b) /\ ~(b = "clone" /\ StaysAt(m, c, b, 1)))
             /\ IsList(vm[b])
             /\ vm[b] = [i \in 1 .. Len(vm[b]) |-> [a \in Said(b) |-> vm[b][i][a]]]
             /\ \A i \in 1 .. Len(vm[b]) : \A a \in Said(b) : Sayable(a, vm[b][i][a])
  <2>1. CASE vm[b] = m[b]
    <3>1. m[b] = [i \in 1 .. Len(m[b]) |-> [a \in Said(b) |-> m[b][i][a]]]
      BY DEF IsDocument
    <3> QED
      BY <2>1, <3>1, DocumentIs
  <2>2. CASE ~Opaque(c, b) /\ ~(b = "clone" /\ StaysAt(m, c, b, 1))
    <3>1. /\ IsList(vm[b])
          /\ vm[b] = [i \in 1 .. Len(vm[b]) |-> [a \in Said(b) |-> Told(m, c, b, i, a)]]
      BY <1>7, <2>2
    <3>2. \A i \in 1 .. Len(vm[b]) : \A a \in Said(b) : vm[b][i][a] = Told(m, c, b, i, a)
      BY <3>1
    <3>3. vm[b] = [i \in 1 .. Len(vm[b]) |-> [a \in Said(b) |-> vm[b][i][a]]]
      BY <3>1
    <3> QED
      BY <1>8, <2>2, <3>1, <3>2, <3>3
  <2>3. vm[b] = m[b] \/ (~Opaque(c, b) /\ ~(b = "clone" /\ StaysAt(m, c, b, 1)))
    BY <1>5, <1>6
  <2> QED
    BY <2>1, <2>2, <2>3
<1>10. Len(vm["vm"]) = 1 /\ Len(vm["cpu"]) = 1 /\ Len(vm["clone"]) <= 1
  <2>1. ASSUME NEW b \in {"vm", "cpu"} PROVE Len(vm[b]) = 1
    <3>1. b \in Block /\ Len(m[b]) = 1 /\ b # "clone" /\ Len(vm[b]) \in Nat
      BY <1>9, Schema, DocumentIs DEF IsList
    <3>2. CASE Opaque(c, b)
      BY <1>5, <3>1, <3>2
    <3>3. CASE ~Opaque(c, b)
      <4>1. Len(c.blocks[b]) = 1
        BY <3>1, <3>3, OpaqueIs
      <4>2. ~StaysAt(m, c, b, 1)
        BY <3>1, <4>1 DEF StaysAt
      <4>3. /\ 1 .. Len(vm[b]) = {i \in 1 .. Len(c.blocks[b]) : ~StaysAt(m, c, b, i)}
            /\ Len(vm[b]) <= Len(c.blocks[b])
        BY <1>7, <3>1, <3>3
      <4>4. 1 \in {i \in 1 .. Len(c.blocks[b]) : ~StaysAt(m, c, b, i)}
        BY <4>1, <4>2
      <4>5. Len(vm[b]) >= 1 /\ Len(vm[b]) <= 1
        BY <3>1, <4>1, <4>3, <4>4
      <4>6. \A n \in Nat : n >= 1 /\ n <= 1 => n = 1
        OBVIOUS
      <4> QED
        BY <3>1, <4>5, <4>6
    <3> QED
      BY <3>2, <3>3
  <2>2. Len(vm["clone"]) <= 1
    <3>1. "clone" \in Block
      BY Schema
    <3>2. CASE vm["clone"] = m["clone"]
      BY <3>2 DEF IsDocument
    <3>3. CASE ~Opaque(c, "clone") /\ ~StaysAt(m, c, "clone", 1)
      <4>1. ~ Len(c.blocks["clone"]) > 1 /\ Len(c.blocks["clone"]) \in Nat
        BY <3>1, <3>3, OpaqueIs, CodeIs
      <4>2. Len(vm["clone"]) <= Len(c.blocks["clone"]) /\ Len(vm["clone"]) \in Nat
        BY <1>7, <1>9, <3>1, <3>3 DEF IsList
      <4> QED
        BY <4>1, <4>2
    <3> QED
      BY <1>9, <3>1, <3>2, <3>3
  <2> QED
    BY <2>1, <2>2
<1>11. IsDocument(vm)
  <2>1. vm = [b \in Block |-> vm[b]]
    BY <1>1
  <2>2. vm = [b \in Block |-> [i \in 1 .. Len(vm[b]) |-> [a \in Said(b) |-> vm[b][i][a]]]]
    BY <1>9, <2>1
  <2> QED
    BY <1>9, <1>10, <2>2 DEF IsDocument, IsList
<1>12. ASSUME NEW b \in Block, ~Opaque(c, b), ~(b = "clone" /\ StaysAt(m, c, b, 1))
       PROVE  \A i \in 1 .. Len(vm[b]) : \A a \in Said(b) : vm[b][i][a] = Told(m, c, b, i, a)
  <2>1. vm[b] = [i \in 1 .. Len(vm[b]) |-> [a \in Said(b) |-> Told(m, c, b, i, a)]]
    BY <1>7, <1>12
  <2> QED
    BY <2>1
<1> QED
  BY <1>5, <1>6, <1>7, <1>11, <1>12 DEF vm

-----------------------------------------------------------------------------
(* Documents and blocks stay well formed. *)

\* A document is made of its blocks.
LEMMA DocumentMade ==
  ASSUME NEW d, d = [x \in Block |-> d[x]],
         \A x \in Block :
           /\ IsList(d[x]) /\ (x \in {"vm", "cpu"} => Len(d[x]) = 1) /\ (x = "clone" => Len(d[x]) <= 1)
           /\ d[x] = [i \in 1 .. Len(d[x]) |-> d[x][i]]
           /\ \A i \in 1 .. Len(d[x]) :
                d[x][i] = [a \in Said(x) |-> d[x][i][a]] /\ \A a \in Said(x) : Sayable(a, d[x][i][a])
  PROVE  IsDocument(d)
<1>1. ASSUME NEW x \in Block
      PROVE  d[x] = [i \in 1 .. Len(d[x]) |-> [a \in Said(x) |-> d[x][i][a]]]
  <2>1. /\ d[x] = [i \in 1 .. Len(d[x]) |-> d[x][i]]
        /\ \A i \in 1 .. Len(d[x]) : d[x][i] = [a \in Said(x) |-> d[x][i][a]]
    OBVIOUS
  <2>2. [i \in 1 .. Len(d[x]) |-> d[x][i]] = [i \in 1 .. Len(d[x]) |-> [a \in Said(x) |-> d[x][i][a]]]
    BY <2>1
  <2> QED
    BY <2>1, <2>2
<1>2. d = [x \in Block |-> [i \in 1 .. Len(d[x]) |-> [a \in Said(x) |-> d[x][i][a]]]]
  <2> DEFINE e(x) == [i \in 1 .. Len(d[x]) |-> [a \in Said(x) |-> d[x][i][a]]]
  <2>1. \A x \in Block : d[x] = e(x)
    BY <1>1
  <2> HIDE DEF e
  <2>2. d = [x \in Block |-> e(x)]
    BY <2>1
  <2> QED
    BY <2>2 DEF e
<1>3. \A x \in Block : Len(d[x]) \in Nat
  BY DEF IsList
<1>4. Len(d["vm"]) = 1 /\ Len(d["cpu"]) = 1 /\ Len(d["clone"]) <= 1
  BY Schema
<1>5. \A x \in Block : \A i \in 1 .. Len(d[x]) : \A a \in Said(x) : Sayable(a, d[x][i][a])
  OBVIOUS
<1> QED
  BY <1>2, <1>3, <1>4, <1>5 DEF IsDocument

LEMMA BlockOfDocument ==
  ASSUME NEW m, IsDocument(m), NEW b \in Block, NEW s, IsList(s),
         b \in {"vm", "cpu"} => Len(s) = 1, b = "clone" => Len(s) <= 1,
         \A i \in 1 .. Len(s) :
           s[i] = [a \in Said(b) |-> s[i][a]] /\ \A a \in Said(b) : Sayable(a, s[i][a])
  PROVE  IsDocument([m EXCEPT ![b] = s])
<1> DEFINE d == [m EXCEPT ![b] = s]
<1>1. m = [x \in Block |-> m[x]]
  BY DEF IsDocument
<1>2. d = [x \in Block |-> d[x]] /\ \A x \in Block : d[x] = IF x = b THEN s ELSE m[x]
  BY <1>1
<1> HIDE DEF d
<1>3. ASSUME NEW x \in Block
      PROVE  /\ IsList(d[x]) /\ (x \in {"vm", "cpu"} => Len(d[x]) = 1) /\ (x = "clone" => Len(d[x]) <= 1)
             /\ d[x] = [i \in 1 .. Len(d[x]) |-> d[x][i]]
             /\ \A i \in 1 .. Len(d[x]) :
                  d[x][i] = [a \in Said(x) |-> d[x][i][a]] /\ \A a \in Said(x) : Sayable(a, d[x][i][a])
  <2>1. CASE x = b
    <3>1. d[x] = s
      BY <1>2, <2>1
    <3>2. s = [i \in 1 .. Len(s) |-> s[i]]
      BY DEF IsList
    <3> QED
      BY <2>1, <3>1, <3>2
  <2>2. CASE x # b
    <3>1. d[x] = m[x]
      BY <1>2, <2>2
    <3>2. Len(m["clone"]) <= 1
      BY DEF IsDocument
    <3>3. (x \in {"vm", "cpu"} => Len(m[x]) = 1) /\ (x = "clone" => Len(m[x]) <= 1)
      BY <3>2, DocumentIs
    <3>4. /\ IsList(m[x]) /\ m[x] = [i \in 1 .. Len(m[x]) |-> m[x][i]]
          /\ \A i \in 1 .. Len(m[x]) :
               m[x][i] = [a \in Said(x) |-> m[x][i][a]] /\ \A a \in Said(x) : Sayable(a, m[x][i][a])
      BY DocumentIs DEF IsList
    <3> QED
      BY <3>1, <3>3, <3>4
  <2> QED
    BY <2>1, <2>2
<1> QED
  BY <1>2, <1>3, DocumentMade DEF d

LEMMA ValueSayable ==
  ASSUME NEW b \in Block, NEW a \in Said(b), NEW i, NEW v \in Values(a, i)
  PROVE  Sayable(a, v)
<1>1. \/ \E u : v \in ToIntent(a, i, u) /\ (a \in {"name", "cores", "size", "ssd"} => u # None)
      \/ a = "protection" /\ v = None
  <2> DEFINE W == Literals[a] \cup (IF a \in Pointer THEN {None} ELSE {})
             A == UNION {ToIntent(a, i, u) : u \in W}
             P == IF a = "protection" THEN {None} ELSE {}
  <2>1. Values(a, i) = A \cup P
    BY DEF Values
  <2>2. ASSUME v \in A
        PROVE  \E u : v \in ToIntent(a, i, u) /\ (a \in {"name", "cores", "size", "ssd"} => u # None)
    <3>1. a \in Attributes[b]
      BY Schema
    <3>2. None \notin Literals[a]
      BY <3>1, FileSyncAssumption
    <3>3. \A u \in W : a \in {"name", "cores", "size", "ssd"} => u # None
      BY <3>2 DEF Pointer
    <3> HIDE DEF W
    <3> QED
      BY <2>2, <3>3
  <2>3. ASSUME v \in P PROVE a = "protection" /\ v = None
    BY <2>3
  <2> HIDE DEF A, P
  <2> QED
    BY <2>1, <2>2, <2>3
<1>2. CASE a = "protection"
  BY <1>2 DEF Sayable
<1>3. CASE a # "protection"
  <2>1. PICK u : v \in ToIntent(a, i, u) /\ (a \in {"name", "cores", "size", "ssd"} => u # None)
    BY <1>1, <1>3
  <2> QED
    BY <2>1, IntentSayable
<1> QED
  BY <1>2, <1>3

LEMMA VariantsAreDocuments ==
  ASSUME NEW m, IsDocument(m), NEW d \in Variants(m)
  PROVE  IsDocument(d)
<1>1. ASSUME NEW p \in Places(Project(m)), p[1] # "clone", p[3] \in Said(p[1]), NEW v \in Values(p[3], p[2])
      PROVE  IsDocument([m EXCEPT ![p[1]][p[2]][p[3]] = v])
  <2> DEFINE b == p[1]
             i == p[2]
             a == p[3]
             item == [m[b][i] EXCEPT ![a] = v]
             s == [m[b] EXCEPT ![i] = item]
  <2>1. b \in Block /\ i \in 1 .. Len(m[b]) /\ a \in Said(b) /\ b # "clone"
    BY <1>1, PlacesIs, ProjectIs
  <2>2. v \in Values(a, i)
    OBVIOUS
  <2>3. [m EXCEPT ![p[1]][p[2]][p[3]] = v] = [m EXCEPT ![b] = s]
    OBVIOUS
  <2> HIDE DEF b, i, a
  <2>4. Sayable(a, v)
    BY <2>1, <2>2, ValueSayable
  <2>5. /\ m[b] = [j \in 1 .. Len(m[b]) |-> m[b][j]] /\ IsList(m[b]) /\ Len(m[b]) \in Nat
        /\ \A j \in 1 .. Len(m[b]) : /\ m[b][j] = [x \in Said(b) |-> m[b][j][x]]
                                      /\ \A x \in Said(b) : Sayable(x, m[b][j][x])
    BY <2>1, DocumentIs DEF IsList
  <2>6. item = [x \in Said(b) |-> item[x]] /\ \A x \in Said(b) : item[x] = IF x = a THEN v ELSE m[b][i][x]
    BY <2>1, <2>5
  <2>7. \A x \in Said(b) : Sayable(x, item[x])
    BY <2>1, <2>4, <2>5, <2>6
  <2> HIDE DEF item
  <2>8. /\ s = [j \in 1 .. Len(m[b]) |-> s[j]]
        /\ \A j \in 1 .. Len(m[b]) : s[j] = IF j = i THEN item ELSE m[b][j]
    BY <2>1, <2>5
  <2> HIDE DEF s
  <2>9. IsList(s) /\ Len(s) = Len(m[b])
    BY <2>5, <2>8, Listed
  <2>10. ASSUME NEW j \in 1 .. Len(s)
         PROVE  s[j] = [x \in Said(b) |-> s[j][x]] /\ \A x \in Said(b) : Sayable(x, s[j][x])
    <3>1. CASE j = i
      BY <2>6, <2>7, <2>8, <2>9, <3>1
    <3>2. CASE j # i
      BY <2>5, <2>8, <2>9, <3>2
    <3> QED
      BY <3>1, <3>2
  <2>11. b \in {"vm", "cpu"} => Len(s) = 1
    BY <2>9, DocumentIs
  <2> QED
    BY <2>1, <2>3, <2>9, <2>10, <2>11, BlockOfDocument
<1>2. ASSUME NEW t \in {<<>>} \cup {<<[vm_id |-> n]>> : n \in DOMAIN Templates}
      PROVE  IsDocument([m EXCEPT !.clone = t])
  <2>1. "clone" \in Block
    BY Schema
  <2>2. CASE t = <<>>
    <3>1. t = [i \in 1 .. 0 |-> t[i]]
      BY <2>2
    <3>2. IsList(t) /\ Len(t) = 0
      BY <3>1, Listed
    <3> QED
      BY <2>1, <3>2, BlockOfDocument
  <2>3. CASE \E n \in DOMAIN Templates : t = <<[vm_id |-> n]>>
    <3>1. PICK n \in DOMAIN Templates : t = <<[vm_id |-> n]>>
      BY <2>3
    <3>2. t = [i \in 1 .. 1 |-> t[i]] /\ t[1] = [vm_id |-> n]
      BY <3>1
    <3>3. IsList(t) /\ Len(t) = 1
      BY <3>2, Listed
    <3>4. Sayable("vm_id", n)
      BY FileSyncAssumption DEF Sayable
    <3>5. t[1] = [a \in Said("clone") |-> t[1][a]] /\ \A a \in Said("clone") : Sayable(a, t[1][a])
      <4>1. Said("clone") = {"vm_id"} /\ t[1]["vm_id"] = n /\ t[1] = [a \in {"vm_id"} |-> n]
        BY <3>2, Schema
      <4> QED
        BY <3>4, <4>1
    <3>6. \A i \in 1 .. Len(t) : i = 1
      BY <3>3
    <3>7. \A i \in 1 .. Len(t) :
            t[i] = [a \in Said("clone") |-> t[i][a]] /\ \A a \in Said("clone") : Sayable(a, t[i][a])
      BY <3>5, <3>6
    <3>8. "clone" \notin {"vm", "cpu"} /\ Len(t) <= 1
      BY <3>3
    <3>9. IsDocument([m EXCEPT !["clone"] = t])
      BY <2>1, <3>3, <3>7, <3>8, BlockOfDocument
    <3> QED
      BY <3>9
  <2> QED
    BY <2>2, <2>3
<1>3. "disk" \in Block /\ IsList(m["disk"]) /\ Len(m["disk"]) \in Nat
      /\ \A i \in 1 .. Len(m["disk"]) :
            /\ m["disk"][i] = [a \in Said("disk") |-> m["disk"][i][a]]
            /\ \A a \in Said("disk") : Sayable(a, m["disk"][i][a])
  BY Schema, DocumentIs
<1>4. ASSUME NEW v \in Values("size", 1)
      PROVE  IsDocument([m EXCEPT !.disk = Append(m.disk, [size |-> v, ssd |-> "false"])])
  <2> DEFINE s == Append(m.disk, [size |-> v, ssd |-> "false"])
  <2>1. /\ IsList(s) /\ Len(s) = Len(m["disk"]) + 1
        /\ \A i \in 1 .. Len(m["disk"]) : s[i] = m["disk"][i]
        /\ s[Len(m["disk"]) + 1] = [size |-> v, ssd |-> "false"]
    BY <1>3, Longer
  <2>2. Sayable("size", v) /\ Sayable("ssd", "false")
    <3>1. Sayable("size", v)
      BY Schema, ValueSayable
    <3>2. "false" # None
      BY FileSyncAssumption
    <3>3. Sayable("ssd", "false")
      BY <3>2 DEF Sayable
    <3> QED
      BY <3>1, <3>3
  <2> HIDE DEF s
  <2>3. ASSUME NEW i \in 1 .. Len(s)
        PROVE  s[i] = [a \in Said("disk") |-> s[i][a]] /\ \A a \in Said("disk") : Sayable(a, s[i][a])
    <3>1. CASE i = Len(m["disk"]) + 1
      <4>1. s[i] = [size |-> v, ssd |-> "false"]
        BY <2>1, <3>1
      <4> QED
        BY <2>2, <4>1, Schema
    <3>2. CASE i # Len(m["disk"]) + 1
      <4>1. i \in 1 .. Len(m["disk"])
        BY <1>3, <2>1, <3>2
      <4> QED
        BY <1>3, <2>1, <4>1
    <3> QED
      BY <3>1, <3>2
  <2>4. IsDocument([m EXCEPT !["disk"] = s])
    BY <1>3, <2>1, <2>3, BlockOfDocument
  <2> QED
    BY <2>4 DEF s
<1>5. ASSUME m.disk # <<>>
      PROVE  IsDocument([m EXCEPT !.disk = Front(m.disk)])
  <2> DEFINE s == Front(m.disk)
  <2>1. /\ IsList(s) /\ Len(s) = Len(m["disk"]) - 1
        /\ \A i \in 1 .. Len(m["disk"]) - 1 : s[i] = m["disk"][i]
    BY <1>3, <1>5, Shorter
  <2> HIDE DEF s
  <2>2. ASSUME NEW i \in 1 .. Len(s)
        PROVE  s[i] = [a \in Said("disk") |-> s[i][a]] /\ \A a \in Said("disk") : Sayable(a, s[i][a])
    <3>1. i \in 1 .. Len(m["disk"]) /\ i \in 1 .. Len(m["disk"]) - 1
      BY <1>3, <2>1
    <3> QED
      BY <1>3, <2>1, <3>1
  <2>3. IsDocument([m EXCEPT !["disk"] = s])
    BY <1>3, <2>1, <2>2, BlockOfDocument
  <2> QED
    BY <2>3 DEF s
<1>6. \/ \E p \in {q \in Places(Project(m)) : q[1] # "clone" /\ q[3] \in Said(q[1])} :
           \E v \in Values(p[3], p[2]) : d = [m EXCEPT ![p[1]][p[2]][p[3]] = v]
      \/ \E t \in {<<>>} \cup {<<[vm_id |-> n]>> : n \in DOMAIN Templates} : d = [m EXCEPT !.clone = t]
      \/ \E v \in Values("size", 1) : d = [m EXCEPT !.disk = Append(m.disk, [size |-> v, ssd |-> "false"])]
      \/ m.disk # <<>> /\ d = [m EXCEPT !.disk = Front(m.disk)]
  <2> DEFINE P == {q \in Places(Project(m)) : q[1] # "clone" /\ q[3] \in Said(q[1])}
             T == {<<>>} \cup {<<[vm_id |-> n]>> : n \in DOMAIN Templates}
             S == {Append(m.disk, [size |-> v, ssd |-> "false"]) : v \in Values("size", 1)}
             F == IF m.disk = <<>> THEN {} ELSE {Front(m.disk)}
             one(q, v) == [m EXCEPT ![q[1]][q[2]][q[3]] = v]
             two(t) == [m EXCEPT !.clone = t]
             three(s) == [m EXCEPT !.disk = s]
  <2> DEFINE A == UNION {{one(p, v) : v \in Values(p[3], p[2])} : p \in P}
             B == {two(t) : t \in T}
             C == {three(s) : s \in S \cup F}
             Goal == \/ \E p \in P : \E v \in Values(p[3], p[2]) : d = one(p, v)
                     \/ \E t \in T : d = two(t)
                     \/ \E v \in Values("size", 1) : d = three(Append(m.disk, [size |-> v, ssd |-> "false"]))
                     \/ m.disk # <<>> /\ d = three(Front(m.disk))
  <2>1. Variants(m) = A \cup B \cup C
    BY DEF Variants
  <2> HIDE DEF one, two, three, P, T
  <2>2. ASSUME d \in A PROVE Goal
    BY <2>2
  <2>3. ASSUME d \in B PROVE Goal
    BY <2>3
  <2>4. ASSUME d \in C PROVE Goal
    <3>1. PICK s \in S \cup F : d = three(s)
      BY <2>4
    <3>2. ASSUME s \in S PROVE Goal
      BY <3>1, <3>2
    <3>3. ASSUME s \in F PROVE Goal
      <4>1. m.disk # <<>> /\ s = Front(m.disk)
        BY <3>3
      <4> QED
        BY <3>1, <4>1
    <3> QED
      BY <3>2, <3>3
  <2> HIDE DEF A, B, C, Goal
  <2>5. Goal
    BY <2>1, <2>2, <2>3, <2>4
  <2> QED
    BY <2>5 DEF Goal, one, two, three, P, T
<1> QED
  BY <1>1, <1>2, <1>4, <1>5, <1>6

LEMMA BlockOfCode ==
  ASSUME NEW c, IsCode(c), NEW b \in Block, NEW s, IsList(s),
         \A i \in 1 .. Len(s) : IsItem(b, s[i])
  PROVE  IsCode([c EXCEPT !.blocks[b] = s])
<1> DEFINE d == [c EXCEPT !.blocks[b] = s]
           X == [c.blocks EXCEPT ![b] = s]
<1>1. c.blocks = [x \in Block |-> c.blocks[x]]
  BY DEF IsCode
<1>2. X = [x \in Block |-> X[x]] /\ \A x \in Block : X[x] = IF x = b THEN s ELSE c.blocks[x]
  BY <1>1
<1>3. c = [meta |-> c.meta, marker |-> c.marker, label |-> c.label, dynamic |-> c.dynamic,
           blocks |-> c.blocks]
  BY DEF IsCode
<1>4. d = [c EXCEPT !.blocks = X]
  OBVIOUS
<1> HIDE DEF X, d
<1>5. d = [meta |-> c.meta, marker |-> c.marker, label |-> c.label, dynamic |-> c.dynamic, blocks |-> X]
  BY <1>3, <1>4
<1>6. /\ d.meta = c.meta /\ d.marker = c.marker /\ d.label = c.label /\ d.dynamic = c.dynamic
      /\ d.blocks = X
  BY <1>5
<1>7. d = [meta |-> d.meta, marker |-> d.marker, label |-> d.label, dynamic |-> d.dynamic,
           blocks |-> [x \in Block |-> d.blocks[x]]]
  BY <1>2, <1>5, <1>6
<1>8. ASSUME NEW x \in Block
      PROVE  IsList(d.blocks[x]) /\ \A i \in 1 .. Len(d.blocks[x]) : IsItem(x, d.blocks[x][i])
  <2>1. CASE x = b
    BY <1>2, <1>6, <2>1
  <2>2. CASE x # b
    <3>1. d.blocks[x] = c.blocks[x]
      BY <1>2, <1>6, <2>2
    <3> QED
      BY <3>1, CodeIs
  <2> QED
    BY <2>1, <2>2
<1>9. d.meta \in BOOLEAN
  BY <1>6 DEF IsCode
<1> QED
  BY <1>7, <1>8, <1>9 DEF IsCode, d

\* An item of a block is replaced.
LEMMA ItemOfCode ==
  ASSUME NEW c, IsCode(c), NEW b \in Block, NEW i \in 1 .. Len(c.blocks[b]), NEW item, IsItem(b, item)
  PROVE  IsCode([c EXCEPT !.blocks[b][i] = item])
<1> DEFINE old == c.blocks[b]
           s == [old EXCEPT ![i] = item]
<1>1. IsList(old) /\ Len(old) \in Nat /\ \A j \in 1 .. Len(old) : IsItem(b, old[j])
  BY CodeIs
<1>2. [c EXCEPT !.blocks[b][i] = item] = [c EXCEPT !.blocks[b] = s]
  OBVIOUS
<1>3. i \in 1 .. Len(old)
  OBVIOUS
<1> HIDE DEF old
<1>4. /\ s = [j \in 1 .. Len(old) |-> s[j]]
      /\ \A j \in 1 .. Len(old) : s[j] = IF j = i THEN item ELSE old[j]
  BY <1>1, <1>3 DEF IsList
<1> HIDE DEF s
<1>5. IsList(s) /\ Len(s) = Len(old)
  BY <1>1, <1>4, Listed
<1>6. \A j \in 1 .. Len(s) : IsItem(b, s[j])
  BY <1>1, <1>4, <1>5
<1> QED
  BY <1>2, <1>5, <1>6, BlockOfCode

LEMMA RenderIs ==
  ASSUME NEW m, IsDocument(m)
  PROVE  LET c == Render(m)
         IN  /\ IsCode(c)
             /\ c.meta = FALSE /\ c.dynamic = {}
             /\ c.marker = m["vm"][1]["name"] /\ c.label = m["vm"][1]["name"]
             /\ \A b \in Block : /\ Len(c.blocks[b]) = Len(m[b])
                                 /\ \A i \in 1 .. Len(m[b]) : c.blocks[b][i] = New(b, Project(m)[b][i])
<1> DEFINE c == Render(m)
           X == [b \in Block |-> [i \in DOMAIN Project(m)[b] |-> New(b, Project(m)[b][i])]]
<1>1. c = [meta |-> FALSE, marker |-> m.vm[1].name, label |-> m.vm[1].name, dynamic |-> {}, blocks |-> X]
  BY DEF Render
<1>2. ASSUME NEW b \in Block
      PROVE  /\ IsList(X[b]) /\ Len(X[b]) = Len(m[b])
             /\ \A i \in 1 .. Len(m[b]) : X[b][i] = New(b, Project(m)[b][i])
             /\ \A i \in 1 .. Len(m[b]) : IsItem(b, X[b][i])
  <2>1. DOMAIN Project(m)[b] = 1 .. Len(m[b]) /\ Len(m[b]) \in Nat
    BY ProjectIs, DocumentIs
  <2>2. X[b] = [i \in 1 .. Len(m[b]) |-> New(b, Project(m)[b][i])]
    BY <2>1
  <2> HIDE DEF X
  <2>3. X[b] = [i \in 1 .. Len(m[b]) |-> X[b][i]]
        /\ \A i \in 1 .. Len(m[b]) : X[b][i] = New(b, Project(m)[b][i])
    BY <2>2
  <2>4. IsList(X[b]) /\ Len(X[b]) = Len(m[b])
    BY <2>1, <2>3, Listed
  <2>5. \A i \in 1 .. Len(m[b]) : IsItem(b, New(b, Project(m)[b][i]))
    BY NewOfIntent
  <2> QED
    BY <2>3, <2>4, <2>5
<1>3. X = [b \in Block |-> X[b]]
  OBVIOUS
<1> HIDE DEF X, c
<1>4. /\ c.meta = FALSE /\ c.marker = m["vm"][1]["name"] /\ c.label = m["vm"][1]["name"]
      /\ c.dynamic = {} /\ c.blocks = X
  BY <1>1
<1>5. IsCode(c)
  BY <1>1, <1>2, <1>3, <1>4 DEF IsCode
<1> QED
  BY <1>2, <1>4, <1>5 DEF c

LEMMA EditedCode ==
  ASSUME IsCode(code), EditCode
  PROVE  IsCode(code')
<1>1. ASSUME NEW p \in Places(code.blocks), NEW cell \in Cells(p[3]),
             code' = [code EXCEPT !.blocks[p[1]][p[2]].attrs[p[3]] = cell]
      PROVE  IsCode(code')
  <2> DEFINE b == p[1]
             i == p[2]
             a == p[3]
             old == code.blocks[b][i]
             item == [old EXCEPT !.attrs[a] = cell]
  <2>1. b \in Block /\ i \in DOMAIN code.blocks[b] /\ a \in Attributes[b]
    BY PlacesIs
  <2>2. i \in 1 .. Len(code.blocks[b])
    BY <2>1, CodeIs
  <2>3. code' = [code EXCEPT !.blocks[b][i] = item]
    BY <1>1
  <2>4. cell \in Cells(a)
    OBVIOUS
  <2>5. IsItem(b, old)
    BY <2>1, <2>2, CodeIs
  <2> HIDE DEF b, i, a, old
  <2>6. IsCell(a, cell)
    <3>1. None \notin Literals[a]
      BY <2>1, FileSyncAssumption
    <3>2. \/ cell \in {Absent, Cell("null", None), Cell("expression", None), Cell("invalid", None)}
          \/ \E k \in {"literal", "pinned"}, v \in Literals[a] : cell = Cell(k, v)
      BY <2>4 DEF Cells
    <3>3. CASE cell \in {Absent, Cell("null", None), Cell("expression", None), Cell("invalid", None)}
      BY <3>3 DEF IsCell, Kinds, Cell, Absent
    <3>4. CASE \E k \in {"literal", "pinned"}, v \in Literals[a] : cell = Cell(k, v)
      <4>1. PICK k \in {"literal", "pinned"}, v \in Literals[a] : cell = Cell(k, v)
        BY <3>4
      <4>2. cell.kind = k /\ cell.value = v
        BY <4>1 DEF Cell
      <4>3. v # None
        BY <3>1
      <4> QED
        BY <4>1, <4>2, <4>3 DEF IsCell, Kinds
    <3> QED
      BY <3>2, <3>3, <3>4
  <2>7. /\ old = [attrs |-> [x \in Attributes[b] |-> old.attrs[x]], extra |-> old.extra]
        /\ old.extra \in BOOLEAN /\ \A x \in Attributes[b] : IsCell(x, old.attrs[x])
    BY <2>5 DEF IsItem
  <2>8. IsItem(b, item)
    <3> DEFINE A == [old.attrs EXCEPT ![a] = cell]
    <3>1. old.attrs = [x \in Attributes[b] |-> old.attrs[x]]
      BY <2>7
    <3>2. A = [x \in Attributes[b] |-> A[x]] /\ \A x \in Attributes[b] : A[x] = IF x = a THEN cell ELSE old.attrs[x]
      BY <2>1, <3>1
    <3>3. item = [old EXCEPT !.attrs = A]
      OBVIOUS
    <3> HIDE DEF A, item
    <3>4. item = [attrs |-> A, extra |-> old.extra]
      BY <2>7, <3>3
    <3>5. item.attrs = A /\ item.extra = old.extra
      BY <3>4
    <3>6. \A x \in Attributes[b] : IsCell(x, item.attrs[x])
      BY <2>6, <2>7, <3>2, <3>5
    <3>7. item = [attrs |-> [x \in Attributes[b] |-> item.attrs[x]], extra |-> item.extra]
      BY <3>2, <3>4, <3>5
    <3> QED
      BY <2>7, <3>5, <3>6, <3>7 DEF IsItem
  <2> HIDE DEF item
  <2> QED
    BY <2>1, <2>2, <2>3, <2>8, ItemOfCode
<1>2. ASSUME NEW b \in Block, NEW i \in DOMAIN code.blocks[b],
             code' = [code EXCEPT !.blocks[b][i].extra = TRUE]
      PROVE  IsCode(code')
  <2> DEFINE old == code.blocks[b][i]
             item == [old EXCEPT !.extra = TRUE]
  <2>1. i \in 1 .. Len(code.blocks[b])
    BY CodeIs
  <2>2. code' = [code EXCEPT !.blocks[b][i] = item]
    BY <1>2
  <2>3. IsItem(b, old)
    BY <2>1, CodeIs
  <2> HIDE DEF old
  <2>4. /\ old = [attrs |-> [x \in Attributes[b] |-> old.attrs[x]], extra |-> old.extra]
        /\ \A x \in Attributes[b] : IsCell(x, old.attrs[x])
    BY <2>3 DEF IsItem
  <2>5. item = [attrs |-> [x \in Attributes[b] |-> old.attrs[x]], extra |-> TRUE]
    <3> DEFINE A == [x \in Attributes[b] |-> old.attrs[x]]
    <3>1. \E e : old = [attrs |-> A, extra |-> e]
      BY <2>4
    <3> HIDE DEF A
    <3>2. PICK e : old = [attrs |-> A, extra |-> e]
      BY <3>1
    <3>3. \A t : [old EXCEPT !.extra = t] = [attrs |-> A, extra |-> t]
      BY <3>2
    <3>4. item = [attrs |-> A, extra |-> TRUE]
      BY <3>3
    <3> QED
      BY <3>4 DEF A
  <2> HIDE DEF item
  <2>6. IsItem(b, item)
    <3>1. item.extra = TRUE /\ \A x \in Attributes[b] : item.attrs[x] = old.attrs[x]
      BY <2>5
    <3>2. item = [attrs |-> [x \in Attributes[b] |-> item.attrs[x]], extra |-> item.extra]
      BY <2>5, <3>1
    <3> QED
      BY <2>4, <3>1, <3>2 DEF IsItem
  <2> QED
    BY <2>1, <2>2, <2>6, ItemOfCode
<1>3. ASSUME NEW b \in Block \ {"vm"},
             code' = [code EXCEPT !.blocks[b] = Append(code.blocks[b],
                       New(b, [a \in Attributes[b] |-> CHOOSE v \in Literals[a] : TRUE]))]
      PROVE  IsCode(code')
  <2> DEFINE old == code.blocks[b]
             item == New(b, [a \in Attributes[b] |-> CHOOSE v \in Literals[a] : TRUE])
             s == Append(old, item)
  <2>1. IsList(old) /\ Len(old) \in Nat /\ \A j \in 1 .. Len(old) : IsItem(b, old[j])
    BY CodeIs
  <2> DEFINE want == [a \in Attributes[b] |-> CHOOSE v \in Literals[a] : TRUE]
  <2>2. \A a \in Attributes[b] : want[a] \in Literals[a]
    <3> SUFFICES ASSUME NEW a \in Attributes[b] PROVE want[a] \in Literals[a]
      OBVIOUS
    <3>1. Literals[a] # {}
      BY FileSyncAssumption
    <3> QED
      BY <3>1
  <2>3. IsItem(b, item)
    <3>1. \A a \in Attributes[b] : a \notin {"interface", "started"} => want[a] # None
      BY <2>2, FileSyncAssumption
    <3>2. item = New(b, want)
      OBVIOUS
    <3> HIDE DEF want, item
    <3> QED
      BY <3>1, <3>2, NewIs
  <2> HIDE DEF old, item, want
  <2>4. /\ IsList(s) /\ Len(s) = Len(old) + 1
        /\ \A i \in 1 .. Len(old) : s[i] = old[i]
        /\ s[Len(old) + 1] = item
    BY <2>1, Longer
  <2>5. code' = [code EXCEPT !.blocks[b] = s]
    BY <1>3 DEF old, item
  <2> HIDE DEF s
  <2>6. ASSUME NEW i \in 1 .. Len(s) PROVE IsItem(b, s[i])
    <3>1. i \in 1 .. Len(old) \/ i = Len(old) + 1
      BY <2>1, <2>4
    <3> QED
      BY <2>1, <2>3, <2>4, <3>1
  <2> QED
    BY <2>4, <2>5, <2>6, BlockOfCode
<1>4. ASSUME NEW b \in Block, code.blocks[b] # <<>>,
             code' = [code EXCEPT !.blocks[b] = Front(code.blocks[b])]
      PROVE  IsCode(code')
  <2> DEFINE old == code.blocks[b]
             s == Front(old)
  <2>1. IsList(old) /\ Len(old) \in Nat /\ \A j \in 1 .. Len(old) : IsItem(b, old[j])
    BY CodeIs
  <2>2. old # <<>>
    BY <1>4
  <2>3. code' = [code EXCEPT !.blocks[b] = s]
    BY <1>4
  <2> HIDE DEF old
  <2>4. IsList(s) /\ Len(s) = Len(old) - 1 /\ \A i \in 1 .. Len(old) - 1 : s[i] = old[i]
    BY <2>1, <2>2, Shorter
  <2> HIDE DEF s
  <2>5. ASSUME NEW i \in 1 .. Len(s) PROVE IsItem(b, s[i])
    <3>1. i \in 1 .. Len(old) /\ i \in 1 .. Len(old) - 1
      BY <2>1, <2>4
    <3> QED
      BY <2>1, <2>4, <3>1
  <2> QED
    BY <2>3, <2>4, <2>5, BlockOfCode
<1>5. ASSUME NEW X, code' \in {[code EXCEPT !.dynamic = X], [code EXCEPT !.meta = TRUE],
                              [code EXCEPT !.marker = None], [code EXCEPT !.label = None]}
      PROVE  IsCode(code')
  <2>1. code = [meta |-> code.meta, marker |-> code.marker, label |-> code.label,
                dynamic |-> code.dynamic, blocks |-> code.blocks]
    BY DEF IsCode
  <2>2. \E me \in {code.meta, TRUE} : \E ma, la, dy :
          code' = [meta |-> me, marker |-> ma, label |-> la, dynamic |-> dy, blocks |-> code.blocks]
    BY <1>5, <2>1
  <2>3. /\ code' = [meta |-> code'.meta, marker |-> code'.marker, label |-> code'.label,
                    dynamic |-> code'.dynamic, blocks |-> code'.blocks]
        /\ code'.blocks = code.blocks /\ code'.meta \in {code.meta, TRUE}
    <3>1. PICK me \in {code.meta, TRUE} : \E ma, la, dy :
            code' = [meta |-> me, marker |-> ma, label |-> la, dynamic |-> dy, blocks |-> code.blocks]
      BY <2>2
    <3>2. PICK ma, la, dy :
            code' = [meta |-> me, marker |-> ma, label |-> la, dynamic |-> dy, blocks |-> code.blocks]
      BY <3>1
    <3>3. code'.meta = me /\ code'.marker = ma /\ code'.label = la /\ code'.dynamic = dy
          /\ code'.blocks = code.blocks
      BY <3>2
    <3> QED
      BY <3>2, <3>3
  <2>4. code.meta \in BOOLEAN /\ code.blocks = [b \in Block |-> code.blocks[b]]
    BY DEF IsCode
  <2>5. code' = [meta |-> code'.meta, marker |-> code'.marker, label |-> code'.label,
                 dynamic |-> code'.dynamic, blocks |-> [b \in Block |-> code'.blocks[b]]]
    BY <2>3, <2>4
  <2> QED
    BY <2>3, <2>4, <2>5 DEF IsCode
<1>6. \/ \E p \in Places(code.blocks) : \E cell \in Cells(p[3]) :
           code' = [code EXCEPT !.blocks[p[1]][p[2]].attrs[p[3]] = cell]
      \/ \E b \in Block : \E i \in DOMAIN code.blocks[b] :
           code' = [code EXCEPT !.blocks[b][i].extra = TRUE]
      \/ \E b \in Block \ {"vm"} :
           \/ code' = [code EXCEPT !.dynamic = code.dynamic \cup {b}]
           \/ code' = [code EXCEPT !.blocks[b] = Append(code.blocks[b],
                         New(b, [a \in Attributes[b] |-> CHOOSE v \in Literals[a] : TRUE]))]
      \/ \E b \in Block \ {"vm"} :
           code.blocks[b] # <<>> /\ code' = [code EXCEPT !.blocks[b] = Front(code.blocks[b])]
      \/ code' \in {[code EXCEPT !.meta = TRUE], [code EXCEPT !.marker = None], [code EXCEPT !.label = None]}
  BY DEF EditCode
<1>7. CASE \E b \in Block \ {"vm"} : code' = [code EXCEPT !.dynamic = code.dynamic \cup {b}]
  <2>1. PICK b \in Block \ {"vm"} : code' = [code EXCEPT !.dynamic = code.dynamic \cup {b}]
    BY <1>7
  <2> QED
    BY <1>5, <2>1
<1>8. CASE code' \in {[code EXCEPT !.meta = TRUE], [code EXCEPT !.marker = None], [code EXCEPT !.label = None]}
  BY <1>5, <1>8
<1> QED
  BY <1>1, <1>2, <1>3, <1>4, <1>6, <1>7, <1>8, Zenon

\* Setting values that the other document has.
LEMMA SetAtIs ==
  ASSUME NEW m, IsDocument(m), NEW o, IsDocument(o), NEW paths,
         \A b \in Block \ {"clone"} : \A i, a : <<b, i, a>> \in paths => i \in 1 .. Len(o[b])
  PROVE  LET d == SetAt(m, o, paths)
         IN  /\ IsDocument(d)
             /\ \A b \in Block \ {"clone"} :
                  /\ Len(d[b]) = Len(m[b])
                  /\ \A i \in 1 .. Len(m[b]) : \A a \in Said(b) :
                       d[b][i][a] = IF <<b, i, a>> \in paths THEN o[b][i][a] ELSE m[b][i][a]
             /\ d["clone"] = IF \E p \in paths : p[1] = "clone" THEN o["clone"] ELSE m["clone"]
<1> DEFINE d == SetAt(m, o, paths)
           set(b, i, a) == IF <<b, i, a>> \in paths THEN o[b][i][a] ELSE m[b][i][a]
<1>1. /\ d = [x \in Block |-> d[x]]
      /\ d["clone"] = IF \E p \in paths : p[1] = "clone" THEN o["clone"] ELSE m["clone"]
      /\ \A b \in Block \ {"clone"} : d[b] = [i \in DOMAIN m[b] |-> [a \in Said(b) |-> set(b, i, a)]]
  BY Schema DEF SetAt
<1>2. ASSUME NEW b \in Block \ {"clone"}
      PROVE  /\ IsList(d[b]) /\ Len(d[b]) = Len(m[b])
             /\ d[b] = [i \in 1 .. Len(m[b]) |-> d[b][i]]
             /\ \A i \in 1 .. Len(m[b]) :
                  d[b][i] = [a \in Said(b) |-> d[b][i][a]] /\ \A a \in Said(b) : d[b][i][a] = set(b, i, a)
  <2>1. Len(m[b]) \in Nat /\ DOMAIN m[b] = 1 .. Len(m[b])
    BY DocumentIs
  <2>2. d[b] = [i \in 1 .. Len(m[b]) |-> [a \in Said(b) |-> set(b, i, a)]]
    BY <1>1, <2>1
  <2> HIDE DEF d, set
  <2>3. d[b] = [i \in 1 .. Len(m[b]) |-> d[b][i]]
    BY <2>2
  <2>4. IsList(d[b]) /\ Len(d[b]) = Len(m[b])
    BY <2>1, <2>3, Listed
  <2>5. \A i \in 1 .. Len(m[b]) : d[b][i] = [a \in Said(b) |-> set(b, i, a)]
    BY <2>2
  <2>6. \A i \in 1 .. Len(m[b]) : \A a \in Said(b) : d[b][i][a] = set(b, i, a)
    BY <2>5
  <2>7. \A i \in 1 .. Len(m[b]) : d[b][i] = [a \in Said(b) |-> d[b][i][a]]
    BY <2>5
  <2> QED
    BY <2>3, <2>4, <2>6, <2>7
<1> HIDE DEF d
<1>3. ASSUME NEW b \in Block \ {"clone"}, NEW i \in 1 .. Len(m[b]), NEW a \in Said(b)
      PROVE  Sayable(a, set(b, i, a))
  <2>1. CASE <<b, i, a>> \in paths
    <3>1. i \in 1 .. Len(o[b])
      BY <2>1
    <3> QED
      BY <2>1, <3>1, DocumentIs
  <2>2. CASE <<b, i, a>> \notin paths
    BY <2>2, DocumentIs
  <2> QED
    BY <2>1, <2>2
<1> HIDE DEF set
<1>4. ASSUME NEW x \in Block
      PROVE  /\ IsList(d[x]) /\ (x \in {"vm", "cpu"} => Len(d[x]) = 1) /\ (x = "clone" => Len(d[x]) <= 1)
             /\ d[x] = [i \in 1 .. Len(d[x]) |-> d[x][i]]
             /\ \A i \in 1 .. Len(d[x]) :
                  d[x][i] = [a \in Said(x) |-> d[x][i][a]] /\ \A a \in Said(x) : Sayable(a, d[x][i][a])
  <2>1. CASE x # "clone"
    <3>1. x \in {"vm", "cpu"} => Len(m[x]) = 1
      BY DocumentIs
    <3>2. x \in Block \ {"clone"}
      BY <2>1
    <3>3. /\ IsList(d[x]) /\ Len(d[x]) = Len(m[x]) /\ d[x] = [i \in 1 .. Len(d[x]) |-> d[x][i]]
          /\ \A i \in 1 .. Len(d[x]) : d[x][i] = [a \in Said(x) |-> d[x][i][a]]
      BY <1>2, <3>2
    <3>4. \A i \in 1 .. Len(d[x]) : \A a \in Said(x) : Sayable(a, d[x][i][a])
      <4>1. Len(d[x]) = Len(m[x]) /\ \A i \in 1 .. Len(m[x]) : \A a \in Said(x) : d[x][i][a] = set(x, i, a)
        BY <1>2, <3>2
      <4>2. \A i \in 1 .. Len(m[x]) : \A a \in Said(x) : Sayable(a, set(x, i, a))
        BY <1>3, <3>2
      <4> QED
        BY <4>1, <4>2
    <3> QED
      BY <2>1, <3>1, <3>3, <3>4
  <2>2. CASE x = "clone"
    <3>1. PICK e \in {m, o} : d[x] = e[x]
      BY <1>1, <2>2
    <3>2. IsDocument(e) /\ Len(e["clone"]) <= 1
      BY <3>1 DEF IsDocument
    <3>3. /\ IsList(e[x])
          /\ \A i \in 1 .. Len(e[x]) :
               e[x][i] = [a \in Said(x) |-> e[x][i][a]] /\ \A a \in Said(x) : Sayable(a, e[x][i][a])
      BY <3>2, DocumentIs
    <3>4. e[x] = [i \in 1 .. Len(e[x]) |-> e[x][i]]
      BY <3>3 DEF IsList
    <3> QED
      BY <2>2, <3>1, <3>2, <3>3, <3>4
  <2> QED
    BY <2>1, <2>2
<1>5. IsDocument(d)
  BY <1>1, <1>4, DocumentMade
<1> QED
  BY <1>1, <1>2, <1>5 DEF d, set

-----------------------------------------------------------------------------
(* The files stay well formed. *)

\* A path that a document has a value for is one of its places.
LEMMA ValueIs ==
  ASSUME NEW m, IsDocument(m), NEW b \in Block \ {"clone"}, NEW i, NEW a
  PROVE  /\ ValueAt(m, <<b, i, a>>) # {} => i \in 1 .. Len(m[b]) /\ a \in Said(b)
         /\ i \in 1 .. Len(m[b]) /\ a \in Said(b) => ValueAt(m, <<b, i, a>>) = {m[b][i][a]} \ {None}
<1>1. DOMAIN m[b] = 1 .. Len(m[b])
  BY DocumentIs
<1>2. ValueAt(m, <<b, i, a>>) = IF a \notin Said(b) \/ i \notin DOMAIN m[b] THEN {}
                                ELSE {m[b][i][a]} \ {None}
  BY DEF ValueAt, At
<1> QED
  BY <1>1, <1>2

\* What the caller of Synchronize gives can be set in what the lens reads.
LEMMA FinalIs ==
  ASSUME NEW m, IsDocument(m), NEW c, IsCode(c), NEW desired, IsDocument(desired)
  PROVE  IsDocument(SetAt(Read(m, c).vm, desired, Wanted(m, c, desired)))
<1>1. IsDocument(Read(m, c).vm)
  BY VmIs
<1>2. \A b \in Block \ {"clone"} : \A i, a :
        <<b, i, a>> \in Wanted(m, c, desired) => i \in 1 .. Len(desired[b])
  BY ValueIs DEF Wanted
<1> HIDE DEF IsDocument
<1> QED
  BY <1>1, <1>2, SetAtIs

\* What Synchronize writes into both files.
LEMMA SynchronizedIs ==
  ASSUME NEW m, IsDocument(m), NEW c, IsCode(c), NEW desired, IsDocument(desired),
         NEW out \in Synchronized(m, c, desired)
  PROVE  LET final == SetAt(Read(m, c).vm, desired, Wanted(m, c, desired))
             new == Put(final, c)
             again == Read(final, new)
         IN  /\ IsDocument(final) /\ LockMatches(m, c) /\ Writable(final, c)
             /\ Wanted(m, c, desired) \subseteq Read(m, c).synced
             /\ RoundTrips(Read(m, c).synced, final, again)
             /\ \A p \in Mirrored(m, again) : p[1] = "clone" \/ p[2] \in DOMAIN m[p[1]]
             /\ out.code = new /\ IsCode(out.code)
             /\ out.intent = SetAt(m, again.vm, Mirrored(m, again)) /\ IsDocument(out.intent)
<1> DEFINE final == SetAt(Read(m, c).vm, desired, Wanted(m, c, desired))
           new == Put(final, c)
           again == Read(final, new)
           Goes == /\ LockMatches(m, c)
                   /\ Wanted(m, c, desired) \subseteq Read(m, c).synced
                   /\ Writable(final, c)
                   /\ RoundTrips(Read(m, c).synced, final, again)
                   /\ \A p \in Mirrored(m, again) : p[1] = "clone" \/ p[2] \in DOMAIN m[p[1]]
<1>1. Synchronized(m, c, desired) =
        IF Goes THEN {[intent |-> SetAt(m, again.vm, Mirrored(m, again)), code |-> new]} ELSE {}
  BY DEF Synchronized
<1>2. IsDocument(final)
  BY FinalIs
<1> HIDE DEF final
<1>3. IsCode(new)
  BY <1>2, PutIs
<1> HIDE DEF new
<1>4. IsDocument(again.vm)
  BY <1>2, <1>3, VmIs
<1> HIDE DEF again
<1>5. \A b \in Block \ {"clone"} : \A i, a : <<b, i, a>> \in Mirrored(m, again) => i \in 1 .. Len(again.vm[b])
  BY <1>4, ValueIs DEF Mirrored
<1>6. IsDocument(SetAt(m, again.vm, Mirrored(m, again)))
  BY <1>4, <1>5, SetAtIs
<1> HIDE DEF Goes
<1>7. Goes /\ out = [intent |-> SetAt(m, again.vm, Mirrored(m, again)), code |-> new]
  BY <1>1
<1> QED
  BY <1>2, <1>3, <1>6, <1>7 DEF Goes, again, new, final

LEMMA FilesInit ==
  Init => FilesInv
<1>1. IsDocument(First)
  BY FileSyncAssumption
<1> QED
  BY <1>1, RenderIs DEF Init, FilesInv

LEMMA FilesNext ==
  FilesInv /\ [Next]_vars => FilesInv'
<1> SUFFICES ASSUME FilesInv, [Next]_vars
             PROVE  FilesInv'
  OBVIOUS
<1>1. IsDocument(intent) /\ IsCode(code)
  BY DEF FilesInv
<1>2. CASE EditIntent
  BY <1>1, <1>2, VariantsAreDocuments DEF EditIntent, FilesInv
<1>3. CASE EditCode
  <2>1. intent' = intent
    BY <1>3 DEF EditCode
  <2>2. IsCode(code')
    BY <1>1, <1>3, EditedCode
  <2> QED
    BY <1>1, <2>1, <2>2 DEF FilesInv
<1>4. CASE Synchronize
  <2>1. PICK desired \in {intent} \cup Variants(intent) :
          \E out \in Synchronized(intent, code, desired) : intent' = out.intent /\ code' = out.code
    BY <1>4 DEF Synchronize
  <2>2. IsDocument(desired)
    BY <1>1, <2>1, VariantsAreDocuments
  <2>3. PICK out \in Synchronized(intent, code, desired) : intent' = out.intent /\ code' = out.code
    BY <2>1
  <2>4. IsDocument(out.intent) /\ IsCode(out.code)
    BY <1>1, <2>2, <2>3, SynchronizedIs
  <2> QED
    BY <2>3, <2>4 DEF FilesInv
<1>5. CASE Compile
  <2>1. intent' = intent /\ (code' = Put(intent, code) \/ code' = Render(intent))
    BY <1>5 DEF Compile
  <2>2. IsCode(code')
    BY <1>1, <2>1, PutIs, RenderIs
  <2> QED
    BY <1>1, <2>1, <2>2 DEF FilesInv
<1>6. CASE UNCHANGED vars
  BY <1>1, <1>6 DEF vars, FilesInv
<1> QED
  BY <1>2, <1>3, <1>4, <1>5, <1>6 DEF Next

\* The files stay what the program can read: one machine that can be said,
\* and a block whose attributes are what HCL has.
THEOREM FilesWellFormed == Spec => []FilesInv
<1>1. Spec => []FilesInv
  BY FilesInit, FilesNext, PTL DEF Spec
<1> QED
  BY <1>1

-----------------------------------------------------------------------------
(* What people took over. *)

TakenOver(a, cell) == CodeOwned(a, cell) /\ cell.kind # "null"

Untouched == [extra |-> FALSE, owned |-> {}]

LEMMA TakenAlike ==
  ASSUME NEW b \in Block, NEW x, NEW y, x.extra = y.extra,
         \A a \in Attributes[b] :
           TakenOver(a, x.attrs[a]) \/ TakenOver(a, y.attrs[a]) => x.attrs[a] = y.attrs[a]
  PROVE  TakenIn(b, x) = TakenIn(b, y)
<1> DEFINE of(z) == {<<a, z.attrs[a]>> : a \in {a \in Attributes[b] : TakenOver(a, z.attrs[a])}}
<1>1. \A z : TakenIn(b, z) = [extra |-> z.extra, owned |-> of(z)]
  BY DEF TakenIn, TakenOver
<1>2. of(x) = of(y)
  OBVIOUS
<1> HIDE DEF of
<1> QED
  BY <1>1, <1>2

LEMMA NothingTaken ==
  ASSUME NEW b \in Block, NEW x, x.extra = FALSE, \A a \in Attributes[b] : ~TakenOver(a, x.attrs[a])
  PROVE  TakenIn(b, x) = Untouched
<1> DEFINE owned == {<<a, x.attrs[a]>> : a \in {a \in Attributes[b] : TakenOver(a, x.attrs[a])}}
<1>1. TakenIn(b, x) = [extra |-> x.extra, owned |-> owned]
  BY DEF TakenIn, TakenOver
<1>2. owned = {}
  OBVIOUS
<1> HIDE DEF owned
<1> QED
  BY <1>1, <1>2 DEF Untouched

\* Rewriting an item leaves what was taken over in it, and takes nothing.
LEMMA RewrittenTaken ==
  ASSUME NEW c, IsCode(c), NEW m, IsDocument(m), NEW keep, NEW b \in Block,
         NEW i \in 1 .. Len(c.blocks[b])
  PROVE  TakenIn(b, Rewritten(c, m, keep, b, i)) = TakenIn(b, c.blocks[b][i])
<1>1. PICK x : x = Rewritten(c, m, keep, b, i)
  OBVIOUS
<1>2. PICK y : y = c.blocks[b][i]
  OBVIOUS
<1>3. /\ x.extra = y.extra
      /\ i \notin 1 .. Len(m[b]) => x = y
      /\ i \in 1 .. Len(m[b]) =>
           \A a \in Attributes[b] :
             x.attrs[a] = IF <<b, i, a>> \in keep THEN y.attrs[a]
                          ELSE PutCell(a, y.attrs[a], Project(m)[b][i][a])
  <2>1. After(c, m, keep, b, i, x)
    BY <1>1, RewrittenIs
  <2> QED
    BY <1>2, <2>1 DEF After
<1>4. \A a \in Attributes[b] : IsCell(a, y.attrs[a])
  BY <1>2, CodeIs
<1>5. ASSUME NEW a \in Attributes[b], i \in 1 .. Len(m[b]),
             TakenOver(a, x.attrs[a]) \/ TakenOver(a, y.attrs[a])
      PROVE  x.attrs[a] = y.attrs[a]
  <2>1. CASE <<b, i, a>> \in keep
    BY <1>3, <1>5, <2>1
  <2>2. CASE <<b, i, a>> \notin keep
    <3>1. x.attrs[a] = PutCell(a, y.attrs[a], Project(m)[b][i][a])
      BY <1>3, <1>5, <2>2
    <3> QED
      BY <1>4, <1>5, <3>1, CellStays DEF TakenOver
  <2> QED
    BY <2>1, <2>2
<1>6. TakenIn(b, x) = TakenIn(b, y)
  <2>1. CASE i \in 1 .. Len(m[b])
    BY <1>3, <1>5, <2>1, TakenAlike
  <2>2. CASE i \notin 1 .. Len(m[b])
    BY <1>3, <2>2
  <2> QED
    BY <2>1, <2>2
<1> QED
  BY <1>1, <1>2, <1>6

\* A block that intent has no item for says nothing that intent can express.
LEMMA ZeroIsLost ==
  ASSUME NEW m, IsDocument(m), NEW c, IsCode(c), NEW b \in {"clone", "disk"},
         NEW i \in 1 .. Len(c.blocks[b]), i \notin 1 .. Len(m[b]),
         NEW a \in Attributes[b], a \notin Optional, CodeOwned(a, c.blocks[b][i].attrs[a])
  PROVE  LostAt(m, c, b, i, a) /\ StaysAt(m, c, b, i)
<1>1. Heard(m, c, b, i, a) = Zero(a)
  <2>1. Base(m, b, i, a) = Zero(a)
    BY DEF Base
  <2> QED
    BY <2>1, ReadCellIs DEF Heard
<1>2. b \in Block /\ a \in {"vm_id", "interface", "size"} /\ (b = "clone" => a = "vm_id")
  BY Schema DEF Optional
<1>3. Len(c.blocks[b]) \in Nat
  BY <1>2, CodeIs
<1>4. ToIntent(a, i, 0) = {}
  <2>1. CASE a = "vm_id"
    BY <2>1, FileSyncAssumption DEF ToIntent
  <2>2. CASE a = "interface"
    <3>1. i # 0
      BY <1>3
    <3> QED
      BY <2>2, <3>1 DEF ToIntent
  <2>3. CASE a = "size"
    BY <2>3 DEF ToIntent
  <2> QED
    BY <1>2, <2>1, <2>2, <2>3
<1>5. Zero(a) = 0
  BY <1>2, ZeroIs
<1>6. LostAt(m, c, b, i, a)
  BY <1>1, <1>4, <1>5 DEF LostAt, ChangedAt
<1>7. i <= i
  BY <1>3
<1> QED
  BY <1>2, <1>6, <1>7 DEF StaysAt

\* What is removed held nothing of anybody's but literals that are not of the
\* type of an optional attribute.
LEMMA SurplusFree ==
  ASSUME NEW m, IsDocument(m), NEW c, IsCode(c), NEW b \in Block,
         NEW i \in Surplus(c, Project(m), Read(m, c).keep, b),
         Removable(b, i, c.blocks[b][i], Read(m, c).keep)
  PROVE  i \in Misread(m, c, b)
<1> DEFINE keep == Read(m, c).keep
           item == c.blocks[b][i]
<1>1. /\ ~Opaque(c, b) /\ i \in 1 .. Len(c.blocks[b]) /\ i > Len(m[b]) /\ ~Kept(b, i, keep)
      /\ Len(c.blocks[b]) \in Nat /\ Len(m[b]) \in Nat
  <2>1. Surplus(c, Project(m), keep, b) # {}
    OBVIOUS
  <2>2. ~Opaque(c, b)
    BY <2>1, SurplusIs
  <2> QED
    BY <2>2, SurplusIs, CodeIs, DocumentIs
<1>2. b \in {"clone", "disk"}
  <2>1. ASSUME b \in {"vm", "cpu"} PROVE FALSE
    <3>1. Len(c.blocks[b]) = 1 /\ Len(m[b]) = 1
      BY <1>1, <2>1, OpaqueIs, DocumentIs
    <3> QED
      BY <1>1, <3>1
  <2> QED
    BY <2>1, Schema
<1>3. IsItem(b, item)
  BY <1>1, CodeIs
<1>4. item.extra = FALSE
  BY <1>3 DEF IsItem, Removable
<1>5. ASSUME NEW a \in Attributes[b], CodeOwned(a, item.attrs[a])
      PROVE  a \in Optional /\ item.attrs[a].kind = "invalid"
  <2>1. a \in Optional
    <3> SUFFICES ASSUME a \notin Optional PROVE FALSE
      OBVIOUS
    <3>1. StaysAt(m, c, b, i)
      BY <1>1, <1>2, <1>5, ZeroIsLost
    <3>2. Kept(b, i, keep)
      BY <1>1, <3>1, KeepIs DEF Kept
    <3> QED
      BY <1>1, <3>2
  <2>2. item.attrs[a].kind \notin {"expression", "pinned"} \/ item.attrs[a].kind = "absent"
    BY DEF Removable
  <2> QED
    BY <1>5, <2>1, <2>2 DEF CodeOwned
<1>6. i \in DOMAIN c.blocks[b] \ DOMAIN m[b]
  <2>1. DOMAIN c.blocks[b] = 1 .. Len(c.blocks[b]) /\ DOMAIN m[b] = 1 .. Len(m[b])
    BY CodeIs, DocumentIs
  <2> QED
    BY <1>1, <2>1
<1>7. TakenIn(b, item).extra = FALSE
  BY <1>4 DEF TakenIn
<1>8. ASSUME NEW t \in TakenIn(b, item).owned
      PROVE  t[1] \in Optional /\ t[2].kind = "invalid"
  <2>1. t \in {<<a, item.attrs[a]>> : a \in {a \in Attributes[b] : /\ CodeOwned(a, item.attrs[a])
                                                                /\ item.attrs[a].kind # "null"}}
    BY <1>8 DEF TakenIn
  <2>2. PICK a \in Attributes[b] : CodeOwned(a, item.attrs[a]) /\ t = <<a, item.attrs[a]>>
    BY <2>1
  <2> QED
    BY <1>5, <2>2
<1> HIDE DEF item
<1> QED
  BY <1>6, <1>7, <1>8 DEF Misread, item

\* Writing keeps, in a block that has items of its own, what was taken over
\* and its order, but for the items that are removed.
LEMMA HeldStays ==
  ASSUME NEW m, IsDocument(m), NEW c, IsCode(c), NEW b \in Block, ~Opaque(c, b), Writable(m, c)
  PROVE  LET d == Put(m, c)
             T == Held(c, b) \ Surplus(c, Project(m), Read(m, c).keep, b)
         IN  /\ Cardinality(Held(d, b)) = Cardinality(T)
             /\ \A j \in 1 .. Cardinality(T) :
                  TakenIn(b, d.blocks[b][InOrder(Held(d, b))[j]]) = TakenIn(b, c.blocks[b][InOrder(T)[j]])
<1> DEFINE d == Put(m, c)
           keep == Read(m, c).keep
           old == c.blocks[b]
           new == d.blocks[b]
           R == Remaining(c, m, keep, b)
           K == Cardinality(R)
           N == Len(old)
           M == Missing(c, m, b)
           S == Held(d, b)
           gone == Surplus(c, Project(m), keep, b)
           T == Held(c, b) \ gone
           p == [j \in S |-> InOrder(R)[j]]
<1>1. IsCode(d) /\ new = PutBlock(c, Project(m), keep, b)
  BY PutIs
<1>2. /\ Len(new) = K + M
      /\ \A j \in 1 .. K : new[j] = Rewritten(c, m, keep, b, InOrder(R)[j])
      /\ \A j \in 1 .. K + M : j > K =>
           /\ N + (j - K) \in 1 .. Len(m[b])
           /\ new[j] = New(b, Project(m)[b][N + (j - K)])
  BY <1>1, PutBlockIs
<1>3. /\ R \in SUBSET (1 .. N) /\ IsFiniteSet(R) /\ K \in Nat /\ N \in Nat
      /\ InOrder(R) \in [1 .. K -> R]
      /\ \A i, j \in 1 .. K : i < j => InOrder(R)[i] < InOrder(R)[j]
      /\ \A i \in R : \E j \in 1 .. K : InOrder(R)[j] = i
  BY RemainingIs, CodeIs
<1>4. M \in Nat
  <2>1. Len(m[b]) \in Nat
    BY DocumentIs
  <2>2. \A x, y \in Nat : (IF x > y THEN x - y ELSE 0) \in Nat
    OBVIOUS
  <2> QED
    BY <1>3, <2>1, <2>2 DEF Missing
<1>5. DOMAIN new = 1 .. K + M /\ DOMAIN old = 1 .. N
  BY <1>1, <1>2, CodeIs
<1>6. \A j \in 1 .. K : TakenIn(b, new[j]) = TakenIn(b, old[InOrder(R)[j]])
  BY <1>2, <1>3, RewrittenTaken
<1>7. \A j \in 1 .. K + M : j > K => TakenIn(b, new[j]) = Untouched
  <2> SUFFICES ASSUME NEW j \in 1 .. K + M, j > K
               PROVE  TakenIn(b, new[j]) = Untouched
    OBVIOUS
  <2>1. PICK i \in 1 .. Len(m[b]) : new[j] = New(b, Project(m)[b][i])
    BY <1>2
  <2> DEFINE want == Project(m)[b][i]
  <2>4. New(b, want).extra = FALSE /\ \A a \in Attributes[b] : ~TakenOver(a, New(b, want).attrs[a])
    BY NewOfIntent DEF TakenOver
  <2> HIDE DEF want
  <2>5. TakenIn(b, New(b, want)) = Untouched
    BY <2>4, NothingTaken
  <2> QED
    BY <2>1, <2>5 DEF want
<1>8. R = (1 .. N) \ gone
  BY DEF Remaining
<1>9. /\ \A j : j \in S <=> j \in DOMAIN new /\ TakenIn(b, new[j]) # Untouched
      /\ \A i : i \in T <=> i \in DOMAIN old /\ TakenIn(b, old[i]) # Untouched /\ i \notin gone
  BY DEF Held, Untouched
<1> HIDE DEF d, keep, old, new, R, K, N, M, S, gone, T
<1>10. ASSUME NEW j \in S PROVE j \in 1 .. K /\ InOrder(R)[j] \in T
  <2>1. j \in 1 .. K + M /\ TakenIn(b, new[j]) # Untouched
    BY <1>5, <1>9
  <2>2. ~ j > K
    BY <1>7, <2>1
  <2>3. j \in 1 .. K
    BY <1>3, <1>4, <2>1, <2>2
  <2>4. InOrder(R)[j] \in R /\ InOrder(R)[j] \in 1 .. N
    BY <1>3, <2>3
  <2> QED
    BY <1>5, <1>6, <1>8, <1>9, <2>1, <2>3, <2>4
<1>11. ASSUME NEW i \in T PROVE \E j \in S : InOrder(R)[j] = i
  <2>1. i \in 1 .. N /\ TakenIn(b, old[i]) # Untouched /\ i \notin gone
    BY <1>5, <1>9
  <2>2. i \in R
    BY <1>8, <2>1
  <2>3. PICK j \in 1 .. K : InOrder(R)[j] = i
    BY <1>3, <2>2
  <2>4. j \in 1 .. K + M
    BY <1>3, <1>4
  <2> QED
    BY <1>5, <1>6, <1>9, <2>1, <2>3, <2>4
<1>12. S \in SUBSET (1 .. K) /\ IsFiniteSet(S) /\ S \in SUBSET Nat /\ T \in SUBSET Nat
  <2>1. IsFiniteSet(1 .. K) /\ S \in SUBSET (1 .. K)
    BY <1>3, <1>10, FS_Interval
  <2>2. T \in SUBSET Nat
    BY <1>5, <1>9
  <2>3. IsFiniteSet(S)
    BY <2>1, FS_Subset
  <2>4. S \in SUBSET Nat
    BY <1>3, <2>1
  <2> QED
    BY <2>1, <2>2, <2>3, <2>4
<1>13. p \in [S -> T] /\ \A j \in S : p[j] = InOrder(R)[j]
  BY <1>10
<1> HIDE DEF p
<1>14. /\ \A i, j \in S : i < j => p[i] < p[j]
       /\ \A t \in T : \E s \in S : p[s] = t
  BY <1>3, <1>10, <1>11, <1>13
<1>15. /\ Cardinality(T) = Cardinality(S)
       /\ \A j \in 1 .. Cardinality(S) : InOrder(S)[j] \in S /\ InOrder(T)[j] = p[InOrder(S)[j]]
  BY <1>12, <1>13, <1>14, ImageInOrder
<1>16. ASSUME NEW j \in 1 .. Cardinality(T)
       PROVE  TakenIn(b, new[InOrder(S)[j]]) = TakenIn(b, old[InOrder(T)[j]])
  <2>1. InOrder(S)[j] \in S /\ InOrder(T)[j] = p[InOrder(S)[j]]
    BY <1>15
  <2>2. InOrder(S)[j] \in 1 .. K /\ InOrder(T)[j] = InOrder(R)[InOrder(S)[j]]
    BY <1>10, <1>13, <2>1
  <2> QED
    BY <1>6, <2>2
<1> QED
  BY <1>15, <1>16 DEF d, old, new, S, T, gone, keep

LEMMA PutTaken ==
  ASSUME NEW m, IsDocument(m), NEW c, IsCode(c), Writable(m, c), NEW b \in Block
  PROVE  LET gone == Surplus(c, Project(m), Read(m, c).keep, b)
         IN  gone \in SUBSET Misread(m, c, b) /\ Taken(Put(m, c), b, {}) = Taken(c, b, gone)
<1> DEFINE d == Put(m, c)
           gone == Surplus(c, Project(m), Read(m, c).keep, b)
           S == Held(d, b)
           T == Held(c, b) \ gone
<1>1. (Opaque(d, b) <=> Opaque(c, b)) /\ (Opaque(c, b) => d.blocks[b] = c.blocks[b])
  BY PutIs
<1>2. \A i \in gone : Removable(b, i, c.blocks[b][i], Read(m, c).keep)
  BY DEF Writable
<1>3. gone \in SUBSET Misread(m, c, b)
  BY <1>2, SurplusFree
<1>4. CASE Opaque(c, b)
  BY <1>1, <1>3, <1>4 DEF Taken
<1>5. CASE ~Opaque(c, b)
  <2>1. /\ Cardinality(S) = Cardinality(T)
        /\ \A j \in 1 .. Cardinality(T) :
             TakenIn(b, d.blocks[b][InOrder(S)[j]]) = TakenIn(b, c.blocks[b][InOrder(T)[j]])
    BY <1>5, HeldStays
  <2>2. \A X : DOMAIN InOrder(X) = 1 .. Cardinality(X)
    BY DEF InOrder
  <2>3. S \ {} = S
    OBVIOUS
  <2>4. /\ Taken(d, b, {}) = [j \in 1 .. Cardinality(S) |-> TakenIn(b, d.blocks[b][InOrder(S)[j]])]
        /\ Taken(c, b, gone) = [j \in 1 .. Cardinality(T) |-> TakenIn(b, c.blocks[b][InOrder(T)[j]])]
    BY <1>1, <1>5, <2>2, <2>3 DEF Taken
  <2> HIDE DEF S, T, d, gone
  <2>5. Taken(d, b, {}) = Taken(c, b, gone)
    BY <2>1, <2>4
  <2> QED
    BY <1>3, <2>5 DEF d, gone
<1> QED
  BY <1>4, <1>5

-----------------------------------------------------------------------------
(* What intent cannot say. *)

Mute(a, i, cell) == ~CodeOwned(a, cell) /\ ToIntent(a, i, Raw(a, cell)) = {}

\* What intent says, it can say again.
LEMMA ToCodeSaid ==
  ASSUME NEW m, IsDocument(m), NEW b \in Block, NEW i \in 1 .. Len(m[b]), NEW a \in Attributes[b]
  PROVE  ToIntent(a, i, ToCode(m[b][i], a, i)) # {}
<1> DEFINE item == m[b][i]
<1>1. a \in Said(b) => Sayable(a, item[a])
  BY DocumentIs
<1>2. a \in {"interface", "node_name"} \/ a \in Said(b)
  BY Schema
<1>3. a \in {"interface", "node_name", "name", "protection", "bios", "started", "cores", "vm_id", "size", "ssd"}
  BY Schema
<1> HIDE DEF item
<1>4. CASE a = "interface"
  BY <1>4 DEF ToIntent, ToCode
<1>5. CASE a = "protection"
  <2>1. ToIntent(a, i, ToCode(item, a, i)) = {ToCode(item, a, i)}
    BY <1>5 DEF ToIntent
  <2> QED
    BY <2>1 DEF item
<1>11. CASE a = "node_name"
  BY <1>11 DEF ToIntent, ToCode
<1>6. CASE a \in {"name", "cores", "ssd"}
  <2>1. ToIntent(a, i, ToCode(item, a, i)) = {ToCode(item, a, i)}
    BY <1>6 DEF ToIntent
  <2> QED
    BY <2>1 DEF item
<1>7. CASE a = "bios"
  <2>1. item[a] \in Firmware
    BY <1>1, <1>2, <1>7 DEF Sayable
  <2>2. ToCode(item, a, i) = item[a]
    BY <1>7 DEF ToCode
  <2>3. ToIntent(a, i, item[a]) = {item[a]} \cap Firmware
    BY <1>7 DEF ToIntent
  <2> QED
    BY <2>1, <2>2, <2>3 DEF item
<1>8. CASE a = "started"
  <2>1. item[a] \in DOMAIN PowerState
    BY <1>1, <1>2, <1>8 DEF Sayable
  <2>2. ToCode(item, a, i) = PowerState[item[a]]
    BY <1>8 DEF ToCode
  <2>3. ToIntent(a, i, PowerState[item[a]]) = {s \in DOMAIN PowerState : PowerState[s] = PowerState[item[a]]}
    BY <1>8 DEF ToIntent
  <2> QED
    BY <2>1, <2>2, <2>3 DEF item
<1>9. CASE a = "vm_id"
  <2>1. item[a] \in DOMAIN Templates
    BY <1>1, <1>2, <1>9 DEF Sayable
  <2>2. ToCode(item, a, i) = Templates[item[a]]
    BY <1>9 DEF ToCode
  <2>3. ToIntent(a, i, Templates[item[a]]) = {t \in DOMAIN Templates : Templates[t] = Templates[item[a]]}
    BY <1>9 DEF ToIntent
  <2> QED
    BY <2>1, <2>2, <2>3 DEF item
<1>10. CASE a = "size"
  <2>1. item[a] # 0
    BY <1>1, <1>2, <1>10 DEF Sayable
  <2>2. ToCode(item, a, i) = item[a]
    BY <1>10 DEF ToCode
  <2>3. ToIntent(a, i, item[a]) = {item[a]} \ {0}
    BY <1>10 DEF ToIntent
  <2> QED
    BY <2>1, <2>2, <2>3 DEF item
<1> QED
  BY <1>3, <1>4, <1>5, <1>6, <1>7, <1>8, <1>9, <1>10, <1>11

\* What is said for a value of code becomes that value again.
LEMMA IntentBack ==
  ASSUME NEW b \in Block, NEW a \in Said(b), NEW i, NEW u, NEW item, item[a] \in ToIntent(a, i, u),
         a = "protection" => u # None
  PROVE  ToCode(item, a, i) = u
<1>1. a \in {"name", "protection", "bios", "started", "cores", "vm_id", "size", "ssd"}
  BY Schema
<1>2. CASE a \in {"name", "cores", "ssd"}
  BY <1>2 DEF ToIntent, ToCode
<1>3. CASE a = "protection"
  <2>1. item[a] = u
    BY <1>3 DEF ToIntent
  <2> QED
    BY <1>3, <2>1 DEF ToCode
<1>4. CASE a \in {"bios", "size"}
  <2>1. item[a] = u
    BY <1>4 DEF ToIntent
  <2> QED
    BY <1>4, <2>1 DEF ToCode
<1>5. CASE a = "started"
  <2>1. PowerState[item[a]] = u
    BY <1>5 DEF ToIntent
  <2> QED
    BY <1>5, <2>1 DEF ToCode
<1>6. CASE a = "vm_id"
  <2>1. Templates[item[a]] = u
    BY <1>6 DEF ToIntent
  <2> QED
    BY <1>6, <2>1 DEF ToCode
<1> QED
  BY <1>1, <1>2, <1>3, <1>4, <1>5, <1>6

\* It depends on the code alone whether a value is lost to an item that
\* intent has.
LEMMA LostIs ==
  ASSUME NEW m, IsDocument(m), NEW c, NEW b \in Block, NEW i, NEW a \in Attributes[b]
  PROVE  LET cell == c.blocks[b][i].attrs[a]
         IN  /\ Mute(a, i, cell) => LostAt(m, c, b, i, a)
             /\ LostAt(m, c, b, i, a) /\ (i \in 1 .. Len(m[b]) \/ ~CodeOwned(a, cell)) => Mute(a, i, cell)
<1> DEFINE cell == c.blocks[b][i].attrs[a]
           heard == Heard(m, c, b, i, a)
           raw == Raw(a, cell)
           base == Base(m, b, i, a)
<1>1. /\ ~CodeOwned(a, cell) => heard = raw
      /\ CodeOwned(a, cell) /\ i \in 1 .. Len(m[b]) => ~ChangedAt(m, c, b, i, a)
  BY HeardIs
<1>2. LostAt(m, c, b, i, a) <=> ChangedAt(m, c, b, i, a) /\ ToIntent(a, i, heard) = {}
  BY DEF LostAt
<1>3. ChangedAt(m, c, b, i, a) <=> (i \in 1 .. Len(m[b]) => base # heard)
  BY DEF ChangedAt
<1>4. i \in 1 .. Len(m[b]) => ToIntent(a, i, base) # {}
  BY ToCodeSaid DEF Base
<1>5. Mute(a, i, cell) <=> ~CodeOwned(a, cell) /\ ToIntent(a, i, raw) = {}
  BY DEF Mute
<1> HIDE DEF cell, heard, raw, base
<1>6. Mute(a, i, cell) => LostAt(m, c, b, i, a)
  BY <1>1, <1>2, <1>3, <1>4, <1>5
<1>7. LostAt(m, c, b, i, a) /\ (i \in 1 .. Len(m[b]) \/ ~CodeOwned(a, cell)) => Mute(a, i, cell)
  BY <1>1, <1>2, <1>5
<1> QED
  BY <1>6, <1>7 DEF cell

\* What the lens tells intent is what the code says.
LEMMA ToldIs ==
  ASSUME NEW m, IsDocument(m), NEW c, IsCode(c), NEW b \in Block,
         NEW i \in 1 .. Len(c.blocks[b]), NEW a \in Said(b),
         ~CodeOwned(a, c.blocks[b][i].attrs[a]), ~Mute(a, i, c.blocks[b][i].attrs[a]),
         NEW item, item[a] = Told(m, c, b, i, a)
  PROVE  ToCode(item, a, i) = Raw(a, c.blocks[b][i].attrs[a])
<1> DEFINE cell == c.blocks[b][i].attrs[a]
           heard == Heard(m, c, b, i, a)
<1>1. a \in Attributes[b]
  BY Schema
<1>2. ~LostAt(m, c, b, i, a) /\ heard = Raw(a, cell) /\ IsCell(a, cell)
  BY <1>1, LostIs, HeardIs, CodeIs
<1>3. ~CodeOwned(a, cell)
  OBVIOUS
<1> HIDE DEF cell, heard
<1>4. CASE ChangedAt(m, c, b, i, a)
  <2>1. ToIntent(a, i, heard) # {}
    BY <1>2, <1>4 DEF LostAt, heard
  <2>2. item[a] \in ToIntent(a, i, heard)
    BY <1>2, <1>4, <2>1 DEF Told, heard
  <2>3. a = "protection" => heard # None
    <3> SUFFICES ASSUME a = "protection" PROVE heard # None
      OBVIOUS
    <3>1. cell.kind = "literal" /\ cell.value # None
      BY <1>2, <1>3 DEF IsCell, CodeOwned, Kinds, Optional
    <3> QED
      BY <1>2, <3>1 DEF Raw
  <2> QED
    BY <1>2, <2>2, <2>3, IntentBack DEF cell
<1>5. CASE ~ChangedAt(m, c, b, i, a)
  <2>1. i \in 1 .. Len(m[b]) /\ Base(m, b, i, a) = heard
    BY <1>5 DEF ChangedAt, heard
  <2>2. item[a] = m[b][i][a]
    BY <1>5 DEF Told
  <2>3. ToCode(m[b][i], a, i) = heard
    BY <2>1 DEF Base
  <2>4. ToCode(item, a, i) = ToCode(m[b][i], a, i)
    BY <2>2 DEF ToCode
  <2> QED
    BY <1>2, <2>3, <2>4 DEF cell
<1> QED
  BY <1>4, <1>5

-----------------------------------------------------------------------------
(* A document and a block in step. *)

\* Every item of the block is in the document, or stays the code's.
Fits(m, c) ==
  \A b \in Block : ~Opaque(c, b) =>
    /\ Len(m[b]) <= Len(c.blocks[b])
    /\ \A i \in 1 .. Len(c.blocks[b]) : i > Len(m[b]) => StaysAt(m, c, b, i)

\* What the document says, the code says where it is nodr's to say.
Says(m, c, b, i, a) ==
  LET cell == c.blocks[b][i].attrs[a]
  IN  Mute(a, i, cell) \/ CodeOwned(a, cell) \/ Raw(a, cell) = ToCode(m[b][i], a, i)

Agrees(m, c) ==
  /\ Fits(m, c)
  /\ \A b \in Block : ~Opaque(c, b) =>
       \A i \in 1 .. Len(m[b]) : \A a \in Attributes[b] : Says(m, c, b, i, a)

\* Nothing that nodr would fill in is null.
Filled(c, b, n) ==
  \A i \in 1 .. n : \A a \in Attributes[b] :
    CodeOwned(a, c.blocks[b][i].attrs[a]) => c.blocks[b][i].attrs[a].kind # "null"

InStep(m, c) ==
  Agrees(m, c) /\ \A b \in Block : ~Opaque(c, b) => Filled(c, b, Len(m[b]))

\* Only an item that intent does not have can stay the code's, or a clone.
LEMMA StaysOutside ==
  ASSUME NEW m, IsDocument(m), NEW c, IsCode(c), NEW b \in Block, b # "clone", NEW i, StaysAt(m, c, b, i)
  PROVE  i \notin 1 .. Len(m[b])
<1>1. PICK k \in 1 .. Len(c.blocks[b]) : k <= i /\ k \notin 1 .. Len(m[b])
  BY DEF StaysAt
<1>2. Len(m[b]) \in Nat /\ Len(c.blocks[b]) \in Nat
  BY DocumentIs, CodeIs
<1>3. ASSUME i \in 1 .. Len(m[b]) PROVE FALSE
  <2>1. i \in Nat /\ k \in Nat /\ k >= 1 /\ k <= Len(m[b])
    BY <1>1, <1>2, <1>3
  <2> QED
    BY <1>1, <1>2, <2>1
<1> QED
  BY <1>3

\* A clone stays as a whole, for the sake of its template.
LEMMA CloneStays ==
  ASSUME NEW m, NEW c, IsCode(c), ~Opaque(c, "clone"), NEW i, StaysAt(m, c, "clone", i)
  PROVE  Len(c.blocks["clone"]) = 1 /\ LostAt(m, c, "clone", 1, "vm_id") /\ StaysAt(m, c, "clone", 1)
<1>1. "clone" \in Block /\ "vm_id" \in Attributes["clone"]
  BY Schema
<1>2. PICK k \in 1 .. Len(c.blocks["clone"]) : LostAt(m, c, "clone", k, "vm_id")
  <2>1. PICK k \in 1 .. Len(c.blocks["clone"]) : \E a \in Attributes["clone"] :
          LostAt(m, c, "clone", k, a) /\ a = "vm_id"
    BY DEF StaysAt
  <2> QED
    BY <2>1
<1>3. Len(c.blocks["clone"]) \in Nat /\ ~ Len(c.blocks["clone"]) > 1
  BY <1>1, CodeIs, OpaqueIs
<1>4. \A n \in Nat : \A j \in 1 .. n : ~ n > 1 => j = 1 /\ n = 1
  OBVIOUS
<1>5. k = 1 /\ Len(c.blocks["clone"]) = 1
  BY <1>2, <1>3, <1>4
<1>6. 1 \in 1 .. Len(c.blocks["clone"]) /\ 1 <= 1
  BY <1>5
<1>7. StaysAt(m, c, "clone", 1)
  BY <1>1, <1>2, <1>5, <1>6 DEF StaysAt
<1> QED
  BY <1>2, <1>5, <1>7

\* The name of the node is never nodr's to say: where the code says none,
\* intent agrees.
LEMMA NodeSays ==
  ASSUME NEW i, NEW cell, NEW item, ~Mute("node_name", i, cell)
  PROVE  /\ ~CodeOwned("node_name", cell) => Raw("node_name", cell) = ToCode(item, "node_name", i)
         /\ CodeOwned("node_name", cell) => cell.kind # "null"
<1>1. ToCode(item, "node_name", i) = "" /\ \A u : ToIntent("node_name", i, u) = {u} \cap {""}
  BY DEF ToCode, ToIntent
<1>2. ~CodeOwned("node_name", cell) => ToIntent("node_name", i, Raw("node_name", cell)) # {}
  BY DEF Mute
<1>3. CodeOwned("node_name", cell) => cell.kind # "null"
  BY DEF CodeOwned, Optional
<1> QED
  BY <1>1, <1>2, <1>3

\* Of an item that both have, what is mute is kept, and of a clone that stays
\* the name of its node.
LEMMA KeptInside ==
  ASSUME NEW m, IsDocument(m), NEW c, IsCode(c), NEW b \in Block, ~Opaque(c, b),
         NEW i \in 1 .. Len(c.blocks[b]), i \in 1 .. Len(m[b]), NEW a \in Attributes[b]
  PROVE  /\ Mute(a, i, c.blocks[b][i].attrs[a]) => <<b, i, a>> \in Read(m, c).keep
         /\ <<b, i, a>> \in Read(m, c).keep
              => Mute(a, i, c.blocks[b][i].attrs[a]) \/ (b = "clone" /\ a = "node_name")
<1>1. <<b, i, a>> \in Read(m, c).keep <=> LostAt(m, c, b, i, a) \/ StaysAt(m, c, b, i)
  BY KeepIs
<1>2. LostAt(m, c, b, i, a) <=> Mute(a, i, c.blocks[b][i].attrs[a])
  BY LostIs
<1>3. ASSUME StaysAt(m, c, b, i) PROVE LostAt(m, c, b, i, a) \/ (b = "clone" /\ a = "node_name")
  <2>1. b = "clone"
    BY <1>3, StaysOutside
  <2>2. Len(c.blocks[b]) = 1 /\ LostAt(m, c, b, 1, "vm_id")
    BY <1>3, <2>1, CloneStays
  <2>3. i = 1
    <3>1. \A j \in 1 .. 1 : j = 1
      OBVIOUS
    <3> QED
      BY <2>2, <3>1
  <2>4. a \in {"vm_id", "node_name"}
    BY <2>1, Schema
  <2> QED
    BY <2>1, <2>2, <2>3, <2>4
<1> QED
  BY <1>1, <1>2, <1>3

\* Writing a document that fits removes nothing and adds nothing.
LEMMA PutFits ==
  ASSUME NEW m, IsDocument(m), NEW c, IsCode(c), Fits(m, c), NEW b \in Block
  PROVE  /\ Surplus(c, Project(m), Read(m, c).keep, b) = {}
         /\ ~Opaque(c, b) =>
              /\ Len(Put(m, c).blocks[b]) = Len(c.blocks[b])
              /\ \A i \in 1 .. Len(c.blocks[b]) :
                   Put(m, c).blocks[b][i] = Rewritten(c, m, Read(m, c).keep, b, i)
<1> DEFINE keep == Read(m, c).keep
           N == Len(c.blocks[b])
           R == Remaining(c, m, keep, b)
           new == Put(m, c).blocks[b]
<1>1. N \in Nat /\ Len(m[b]) \in Nat
  BY CodeIs, DocumentIs
<1>2. ASSUME ~Opaque(c, b), NEW i \in 1 .. N, i > Len(m[b])
      PROVE  Kept(b, i, keep)
  <2>1. StaysAt(m, c, b, i)
    BY <1>2 DEF Fits
  <2> QED
    BY <1>2, <2>1, KeepIs DEF Kept
<1>3. Surplus(c, Project(m), keep, b) = {}
  BY <1>2, SurplusIs
<1>4. CASE ~Opaque(c, b)
  <2>1. R = 1 .. N
    BY <1>3 DEF Remaining
  <2>2. Cardinality(R) = N /\ InOrder(R) = [i \in 1 .. N |-> i]
    <3>1. [i \in 1 .. N |-> i] \in [1 .. N -> 1 .. N] /\ (1 .. N) \in SUBSET Nat
      BY <1>1
    <3> HIDE DEF N, R
    <3> QED
      BY <1>1, <2>1, <3>1, Enumeration
  <2>3. Len(m[b]) <= N
    BY <1>4 DEF Fits
  <2>4. Missing(c, m, b) = 0
    BY <1>1, <2>3 DEF Missing
  <2>5. new = PutBlock(c, Project(m), keep, b)
    BY PutIs
  <2>6. /\ Len(new) = Cardinality(R) + Missing(c, m, b)
        /\ \A j \in 1 .. Cardinality(R) : new[j] = Rewritten(c, m, keep, b, InOrder(R)[j])
    BY <1>4, <2>5, PutBlockIs
  <2> HIDE DEF new, R, keep, N
  <2>7. Len(new) = N
    BY <1>1, <2>2, <2>4, <2>6
  <2>8. \A i \in 1 .. N : new[i] = Rewritten(c, m, keep, b, i)
    BY <2>2, <2>6
  <2> QED
    BY <1>3, <2>7, <2>8 DEF new, keep, N
<1> QED
  BY <1>3, <1>4

\* Writing a value that is there changes nothing.
LEMMA CellSaid ==
  ASSUME NEW b \in Block, NEW a \in Attributes[b], NEW cell, IsCell(a, cell),
         ~CodeOwned(a, cell)
  PROVE  PutCell(a, cell, Raw(a, cell)) = cell
<1>1. cell = Cell(cell.kind, cell.value)
  BY DEF IsCell
<1>2. CASE cell.kind = "literal"
  <2>1. Literal(cell.value) = cell
    BY <1>1, <1>2 DEF Literal
  <2>2. Raw(a, cell) = cell.value
    BY <1>2 DEF Raw
  <2>3. CASE a \notin Optional \/ cell.value # Zero(a)
    BY <1>2, <2>1, <2>2, <2>3 DEF PutCell
  <2>4. CASE a \in Optional /\ cell.value = Zero(a)
    <3>1. a \notin Pointer
      BY <1>2, <2>4, ZeroIs DEF IsCell, Pointer, Optional
    <3> QED
      BY <1>2, <2>2, <2>4, <3>1 DEF PutCell
  <2> QED
    BY <2>3, <2>4
<1>3. CASE cell.kind \in {"absent", "null"}
  <2>1. a \in Optional
    BY <1>3 DEF CodeOwned
  <2>2. Raw(a, cell) = Zero(a)
    BY <1>3 DEF Raw
  <2> QED
    BY <1>3, <2>1, <2>2 DEF PutCell
<1> QED
  BY <1>2, <1>3 DEF IsCell, Kinds, CodeOwned

LEMMA SameLength ==
  ASSUME NEW x \in Nat, NEW y \in Nat, 1 .. x = 1 .. y
  PROVE  x = y
<1>1. x > 0 => x \in 1 .. y
  OBVIOUS
<1>2. y > 0 => y \in 1 .. x
  OBVIOUS
<1> QED
  BY <1>1, <1>2

LEMMA SameDocument ==
  ASSUME NEW m, IsDocument(m), NEW o, IsDocument(o),
         \A b \in Block : \/ m[b] = o[b]
                         \/ /\ Len(m[b]) = Len(o[b])
                            /\ \A i \in 1 .. Len(m[b]) : \A a \in Said(b) : m[b][i][a] = o[b][i][a]
  PROVE  m = o
<1>1. ASSUME NEW b \in Block PROVE m[b] = o[b]
  <2>1. CASE m[b] # o[b]
    <3>1. /\ m[b] = [i \in 1 .. Len(m[b]) |-> [a \in Said(b) |-> m[b][i][a]]]
          /\ o[b] = [i \in 1 .. Len(o[b]) |-> [a \in Said(b) |-> o[b][i][a]]]
      BY DEF IsDocument
    <3>2. /\ Len(m[b]) = Len(o[b])
          /\ \A i \in 1 .. Len(m[b]) : \A a \in Said(b) : m[b][i][a] = o[b][i][a]
      BY <2>1
    <3>3. [i \in 1 .. Len(m[b]) |-> [a \in Said(b) |-> m[b][i][a]]]
            = [i \in 1 .. Len(o[b]) |-> [a \in Said(b) |-> o[b][i][a]]]
      BY <3>2
    <3> QED
      BY <3>1, <3>3
  <2> QED
    BY <2>1
<1>2. m = [b \in Block |-> m[b]] /\ o = [b \in Block |-> o[b]]
  BY DEF IsDocument
<1>3. [b \in Block |-> m[b]] = [b \in Block |-> o[b]]
  BY <1>1
<1> QED
  BY <1>2, <1>3

LEMMA SameItem ==
  ASSUME NEW b \in Block, NEW x, IsItem(b, x), NEW y, IsItem(b, y), x.extra = y.extra,
         \A a \in Attributes[b] : x.attrs[a] = y.attrs[a]
  PROVE  x = y
<1>1. /\ x = [attrs |-> [a \in Attributes[b] |-> x.attrs[a]], extra |-> x.extra]
      /\ y = [attrs |-> [a \in Attributes[b] |-> y.attrs[a]], extra |-> y.extra]
  BY DEF IsItem
<1>2. [a \in Attributes[b] |-> x.attrs[a]] = [a \in Attributes[b] |-> y.attrs[a]]
  OBVIOUS
<1> QED
  BY <1>1, <1>2

LEMMA SameCode ==
  ASSUME NEW c, IsCode(c), NEW d, IsCode(d),
         c.meta = d.meta, c.marker = d.marker, c.label = d.label, c.dynamic = d.dynamic,
         \A b \in Block : \/ c.blocks[b] = d.blocks[b]
                         \/ /\ Len(c.blocks[b]) = Len(d.blocks[b])
                            /\ \A i \in 1 .. Len(c.blocks[b]) : c.blocks[b][i] = d.blocks[b][i]
  PROVE  c = d
<1>1. ASSUME NEW b \in Block PROVE c.blocks[b] = d.blocks[b]
  <2>1. CASE c.blocks[b] # d.blocks[b]
    <3> DEFINE s == c.blocks[b]
               t == d.blocks[b]
    <3>1. s = [i \in 1 .. Len(s) |-> s[i]] /\ t = [i \in 1 .. Len(t) |-> t[i]]
      BY CodeIs DEF IsList
    <3>2. Len(s) = Len(t) /\ \A i \in 1 .. Len(s) : s[i] = t[i]
      BY <2>1
    <3> HIDE DEF s, t
    <3>3. [i \in 1 .. Len(s) |-> s[i]] = [i \in 1 .. Len(t) |-> t[i]]
      BY <3>2
    <3>4. s = t
      BY <3>1, <3>3
    <3> QED
      BY <3>4 DEF s, t
  <2> QED
    BY <2>1
<1>2. /\ c = [meta |-> c.meta, marker |-> c.marker, label |-> c.label, dynamic |-> c.dynamic,
              blocks |-> [b \in Block |-> c.blocks[b]]]
      /\ d = [meta |-> d.meta, marker |-> d.marker, label |-> d.label, dynamic |-> d.dynamic,
              blocks |-> [b \in Block |-> d.blocks[b]]]
  BY DEF IsCode
<1>3. [b \in Block |-> c.blocks[b]] = [b \in Block |-> d.blocks[b]]
  BY <1>1
<1> QED
  BY <1>2, <1>3

\* It depends on the one block of the document whether an item stays.
LEMMA StaysSame ==
  ASSUME NEW m, NEW o, NEW c, NEW b, NEW i, m[b] = o[b], StaysAt(m, c, b, i)
  PROVE  StaysAt(o, c, b, i)
<1>1. \A k, a : LostAt(m, c, b, k, a) => LostAt(o, c, b, k, a)
  BY DEF LostAt, ChangedAt, Heard, Base
<1> QED
  BY <1>1 DEF StaysAt

\* Behind what both documents have, they lose the same.
LEMMA LostBehind ==
  ASSUME NEW m, NEW o, NEW c, NEW b, NEW k, NEW a, k \notin 1 .. Len(m[b]), k \notin 1 .. Len(o[b]),
         LostAt(m, c, b, k, a)
  PROVE  LostAt(o, c, b, k, a)
<1>1. Base(m, b, k, a) = Zero(a) /\ Base(o, b, k, a) = Zero(a)
  BY DEF Base
<1>2. Heard(m, c, b, k, a) = Heard(o, c, b, k, a)
  BY <1>1 DEF Heard
<1> QED
  BY <1>2 DEF LostAt, ChangedAt

\* What is read agrees with the code it is read from.
LEMMA ReadAgrees ==
  ASSUME NEW m, IsDocument(m), NEW c, IsCode(c)
  PROVE  Agrees(Read(m, c).vm, c)
<1> DEFINE v == Read(m, c).vm
<1>1. IsDocument(v)
  BY VmIs
<1>2. \A b \in Block : ~Opaque(c, b) /\ ~(b = "clone" /\ StaysAt(m, c, b, 1)) =>
        /\ 1 .. Len(v[b]) = {i \in 1 .. Len(c.blocks[b]) : ~StaysAt(m, c, b, i)}
        /\ \A i \in 1 .. Len(v[b]) : \A a \in Said(b) : v[b][i][a] = Told(m, c, b, i, a)
  BY VmIs
<1>3. ~Opaque(c, "clone") /\ StaysAt(m, c, "clone", 1) => v["clone"] = m["clone"]
  BY VmIs
<1> HIDE DEF v
<1>4. ASSUME ~Opaque(c, "clone"), StaysAt(m, c, "clone", 1)
      PROVE  /\ Len(v["clone"]) <= Len(c.blocks["clone"])
             /\ \A i \in 1 .. Len(c.blocks["clone"]) : StaysAt(v, c, "clone", i)
             /\ \A i \in 1 .. Len(v["clone"]) : \A a \in Attributes["clone"] : Says(v, c, "clone", i, a)
  <2>1. Len(c.blocks["clone"]) = 1 /\ LostAt(m, c, "clone", 1, "vm_id") /\ v["clone"] = m["clone"]
    BY <1>3, <1>4, CloneStays
  <2>2. StaysAt(v, c, "clone", 1)
    BY <1>4, <2>1, StaysSame
  <2>3. Len(v["clone"]) \in {0, 1} /\ Attributes["clone"] = {"vm_id", "node_name"} /\ "clone" \in Block
    BY <1>1, DocumentIs, Schema
  <2>7. \A i : Says(v, c, "clone", i, "node_name")
    BY NodeSays DEF Says
  <2>4. ASSUME NEW i \in 1 .. Len(v["clone"]) PROVE Says(v, c, "clone", i, "vm_id")
    <3>1. \A n \in {0, 1} : \A j \in 1 .. n : j = 1
      OBVIOUS
    <3>2. i = 1 /\ 1 \in 1 .. Len(m["clone"])
      BY <2>1, <2>3, <2>4, <3>1
    <3>3. Mute("vm_id", 1, c.blocks["clone"][1].attrs["vm_id"])
      BY <2>1, <2>3, <3>2, LostIs
    <3> QED
      BY <3>2, <3>3 DEF Says
  <2>5. \A i \in 1 .. Len(c.blocks["clone"]) : i = 1
    BY <2>1
  <2>6. Len(v["clone"]) <= 1
    BY <1>1 DEF IsDocument
  <2> QED
    BY <2>1, <2>2, <2>3, <2>4, <2>5, <2>6, <2>7
<1>5. ASSUME NEW b \in Block, ~Opaque(c, b), ~(b = "clone" /\ StaysAt(m, c, b, 1))
      PROVE  /\ Len(v[b]) <= Len(c.blocks[b])
             /\ \A i \in 1 .. Len(c.blocks[b]) : i > Len(v[b]) => StaysAt(v, c, b, i)
             /\ \A i \in 1 .. Len(v[b]) : \A a \in Attributes[b] : Says(v, c, b, i, a)
  <2> DEFINE N == Len(c.blocks[b])
             n == Len(v[b])
  <2>1. N \in Nat /\ n \in Nat
    BY <1>1, CodeIs, DocumentIs
  <2>2. /\ \A i : i \in 1 .. n <=> i \in 1 .. N /\ ~StaysAt(m, c, b, i)
        /\ \A i \in 1 .. n : \A a \in Said(b) : v[b][i][a] = Told(m, c, b, i, a)
    <3>1. 1 .. n = {i \in 1 .. N : ~StaysAt(m, c, b, i)}
      BY <1>2, <1>5
    <3>2. \A i : i \in 1 .. n <=> i \in {j \in 1 .. N : ~StaysAt(m, c, b, j)}
      BY <3>1
    <3>3. \A i \in 1 .. n : \A a \in Said(b) : v[b][i][a] = Told(m, c, b, i, a)
      BY <1>2, <1>5
    <3> QED
      BY <3>2, <3>3
  <2>3. n <= N
    <3>1. n > 0 => n \in 1 .. N
      BY <2>1, <2>2
    <3> QED
      BY <2>1, <3>1
  <2>4. ASSUME NEW i \in 1 .. N, i > n PROVE StaysAt(v, c, b, i)
    <3>1. StaysAt(m, c, b, i)
      BY <2>1, <2>2, <2>4
    <3>2. PICK k \in 1 .. N : \E a \in Attributes[b] :
            k <= i /\ LostAt(m, c, b, k, a) /\ (IF b = "clone" THEN a = "vm_id" ELSE k \notin 1 .. Len(m[b]))
      BY <3>1 DEF StaysAt
    <3>3. PICK a \in Attributes[b] :
            k <= i /\ LostAt(m, c, b, k, a) /\ (IF b = "clone" THEN a = "vm_id" ELSE k \notin 1 .. Len(m[b]))
      BY <3>2
    <3>4. b # "clone"
      BY <1>5, <3>1, CloneStays
    <3>5. k <= k
      BY <2>1
    <3>6. StaysAt(m, c, b, k)
      BY <3>3, <3>5 DEF StaysAt
    <3>7. k \notin 1 .. n
      BY <2>2, <3>6
    <3>8. LostAt(v, c, b, k, a)
      BY <3>3, <3>4, <3>7, LostBehind
    <3> QED
      BY <3>3, <3>7, <3>8 DEF StaysAt
  <2>5. ASSUME NEW i \in 1 .. n, NEW a \in Attributes[b] PROVE Says(v, c, b, i, a)
    <3> DEFINE cell == c.blocks[b][i].attrs[a]
    <3>1. i \in 1 .. N
      BY <2>2
    <3>2. CASE Mute(a, i, cell) \/ CodeOwned(a, cell)
      BY <3>2 DEF Says
    <3>3. CASE ~Mute(a, i, cell) /\ ~CodeOwned(a, cell) /\ a \in Said(b)
      <4>1. v[b][i][a] = Told(m, c, b, i, a)
        BY <2>2, <3>3
      <4>2. ToCode(v[b][i], a, i) = Raw(a, cell)
        BY <3>1, <3>3, <4>1, ToldIs
      <4> QED
        BY <4>2 DEF Says
    <3>4. CASE ~Mute(a, i, cell) /\ ~CodeOwned(a, cell) /\ a \notin Said(b)
      <4>0. CASE a = "node_name"
        BY <4>0, NodeSays DEF Says
      <4>1. SUFFICES ASSUME a # "node_name" PROVE Says(v, c, b, i, a)
        BY <4>0
      <4>5. a = "interface"
        BY <3>4, <4>1 DEF Said
      <4>2. ToIntent(a, i, Raw(a, cell)) # {}
        BY <3>4 DEF Mute
      <4>3. Raw(a, cell) = i
        <5> HIDE DEF cell
        <5> QED
          BY <4>5, <4>2 DEF ToIntent
      <4>4. ToCode(v[b][i], a, i) = i
        BY <4>5 DEF ToCode
      <4> QED
        BY <4>3, <4>4 DEF Says
    <3> QED
      BY <3>2, <3>3, <3>4
  <2> QED
    BY <2>3, <2>4, <2>5
<1>6. ASSUME NEW b \in Block, ~Opaque(c, b)
      PROVE  /\ Len(v[b]) <= Len(c.blocks[b])
             /\ \A i \in 1 .. Len(c.blocks[b]) : i > Len(v[b]) => StaysAt(v, c, b, i)
             /\ \A i \in 1 .. Len(v[b]) : \A a \in Attributes[b] : Says(v, c, b, i, a)
  <2>1. CASE b = "clone" /\ StaysAt(m, c, b, 1)
    BY <1>4, <1>6, <2>1
  <2>2. CASE ~(b = "clone" /\ StaysAt(m, c, b, 1))
    BY <1>5, <1>6, <2>2
  <2> QED
    BY <2>1, <2>2
<1>7. Agrees(v, c)
  BY <1>6 DEF Agrees, Fits
<1> QED
  BY <1>7 DEF v

\* A document and a block in step stay as they are.
LEMMA InStepStays ==
  ASSUME NEW m, IsDocument(m), NEW c, IsCode(c), InStep(m, c)
  PROVE  /\ \A b \in Block : Surplus(c, Project(m), Read(m, c).keep, b) = {}
         /\ Put(m, c) = c
         /\ Read(m, c).vm = m
<1> DEFINE keep == Read(m, c).keep
           d == Put(m, c)
           v == Read(m, c).vm
<1>1. Fits(m, c)
  BY DEF InStep, Agrees
<1>2. ASSUME NEW b \in Block, ~Opaque(c, b), NEW i \in 1 .. Len(m[b]), NEW a \in Attributes[b]
      PROVE  /\ i \in 1 .. Len(c.blocks[b])
             /\ Says(m, c, b, i, a) /\ IsCell(a, c.blocks[b][i].attrs[a])
             /\ CodeOwned(a, c.blocks[b][i].attrs[a]) => c.blocks[b][i].attrs[a].kind # "null"
  <2>1. Len(m[b]) <= Len(c.blocks[b]) /\ Len(m[b]) \in Nat /\ Len(c.blocks[b]) \in Nat
    BY <1>1, <1>2, CodeIs, DocumentIs DEF Fits
  <2>2. i \in 1 .. Len(c.blocks[b])
    BY <2>1
  <2> QED
    BY <1>2, <2>2, CodeIs DEF InStep, Agrees, Filled
<1>3. ASSUME NEW b \in Block, ~Opaque(c, b), NEW i \in 1 .. Len(c.blocks[b])
      PROVE  Rewritten(c, m, keep, b, i) = c.blocks[b][i]
  <2> HIDE DEF keep
  <2>1. CASE i \notin 1 .. Len(m[b])
    BY <2>1 DEF Rewritten
  <2>2. CASE i \in 1 .. Len(m[b])
    <3>1. PICK x : x = Rewritten(c, m, keep, b, i)
      OBVIOUS
    <3>2. PICK y : y = c.blocks[b][i]
      OBVIOUS
    <3>3. /\ IsItem(b, x) /\ x.extra = y.extra
          /\ \A a \in Attributes[b] :
               x.attrs[a] = IF <<b, i, a>> \in keep THEN y.attrs[a]
                            ELSE PutCell(a, y.attrs[a], Project(m)[b][i][a])
      <4>1. After(c, m, keep, b, i, x)
        BY <1>3, <3>1, RewrittenIs
      <4> QED
        BY <2>2, <3>2, <4>1 DEF After
    <3>4. ASSUME NEW a \in Attributes[b] PROVE x.attrs[a] = y.attrs[a]
      <4> DEFINE cell == y.attrs[a]
      <4>1. /\ Mute(a, i, cell) \/ CodeOwned(a, cell) \/ Raw(a, cell) = ToCode(m[b][i], a, i)
            /\ IsCell(a, cell)
            /\ CodeOwned(a, cell) => cell.kind # "null"
        BY <1>2, <1>3, <2>2, <3>2 DEF Says
      <4>2. Mute(a, i, cell) => <<b, i, a>> \in keep
        BY <1>3, <2>2, <3>2, KeptInside DEF keep
      <4>3. Project(m)[b][i][a] = ToCode(m[b][i], a, i)
        BY <2>2, ProjectIs
      <4> HIDE DEF cell
      <4>4. CASE <<b, i, a>> \in keep
        BY <3>3, <4>4
      <4>5. CASE <<b, i, a>> \notin keep
        <5>1. x.attrs[a] = PutCell(a, cell, ToCode(m[b][i], a, i))
          BY <3>3, <4>3, <4>5 DEF cell
        <5>2. CASE CodeOwned(a, cell)
          BY <4>1, <5>1, <5>2, CellStays DEF cell
        <5>3. CASE ~CodeOwned(a, cell)
          <6>1. Raw(a, cell) = ToCode(m[b][i], a, i)
            BY <4>1, <4>2, <4>5, <5>3
          <6>2. PutCell(a, cell, Raw(a, cell)) = cell
            BY <4>1, <5>3, CellSaid
          <6> QED
            BY <5>1, <6>1, <6>2 DEF cell
        <5> QED
          BY <5>2, <5>3
      <4> QED
        BY <4>4, <4>5
    <3>5. IsItem(b, y)
      BY <1>3, <3>2, CodeIs
    <3>6. x = y
      BY <3>3, <3>4, <3>5, SameItem
    <3> QED
      BY <3>1, <3>2, <3>6
  <2> QED
    BY <2>1, <2>2
<1>4. d = c
  <2>1. ASSUME NEW b \in Block
        PROVE  \/ d.blocks[b] = c.blocks[b]
               \/ /\ Len(d.blocks[b]) = Len(c.blocks[b])
                  /\ \A i \in 1 .. Len(d.blocks[b]) : d.blocks[b][i] = c.blocks[b][i]
    <3>1. CASE Opaque(c, b)
      BY <3>1, PutIs
    <3>2. CASE ~Opaque(c, b)
      <4>1. /\ Len(d.blocks[b]) = Len(c.blocks[b])
            /\ \A i \in 1 .. Len(c.blocks[b]) : d.blocks[b][i] = Rewritten(c, m, keep, b, i)
        BY <1>1, <3>2, PutFits
      <4> QED
        BY <1>3, <3>2, <4>1
    <3> QED
      BY <3>1, <3>2
  <2>2. /\ d.meta = c.meta /\ d.marker = c.marker /\ d.label = c.label /\ d.dynamic = c.dynamic
        /\ IsCode(d)
    BY PutIs
  <2> HIDE DEF d
  <2> QED
    BY <2>1, <2>2, SameCode
<1>5. v = m
  <2>1. IsDocument(v)
    BY VmIs
  <2>2. ASSUME NEW b \in Block
        PROVE  \/ v[b] = m[b]
               \/ /\ Len(v[b]) = Len(m[b])
                  /\ \A i \in 1 .. Len(v[b]) : \A a \in Said(b) : v[b][i][a] = m[b][i][a]
    <3>1. CASE Opaque(c, b) \/ (b = "clone" /\ ~Opaque(c, b) /\ StaysAt(m, c, b, 1))
      BY <3>1, VmIs
    <3>2. CASE ~Opaque(c, b) /\ ~(b = "clone" /\ StaysAt(m, c, b, 1))
      <4>1. /\ 1 .. Len(v[b]) = {i \in 1 .. Len(c.blocks[b]) : ~StaysAt(m, c, b, i)}
            /\ \A i \in 1 .. Len(v[b]) : \A a \in Said(b) : v[b][i][a] = Told(m, c, b, i, a)
        BY <3>2, VmIs
      <4>2. /\ Len(m[b]) \in Nat /\ Len(c.blocks[b]) \in Nat /\ Len(v[b]) \in Nat
            /\ Len(m[b]) <= Len(c.blocks[b])
            /\ \A i \in 1 .. Len(c.blocks[b]) : i > Len(m[b]) => StaysAt(m, c, b, i)
        BY <1>1, <2>1, <3>2, CodeIs, DocumentIs DEF Fits
      <4>3. ASSUME NEW i \in 1 .. Len(m[b]) PROVE ~StaysAt(m, c, b, i)
        <5>1. CASE b = "clone"
          BY <3>2, <5>1, CloneStays
        <5>2. CASE b # "clone"
          BY <5>2, StaysOutside
        <5> QED
          BY <5>1, <5>2
      <4>4. {i \in 1 .. Len(c.blocks[b]) : ~StaysAt(m, c, b, i)} = 1 .. Len(m[b])
        BY <4>2, <4>3
      <4>5. Len(v[b]) = Len(m[b])
        BY <4>1, <4>2, <4>4, SameLength
      <4>6. ASSUME NEW i \in 1 .. Len(m[b]), NEW a \in Said(b) PROVE Told(m, c, b, i, a) = m[b][i][a]
        <5> DEFINE cell == c.blocks[b][i].attrs[a]
        <5>1. a \in Attributes[b]
          BY Schema
        <5>2. Says(m, c, b, i, a)
          BY <1>2, <3>2, <5>1
        <5>3. CASE Mute(a, i, cell)
          <6>1. LostAt(m, c, b, i, a)
            BY <5>1, <5>3, LostIs
          <6> QED
            BY <6>1 DEF Told
        <5>4. CASE CodeOwned(a, cell)
          <6>1. ~ChangedAt(m, c, b, i, a)
            BY <5>4, HeardIs
          <6> QED
            BY <6>1 DEF Told
        <5>5. CASE ~CodeOwned(a, cell) /\ Raw(a, cell) = ToCode(m[b][i], a, i)
          <6>1. Heard(m, c, b, i, a) = Raw(a, cell)
            BY <5>5, HeardIs
          <6>2. Base(m, b, i, a) = ToCode(m[b][i], a, i)
            BY DEF Base
          <6>3. ~ChangedAt(m, c, b, i, a)
            BY <5>5, <6>1, <6>2 DEF ChangedAt
          <6> QED
            BY <6>3 DEF Told
        <5> QED
          BY <5>2, <5>3, <5>4, <5>5 DEF Says
      <4> QED
        BY <4>1, <4>5, <4>6
    <3> QED
      BY <3>1, <3>2
  <2> HIDE DEF v
  <2> QED
    BY <2>1, <2>2, SameDocument
<1>6. \A b \in Block : Surplus(c, Project(m), keep, b) = {}
  BY <1>1, PutFits
<1> QED
  BY <1>4, <1>5, <1>6

\* The numbers from 1 on that a set begins with are in their places.
LEMMA Beginning ==
  ASSUME NEW N \in Nat, NEW R \in SUBSET (1 .. N), NEW n \in Nat, (1 .. n) \in SUBSET R
  PROVE  \A i \in 1 .. n : InOrder(R)[i] = i
<1>1. IsFiniteSet(R) /\ R \in SUBSET Nat
  <2>1. IsFiniteSet(1 .. N)
    BY FS_Interval
  <2>2. IsFiniteSet(R)
    BY <2>1, FS_Subset
  <2>3. R \in SUBSET Nat
    OBVIOUS
  <2> QED
    BY <2>2, <2>3
<1>2. ASSUME NEW i \in 1 .. n PROVE InOrder(R)[i] = i
  <2>1. {k \in R : k <= i} = 1 .. i
    <3>1. \A k \in 1 .. i : k \in 1 .. n /\ k <= i
      OBVIOUS
    <3>2. \A k \in 1 .. i : k \in R
      BY <3>1
    <3>3. \A k \in R : k <= i => k \in 1 .. i
      OBVIOUS
    <3> QED
      BY <3>1, <3>2, <3>3
  <2>2. Rank(R, i) = i
    <3>1. Cardinality(1 .. i) = i
      BY FS_Interval
    <3> QED
      BY <2>1, <3>1 DEF Rank
  <2>3. i \in R
    OBVIOUS
  <2>4. Rank(R, i) \in 1 .. Cardinality(R)
    BY <1>1, <2>3, RankGrows
  <2>5. ASSUME NEW j \in R, Rank(R, j) = i PROVE j = i
    <3>1. ~ i < j /\ ~ j < i
      BY <1>1, <2>2, <2>3, <2>5, RankGrows
    <3> QED
      BY <1>1, <2>3, <3>1
  <2>6. InOrder(R)[i] = CHOOSE j \in R : Rank(R, j) = i
    BY <2>2, <2>4 DEF InOrder, Rank
  <2> QED
    BY <2>2, <2>3, <2>5, <2>6
<1> QED
  BY <1>2

\* Once an attribute is written it says what it should, or it is the code's.
LEMMA CellSays ==
  ASSUME NEW b \in Block, NEW a \in Attributes[b], NEW cell, IsCell(a, cell), NEW want
  PROVE  LET w == PutCell(a, cell, want)
         IN  /\ CodeOwned(a, w) => w.kind # "null"
             /\ ~CodeOwned(a, w) => Raw(a, w) = want
<1>1. CASE cell.kind \in {"expression", "pinned", "invalid"}
  BY <1>1 DEF PutCell, CodeOwned
<1>2. CASE cell.kind = "absent"
  BY <1>2 DEF PutCell, CodeOwned, Raw, Literal, Cell
<1>3. CASE cell.kind = "null"
  BY <1>3 DEF PutCell, CodeOwned, Raw, Literal, Cell
<1>4. CASE cell.kind = "literal"
  BY <1>4 DEF PutCell, CodeOwned, Raw, Literal, Cell, Absent, Optional
<1> QED
  BY <1>1, <1>2, <1>3, <1>4 DEF IsCell, Kinds

LEMMA NewSays ==
  ASSUME NEW b \in Block, NEW a \in Attributes[b], NEW want
  PROVE  LET w == New(b, want).attrs[a]
         IN  ~CodeOwned(a, w) /\ Raw(a, w) = want[a]
BY DEF New, CodeOwned, Raw, Literal, Cell, Absent

\* An item that is written says what intent does.
LEMMA PutSays ==
  ASSUME NEW m, IsDocument(m), NEW c, IsCode(c), NEW b \in Block, ~Opaque(c, b)
  PROVE  LET d == Put(m, c)
         IN  /\ Len(m[b]) <= Len(d.blocks[b])
             /\ \A i \in 1 .. Len(m[b]) : \A a \in Attributes[b] : Says(m, d, b, i, a)
             /\ Filled(d, b, Len(m[b]))
<1> DEFINE keep == Read(m, c).keep
           N == Len(c.blocks[b])
           n == Len(m[b])
           R == Remaining(c, m, keep, b)
           K == Cardinality(R)
           new == Put(m, c).blocks[b]
<1>1. N \in Nat /\ n \in Nat
  BY CodeIs, DocumentIs
<1>2. new = PutBlock(c, Project(m), keep, b)
  BY PutIs
<1>3. /\ Len(new) = K + Missing(c, m, b)
      /\ \A j \in 1 .. K : new[j] = Rewritten(c, m, keep, b, InOrder(R)[j])
      /\ \A j \in 1 .. K + Missing(c, m, b) : j > K =>
           /\ N + (j - K) \in 1 .. n
           /\ new[j] = New(b, Project(m)[b][N + (j - K)])
  BY <1>2, PutBlockIs
<1>4. R \in SUBSET (1 .. N) /\ K \in Nat /\ K <= N /\ IsFiniteSet(R)
  BY RemainingIs
<1>5. \A i \in 1 .. N : i <= n => i \in R
  <2>1. \A i \in 1 .. N : i <= n => i \notin Surplus(c, Project(m), keep, b)
    BY <1>1, SurplusIs
  <2> QED
    BY <2>1 DEF Remaining
<1>6. n <= N => n <= K /\ \A i \in 1 .. n : InOrder(R)[i] = i
  <2> SUFFICES ASSUME n <= N PROVE n <= K /\ \A i \in 1 .. n : InOrder(R)[i] = i
    OBVIOUS
  <2> HIDE DEF R, keep, N, n
  <2>1. (1 .. n) \in SUBSET R
    BY <1>1, <1>5
  <2>2. Cardinality(1 .. n) = n
    BY <1>1, FS_Interval
  <2>3. n <= K
    <3>1. Cardinality(1 .. n) <= Cardinality(R)
      BY <1>4, <2>1, FS_Subset
    <3> QED
      BY <2>2, <3>1 DEF K
  <2> QED
    BY <1>1, <1>4, <2>1, <2>3, Beginning
<1>7. n > N => K = N /\ \A i \in 1 .. N : InOrder(R)[i] = i
  <2> SUFFICES ASSUME n > N PROVE K = N /\ \A i \in 1 .. N : InOrder(R)[i] = i
    OBVIOUS
  <2> HIDE DEF R, keep, N, n
  <2>1. R = 1 .. N
    <3>1. \A i \in 1 .. N : i \in R
      BY <1>1, <1>5
    <3> QED
      BY <1>4, <3>1
  <2>2. K = N
    BY <1>1, <2>1, FS_Interval
  <2> QED
    BY <1>1, <1>4, <2>1, <2>2, Beginning
<1>8. Missing(c, m, b) = IF n > N THEN n - N ELSE 0
  BY DEF Missing
<1> HIDE DEF R, keep, N, n, K, new
<1>9. n <= Len(new)
  BY <1>1, <1>3, <1>4, <1>6, <1>7, <1>8
<1>10. ASSUME NEW i \in 1 .. n
       PROVE  /\ i \in 1 .. N => new[i] = Rewritten(c, m, keep, b, i)
              /\ i \notin 1 .. N => new[i] = New(b, Project(m)[b][i])
  <2>1. CASE n <= N
    BY <1>1, <1>3, <1>4, <1>6, <2>1
  <2>2. CASE n > N
    <3>1. K = N /\ Missing(c, m, b) = n - N
      BY <1>7, <1>8, <2>2
    <3>2. CASE i \in 1 .. N
      BY <1>1, <1>3, <1>4, <1>7, <2>2, <3>1, <3>2
    <3>3. CASE i \notin 1 .. N
      <4>1. i \in 1 .. K + Missing(c, m, b) /\ i > K /\ N + (i - K) = i
        BY <1>1, <3>1, <3>3
      <4> QED
        BY <1>3, <3>3, <4>1
    <3> QED
      BY <3>2, <3>3
  <2> QED
    BY <1>1, <2>1, <2>2
<1>11. ASSUME NEW i \in 1 .. n, NEW a \in Attributes[b]
       PROVE  LET w == new[i].attrs[a]
              IN  /\ Mute(a, i, w) \/ CodeOwned(a, w) \/ Raw(a, w) = ToCode(m[b][i], a, i)
                  /\ CodeOwned(a, w) => w.kind # "null"
  <2>1. i \in 1 .. Len(m[b]) /\ Project(m)[b][i][a] = ToCode(m[b][i], a, i)
    BY ProjectIs DEF n
  <2>2. CASE i \in 1 .. N
    <3>1. PICK y : y = c.blocks[b][i].attrs[a]
      OBVIOUS
    <3>2. i \in 1 .. Len(c.blocks[b])
      BY <2>2 DEF N
    <3>3. After(c, m, keep, b, i, new[i])
      BY <1>10, <2>2, <3>2, RewrittenIs
    <3>4. new[i].attrs[a] = IF <<b, i, a>> \in keep THEN y ELSE PutCell(a, y, ToCode(m[b][i], a, i))
      BY <2>1, <3>1, <3>3 DEF After
    <3>5. IsCell(a, y)
      BY <3>1, <3>2, CodeIs
    <3>6. /\ Mute(a, i, y) => <<b, i, a>> \in keep
          /\ <<b, i, a>> \in keep => Mute(a, i, y) \/ a = "node_name"
      BY <2>1, <3>1, <3>2, KeptInside DEF keep
    <3>7. CASE <<b, i, a>> \in keep
      <4>1. CASE Mute(a, i, y)
        BY <3>4, <3>7, <4>1 DEF Mute
      <4>2. CASE ~Mute(a, i, y) /\ a = "node_name"
        BY <3>4, <3>7, <4>2, NodeSays
      <4> QED
        BY <3>6, <3>7, <4>1, <4>2
    <3>8. CASE <<b, i, a>> \notin keep
      BY <3>4, <3>5, <3>8, CellSays
    <3> QED
      BY <3>7, <3>8
  <2>3. CASE i \notin 1 .. N
    BY <1>10, <2>1, <2>3, NewSays
  <2> QED
    BY <2>2, <2>3
<1>12. \A i \in 1 .. n : \A a \in Attributes[b] : Says(m, Put(m, c), b, i, a)
  BY <1>11 DEF Says, new
<1>13. Filled(Put(m, c), b, n)
  BY <1>11 DEF Filled, new
<1> QED
  BY <1>9, <1>12, <1>13 DEF n, new

-----------------------------------------------------------------------------
(* Compiling twice. *)

\* Once an item stays, those behind it do.
LEMMA StaysBehind ==
  ASSUME NEW m, NEW c, IsCode(c), NEW b \in Block, NEW i \in Nat, StaysAt(m, c, b, i),
         NEW j \in Nat, i <= j
  PROVE  StaysAt(m, c, b, j)
<1>1. PICK k \in 1 .. Len(c.blocks[b]), a \in Attributes[b] :
        k <= i /\ LostAt(m, c, b, k, a) /\ (IF b = "clone" THEN a = "vm_id" ELSE k \notin 1 .. Len(m[b]))
  BY DEF StaysAt
<1>2. k <= j
  BY <1>1, CodeIs
<1> QED
  BY <1>1, <1>2 DEF StaysAt

\* What is behind the items of intent and was left stays left, wherever it
\* moves, unless a position is what two disks say.
LEMMA RestStays ==
  ASSUME NEW m, IsDocument(m), NEW c, IsCode(c), OwnInterfaces(c), NEW b \in Block, ~Opaque(c, b),
         NEW i \in 1 .. Len(Put(m, c).blocks[b]), i > Len(m[b])
  PROVE  StaysAt(m, Put(m, c), b, i)
<1> DEFINE keep == Read(m, c).keep
           d == Put(m, c)
           N == Len(c.blocks[b])
           n == Len(m[b])
           R == Remaining(c, m, keep, b)
           K == Cardinality(R)
<1>1. N \in Nat /\ n \in Nat /\ Len(d.blocks[b]) \in Nat /\ IsCode(d)
  BY PutIs, CodeIs, DocumentIs
<1>2. d.blocks[b] = PutBlock(c, Project(m), keep, b)
  BY PutIs
<1>3. /\ Len(d.blocks[b]) = K + Missing(c, m, b)
      /\ \A j \in 1 .. K : d.blocks[b][j] = Rewritten(c, m, keep, b, InOrder(R)[j])
  BY <1>2, PutBlockIs
<1>4. /\ R \in SUBSET (1 .. N) /\ K \in Nat /\ K <= N /\ IsFiniteSet(R)
      /\ InOrder(R) \in [1 .. K -> R]
      /\ \A x, y \in 1 .. K : x < y => InOrder(R)[x] < InOrder(R)[y]
      /\ \A x \in R : \E j \in 1 .. K : InOrder(R)[j] = x
  BY RemainingIs
<1>5. \A j \in 1 .. N : j \in R <=> (j <= n \/ Kept(b, j, keep))
  BY <1>1, SurplusIs DEF Remaining
<1>6. i \in Nat /\ i > n /\ i <= Len(d.blocks[b])
  BY <1>1
<1> HIDE DEF R, keep, N, n, K, d
<1>7. n < N
  <2>1. SUFFICES ASSUME N <= n PROVE FALSE
    BY <1>1
  <2>2. Missing(c, m, b) = IF n > N THEN n - N ELSE 0
    BY DEF Missing, N, n
  <2> QED
    BY <1>1, <1>3, <1>4, <1>6, <2>1, <2>2
<1>8. n + 1 \in 1 .. K /\ \A j \in 1 .. n : InOrder(R)[j] = j
  <2>1. Missing(c, m, b) = 0
    BY <1>1, <1>7 DEF Missing, N, n
  <2>2. n + 1 \in 1 .. K
    BY <1>1, <1>3, <1>4, <1>6, <2>1
  <2>3. \A j \in 1 .. n : j \in R
    BY <1>1, <1>5, <1>7
  <2> QED
    BY <1>1, <1>4, <2>2, <2>3, Beginning
<1> DEFINE r == InOrder(R)[n + 1]
<1>9. r \in 1 .. N /\ r \in R /\ n < r
  <2>1. r \in R /\ r \in 1 .. N
    BY <1>4, <1>8
  <2>2. CASE n = 0
    BY <1>1, <2>1, <2>2
  <2>3. CASE n # 0
    <3>1. n \in 1 .. K /\ n \in 1 .. n /\ n < n + 1
      BY <1>1, <1>4, <1>8, <2>3
    <3>2. InOrder(R)[n] = n /\ InOrder(R)[n] < InOrder(R)[n + 1]
      BY <1>4, <1>8, <3>1
    <3> QED
      BY <2>1, <3>2
  <2> QED
    BY <2>2, <2>3
<1> HIDE DEF r
<1>10. \A j \in R : n < j => r <= j
  <2> SUFFICES ASSUME NEW j \in R, n < j PROVE r <= j
    OBVIOUS
  <2>1. PICK q \in 1 .. K : InOrder(R)[q] = j
    BY <1>4
  <2>2. q > n
    BY <1>1, <1>4, <1>8, <2>1
  <2>3. CASE q = n + 1
    BY <1>4, <1>9, <2>1, <2>3 DEF r
  <2>4. CASE q # n + 1
    <3>1. n + 1 < q
      BY <1>1, <1>4, <2>2, <2>4
    <3> QED
      BY <1>4, <1>8, <1>9, <2>1, <3>1 DEF r
  <2> QED
    BY <2>3, <2>4
<1>11. d.blocks[b][n + 1] = c.blocks[b][r]
  <2>1. d.blocks[b][n + 1] = Rewritten(c, m, keep, b, r)
    BY <1>3, <1>8 DEF r
  <2>2. r \notin 1 .. Len(m[b])
    BY <1>1, <1>9 DEF n
  <2> QED
    BY <2>1, <2>2 DEF Rewritten
\* The first that stays is the first of those that remain.
<1>12. PICK a \in Attributes[b] : LostAt(m, c, b, r, a) /\ (b = "clone" => a = "vm_id")
  <2>1. \A j \in 1 .. N : StaysAt(m, c, b, j) => Kept(b, j, keep)
    BY KeepIs DEF Kept, N, keep
  <2>2. \E x \in Attributes[b] : b = "clone" => x = "vm_id"
    BY Schema
  <2>3. PICK x \in Attributes[b] : <<b, r, x>> \in keep /\ (b = "clone" => x = "vm_id")
    <3>1. Kept(b, r, keep)
      BY <1>1, <1>5, <1>9
    <3> QED
      BY <2>2, <3>1 DEF Kept
  <2>4. LostAt(m, c, b, r, x) \/ StaysAt(m, c, b, r)
    BY <1>9, <2>3, KeepIs DEF N, keep
  <2>5. CASE LostAt(m, c, b, r, x)
    BY <2>3, <2>5
  <2>6. CASE StaysAt(m, c, b, r)
    <3>1. PICK k \in 1 .. N, a \in Attributes[b] :
            k <= r /\ LostAt(m, c, b, k, a) /\ (IF b = "clone" THEN a = "vm_id" ELSE k \notin 1 .. n)
      BY <2>6 DEF StaysAt, N, n
    <3>2. n < k
      <4>1. CASE b = "clone"
        <5>1. n \in {0, 1} /\ ~ N > 1
          BY <4>1, DocumentIs, OpaqueIs DEF n, N
        <5> QED
          BY <1>1, <1>7, <5>1
      <4>2. CASE b # "clone"
        BY <1>1, <3>1, <4>2
      <4> QED
        BY <4>1, <4>2
    <3>3. StaysAt(m, c, b, k)
      <4>1. k <= k /\ k \notin 1 .. n
        BY <1>1, <3>2
      <4> QED
        BY <3>1, <4>1 DEF StaysAt, N, n
    <3>4. k \in R
      BY <1>5, <2>1, <3>3
    <3>5. k = r
      BY <1>1, <1>9, <1>10, <3>1, <3>2, <3>4
    <3> QED
      BY <3>1, <3>5
  <2> QED
    BY <2>4, <2>5, <2>6
<1> DEFINE h == Heard(m, c, b, r, a)
<1>13. /\ \A x \in Attributes[b] : Heard(m, d, b, n + 1, x) = Heard(m, c, b, r, x)
       /\ ToIntent(a, r, h) = {}
  <2>1. r \notin 1 .. Len(m[b]) /\ n + 1 \notin 1 .. Len(m[b])
    BY <1>1, <1>9 DEF n
  <2>2. \A x \in Attributes[b] : Base(m, b, r, x) = Zero(x) /\ Base(m, b, n + 1, x) = Zero(x)
    BY <2>1 DEF Base
  <2> QED
    BY <1>11, <1>12, <2>2 DEF Heard, LostAt
<1>14. ToIntent(a, n + 1, h) = {}
  <2>1. CASE a # "interface"
    BY <1>13, <2>1 DEF ToIntent
  <2>2. CASE a = "interface"
    <3>1. b = "disk"
      BY <2>2, Schema
    <3>2. h # r
      BY <1>13, <2>2 DEF ToIntent
    <3> SUFFICES ASSUME h = n + 1 PROVE FALSE
      BY <2>2 DEF ToIntent
    <3>3. n + 1 \in 1 .. N /\ n + 1 < r
      BY <1>1, <1>7, <1>9, <3>2
    <3>4. n + 1 \notin R
      BY <1>1, <1>9, <1>10, <3>3
    <3>5. ~StaysAt(m, c, b, n + 1)
      <4>1. ~Kept(b, n + 1, keep)
        BY <1>5, <3>3, <3>4
      <4> QED
        BY <3>3, <4>1, KeepIs DEF Kept, N, keep
    <3>6. ~LostAt(m, c, b, n + 1, a)
      <4>1. n + 1 \notin 1 .. Len(m[b]) /\ n + 1 <= n + 1 /\ b # "clone"
        BY <1>1, <3>1 DEF n
      <4> QED
        BY <3>3, <3>5, <4>1 DEF StaysAt, N
    <3>7. Heard(m, c, b, n + 1, a) = n + 1
      <4>1. n + 1 \notin 1 .. Len(m[b])
        BY <1>1 DEF n
      <4> QED
        BY <2>2, <3>6, <4>1 DEF LostAt, ChangedAt, ToIntent
    <3>8. ASSUME NEW j \in 1 .. N, j \notin 1 .. n, Heard(m, c, b, j, a) = n + 1
          PROVE  c.blocks[b][j].attrs[a] = Cell("literal", n + 1)
      <4> DEFINE cell == c.blocks[b][j].attrs[a]
      <4>1. IsCell(a, cell)
        BY CodeIs, <3>8 DEF N
      <4>2. Zero(a) = 0 /\ n + 1 # 0
        <5>1. Zero(a) = 0
          BY <2>2, ZeroIs
        <5> QED
          BY <1>1, <5>1
      <4>3. Heard(m, c, b, j, a) = IF CodeOwned(a, cell) THEN Zero(a) ELSE Raw(a, cell)
        BY <3>8, HeardIs DEF n
      <4> HIDE DEF cell
      <4>4. cell.kind = "literal" /\ cell.value = n + 1
        BY <3>8, <4>2, <4>3 DEF Raw
      <4>5. cell = Cell(cell.kind, cell.value)
        BY <4>1 DEF IsCell
      <4> QED
        BY <4>4, <4>5 DEF cell
    <3>9. n + 1 \notin 1 .. n /\ r \notin 1 .. n
      BY <1>1, <1>9
    <3>10. c.blocks[b][r].attrs[a] = Cell("literal", n + 1)
      BY <1>9, <3>8, <3>9
    <3>11. c.blocks[b][n + 1].attrs[a] = Cell("literal", n + 1)
      BY <3>3, <3>7, <3>8, <3>9
    <3>12. DOMAIN c.blocks.disk = 1 .. N
      BY <3>1, CodeIs DEF N
    <3>13. n + 1 = r
      <4>1. Cell("literal", n + 1).kind = "literal"
        BY DEF Cell
      <4> QED
        BY <1>9, <2>2, <3>1, <3>3, <3>10, <3>11, <3>12, <4>1 DEF OwnInterfaces
    <3> QED
      BY <1>1, <3>3, <3>13
  <2> QED
    BY <2>1, <2>2
<1>15. StaysAt(m, d, b, n + 1)
  <2>1. n + 1 \notin 1 .. Len(m[b]) /\ n + 1 <= n + 1 /\ n + 1 \in 1 .. Len(d.blocks[b])
    BY <1>1, <1>6 DEF n
  <2>2. LostAt(m, d, b, n + 1, a)
    BY <1>13, <1>14, <2>1 DEF LostAt, ChangedAt
  <2> QED
    BY <1>12, <2>1, <2>2 DEF StaysAt
<1> QED
  BY <1>1, <1>6, <1>15, StaysBehind DEF d

\* After a compilation intent and code are in step.
LEMMA CompiledInStep ==
  ASSUME NEW m, IsDocument(m), NEW c, IsCode(c), OwnInterfaces(c)
  PROVE  InStep(m, Put(m, c))
<1>1. \A b \in Block : Opaque(Put(m, c), b) <=> Opaque(c, b)
  BY PutIs
<1>2. Fits(m, Put(m, c))
  BY <1>1, PutSays, RestStays DEF Fits
<1>3. Agrees(m, Put(m, c))
  BY <1>1, <1>2, PutSays DEF Agrees
<1> QED
  BY <1>1, <1>3, PutSays DEF InStep

LEMMA RenderedInStep ==
  ASSUME NEW m, IsDocument(m)
  PROVE  InStep(m, Render(m))
<1> DEFINE c == Render(m)
<1>1. IsCode(c) /\ \A b \in Block : Len(c.blocks[b]) = Len(m[b])
  BY RenderIs
<1>2. Fits(m, c)
  BY <1>1, CodeIs DEF Fits
<1>3. ASSUME NEW b \in Block, NEW i \in 1 .. Len(m[b]), NEW a \in Attributes[b]
      PROVE  Says(m, c, b, i, a) /\ ~CodeOwned(a, c.blocks[b][i].attrs[a])
  <2>1. c.blocks[b][i] = New(b, Project(m)[b][i])
    BY RenderIs
  <2>2. Project(m)[b][i][a] = ToCode(m[b][i], a, i)
    BY ProjectIs
  <2> QED
    BY <2>1, <2>2, NewSays DEF Says
<1>4. Agrees(m, c)
  BY <1>2, <1>3 DEF Agrees
<1> QED
  BY <1>3, <1>4 DEF InStep, Filled

\* Whichever way it was compiled, compiling again changes nothing.
LEMMA CompileSettles ==
  ASSUME IsDocument(intent), IsCode(code), Compile, OwnInterfaces(code)
  PROVE  CompileChangesNothing(intent', code')
<1>1. intent' = intent
  BY DEF Compile
<1> DEFINE m == intent
           d == code'
           name == m["vm"][1]["name"]
<1>2. InStep(m, d) /\ Located(d, name) /\ IsCode(d)
  <2>1. CASE code.marker = name /\ d = Put(m, code)
    <3>1. InStep(m, d)
      BY <2>1, CompiledInStep
    <3> QED
      BY <2>1, <3>1, PutIs DEF Located
  <2>2. CASE d = Render(m)
    BY <2>2, RenderedInStep, RenderIs DEF Located
  <2> QED
    BY <2>1, <2>2 DEF Compile
<1> HIDE DEF m, d
<1>3. /\ \A b \in Block : Surplus(d, Project(m), Read(m, d).keep, b) = {}
      /\ Put(m, d) = d
  BY <1>2, InStepStays DEF m
<1>4. Writable(m, d)
  BY <1>2, <1>3 DEF Writable
<1> QED
  BY <1>1, <1>3, <1>4 DEF CompileChangesNothing, m, d

-----------------------------------------------------------------------------
(* What a synchronization reads and writes. *)

\* An item of which nodr may say all.
Ours(m, c, b, i) ==
  \A x \in Attributes[b] : ~CodeOwned(x, c.blocks[b][i].attrs[x]) /\ <<b, i, x>> \notin Read(m, c).keep

\* The rows of the report are the attributes of the block.
LEMMA SyncedIs ==
  ASSUME NEW m, IsDocument(m), NEW c, IsCode(c)
  PROVE  /\ \A p \in Read(m, c).synced :
              \E b \in Block : \E i \in 1 .. Len(c.blocks[b]) : \E a \in Attributes[b] :
                /\ p = <<b, i, a>> /\ ~Opaque(c, b)
                /\ ~CodeOwned(a, c.blocks[b][i].attrs[a]) /\ p \notin Read(m, c).keep
                /\ b = "clone" => Ours(m, c, b, i)
         /\ \A b \in Block : ~Opaque(c, b) =>
              \A i \in 1 .. Len(c.blocks[b]) : \A a \in Attributes[b] :
                /\ ~CodeOwned(a, c.blocks[b][i].attrs[a]) /\ <<b, i, a>> \notin Read(m, c).keep
                /\ b = "clone" => Ours(m, c, b, i)
                => <<b, i, a>> \in Read(m, c).synced
<1> DEFINE keep == Read(m, c).keep
           Index(b) == IF ~Opaque(c, b) THEN DOMAIN c.blocks[b]
                       ELSE IF b \in Repeated THEN {} ELSE {1}
<1>1. Read(m, c).synced = {p \in Rows(c) : \A q \in Rows(c) : SameField(p, q) => ~Owned(c, q) /\ q \notin keep}
  BY DEF Read
<1>2. \A p : p \in Rows(c) <=> \E b \in Block : p \in {<<b, i, a>> : a \in Attributes[b], i \in Index(b)}
  BY DEF Rows
<1>3. \A b \in Block : Opaque(c, b) \in BOOLEAN /\ (~Opaque(c, b) => Index(b) = 1 .. Len(c.blocks[b]))
  BY CodeIs, OpaqueIs
<1> HIDE DEF keep, Index
<1>4. \A b, i, a : Owned(c, <<b, i, a>>) <=> Opaque(c, b) \/ CodeOwned(a, c.blocks[b][i].attrs[a])
  BY DEF Owned
<1>5. ASSUME NEW p \in Read(m, c).synced
      PROVE  \E b \in Block : \E i \in 1 .. Len(c.blocks[b]) : \E a \in Attributes[b] :
               /\ p = <<b, i, a>> /\ ~Opaque(c, b)
               /\ ~CodeOwned(a, c.blocks[b][i].attrs[a]) /\ p \notin keep
               /\ b = "clone" => Ours(m, c, b, i)
  <2>1. p \in Rows(c) /\ \A q \in Rows(c) : SameField(p, q) => ~Owned(c, q) /\ q \notin keep
    BY <1>1, <1>5
  <2>2. ~Owned(c, p) /\ p \notin keep
    BY <2>1 DEF SameField
  <2>3. PICK b \in Block : p \in {<<b, i, a>> : a \in Attributes[b], i \in Index(b)}
    BY <1>2, <2>1
  <2>4. PICK i \in Index(b), a \in Attributes[b] : p = <<b, i, a>>
    BY <2>3
  <2>5. ~Opaque(c, b) /\ ~CodeOwned(a, c.blocks[b][i].attrs[a])
    BY <1>4, <2>2, <2>4
  <2>6. i \in 1 .. Len(c.blocks[b])
    BY <1>3, <2>4, <2>5
  <2>7. ASSUME b = "clone", NEW x \in Attributes[b]
        PROVE  ~CodeOwned(x, c.blocks[b][i].attrs[x]) /\ <<b, i, x>> \notin keep
    <3>1. <<b, i, x>> \in Rows(c)
      BY <1>2, <2>4
    <3>2. SameField(p, <<b, i, x>>)
      BY <2>4, <2>7 DEF SameField
    <3> QED
      BY <1>4, <2>1, <3>1, <3>2
  <2>8. b = "clone" => Ours(m, c, b, i)
    BY <2>7 DEF Ours, keep
  <2> QED
    BY <2>2, <2>4, <2>5, <2>6, <2>8
<1>6. ASSUME NEW b \in Block, ~Opaque(c, b), NEW i \in 1 .. Len(c.blocks[b]), NEW a \in Attributes[b],
             ~CodeOwned(a, c.blocks[b][i].attrs[a]), <<b, i, a>> \notin keep, b = "clone" => Ours(m, c, b, i)
      PROVE  <<b, i, a>> \in Read(m, c).synced
  <2>1. i \in Index(b)
    BY <1>3, <1>6
  <2>2. <<b, i, a>> \in Rows(c)
    BY <1>2, <2>1
  <2>3. ASSUME NEW q \in Rows(c), SameField(<<b, i, a>>, q) PROVE ~Owned(c, q) /\ q \notin keep
    <3>1. CASE q = <<b, i, a>>
      BY <1>4, <1>6, <3>1
    <3>2. CASE b = "clone" /\ q[1] = "clone"
      <4>1. PICK y \in Block : q \in {<<y, j, x>> : x \in Attributes[y], j \in Index(y)}
        BY <1>2, <2>3
      <4>2. PICK j \in Index(y), x \in Attributes[y] : q = <<y, j, x>>
        BY <4>1
      <4>3. y = b
        BY <3>2, <4>2
      <4>4. j \in 1 .. Len(c.blocks[b]) /\ Len(c.blocks[b]) \in Nat /\ ~ Len(c.blocks[b]) > 1
        BY <1>3, <1>6, <3>2, <4>2, <4>3, CodeIs, OpaqueIs
      <4>5. j = i
        <5>1. \A n \in Nat : \A u, w \in 1 .. n : ~ n > 1 => u = w
          OBVIOUS
        <5> QED
          BY <1>6, <4>4, <5>1
      <4>6. ~CodeOwned(x, c.blocks[b][i].attrs[x]) /\ <<b, i, x>> \notin keep
        BY <1>6, <3>2, <4>2, <4>3 DEF Ours, keep
      <4> QED
        BY <1>4, <1>6, <4>2, <4>3, <4>5, <4>6
    <3> QED
      BY <2>3, <3>1, <3>2 DEF SameField
  <2> QED
    BY <1>1, <2>2, <2>3
<1> QED
  BY <1>5, <1>6 DEF keep

\* What is written where it fits is in step.
LEMMA FitsInStep ==
  ASSUME NEW m, IsDocument(m), NEW c, IsCode(c), Fits(m, c)
  PROVE  /\ InStep(m, Put(m, c))
         /\ \A b \in Block : ~Opaque(c, b) =>
              /\ Len(Put(m, c).blocks[b]) = Len(c.blocks[b])
              /\ \A i \in 1 .. Len(c.blocks[b]) : i > Len(m[b]) => Put(m, c).blocks[b][i] = c.blocks[b][i]
<1> DEFINE d == Put(m, c)
<1>1. \A b \in Block : Opaque(d, b) <=> Opaque(c, b)
  BY PutIs
<1>2. ASSUME NEW b \in Block, ~Opaque(c, b)
      PROVE  /\ Len(d.blocks[b]) = Len(c.blocks[b])
             /\ \A i \in 1 .. Len(c.blocks[b]) : i > Len(m[b]) => d.blocks[b][i] = c.blocks[b][i]
  <2>1. /\ Len(d.blocks[b]) = Len(c.blocks[b])
        /\ \A i \in 1 .. Len(c.blocks[b]) : d.blocks[b][i] = Rewritten(c, m, Read(m, c).keep, b, i)
    BY <1>2, PutFits
  <2>2. Len(m[b]) \in Nat /\ Len(c.blocks[b]) \in Nat
    BY CodeIs, DocumentIs
  <2>3. \A i \in 1 .. Len(c.blocks[b]) : i > Len(m[b]) => i \notin 1 .. Len(m[b])
    BY <2>2
  <2> QED
    BY <2>1, <2>3 DEF Rewritten
<1>3. ASSUME NEW b \in Block, ~Opaque(c, b), NEW i \in 1 .. Len(c.blocks[b]), i > Len(m[b])
      PROVE  StaysAt(m, d, b, i)
  <2>1. Len(m[b]) \in Nat /\ Len(c.blocks[b]) \in Nat
    BY CodeIs, DocumentIs
  <2>2. StaysAt(m, c, b, i)
    BY <1>3 DEF Fits
  <2>3. PICK k \in 1 .. Len(c.blocks[b]), a \in Attributes[b] :
          k <= i /\ LostAt(m, c, b, k, a) /\ (IF b = "clone" THEN a = "vm_id" ELSE k \notin 1 .. Len(m[b]))
    BY <2>2 DEF StaysAt
  <2>4. k > Len(m[b])
    <3>1. CASE b = "clone"
      <4>1. ~ Len(c.blocks[b]) > 1
        BY <1>3, <3>1, OpaqueIs
      <4> QED
        BY <1>3, <2>1, <4>1
    <3>2. CASE b # "clone"
      BY <2>1, <2>3, <3>2
    <3> QED
      BY <3>1, <3>2
  <2>5. d.blocks[b][k] = c.blocks[b][k] /\ k \in 1 .. Len(d.blocks[b])
    BY <1>2, <1>3, <2>3, <2>4
  <2> HIDE DEF d
  <2>6. LostAt(m, d, b, k, a)
    BY <2>3, <2>5 DEF LostAt, ChangedAt, Heard
  <2> QED
    BY <2>3, <2>5, <2>6 DEF StaysAt
<1>4. Fits(m, d)
  BY <1>1, <1>2, <1>3, PutSays DEF Fits
<1>5. Agrees(m, d)
  BY <1>1, <1>4, PutSays DEF Agrees
<1>6. InStep(m, d)
  BY <1>1, <1>5, PutSays DEF InStep
<1> QED
  BY <1>2, <1>6

-----------------------------------------------------------------------------
(* Synchronizing twice. *)

Final(m, c, desired) == SetAt(Read(m, c).vm, desired, Wanted(m, c, desired))

\* What a synchronization writes into the code, if it is read back.
Accepted(m, c, desired) ==
  LET final == Final(m, c, desired)
  IN  /\ Wanted(m, c, desired) \subseteq Read(m, c).synced
      /\ RoundTrips(Read(m, c).synced, final, Read(final, Put(final, c)))

LEMMA FinalBlocks ==
  ASSUME NEW m, IsDocument(m), NEW c, IsCode(c), NEW desired, IsDocument(desired)
  PROVE  LET v == Read(m, c).vm
             f == Final(m, c, desired)
         IN  /\ IsDocument(v) /\ IsDocument(f)
             /\ \A b \in Block \ {"clone"} :
                  /\ Len(f[b]) = Len(v[b])
                  /\ \A i \in 1 .. Len(f[b]) : \A a \in Said(b) :
                       \/ f[b][i][a] = v[b][i][a]
                       \/ ValueAt(desired, <<b, i, a>>) = {f[b][i][a]}
             /\ \/ f["clone"] = v["clone"]
                \/ f["clone"] = desired["clone"] /\ \E p \in Wanted(m, c, desired) : p[1] = "clone"
<1> DEFINE v == Read(m, c).vm
           paths == Wanted(m, c, desired)
           f == SetAt(v, desired, paths)
<1>1. IsDocument(v) /\ IsDocument(f)
  BY VmIs, FinalIs
<1>2. \A b \in Block \ {"clone"} : \A i, a : <<b, i, a>> \in paths =>
        i \in 1 .. Len(desired[b]) /\ ValueAt(desired, <<b, i, a>>) # {}
  BY ValueIs DEF Wanted
<1> HIDE DEF paths, v
<1>3. /\ \A b \in Block \ {"clone"} :
           /\ Len(f[b]) = Len(v[b])
           /\ \A i \in 1 .. Len(v[b]) : \A a \in Said(b) :
                f[b][i][a] = IF <<b, i, a>> \in paths THEN desired[b][i][a] ELSE v[b][i][a]
      /\ f["clone"] = IF \E p \in paths : p[1] = "clone" THEN desired["clone"] ELSE v["clone"]
  BY <1>1, <1>2, SetAtIs
<1> HIDE DEF f
<1>4. ASSUME NEW b \in Block \ {"clone"}, NEW i \in 1 .. Len(f[b]), NEW a \in Said(b), <<b, i, a>> \in paths
      PROVE  ValueAt(desired, <<b, i, a>>) = {f[b][i][a]}
  <2>1. i \in 1 .. Len(v[b]) /\ i \in 1 .. Len(desired[b])
    BY <1>2, <1>3, <1>4
  <2>2. ValueAt(desired, <<b, i, a>>) = {desired[b][i][a]} \ {None}
    BY <2>1, ValueIs
  <2>3. f[b][i][a] = desired[b][i][a]
    BY <1>3, <1>4, <2>1
  <2> QED
    BY <1>2, <1>4, <2>2, <2>3
<1> QED
  BY <1>1, <1>3, <1>4 DEF f, v, paths, Final

\* What is written fits: nothing has to be added or removed.
LEMMA FinalFits ==
  ASSUME NEW m, IsDocument(m), NEW c, IsCode(c), NEW desired, IsDocument(desired),
         Accepted(m, c, desired)
  PROVE  Fits(Final(m, c, desired), c)
<1> DEFINE v == Read(m, c).vm
           f == Final(m, c, desired)
           d == Put(f, c)
<1>1. /\ IsDocument(v) /\ IsDocument(f)
      /\ \A b \in Block \ {"clone"} : Len(f[b]) = Len(v[b])
      /\ \/ f["clone"] = v["clone"]
         \/ f["clone"] = desired["clone"] /\ \E p \in Wanted(m, c, desired) : p[1] = "clone"
  BY FinalBlocks
<1>2. Fits(v, c)
  BY ReadAgrees DEF Agrees
<1>3. IsCode(d)
  BY <1>1, PutIs
<1>4. Wanted(m, c, desired) \subseteq Read(m, c).synced /\ \A p \in Read(m, c).synced : p \in Read(f, d).synced
  BY DEF Accepted, RoundTrips
<1> HIDE DEF v, f, d
<1>5. ASSUME NEW b \in Block \ {"clone"}, ~Opaque(c, b)
      PROVE  /\ Len(f[b]) <= Len(c.blocks[b])
             /\ \A i \in 1 .. Len(c.blocks[b]) : i > Len(f[b]) => StaysAt(f, c, b, i)
  <2>1. Len(f[b]) = Len(v[b]) /\ Len(v[b]) <= Len(c.blocks[b])
    BY <1>1, <1>2, <1>5 DEF Fits
  <2>2. ASSUME NEW i \in 1 .. Len(c.blocks[b]), i > Len(f[b]) PROVE StaysAt(f, c, b, i)
    <3>1. StaysAt(v, c, b, i)
      BY <1>2, <1>5, <2>1, <2>2 DEF Fits
    <3>2. PICK k \in 1 .. Len(c.blocks[b]), a \in Attributes[b] :
            k <= i /\ LostAt(v, c, b, k, a) /\ k \notin 1 .. Len(v[b])
      BY <3>1 DEF StaysAt
    <3>3. LostAt(f, c, b, k, a)
      BY <2>1, <3>2, LostBehind
    <3> QED
      BY <2>1, <3>2, <3>3 DEF StaysAt
  <2> QED
    BY <2>1, <2>2
<1>6. ASSUME ~Opaque(c, "clone")
      PROVE  /\ Len(f["clone"]) <= Len(c.blocks["clone"])
             /\ \A i \in 1 .. Len(c.blocks["clone"]) : i > Len(f["clone"]) => StaysAt(f, c, "clone", i)
  <2>1. CASE f["clone"] = v["clone"]
    <3>1. /\ Len(v["clone"]) <= Len(c.blocks["clone"])
          /\ \A i \in 1 .. Len(c.blocks["clone"]) : i > Len(v["clone"]) => StaysAt(v, c, "clone", i)
      BY <1>2, <1>6, Schema DEF Fits
    <3>2. \A i : StaysAt(v, c, "clone", i) => StaysAt(f, c, "clone", i)
      BY <2>1, StaysSame
    <3> QED
      BY <2>1, <3>1, <3>2
  <2>2. CASE \E p \in Wanted(m, c, desired) : p[1] = "clone"
    <3>1. PICK p \in Wanted(m, c, desired) : p[1] = "clone"
      BY <2>2
    <3>2. p \in Read(m, c).synced /\ p \in Read(f, d).synced
      BY <1>4, <3>1
    <3>3. PICK b \in Block : \E i \in 1 .. Len(d.blocks[b]) : \E a \in Attributes[b] : p = <<b, i, a>>
      BY <1>1, <1>3, <3>2, SyncedIs
    <3>4. b = "clone"
      BY <3>1, <3>3
    <3>5. /\ Len(c.blocks["clone"]) \in Nat /\ ~ Len(c.blocks["clone"]) > 1
          /\ Len(f["clone"]) \in {0, 1} /\ "clone" \in Block
      BY <1>1, <1>6, CodeIs, DocumentIs, OpaqueIs, Schema
    <3>6. PICK j \in 1 .. Len(c.blocks["clone"]) : TRUE
      <4>1. PICK x \in Block : \E y \in 1 .. Len(c.blocks[x]) : \E z \in Attributes[x] : p = <<x, y, z>>
        BY <3>2, SyncedIs
      <4>2. x = "clone"
        BY <3>1, <4>1
      <4> QED
        BY <4>1, <4>2
    <3>7. Len(c.blocks["clone"]) = 1
      <4>1. \A n \in Nat : \A x \in 1 .. n : ~ n > 1 => n = 1
        OBVIOUS
      <4>2. j \in 1 .. Len(c.blocks["clone"])
        BY <3>6
      <4> QED
        BY <3>5, <4>1, <4>2
    <3>8. ASSUME Len(f["clone"]) = 0 PROVE StaysAt(f, c, "clone", 1)
      <4> DEFINE keep == Read(f, c).keep
                 R == Remaining(c, f, keep, "clone")
      <4>1. d.blocks["clone"] = PutBlock(c, Project(f), keep, "clone")
        BY <1>1, <3>5, PutIs DEF d
      <4>2. Len(d.blocks["clone"]) = Cardinality(R) + Missing(c, f, "clone")
        BY <1>1, <1>6, <3>5, <4>1, PutBlockIs
      <4>3. Missing(c, f, "clone") = 0
        BY <3>7, <3>8 DEF Missing
      <4>4. /\ R \in SUBSET (1 .. 1) /\ Cardinality(R) \in Nat
            /\ InOrder(R) \in [1 .. Cardinality(R) -> R]
        <5>1. "clone" \in Block
          BY Schema
        <5>2. /\ R \in SUBSET (1 .. Len(c.blocks["clone"])) /\ Cardinality(R) \in Nat
              /\ InOrder(R) \in [1 .. Cardinality(R) -> R]
          BY <1>1, <5>1, RemainingIs
        <5> QED
          BY <3>7, <5>2
      <4> HIDE DEF R, keep
      <4>5. \E x \in R : TRUE
        <5>1. Len(d.blocks["clone"]) = Cardinality(R)
          BY <4>2, <4>3, <4>4
        <5>2. \E x \in 1 .. Cardinality(R) : TRUE
          BY <3>3, <3>4, <5>1
        <5> QED
          BY <4>4, <5>2
      <4>6. 1 \in R
        BY <4>4, <4>5
      <4>7. Surplus(c, Project(f), keep, "clone") =
              {x \in 1 .. Len(c.blocks["clone"]) : x > Len(f["clone"]) /\ ~Kept("clone", x, keep)}
        BY <1>1, <1>6, <3>5, SurplusIs
      <4>8. Kept("clone", 1, keep)
        BY <3>7, <3>8, <4>6, <4>7 DEF R, Remaining
      <4>9. <<"clone", 1, "vm_id">> \in keep
        BY <4>8, Schema DEF Kept
      <4>10. LostAt(f, c, "clone", 1, "vm_id") \/ StaysAt(f, c, "clone", 1)
        BY <1>1, <1>6, <3>7, <4>9, KeepIs, Schema DEF keep
      <4> QED
        BY <3>7, <4>10, Schema DEF StaysAt
    <3>9. \A i \in 1 .. 1 : i = 1
      OBVIOUS
    <3>10. ASSUME NEW i \in 1 .. Len(c.blocks["clone"]), i > Len(f["clone"]) PROVE StaysAt(f, c, "clone", i)
      <4>1. i = 1
        BY <3>7, <3>9
      <4>2. Len(f["clone"]) = 0
        BY <3>5, <3>10, <4>1
      <4> QED
        BY <3>8, <4>1, <4>2
    <3>11. Len(f["clone"]) <= Len(c.blocks["clone"])
      <4>1. \A x \in {0, 1} : x <= 1
        OBVIOUS
      <4> QED
        BY <3>5, <3>7, <4>1
    <3> QED
      BY <3>10, <3>11
  <2> QED
    BY <1>1, <2>1, <2>2
<1>7. Fits(f, c)
  BY <1>5, <1>6 DEF Fits
<1> QED
  BY <1>7 DEF f

\* Synchronizing leaves in the block what people took over, and in its order,
\* whatever intent says and the caller wants.  So does compiling, but for
\* items that intent does not have and in which nothing was taken over but
\* literals that are not of the type of an optional attribute.
THEOREM TakenOverStays == Spec => TakenStays
<1> DEFINE stays == fresh' # "none" /\ Located(code, intent.vm[1].name) =>
                      \A b \in Block :
                        \E gone \in SUBSET (IF fresh' = "compile" THEN Misread(intent, code, b) ELSE {}) :
                          Taken(code', b, {}) = Taken(code, b, gone)
<1>1. FilesInv /\ [Next]_vars => [stays]_vars
  <2> SUFFICES ASSUME FilesInv, Next, fresh' # "none", Located(code, intent.vm[1].name), NEW b \in Block
               PROVE  \E gone \in SUBSET (IF fresh' = "compile" THEN Misread(intent, code, b) ELSE {}) :
                        Taken(code', b, {}) = Taken(code, b, gone)
    OBVIOUS
  <2>1. IsDocument(intent) /\ IsCode(code)
    BY DEF FilesInv
  <2>2. CASE Synchronize
    <3>1. PICK desired \in {intent} \cup Variants(intent) :
            \E out \in Synchronized(intent, code, desired) : intent' = out.intent /\ code' = out.code
      BY <2>2 DEF Synchronize
    <3>2. IsDocument(desired)
      BY <2>1, <3>1, VariantsAreDocuments
    <3>3. PICK out \in Synchronized(intent, code, desired) : code' = out.code
      BY <3>1
    <3> DEFINE final == Final(intent, code, desired)
    <3>4. IsDocument(final) /\ Writable(final, code) /\ out.code = Put(final, code)
      BY <2>1, <3>2, <3>3, SynchronizedIs DEF Final
    <3>5. Accepted(intent, code, desired)
      BY <3>3 DEF Accepted, Final, Synchronized
    <3>6. Fits(final, code)
      BY <2>1, <3>2, <3>5, FinalFits
    <3> HIDE DEF final
    <3>7. PICK none : none = {}
      OBVIOUS
    <3>8. Surplus(code, Project(final), Read(final, code).keep, b) = none
      BY <2>1, <3>4, <3>6, <3>7, PutFits
    <3>9. Taken(code', b, {}) = Taken(code, b, none)
      BY <2>1, <3>3, <3>4, <3>8, PutTaken
    <3> QED
      BY <3>7, <3>9
  <2>3. CASE Compile
    <3>1. Writable(intent, code) /\ code' = Put(intent, code) /\ fresh' = "compile"
      BY <2>3 DEF Compile
    <3> DEFINE gone == Surplus(code, Project(intent), Read(intent, code).keep, b)
    <3>2. gone \in SUBSET Misread(intent, code, b) /\ Taken(code', b, {}) = Taken(code, b, gone)
      BY <2>1, <3>1, PutTaken
    <3> HIDE DEF gone
    <3> QED
      BY <3>1, <3>2
  <2>4. ~EditIntent /\ ~EditCode
    BY DEF EditIntent, EditCode
  <2> QED
    BY <2>2, <2>3, <2>4 DEF Next
<1> QED
  BY <1>1, FilesWellFormed, PTL DEF Spec, TakenStays

\* A synchronization of m and c that goes well writes f into d, and o.
Synchronizes(m, c, desired, f, d, o) ==
  /\ IsDocument(m) /\ IsCode(c) /\ IsDocument(desired) /\ Accepted(m, c, desired)
  /\ f = Final(m, c, desired) /\ d = Put(f, c)
  /\ LockMatches(m, c) /\ Writable(f, c)
  /\ \A p \in Mirrored(m, Read(f, d)) : p[1] = "clone" \/ p[2] \in DOMAIN m[p[1]]
  /\ o = SetAt(m, Read(f, d).vm, Mirrored(m, Read(f, d)))

LEMMA WrittenInStep ==
  ASSUME NEW m, NEW c, NEW desired, NEW f, NEW d, NEW o, Synchronizes(m, c, desired, f, d, o)
  PROVE  /\ IsDocument(m) /\ IsCode(c) /\ IsDocument(desired) /\ Accepted(m, c, desired)
         /\ IsDocument(f) /\ IsCode(d) /\ Fits(f, c) /\ InStep(f, d) /\ Read(f, d).vm = f
         /\ d.marker = c.marker /\ d.label = c.label
         /\ \A b \in Block : (Opaque(d, b) <=> Opaque(c, b)) /\ Opaque(d, b) \in BOOLEAN
         /\ \A b \in Block : ~Opaque(d, b) =>
              /\ Len(d.blocks[b]) = Len(c.blocks[b])
              /\ \A i \in 1 .. Len(c.blocks[b]) : i > Len(f[b]) => d.blocks[b][i] = c.blocks[b][i]
<1>1. /\ IsDocument(m) /\ IsCode(c) /\ IsDocument(desired) /\ Accepted(m, c, desired)
      /\ f = Final(m, c, desired) /\ d = Put(f, c)
  BY DEF Synchronizes
<1>2. IsDocument(f) /\ Fits(f, c)
  BY <1>1, FinalBlocks, FinalFits
<1>3. /\ IsCode(d) /\ d.marker = c.marker /\ d.label = c.label
      /\ \A b \in Block : Opaque(d, b) <=> Opaque(c, b)
  BY <1>1, <1>2, PutIs
<1>4. /\ InStep(f, d)
      /\ \A b \in Block : ~Opaque(c, b) =>
           /\ Len(d.blocks[b]) = Len(c.blocks[b])
           /\ \A i \in 1 .. Len(c.blocks[b]) : i > Len(f[b]) => d.blocks[b][i] = c.blocks[b][i]
  BY <1>1, <1>2, FitsInStep
<1>5. Read(f, d).vm = f
  BY <1>2, <1>3, <1>4, InStepStays
<1>6. \A b \in Block : Opaque(d, b) \in BOOLEAN
  BY <1>3, OpaqueIs
<1> QED
  BY <1>1, <1>2, <1>3, <1>4, <1>5, <1>6

\* An item of the lens' document is one that does not stay the code's.
LEMMA ReadLength ==
  ASSUME NEW m, IsDocument(m), NEW c, IsCode(c), NEW b \in Block, b # "clone", ~Opaque(c, b),
         NEW i \in 1 .. Len(c.blocks[b]), i > Len(Read(m, c).vm[b])
  PROVE  StaysAt(m, c, b, i) /\ i \notin 1 .. Len(m[b])
<1> DEFINE v == Read(m, c).vm
<1>1. 1 .. Len(v[b]) = {j \in 1 .. Len(c.blocks[b]) : ~StaysAt(m, c, b, j)}
  BY VmIs
<1>2. Len(v[b]) \in Nat /\ Len(c.blocks[b]) \in Nat
  BY VmIs, CodeIs, DocumentIs
<1> HIDE DEF v
<1>3. i \notin 1 .. Len(v[b])
  BY <1>2 DEF v
<1>4. StaysAt(m, c, b, i)
  BY <1>1, <1>3
<1> QED
  BY <1>4, StaysOutside

\* What a synchronization does not mirror is in intent already.
LEMMA MirroredIs ==
  ASSUME NEW m, NEW c, NEW desired, NEW f, NEW d, NEW o, Synchronizes(m, c, desired, f, d, o)
  PROVE  /\ IsDocument(o)
         /\ \A b \in Block \ {"clone"} :
              /\ Len(o[b]) = Len(m[b])
              /\ \A i \in 1 .. Len(m[b]) : \A a \in Said(b) :
                   \/ o[b][i][a] = m[b][i][a] /\ <<b, i, a>> \notin Mirrored(m, Read(f, d))
                   \/ o[b][i][a] = f[b][i][a]
         /\ \/ o["clone"] = m["clone"] /\ \A p \in Mirrored(m, Read(f, d)) : p[1] # "clone"
            \/ o["clone"] = f["clone"]
<1>1. IsDocument(m) /\ IsDocument(f) /\ Read(f, d).vm = f
  BY WrittenInStep
<1> DEFINE paths == Mirrored(m, Read(f, d))
<1>2. \A b \in Block \ {"clone"} : \A i, a : <<b, i, a>> \in paths => i \in 1 .. Len(f[b])
  BY <1>1, ValueIs DEF Mirrored
<1>3. o = SetAt(m, f, paths)
  BY <1>1 DEF Synchronizes
<1> HIDE DEF paths
<1>4. /\ IsDocument(o)
      /\ \A b \in Block \ {"clone"} :
           /\ Len(o[b]) = Len(m[b])
           /\ \A i \in 1 .. Len(m[b]) : \A a \in Said(b) :
                o[b][i][a] = IF <<b, i, a>> \in paths THEN f[b][i][a] ELSE m[b][i][a]
      /\ o["clone"] = IF \E p \in paths : p[1] = "clone" THEN f["clone"] ELSE m["clone"]
  BY <1>1, <1>2, <1>3, SetAtIs
<1> QED
  BY <1>4 DEF paths

\* Reading what was written with what was mirrored gives no item more.
LEMMA ReadNoLonger ==
  ASSUME NEW m, NEW c, NEW desired, NEW f, NEW d, NEW o, Synchronizes(m, c, desired, f, d, o),
         NEW b \in Block, ~Opaque(d, b)
  PROVE  Len(Read(o, d).vm[b]) <= Len(f[b])
<1> DEFINE g == Read(o, d).vm
           v == Read(m, c).vm
<1>1. /\ IsDocument(m) /\ IsCode(c) /\ IsDocument(desired) /\ Accepted(m, c, desired)
      /\ IsDocument(f) /\ IsCode(d) /\ InStep(f, d)
      /\ f = Final(m, c, desired) /\ ~Opaque(c, b)
      /\ Len(d.blocks[b]) = Len(c.blocks[b])
  BY WrittenInStep DEF Synchronizes
<1>2. IsDocument(o) /\ IsDocument(g)
  BY <1>1, MirroredIs, VmIs
<1>3. /\ Len(f[b]) \in Nat /\ Len(g[b]) \in Nat /\ Len(c.blocks[b]) \in Nat
      /\ Len(f[b]) <= Len(d.blocks[b])
      /\ \A i \in 1 .. Len(d.blocks[b]) : i > Len(f[b]) => StaysAt(f, d, b, i)
  BY <1>1, <1>2, CodeIs, DocumentIs DEF InStep, Agrees, Fits
<1>4. ~(b = "clone" /\ StaysAt(o, d, b, 1)) =>
        1 .. Len(g[b]) = {j \in 1 .. Len(d.blocks[b]) : ~StaysAt(o, d, b, j)}
  <2>1. IsDocument(o) /\ IsCode(d)
    BY <1>1, <1>2
  <2> QED
    BY <2>1, VmIs
<1>5. ~(b = "clone" /\ StaysAt(m, c, b, 1)) =>
        1 .. Len(v[b]) = {j \in 1 .. Len(c.blocks[b]) : ~StaysAt(m, c, b, j)}
  <2>1. IsDocument(m) /\ IsCode(c) /\ ~Opaque(c, b)
    BY <1>1
  <2> QED
    BY <2>1, VmIs
<1>6. CASE b \in {"vm", "cpu"}
  <2>1. Len(f[b]) = 1 /\ Len(g[b]) = 1
    BY <1>1, <1>2, <1>6, DocumentIs
  <2> QED
    BY <2>1
<1>7. CASE b = "disk"
  <2>1. 1 .. Len(g[b]) = {j \in 1 .. Len(d.blocks[b]) : ~StaysAt(o, d, b, j)}
    BY <1>7, <1>4
  <2>2. Len(f[b]) = Len(v[b])
    BY <1>1, <1>7, FinalBlocks
  <2>3. Len(o[b]) = Len(m[b])
    BY <1>7, MirroredIs
  <2> HIDE DEF g, v
  <2>4. ASSUME NEW i \in 1 .. Len(d.blocks[b]), i > Len(f[b]) PROVE StaysAt(o, d, b, i)
    <3>1. StaysAt(f, d, b, i)
      BY <1>3, <2>4
    <3>2. PICK k \in 1 .. Len(d.blocks[b]), a \in Attributes[b] :
            k <= i /\ LostAt(f, d, b, k, a) /\ k \notin 1 .. Len(f[b])
      <4>1. b # "clone"
        BY <1>7
      <4> QED
        BY <3>1, <4>1 DEF StaysAt
    <3>3. k > Len(v[b])
      BY <1>1, <1>3, <2>2, <3>2
    <3>4. k \notin 1 .. Len(m[b])
      BY <1>1, <1>7, <3>2, <3>3, ReadLength DEF v
    <3>5. k \notin 1 .. Len(o[b])
      BY <2>3, <3>4
    <3>6. LostAt(o, d, b, k, a)
      BY <3>2, <3>5, LostBehind
    <3>7. b # "clone"
      BY <1>7
    <3> QED
      BY <3>2, <3>5, <3>6, <3>7 DEF StaysAt
  <2>5. ~ Len(g[b]) > Len(f[b])
    <3>1. SUFFICES ASSUME Len(g[b]) > Len(f[b]) PROVE FALSE
      OBVIOUS
    <3>2. Len(g[b]) \in 1 .. Len(g[b])
      BY <1>3, <3>1
    <3> QED
      BY <2>1, <2>4, <3>1, <3>2
  <2> QED
    BY <1>3, <2>5 DEF g
<1>8. CASE b = "clone"
  <2>1. /\ Len(f[b]) \in {0, 1} /\ Len(g[b]) \in {0, 1} /\ Len(m[b]) \in {0, 1}
        /\ Len(c.blocks[b]) \in Nat /\ ~ Len(c.blocks[b]) > 1
    BY <1>1, <1>2, <1>8, CodeIs, DocumentIs, OpaqueIs
  <2>2. SUFFICES ASSUME Len(f[b]) = 0, Len(g[b]) = 1 PROVE FALSE
    <3>1. \A x, y \in {0, 1} : ~(x = 0 /\ y = 1) => y <= x
      OBVIOUS
    <3> QED
      BY <2>1, <2>2, <3>1
  <2>3. Len(o[b]) = 1 /\ Len(c.blocks[b]) = 1
    <3>1. CASE StaysAt(o, d, b, 1)
      <4>1. g[b] = o[b]
        BY <1>1, <1>2, <1>8, <3>1, VmIs
      <4>2. Len(d.blocks[b]) = 1
        BY <1>1, <1>8, <3>1, CloneStays
      <4> QED
        BY <1>1, <2>2, <4>1, <4>2
    <3>2. CASE ~StaysAt(o, d, b, 1)
      <4>1. 1 .. Len(g[b]) = {j \in 1 .. Len(d.blocks[b]) : ~StaysAt(o, d, b, j)}
        BY <1>4, <3>2
      <4>2. 1 \in 1 .. Len(g[b])
        BY <2>2
      <4>3. 1 \in 1 .. Len(d.blocks[b])
        BY <4>1, <4>2
      <4>4. Len(c.blocks[b]) = 1
        <5>1. \A n \in Nat : 1 \in 1 .. n /\ ~ n > 1 => n = 1
          OBVIOUS
        <5> QED
          BY <1>1, <2>1, <4>3, <5>1
      <4>5. StaysAt(f, d, b, 1)
        BY <1>3, <2>2, <4>3
      <4>6. LostAt(f, d, b, 1, "vm_id")
        BY <1>1, <1>8, <4>5, CloneStays
      <4>7. ASSUME Len(o[b]) # 1 PROVE FALSE
        <5>1. Len(o[b]) = 0
          BY <1>2, <1>8, <4>7, DocumentIs
        <5>2. 1 \notin 1 .. Len(o[b]) /\ 1 \notin 1 .. Len(f[b])
          BY <2>2, <5>1
        <5>3. LostAt(o, d, b, 1, "vm_id")
          BY <4>6, <5>2, LostBehind
        <5>4. StaysAt(o, d, b, 1)
          BY <1>8, <4>3, <5>3, Schema DEF StaysAt
        <5> QED
          BY <3>2, <5>4
      <4> QED
        BY <4>4, <4>7
    <3> QED
      BY <3>1, <3>2
  <2>4. Len(m[b]) = 1
    <3>1. o[b] = m[b] \/ o[b] = f[b]
      BY <1>8, MirroredIs
    <3> QED
      BY <2>2, <2>3, <3>1
  <2>5. 1 \in 1 .. Len(d.blocks[b]) /\ 1 > Len(f[b])
    BY <1>1, <2>2, <2>3
  <2>6. StaysAt(f, d, b, 1)
    BY <1>3, <2>5
  <2>7. CASE f[b] = v[b]
    <3>1. CASE StaysAt(m, c, b, 1)
      <4>1. v[b] = m[b]
        BY <1>1, <1>8, <3>1, VmIs
      <4>2. Len(f[b]) = Len(m[b])
        BY <2>7, <4>1
      <4> QED
        BY <2>2, <2>4, <4>2
    <3>2. CASE ~StaysAt(m, c, b, 1)
      <4>1. 1 .. Len(v[b]) = {j \in 1 .. Len(c.blocks[b]) : ~StaysAt(m, c, b, j)}
        BY <1>5, <3>2
      <4>2. 1 \in 1 .. Len(v[b])
        BY <2>3, <3>2, <4>1
      <4> QED
        BY <2>2, <2>7, <4>2
    <3> QED
      BY <3>1, <3>2
  <2>8. CASE \E p \in Wanted(m, c, desired) : p[1] = "clone"
    <3>1. PICK p \in Wanted(m, c, desired) : p[1] = "clone"
      BY <2>8
    <3>2. p \in Read(f, d).synced
      BY <1>1, <3>1 DEF Accepted, RoundTrips, Synchronizes
    <3>3. PICK x \in Block : \E i \in 1 .. Len(d.blocks[x]) : \E a \in Attributes[x] :
            p = <<x, i, a>> /\ p \notin Read(f, d).keep
      BY <1>1, <3>2, SyncedIs
    <3>4. x = b
      BY <1>8, <3>1, <3>3
    <3>5. PICK i \in 1 .. Len(d.blocks[b]), a \in Attributes[b] : <<b, i, a>> \notin Read(f, d).keep
      BY <3>3, <3>4
    <3>6. i = 1
      <4>1. \A y \in 1 .. 1 : y = 1
        OBVIOUS
      <4> QED
        BY <1>1, <2>3, <4>1
    <3>7. <<b, i, a>> \in Read(f, d).keep
      BY <1>1, <2>5, <2>6, <3>6, KeepIs
    <3> QED
      BY <3>5, <3>7
  <2>9. f[b] = v[b] \/ \E p \in Wanted(m, c, desired) : p[1] = "clone"
    BY <1>1, <1>8, FinalBlocks
  <2> QED
    BY <2>7, <2>8, <2>9
<1> QED
  BY <1>6, <1>7, <1>8, Schema

\* So what is read then is in step with the code as well.
LEMMA ReadInStep ==
  ASSUME NEW m, NEW c, NEW desired, NEW f, NEW d, NEW o, Synchronizes(m, c, desired, f, d, o)
  PROVE  InStep(Read(o, d).vm, d)
<1> DEFINE g == Read(o, d).vm
<1>1. IsDocument(f) /\ IsCode(d) /\ InStep(f, d) /\ IsDocument(o)
  BY WrittenInStep, MirroredIs
<1>2. IsDocument(g) /\ Agrees(g, d)
  BY <1>1, VmIs, ReadAgrees
<1>3. \A b \in Block : ~Opaque(d, b) => Len(g[b]) <= Len(f[b])
  BY ReadNoLonger
<1> HIDE DEF g
<1>4. ASSUME NEW b \in Block, ~Opaque(d, b) PROVE Filled(d, b, Len(g[b]))
  <2>1. Filled(d, b, Len(f[b]))
    BY <1>1, <1>4 DEF InStep
  <2>2. Len(g[b]) <= Len(f[b]) /\ Len(g[b]) \in Nat /\ Len(f[b]) \in Nat
    BY <1>1, <1>2, <1>3, <1>4, DocumentIs
  <2>3. \A i \in 1 .. Len(g[b]) : i \in 1 .. Len(f[b])
    BY <2>2
  <2> QED
    BY <2>1, <2>3 DEF Filled
<1>5. InStep(g, d)
  BY <1>2, <1>4 DEF InStep
<1> QED
  BY <1>5 DEF g

\* A value that is nothing is the one that was there.
LEMMA NothingSaid ==
  ASSUME NEW m, IsDocument(m), NEW c, IsCode(c), ~Opaque(c, "vm"), Read(m, c).vm["vm"][1]["protection"] = None
  PROVE  m["vm"][1]["protection"] = None
<1> DEFINE a == "protection"
           cell == c.blocks["vm"][1].attrs[a]
<1>1. "vm" \in Block /\ a \in Attributes["vm"] /\ a \in Said("vm")
  BY Schema
<1>2. Len(c.blocks["vm"]) = 1 /\ Len(m["vm"]) = 1 /\ Len(Read(m, c).vm["vm"]) = 1
  BY <1>1, VmIs, DocumentIs, OpaqueIs
<1>3. 1 \in 1 .. 1
  OBVIOUS
<1>4. Told(m, c, "vm", 1, a) = None
  BY <1>1, <1>2, <1>3, VmIs
<1>5. ASSUME ChangedAt(m, c, "vm", 1, a) PROVE FALSE
  <2>1. ~CodeOwned(a, cell)
    BY <1>2, <1>3, <1>5, HeardIs
  <2>2. Heard(m, c, "vm", 1, a) = Raw(a, cell)
    BY <2>1, HeardIs
  <2>3. IsCell(a, cell)
    BY <1>1, <1>2, <1>3, CodeIs
  <2>4. Raw(a, cell) # None
    BY <2>1, <2>3 DEF CodeOwned, IsCell, Kinds, Optional, Raw
  <2>5. \A u : ToIntent(a, 1, u) = {u}
    BY DEF ToIntent
  <2>6. Told(m, c, "vm", 1, a) = Raw(a, cell)
    BY <1>5, <2>2, <2>5 DEF Told, LostAt
  <2> QED
    BY <1>4, <2>4, <2>6
<1>6. Told(m, c, "vm", 1, a) = m["vm"][1][a]
  BY <1>5 DEF Told
<1> QED
  BY <1>4, <1>6

\* Wherever the code says something, both files say the same then.
LEMMA MirroredSays ==
  ASSUME NEW m, NEW c, NEW desired, NEW f, NEW d, NEW o, Synchronizes(m, c, desired, f, d, o),
         NEW b \in Block, b # "clone", ~Opaque(d, b), NEW i \in 1 .. Len(f[b]), NEW a \in Said(b),
         ~CodeOwned(a, d.blocks[b][i].attrs[a]), ~Mute(a, i, d.blocks[b][i].attrs[a])
  PROVE  i \in 1 .. Len(o[b]) /\ o[b][i][a] = f[b][i][a]
<1> DEFINE paths == Mirrored(m, Read(f, d))
           p == <<b, i, a>>
<1>1. /\ IsDocument(m) /\ IsCode(c) /\ IsDocument(desired) /\ IsDocument(f) /\ IsCode(d)
      /\ InStep(f, d) /\ Read(f, d).vm = f /\ f = Final(m, c, desired) /\ ~Opaque(c, b)
  BY WrittenInStep DEF Synchronizes
<1>2. a \in Attributes[b] /\ i \in 1 .. Len(d.blocks[b])
  <2>1. Len(f[b]) <= Len(d.blocks[b]) /\ Len(f[b]) \in Nat /\ Len(d.blocks[b]) \in Nat
    BY <1>1, CodeIs, DocumentIs DEF InStep, Agrees, Fits
  <2> QED
    BY <2>1, Schema
<1>3. p \in Read(f, d).synced
  <2>1. p \notin Read(f, d).keep
    BY <1>1, <1>2, KeptInside
  <2> QED
    BY <1>1, <1>2, <2>1, SyncedIs
<1>4. Sayable(a, f[b][i][a]) /\ ValueAt(f, p) = {f[b][i][a]} \ {None}
  <2>1. Sayable(a, f[b][i][a])
    BY <1>1, DocumentIs
  <2>2. ValueAt(f, p) = {f[b][i][a]} \ {None}
    BY <1>1, ValueIs
  <2> QED
    BY <2>1, <2>2
<1>5. p \in paths <=> ValueAt(f, p) # {} /\ ValueAt(f, p) # ValueAt(m, p)
  BY <1>1, <1>3 DEF Mirrored
<1>6. p \in paths => i \in 1 .. Len(m[b])
  <2>1. p \in paths => p[1] = "clone" \/ p[2] \in DOMAIN m[p[1]]
    BY DEF Synchronizes
  <2>2. p[1] = b /\ p[2] = i /\ DOMAIN m[b] = 1 .. Len(m[b])
    BY <1>1, DocumentIs
  <2> QED
    BY <2>1, <2>2
<1> HIDE DEF paths, p
<1>7. i \in 1 .. Len(m[b])
  <2>1. CASE b \in {"vm", "cpu"}
    BY <1>1, <2>1, DocumentIs
  <2>2. CASE b = "disk"
    <3>1. SUFFICES ASSUME i \notin 1 .. Len(m[b]) PROVE FALSE
      OBVIOUS
    <3>2. ValueAt(m, p) = {}
      BY <1>1, <3>1, ValueIs DEF p
    <3>3. f[b][i][a] # None
      BY <1>4, <2>2, Schema DEF Sayable
    <3> QED
      BY <1>4, <1>5, <1>6, <3>1, <3>2, <3>3
  <2> QED
    BY <2>1, <2>2, Schema
<1>8. Len(o[b]) = Len(m[b]) /\ ((o[b][i][a] = m[b][i][a] /\ p \notin paths) \/ o[b][i][a] = f[b][i][a])
  <2>1. b \in Block \ {"clone"}
    OBVIOUS
  <2>2. \A x \in Block \ {"clone"} :
          /\ Len(o[x]) = Len(m[x])
          /\ \A j \in 1 .. Len(m[x]) : \A y \in Said(x) :
               \/ o[x][j][y] = m[x][j][y] /\ <<x, j, y>> \notin Mirrored(m, Read(f, d))
               \/ o[x][j][y] = f[x][j][y]
    BY MirroredIs
  <2>3. \/ o[b][i][a] = m[b][i][a] /\ <<b, i, a>> \notin Mirrored(m, Read(f, d))
        \/ o[b][i][a] = f[b][i][a]
    BY <1>7, <2>1, <2>2
  <2> QED
    BY <2>1, <2>2, <2>3 DEF p, paths
<1>9. ASSUME p \notin paths PROVE m[b][i][a] = f[b][i][a]
  <2>1. ValueAt(m, p) = {m[b][i][a]} \ {None}
    BY <1>1, <1>7, ValueIs DEF p
  <2>2. CASE f[b][i][a] # None
    <3>1. {f[b][i][a]} \ {None} = {m[b][i][a]} \ {None}
      BY <1>4, <1>5, <1>9, <2>1, <2>2
    <3> QED
      BY <2>2, <3>1
  <2>3. CASE f[b][i][a] = None
    <3>1. a = "protection" /\ b = "vm"
      BY <1>4, <2>3, Schema DEF Sayable
    <3>2. i = 1
      <4>1. Len(f[b]) = 1
        BY <1>1, <3>1, DocumentIs
      <4> QED
        BY <4>1
    <3>3. f[b][i][a] = Read(m, c).vm[b][i][a] \/ ValueAt(desired, p) = {f[b][i][a]}
      BY <1>1, FinalBlocks DEF p
    <3>4. ValueAt(desired, p) # {None}
      <4>1. CASE i \in 1 .. Len(desired[b])
        <5>1. ValueAt(desired, p) = {desired[b][i][a]} \ {None}
          BY <1>1, <4>1, ValueIs DEF p
        <5> QED
          BY <5>1
      <4>2. CASE i \notin 1 .. Len(desired[b])
        <5>1. ValueAt(desired, p) = {}
          BY <1>1, <4>2, ValueIs DEF p
        <5> QED
          BY <5>1
      <4> QED
        BY <4>1, <4>2
    <3>5. Read(m, c).vm["vm"][1]["protection"] = None
      BY <2>3, <3>1, <3>2, <3>3, <3>4
    <3>6. m["vm"][1]["protection"] = None
      BY <1>1, <3>1, <3>5, NothingSaid
    <3> QED
      BY <2>3, <3>1, <3>2, <3>6
  <2> QED
    BY <2>2, <2>3
<1> QED
  BY <1>7, <1>8, <1>9

LEMMA MirroredClone ==
  ASSUME NEW m, NEW c, NEW desired, NEW f, NEW d, NEW o, Synchronizes(m, c, desired, f, d, o),
         ~Opaque(d, "clone"), Len(d.blocks["clone"]) = 1,
         \A x \in Attributes["clone"] : /\ ~CodeOwned(x, d.blocks["clone"][1].attrs[x])
                                       /\ ~Mute(x, 1, d.blocks["clone"][1].attrs[x])
  PROVE  Len(f["clone"]) = 1 /\ Len(o["clone"]) = 1 /\ o["clone"][1]["vm_id"] = f["clone"][1]["vm_id"]
<1> DEFINE b == "clone"
           a == "vm_id"
           p == <<b, 1, a>>
           paths == Mirrored(m, Read(f, d))
           id(x) == IF x[b] = <<>> THEN "" ELSE x[b][1][a]
<1>1. /\ IsDocument(m) /\ IsDocument(f) /\ IsCode(d) /\ InStep(f, d) /\ Read(f, d).vm = f
      /\ b \in Block /\ a \in Attributes[b] /\ a \in Said(b) /\ 1 \in 1 .. 1
  BY WrittenInStep, Schema
<1>2. /\ Len(f[b]) \in {0, 1} /\ Len(m[b]) \in {0, 1} /\ IsList(f[b]) /\ IsList(m[b])
  BY <1>1, DocumentIs
<1>3. ~LostAt(f, d, b, 1, a)
  BY <1>1, LostIs
<1>4. ~StaysAt(f, d, b, 1)
  BY <1>1, <1>3, CloneStays
<1>5. Len(f[b]) = 1
  BY <1>1, <1>2, <1>4 DEF InStep, Agrees, Fits
<1>6. p \in Read(f, d).synced
  <2>1. ASSUME NEW x \in Attributes[b] PROVE <<b, 1, x>> \notin Read(f, d).keep
    <3>1. ~LostAt(f, d, b, 1, x)
      BY <1>1, LostIs
    <3> QED
      BY <1>1, <1>4, <3>1, KeepIs
  <2>2. Ours(f, d, b, 1)
    BY <2>1 DEF Ours
  <2> QED
    BY <1>1, <2>1, <2>2, SyncedIs
<1>7. \A x : ValueAt(x, p) = {id(x)}
  BY DEF ValueAt
<1>8. p \in paths <=> {id(f)} # {} /\ {id(f)} # {id(m)}
  BY <1>1, <1>6, <1>7 DEF Mirrored
<1>9. f[b] # <<>> /\ f[b][1][a] # ""
  <2>1. Sayable(a, f[b][1][a])
    BY <1>1, <1>5, DocumentIs
  <2>2. f[b][1][a] \in DOMAIN Templates
    BY <2>1 DEF Sayable
  <2>3. "" \notin DOMAIN Templates
    BY FileSyncAssumption
  <2>4. f[b] # <<>>
    BY <1>2, <1>5, EmptyList
  <2> QED
    BY <2>2, <2>3, <2>4
<1>10. (o[b] = m[b] /\ p \notin paths) \/ o[b] = f[b]
  <2>1. p[1] = "clone"
    OBVIOUS
  <2> QED
    BY <2>1, MirroredIs
<1>11. CASE o[b] = f[b]
  BY <1>5, <1>11
<1>12. CASE o[b] = m[b] /\ p \notin paths
  <2>1. id(m) = f[b][1][a]
    BY <1>8, <1>9, <1>12
  <2>2. m[b] # <<>> /\ m[b][1][a] = f[b][1][a]
    BY <1>9, <2>1
  <2>3. Len(m[b]) = 1
    BY <1>2, <2>2, EmptyList
  <2>4. o[b][1][a] = m[b][1][a] /\ Len(o[b]) = Len(m[b])
    BY <1>12
  <2> QED
    BY <1>5, <2>2, <2>3, <2>4
<1> QED
  BY <1>10, <1>11, <1>12

\* Reading the files again tells intent nothing new.
LEMMA ReadSame ==
  ASSUME NEW m, NEW c, NEW desired, NEW f, NEW d, NEW o, Synchronizes(m, c, desired, f, d, o),
         NEW b \in Block, b # "clone", ~Opaque(d, b), NEW i \in 1 .. Len(Read(o, d).vm[b]), NEW a \in Said(b),
         ~Mute(a, i, d.blocks[b][i].attrs[a]), i \in 1 .. Len(o[b])
  PROVE  Read(o, d).vm[b][i][a] = o[b][i][a]
<1> DEFINE g == Read(o, d).vm
           cell == d.blocks[b][i].attrs[a]
<1>1. IsDocument(f) /\ IsCode(d) /\ InStep(f, d) /\ IsDocument(o) /\ IsDocument(g)
  BY WrittenInStep, MirroredIs, VmIs
<1>2. a \in Attributes[b] /\ i \in 1 .. Len(f[b])
  <2>1. Len(g[b]) <= Len(f[b]) /\ Len(g[b]) \in Nat /\ Len(f[b]) \in Nat
    BY <1>1, ReadNoLonger, DocumentIs
  <2> HIDE DEF g
  <2>2. i \in 1 .. Len(g[b])
    BY DEF g
  <2> QED
    BY <2>1, <2>2, Schema
<1>3. g[b][i][a] = Told(o, d, b, i, a)
  <2>1. \A j \in 1 .. Len(g[b]) : \A x \in Said(b) : g[b][j][x] = Told(o, d, b, j, x)
    BY <1>1, VmIs
  <2> QED
    BY <2>1
<1>4. ASSUME ChangedAt(o, d, b, i, a) PROVE FALSE
  <2>1. ~CodeOwned(a, cell)
    BY <1>4, HeardIs
  <2>2. o[b][i][a] = f[b][i][a]
    BY <1>2, <2>1, MirroredSays
  <2>3. Says(f, d, b, i, a)
    BY <1>1, <1>2 DEF InStep, Agrees
  <2>4. Raw(a, cell) = ToCode(f[b][i], a, i)
    BY <2>1, <2>3 DEF Says
  <2>5. ToCode(f[b][i], a, i) = ToCode(o[b][i], a, i)
    <3>1. \A x, y : x[a] = y[a] /\ a # "interface" => ToCode(x, a, i) = ToCode(y, a, i)
      BY DEF ToCode
    <3>2. a # "interface"
      BY Schema
    <3> QED
      BY <2>2, <3>1, <3>2
  <2>6. Heard(o, d, b, i, a) = Raw(a, cell)
    BY <2>1, HeardIs
  <2>7. Base(o, b, i, a) = ToCode(o[b][i], a, i)
    BY DEF Base
  <2> QED
    BY <1>4, <2>4, <2>5, <2>6, <2>7 DEF ChangedAt
<1>5. Told(o, d, b, i, a) = o[b][i][a]
  BY <1>4 DEF Told
<1> QED
  BY <1>3, <1>5

LEMMA ReadSameClone ==
  ASSUME NEW m, NEW c, NEW desired, NEW f, NEW d, NEW o, Synchronizes(m, c, desired, f, d, o),
         ~Opaque(d, "clone"), Len(d.blocks["clone"]) = 1,
         \A x \in Attributes["clone"] : /\ ~CodeOwned(x, d.blocks["clone"][1].attrs[x])
                                       /\ ~Mute(x, 1, d.blocks["clone"][1].attrs[x])
  PROVE  /\ Len(o["clone"]) = 1 /\ Len(Read(o, d).vm["clone"]) = 1
         /\ Read(o, d).vm["clone"][1]["vm_id"] = o["clone"][1]["vm_id"]
<1> DEFINE b == "clone"
           a == "vm_id"
           g == Read(o, d).vm
           cell == d.blocks[b][1].attrs[a]
<1>1. /\ IsDocument(f) /\ IsCode(d) /\ InStep(f, d) /\ IsDocument(o) /\ IsDocument(g)
      /\ b \in Block /\ a \in Attributes[b] /\ a \in Said(b) /\ 1 \in 1 .. 1
  BY WrittenInStep, MirroredIs, VmIs, Schema
<1>2. Len(f[b]) = 1 /\ Len(o[b]) = 1 /\ o[b][1][a] = f[b][1][a]
  BY MirroredClone
<1>3. ~LostAt(o, d, b, 1, a)
  BY <1>1, LostIs
<1>4. ~StaysAt(o, d, b, 1)
  BY <1>1, <1>3, CloneStays
<1>5. /\ 1 .. Len(g[b]) = {j \in 1 .. Len(d.blocks[b]) : ~StaysAt(o, d, b, j)}
      /\ \A j \in 1 .. Len(g[b]) : \A x \in Said(b) : g[b][j][x] = Told(o, d, b, j, x)
  BY <1>1, <1>4, VmIs
<1>6. Len(g[b]) = 1 /\ g[b][1][a] = Told(o, d, b, 1, a)
  <2>1. Len(g[b]) \in {0, 1}
    BY <1>1, DocumentIs
  <2> HIDE DEF g
  <2>2. 1 \in 1 .. Len(g[b])
    BY <1>1, <1>4, <1>5
  <2> QED
    BY <1>1, <1>5, <2>1, <2>2
<1>7. ~ChangedAt(o, d, b, 1, a)
  <2>1. Says(f, d, b, 1, a)
    BY <1>1, <1>2 DEF InStep, Agrees
  <2>2. Raw(a, cell) = ToCode(f[b][1], a, 1)
    BY <1>1, <2>1 DEF Says
  <2>3. ToCode(f[b][1], a, 1) = ToCode(o[b][1], a, 1)
    BY <1>2 DEF ToCode
  <2>4. Heard(o, d, b, 1, a) = Raw(a, cell)
    BY <1>1, HeardIs
  <2>5. Base(o, b, 1, a) = ToCode(o[b][1], a, 1)
    BY <1>1, <1>2 DEF Base
  <2> QED
    BY <1>2, <2>2, <2>3, <2>4, <2>5 DEF ChangedAt
<1>8. Told(o, d, b, 1, a) = o[b][1][a]
  BY <1>7 DEF Told
<1> QED
  BY <1>2, <1>6, <1>8

\* What is synced stays synced.
LEMMA SyncedStays ==
  ASSUME NEW m, NEW c, NEW desired, NEW f, NEW d, NEW o, Synchronizes(m, c, desired, f, d, o),
         NEW p \in Read(o, d).synced
  PROVE  p \in Read(Read(o, d).vm, d).synced
<1> DEFINE g == Read(o, d).vm
<1>1. IsCode(d) /\ IsDocument(o) /\ IsDocument(g)
  BY WrittenInStep, MirroredIs, VmIs
<1>2. PICK b \in Block : \E i \in 1 .. Len(d.blocks[b]) : \E a \in Attributes[b] :
        /\ p = <<b, i, a>> /\ ~Opaque(d, b)
        /\ ~CodeOwned(a, d.blocks[b][i].attrs[a]) /\ p \notin Read(o, d).keep
        /\ b = "clone" => Ours(o, d, b, i)
  BY <1>1, SyncedIs
<1>3. PICK i \in 1 .. Len(d.blocks[b]), a \in Attributes[b] :
        /\ p = <<b, i, a>> /\ ~Opaque(d, b)
        /\ ~CodeOwned(a, d.blocks[b][i].attrs[a]) /\ p \notin Read(o, d).keep
        /\ b = "clone" => Ours(o, d, b, i)
  BY <1>2
<1>4. ASSUME NEW x \in Attributes[b], ~CodeOwned(x, d.blocks[b][i].attrs[x]), <<b, i, x>> \notin Read(o, d).keep
      PROVE  ~LostAt(g, d, b, i, x)
  <2>1. ~LostAt(o, d, b, i, x)
    BY <1>1, <1>3, <1>4, KeepIs
  <2>2. ~Mute(x, i, d.blocks[b][i].attrs[x])
    BY <1>1, <2>1, LostIs
  <2> QED
    BY <1>1, <1>4, <2>2, LostIs
<1>5. ~StaysAt(g, d, b, i)
  <2>1. CASE b = "clone"
    <3>1. SUFFICES ASSUME StaysAt(g, d, b, i) PROVE FALSE
      OBVIOUS
    <3>2. Len(d.blocks[b]) = 1 /\ LostAt(g, d, b, 1, "vm_id")
      BY <1>1, <1>3, <2>1, <3>1, CloneStays
    <3>3. i = 1 /\ "vm_id" \in Attributes[b]
      <4>1. \A x \in 1 .. 1 : x = 1
        OBVIOUS
      <4> QED
        BY <2>1, <3>2, <4>1, Schema
    <3>4. ~LostAt(g, d, b, i, "vm_id")
      BY <1>3, <1>4, <2>1, <3>3 DEF Ours
    <3> QED
      BY <3>2, <3>3, <3>4
  <2>2. CASE b # "clone"
    <3>1. 1 .. Len(g[b]) = {j \in 1 .. Len(d.blocks[b]) : ~StaysAt(o, d, b, j)}
      BY <1>1, <1>3, <2>2, VmIs
    <3>2. ~StaysAt(o, d, b, i)
      BY <1>1, <1>3, KeepIs
    <3>3. i \in 1 .. Len(g[b])
      BY <3>1, <3>2
    <3> QED
      BY <1>1, <2>2, <3>3, StaysOutside
  <2> QED
    BY <2>1, <2>2
<1> HIDE DEF g
<1>6. ASSUME NEW x \in Attributes[b], ~CodeOwned(x, d.blocks[b][i].attrs[x]), <<b, i, x>> \notin Read(o, d).keep
      PROVE  <<b, i, x>> \notin Read(g, d).keep
  <2>1. ~LostAt(g, d, b, i, x)
    BY <1>4, <1>6
  <2> QED
    BY <1>1, <1>3, <1>5, <2>1, KeepIs
<1>7. p \notin Read(g, d).keep
  BY <1>3, <1>6
<1>8. b = "clone" => Ours(g, d, b, i)
  BY <1>3, <1>6 DEF Ours
<1>9. p \in Read(g, d).synced
  BY <1>1, <1>3, <1>7, <1>8, SyncedIs
<1> QED
  BY <1>9 DEF g

\* Wherever the code is synced, what is read from it is in intent.
LEMMA ReadSilent ==
  ASSUME NEW m, NEW c, NEW desired, NEW f, NEW d, NEW o, Synchronizes(m, c, desired, f, d, o),
         NEW p \in Read(Read(o, d).vm, d).synced
  PROVE  ValueAt(Read(o, d).vm, p) \in {{}, ValueAt(o, p)}
<1> DEFINE g == Read(o, d).vm
<1>1. IsCode(d) /\ IsDocument(o) /\ IsDocument(g) /\ IsDocument(f)
  BY WrittenInStep, MirroredIs, VmIs
<1>2. PICK b \in Block : \E i \in 1 .. Len(d.blocks[b]) : \E a \in Attributes[b] :
        /\ p = <<b, i, a>> /\ ~Opaque(d, b)
        /\ ~CodeOwned(a, d.blocks[b][i].attrs[a]) /\ p \notin Read(g, d).keep
        /\ b = "clone" => Ours(g, d, b, i)
  BY <1>1, SyncedIs
<1>3. PICK i \in 1 .. Len(d.blocks[b]), a \in Attributes[b] :
        /\ p = <<b, i, a>> /\ ~Opaque(d, b)
        /\ ~CodeOwned(a, d.blocks[b][i].attrs[a]) /\ p \notin Read(g, d).keep
        /\ b = "clone" => Ours(g, d, b, i)
  BY <1>2
<1>4. ASSUME NEW x \in Attributes[b], <<b, i, x>> \notin Read(g, d).keep
      PROVE  ~Mute(x, i, d.blocks[b][i].attrs[x])
  <2> HIDE DEF g
  <2>1. ~LostAt(g, d, b, i, x)
    BY <1>1, <1>3, <1>4, KeepIs
  <2> QED
    BY <1>1, <2>1, LostIs
<1>5. CASE b = "clone"
  <2>1. Len(d.blocks[b]) \in Nat /\ ~ Len(d.blocks[b]) > 1
    BY <1>1, <1>3, <1>5, CodeIs, OpaqueIs
  <2>2. Len(d.blocks[b]) = 1 /\ i = 1
    <3>1. \A n \in Nat : \A x \in 1 .. n : ~ n > 1 => n = 1 /\ x = 1
      OBVIOUS
    <3> QED
      BY <2>1, <3>1
  <2>3. Len(o["clone"]) = 1 /\ Len(g["clone"]) = 1 /\ g["clone"][1]["vm_id"] = o["clone"][1]["vm_id"]
    <3>1. \A x \in Attributes["clone"] : /\ ~CodeOwned(x, d.blocks["clone"][1].attrs[x])
                                         /\ ~Mute(x, 1, d.blocks["clone"][1].attrs[x])
      BY <1>3, <1>4, <1>5, <2>2 DEF Ours
    <3> QED
      BY <1>3, <1>5, <2>2, <3>1, ReadSameClone
  <2> HIDE DEF g
  <2>4. IsList(o["clone"]) /\ IsList(g["clone"])
    BY <1>1, DocumentIs, Schema
  <2>5. o["clone"] # <<>> /\ g["clone"] # <<>>
    BY <2>3, <2>4, EmptyList
  <2>6. p[1] = "clone"
    BY <1>3, <1>5
  <2>7. /\ ValueAt(o, p) = {IF o["clone"] = <<>> THEN "" ELSE o["clone"][1]["vm_id"]}
        /\ ValueAt(g, p) = {IF g["clone"] = <<>> THEN "" ELSE g["clone"][1]["vm_id"]}
    BY <2>6 DEF ValueAt
  <2>8. ValueAt(g, p) = ValueAt(o, p)
    BY <2>3, <2>5, <2>7
  <2> QED
    BY <2>8 DEF g
<1>6. CASE b # "clone"
  <2> SUFFICES ASSUME ValueAt(g, p) # {} PROVE ValueAt(g, p) = ValueAt(o, p)
    OBVIOUS
  <2> HIDE DEF g
  <2>1. i \in 1 .. Len(g[b]) /\ a \in Said(b) /\ ValueAt(g, p) = {g[b][i][a]} \ {None}
    BY <1>1, <1>3, <1>6, ValueIs
  <2>2. i \in 1 .. Len(f[b])
    <3>1. Len(g[b]) <= Len(f[b]) /\ Len(g[b]) \in Nat /\ Len(f[b]) \in Nat
      BY <1>1, <1>3, ReadNoLonger, DocumentIs DEF g
    <3> QED
      BY <2>1, <3>1
  <2>3. i \in 1 .. Len(o[b])
    BY <1>3, <1>4, <1>6, <2>1, <2>2, MirroredSays
  <2>4. g[b][i][a] = o[b][i][a]
    BY <1>3, <1>4, <1>6, <2>1, <2>3, ReadSame DEF g
  <2>5. ValueAt(o, p) = {o[b][i][a]} \ {None}
    BY <1>1, <1>3, <1>6, <2>1, <2>3, ValueIs
  <2> QED
    BY <2>1, <2>4, <2>5
<1> QED
  BY <1>5, <1>6

\* The block is found again.
LEMMA FoundAgain ==
  ASSUME NEW m, NEW c, NEW desired, NEW f, NEW d, NEW o, Synchronizes(m, c, desired, f, d, o)
  PROVE  /\ LockMatches(o, d)
         /\ Located(d, Read(o, d).vm["vm"][1]["name"])
<1> DEFINE g == Read(o, d).vm
<1>1. /\ IsDocument(m) /\ IsDocument(f) /\ IsDocument(o) /\ IsCode(d) /\ IsDocument(g)
      /\ d.marker = c.marker /\ d.label = c.label
      /\ "vm" \in Block /\ "name" \in Said("vm") /\ 1 \in 1 .. 1
  BY WrittenInStep, MirroredIs, VmIs, Schema
<1>2. Len(m["vm"]) = 1 /\ Len(o["vm"]) = 1 /\ Len(g["vm"]) = 1
  BY <1>1, DocumentIs
<1>3. /\ Located(c, m["vm"][1]["name"]) /\ c.label = Name
      /\ Located(c, f["vm"][1]["name"])
  BY DEF Synchronizes, LockMatches, Writable
<1>4. o["vm"][1]["name"] \in {m["vm"][1]["name"], f["vm"][1]["name"]}
  <2>1. "vm" \in Block \ {"clone"}
    BY <1>1
  <2>2. \A b \in Block \ {"clone"} :
          /\ Len(o[b]) = Len(m[b])
          /\ \A i \in 1 .. Len(m[b]) : \A a \in Said(b) :
               \/ o[b][i][a] = m[b][i][a] /\ <<b, i, a>> \notin Mirrored(m, Read(f, d))
               \/ o[b][i][a] = f[b][i][a]
    BY MirroredIs
  <2>3. \A i \in 1 .. Len(m["vm"]) : \A a \in Said("vm") :
          o["vm"][i][a] = m["vm"][i][a] \/ o["vm"][i][a] = f["vm"][i][a]
    BY <2>1, <2>2
  <2> QED
    BY <1>1, <1>2, <2>3
<1>5. Located(d, o["vm"][1]["name"])
  <2>1. \A x : Located(d, x) <=> Located(c, x)
    BY <1>1 DEF Located
  <2> QED
    BY <1>3, <1>4, <2>1
<1>6. g["vm"][1]["name"] = o["vm"][1]["name"]
  <2>1. CASE Opaque(d, "vm")
    BY <1>1, <2>1, VmIs
  <2>2. CASE ~Opaque(d, "vm")
    <3>1. ~Mute("name", 1, d.blocks["vm"][1].attrs["name"])
      BY DEF Mute, ToIntent
    <3> QED
      BY <1>1, <1>2, <2>2, <3>1, ReadSame
  <2> QED
    BY <2>1, <2>2
<1> QED
  BY <1>1, <1>3, <1>5, <1>6 DEF LockMatches

LEMMA SetAtNothing ==
  ASSUME NEW m, IsDocument(m), NEW o, IsDocument(o)
  PROVE  SetAt(m, o, {}) = m
<1> DEFINE d == SetAt(m, o, {})
<1>1. /\ IsDocument(d)
      /\ \A b \in Block \ {"clone"} :
           /\ Len(d[b]) = Len(m[b])
           /\ \A i \in 1 .. Len(m[b]) : \A a \in Said(b) : d[b][i][a] = m[b][i][a]
      /\ d["clone"] = m["clone"]
  <2>1. PICK paths : paths = {}
    OBVIOUS
  <2> DEFINE e == SetAt(m, o, paths)
  <2>2. \A b \in Block \ {"clone"} : \A i, a : <<b, i, a>> \in paths => i \in 1 .. Len(o[b])
    BY <2>1
  <2>3. /\ IsDocument(e)
        /\ \A b \in Block \ {"clone"} :
             /\ Len(e[b]) = Len(m[b])
             /\ \A i \in 1 .. Len(m[b]) : \A a \in Said(b) :
                  e[b][i][a] = IF <<b, i, a>> \in paths THEN o[b][i][a] ELSE m[b][i][a]
        /\ e["clone"] = IF \E p \in paths : p[1] = "clone" THEN o["clone"] ELSE m["clone"]
    BY <2>2, SetAtIs
  <2>4. e = d
    BY <2>1
  <2> HIDE DEF d, e
  <2>5. /\ IsDocument(e)
        /\ \A b \in Block \ {"clone"} :
             /\ Len(e[b]) = Len(m[b])
             /\ \A i \in 1 .. Len(m[b]) : \A a \in Said(b) : e[b][i][a] = m[b][i][a]
        /\ e["clone"] = m["clone"]
    BY <2>1, <2>3
  <2> QED
    BY <2>4, <2>5
<1> HIDE DEF d
<1>2. d = m
  BY <1>1, SameDocument
<1> QED
  BY <1>2 DEF d

\* Once synchronized, the files are left alone by a synchronization.
LEMMA SyncSettles ==
  ASSUME NEW m, NEW c, NEW desired, NEW f, NEW d, NEW o, Synchronizes(m, c, desired, f, d, o)
  PROVE  SyncChangesNothing(o, d)
<1> DEFINE read == Read(o, d)
           g == Read(o, d).vm
           again == Read(g, d)
<1>1. IsCode(d) /\ IsDocument(o) /\ IsDocument(g)
  BY WrittenInStep, MirroredIs, VmIs
<1>2. InStep(g, d)
  BY ReadInStep
<1>3. /\ \A b \in Block : Surplus(d, Project(g), again.keep, b) = {}
      /\ Put(g, d) = d /\ again.vm = g
  BY <1>1, <1>2, InStepStays
<1>4. LockMatches(o, d) /\ Writable(g, d)
  BY <1>3, FoundAgain DEF Writable
<1>5. \A p \in read.synced : p \in again.synced
  BY SyncedStays
<1>6. \A p \in again.synced : ValueAt(g, p) \in {{}, ValueAt(o, p)}
  BY ReadSilent
<1>7. Wanted(o, d, o) = {}
  BY DEF Wanted
<1> HIDE DEF read, g, again
<1>8. SetAt(g, o, {}) = g /\ SetAt(o, g, {}) = o
  BY <1>1, SetAtNothing
<1>9. Mirrored(o, again) = {}
  BY <1>3, <1>6 DEF Mirrored
<1>10. RoundTrips(read.synced, g, again)
  BY <1>3, <1>5 DEF RoundTrips
<1>11. Synchronized(o, d, o) = {[intent |-> o, code |-> d]}
  <2> DEFINE wanted == Wanted(o, d, o)
             final == SetAt(read.vm, o, wanted)
             new == Put(final, d)
             then == Read(final, new)
             mirrored == Mirrored(o, then)
  <2>1. wanted = {} /\ final = g
    BY <1>7, <1>8 DEF read, g
  <2>2. new = d /\ then = again
    BY <1>3, <2>1 DEF again
  <2>3. mirrored = {} /\ SetAt(o, then.vm, mirrored) = o
    BY <1>3, <1>8, <1>9, <2>2
  <2>4. /\ LockMatches(o, d) /\ wanted \subseteq read.synced /\ Writable(final, d)
        /\ RoundTrips(read.synced, final, then)
        /\ \A p \in mirrored : p[1] = "clone" \/ p[2] \in DOMAIN o[p[1]]
    BY <1>4, <1>10, <2>1, <2>2, <2>3
  <2>5. Synchronized(o, d, o) =
          IF /\ LockMatches(o, d) /\ wanted \subseteq read.synced /\ Writable(final, d)
             /\ RoundTrips(read.synced, final, then)
             /\ \A p \in mirrored : p[1] = "clone" \/ p[2] \in DOMAIN o[p[1]]
          THEN {[intent |-> SetAt(o, then.vm, mirrored), code |-> new]} ELSE {}
    BY DEF Synchronized, read
  <2> HIDE DEF wanted, final, new, then, mirrored
  <2> QED
    BY <2>2, <2>3, <2>4, <2>5
<1>12. \A p \in read.synced : ValueAt(read.vm, p) \in {{}, ValueAt(o, p)}
  BY <1>5, <1>6 DEF read, g
<1> QED
  BY <1>11, <1>12 DEF SyncChangesNothing, read

LEMMA SynchronizeSettles ==
  ASSUME IsDocument(intent), IsCode(code), Synchronize
  PROVE  SyncChangesNothing(intent', code')
<1>1. PICK desired \in {intent} \cup Variants(intent) :
        \E out \in Synchronized(intent, code, desired) : intent' = out.intent /\ code' = out.code
  BY DEF Synchronize
<1>2. PICK out \in Synchronized(intent, code, desired) : intent' = out.intent /\ code' = out.code
  BY <1>1
<1>3. IsDocument(desired)
  BY <1>1, VariantsAreDocuments
<1> DEFINE f == Final(intent, code, desired)
           again == Read(f, Put(f, code))
<1>4. /\ LockMatches(intent, code) /\ Writable(f, code)
      /\ Wanted(intent, code, desired) \subseteq Read(intent, code).synced
      /\ RoundTrips(Read(intent, code).synced, f, again)
      /\ \A p \in Mirrored(intent, again) : p[1] = "clone" \/ p[2] \in DOMAIN intent[p[1]]
      /\ out.code = Put(f, code)
      /\ out.intent = SetAt(intent, again.vm, Mirrored(intent, again))
  BY <1>2, <1>3, SynchronizedIs DEF Final
<1>5. Accepted(intent, code, desired)
  BY <1>4 DEF Accepted
<1> HIDE DEF f
<1>6. Synchronizes(intent, code, desired, f, code', intent')
  BY <1>2, <1>3, <1>4, <1>5 DEF Synchronizes, f
<1> QED
  BY <1>6, SyncSettles

\* The files settle: whatever was synchronized or compiled, doing it again
\* changes nothing, if no two disks of the block say one interface.
THEOREM FilesSettle == Spec => Settled
<1>1. FilesInv /\ [Next]_vars =>
        [/\ fresh' = "synchronize" => SyncChangesNothing(intent', code')
         /\ fresh' = "compile" /\ OwnInterfaces(code) => CompileChangesNothing(intent', code')]_vars
  <2> SUFFICES ASSUME FilesInv, Next, ~ UNCHANGED vars
               PROVE  /\ fresh' = "synchronize" => SyncChangesNothing(intent', code')
                      /\ fresh' = "compile" /\ OwnInterfaces(code) => CompileChangesNothing(intent', code')
    OBVIOUS
  <2>1. EditIntent \/ EditCode => fresh' = "none"
    BY Zenon DEF EditIntent, EditCode
  <2>2. Synchronize => fresh' = "synchronize"
    BY DEF Synchronize
  <2>3. Compile => fresh' = "compile"
    BY DEF Compile
  <2>4. IsDocument(intent) /\ IsCode(code)
    BY DEF FilesInv
  <2>5. ASSUME Synchronize PROVE SyncChangesNothing(intent', code')
    BY <2>4, <2>5, SynchronizeSettles
  <2>6. ASSUME Compile, OwnInterfaces(code) PROVE CompileChangesNothing(intent', code')
    BY <2>4, <2>6, CompileSettles
  <2>7. "none" # "synchronize" /\ "none" # "compile" /\ "synchronize" # "compile"
    OBVIOUS
  <2>8. CASE EditIntent \/ EditCode
    BY <2>1, <2>7, <2>8
  <2>9. CASE Synchronize
    BY <2>2, <2>5, <2>7, <2>9
  <2>10. CASE Compile
    BY <2>3, <2>6, <2>7, <2>10
  <2> QED
    BY <2>8, <2>9, <2>10 DEF Next
<1> QED
  BY <1>1, FilesWellFormed, PTL DEF Spec, Settled

=============================================================================
