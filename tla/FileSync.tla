------------------------------ MODULE FileSync ------------------------------
(***************************************************************************)
(* One virtual machine in intent and its managed block in code:            *)
(* src/internal/sync, lens/hclmap, lens/proxmoxvm and compileVM of         *)
(* compile.  People edit both files.  Synchronize reads the block, writes  *)
(* the changes its caller wants into it and mirrors what the code says     *)
(* into intent; compiling writes intent into the block.  Neither may touch *)
(* what people took over in the code.                                      *)
(*                                                                         *)
(* The schema is cut down to one attribute or block of each kind there is: *)
(*   name        required, and the name of the block                       *)
(*   protection  required, with a default for intent that leaves it out    *)
(*   bios        optional, and only some values can be said in intent      *)
(*   started     optional, and absent is a value of its own                *)
(*   cpu         a required block, with cores                              *)
(*   clone       an optional block; intent says the name of a template for *)
(*               its vm_id, and its node_name, optional, is for templates  *)
(*               that name their node: the ones here do not                *)
(*   disk        a repeated block, with size, ssd, which is optional, and  *)
(*               interface, which follows from the position                *)
(* A nested block holds attributes and no blocks.  Text (comments, layout, *)
(* the formatting of values) is left out, but for the comment that pins.   *)
(***************************************************************************)
EXTENDS Integers, SequencesExt

CONSTANTS
  None,       \* nothing: an attribute that is not set, a nil pointer
  Name,       \* the name of the machine
  Literals,   \* the values that people write for each attribute
  Templates,  \* the guest ID of each template
  Firmware,   \* the values of bios that intent can express
  First,      \* the machine as it is first compiled
  MaxEdits    \* bound on the changes people make, in the files or as callers

VARIABLES
  intent,  \* the document: for each block its items, for each the values
  code,    \* the managed block
  edits,   \* changes so far
  fresh    \* what ran last, "none" after an edit

vars == <<intent, code, edits, fresh>>

-----------------------------------------------------------------------------
(* The schema. *)

Attributes == [vm    |-> {"name", "protection", "bios", "started"}, cpu  |-> {"cores"},
               clone |-> {"vm_id", "node_name"},                    disk |-> {"interface", "size", "ssd"}]
Block == DOMAIN Attributes
Repeated == {"disk"}
OptionalBlock == {"clone"}
Optional == {"bios", "started", "node_name", "ssd"}
Pointer == {"started"}

Zero(a) == CASE a \in {"bios", "node_name"} -> "" [] a = "ssd" -> "false"
             [] a \in {"vm_id", "interface", "size"} -> 0 [] OTHER -> None

\* An attribute in code.  A pin is a comment behind a literal; an invalid
\* literal is not of the attribute's type.
Cell(kind, value) == [kind |-> kind, value |-> value]
Literal(v) == Cell("literal", v)
Absent == Cell("absent", None)

CodeOwned(a, cell) ==
  \/ cell.kind \in {"expression", "pinned", "invalid"}
  \/ cell.kind \in {"absent", "null"} /\ a \notin Optional

Item(b) == [a \in Attributes[b] |-> Zero(a)]

\* Blocks that are the code's as a whole: the resource has count or for_each,
\* the block is generated, written twice, or left to the provider.
Opaque(c, b) ==
  \/ c.meta \/ b \in c.dynamic
  \/ b \notin Repeated /\ Len(c.blocks[b]) > 1
  \/ b \notin Repeated \cup OptionalBlock /\ c.blocks[b] = <<>>

-----------------------------------------------------------------------------
(* Reading code: hclmap.Lift. *)

ReadCell(a, cell, base) ==
  CASE CodeOwned(a, cell) -> base
    [] cell.kind = "literal" -> cell.value
    [] OTHER -> Zero(a)

Lift(c, base) ==
  [b \in Block |->
     IF Opaque(c, b) THEN base[b]
     ELSE [i \in DOMAIN c.blocks[b] |->
             LET old == IF i \in DOMAIN base[b] THEN base[b][i] ELSE Item(b)
             IN  [a \in Attributes[b] |-> ReadCell(a, c.blocks[b][i].attrs[a], old[a])]]]

\* The attributes that the report has a row for, and those of them that the
\* code owns.
Rows(c) ==
  UNION {{<<b, i, a>> : a \in Attributes[b],
                        i \in IF ~Opaque(c, b) THEN DOMAIN c.blocks[b]
                              ELSE IF b \in Repeated THEN {} ELSE {1}} : b \in Block}

Owned(c, p) == Opaque(c, p[1]) \/ CodeOwned(p[3], c.blocks[p[1]][p[2]].attrs[p[3]])

-----------------------------------------------------------------------------
(* Intent and the values of code: proxmoxvm's project and embed. *)

Said(b) == Attributes[b] \ {"interface", "node_name"}

PowerState == [running |-> "true", stopped |-> "false", unmanaged |-> None]

\* A document: one machine, and what it can say.
Sayable(a, v) ==
  /\ a = "started" => v \in DOMAIN PowerState
  /\ a = "vm_id" => v \in DOMAIN Templates
  /\ a = "bios" => v \in Firmware
  /\ a = "size" => v # 0
  /\ v = None => a = "protection"

IsDocument(m) ==
  /\ m = [b \in Block |-> [i \in 1 .. Len(m[b]) |-> [a \in Said(b) |-> m[b][i][a]]]]
  /\ \A b \in Block : Len(m[b]) \in Nat
  /\ Len(m.vm) = 1 /\ Len(m.cpu) = 1 /\ Len(m.clone) <= 1
  /\ \A b \in Block : \A i \in 1 .. Len(m[b]) : \A a \in Said(b) : Sayable(a, m[b][i][a])

\* A template has a guest ID of its own, and nothing is no value.
ASSUME FileSyncAssumption ==
  /\ MaxEdits \in Nat
  /\ IsDocument(First)
  /\ "" \notin DOMAIN Templates
  /\ \A t \in DOMAIN Templates : Templates[t] \notin {0, None}
  /\ \A s, t \in DOMAIN Templates : Templates[s] = Templates[t] => s = t
  /\ None \notin {"", "true", "false"} \cup DOMAIN PowerState \cup DOMAIN Templates \cup Firmware
  /\ \A b \in Block : \A a \in Attributes[b] : Literals[a] # {} /\ None \notin Literals[a]

ToCode(item, a, i) ==
  CASE a = "interface" -> i
    [] a = "node_name" -> ""
    [] a = "protection" /\ item[a] = None -> "true"
    [] a = "started" -> PowerState[item[a]]
    [] a = "vm_id" -> Templates[item[a]]
    [] OTHER -> item[a]

Project(m) == [b \in Block |-> [i \in DOMAIN m[b] |-> [a \in Attributes[b] |-> ToCode(m[b][i], a, i)]]]

\* What intent says for a value of code: one value, or nothing.
ToIntent(a, i, v) ==
  CASE a = "interface" -> {i} \cap {v}
    [] a = "started" -> {s \in DOMAIN PowerState : PowerState[s] = v}
    [] a = "vm_id" -> {t \in DOMAIN Templates : Templates[t] = v}
    [] a = "bios" -> {v} \cap Firmware
    [] a = "size" -> {v} \ {0}
    [] a = "node_name" -> {v} \cap {""}
    [] OTHER -> {v}

Places(view) == UNION {{<<b, i, a>> : i \in DOMAIN view[b], a \in Attributes[b]} : b \in Block}

At(view, p) == view[p[1]][p[2]][p[3]]

\* The values that lifted has and base has not, and those of them that intent
\* cannot express.
Changed(base, lifted) ==
  {p \in Places(lifted) : p[2] \in DOMAIN base[p[1]] => At(base, p) # At(lifted, p)}

Lost(lifted, changed) == {p \in changed : ToIntent(p[3], p[2], At(lifted, p)) = {}}

\* An item stays the code's: a clone of what is no template, or a new item
\* that intent cannot express, with the items behind it.
Stays(base, lost, b, i) ==
  \E p \in lost : /\ p[1] = b /\ p[2] <= i
                  /\ IF b = "clone" THEN p[3] = "vm_id" ELSE p[2] \notin DOMAIN base[b]

\* The machine m with the values that the code changed.
Embed(m, base, lifted, changed, lost) ==
  [b \in Block |->
     IF b = "clone" /\ Stays(base, lost, b, 1) THEN m[b]
     ELSE [i \in {i \in DOMAIN lifted[b] : ~Stays(base, lost, b, i)} |->
             [a \in Said(b) |-> IF <<b, i, a>> \in changed \ lost
                                THEN CHOOSE v \in ToIntent(a, i, lifted[b][i][a]) : TRUE
                                ELSE m[b][i][a]]]]

\* The report has one row for each value of intent: the one for the template
\* stands for all of the clone.
SameField(p, q) == p = q \/ (p[1] = "clone" /\ q[1] = "clone")

\* The lens reads the block as a change of m: the machine, the attributes
\* that are synced, and those it must keep out of.
Read(m, c) ==
  LET base == Project(m)
      lifted == Lift(c, base)
      changed == Changed(base, lifted)
      lost == Lost(lifted, changed)
      keep == {p \in Places(lifted) : p \in lost \/ Stays(base, lost, p[1], p[2])}
  IN  [vm |-> Embed(m, base, lifted, changed, lost), keep |-> keep,
       synced |-> {p \in Rows(c) : \A q \in Rows(c) : SameField(p, q) => ~Owned(c, q) /\ q \notin keep}]

-----------------------------------------------------------------------------
(* Writing code: hclmap.Put and Render. *)

New(b, want) ==
  [attrs |-> [a \in Attributes[b] |->
                IF a \in Optional /\ want[a] = Zero(a) THEN Absent ELSE Literal(want[a])],
   extra |-> FALSE]

Render(m) ==
  LET view == Project(m)
  IN  [meta |-> FALSE, marker |-> m.vm[1].name, label |-> m.vm[1].name, dynamic |-> {},
       blocks |-> [b \in Block |-> [i \in DOMAIN view[b] |-> New(b, view[b][i])]]]

\* Mutant: a pin does not keep a literal from being changed.
PutPinned(a, cell, want) ==
  IF cell.kind \in {"expression", "invalid", "absent"} THEN cell ELSE Literal(want)

PutCell(a, cell, want) ==
  LET present == a \notin Optional \/ want # Zero(a)
  IN  CASE cell.kind \in {"expression", "pinned", "invalid"} -> cell
        [] cell.kind = "absent" -> IF present /\ a \in Optional THEN Literal(want) ELSE cell
        [] cell.kind = "null" -> IF present THEN Literal(want) ELSE cell
        [] cell.kind = "literal" -> IF present THEN Literal(want)
                                    ELSE IF a \in Pointer \/ cell.value # Zero(a) THEN Absent
                                    ELSE cell

Kept(b, i, keep) == \A a \in Attributes[b] : <<b, i, a>> \in keep

PutItem(b, i, item, want, keep) ==
  [item EXCEPT !.attrs = [a \in Attributes[b] |-> IF <<b, i, a>> \in keep THEN @[a]
                                                  ELSE PutCell(a, @[a], want[a])]]

\* Items that have to go, and whether one may go.  An invalid literal does
\* not keep its item.
Surplus(c, view, keep, b) ==
  {i \in DOMAIN c.blocks[b] : i > Len(view[b]) /\ ~Opaque(c, b) /\ ~Kept(b, i, keep)}

Removable(b, i, item, keep) ==
  /\ ~item.extra
  /\ \A a \in Attributes[b] : item.attrs[a].kind # "absent" =>
       item.attrs[a].kind \notin {"expression", "pinned"} /\ <<b, i, a>> \notin keep

\* The numbers of a finite set in their order.
InOrder(S) ==
  [j \in 1 .. Cardinality(S) |-> CHOOSE i \in S : Cardinality({k \in S : k <= i}) = j]

\* What is there is changed, what is too many goes, what is missing is added.
PutBlock(c, view, keep, b) ==
  LET items == c.blocks[b]
      rest == InOrder(DOMAIN items \ Surplus(c, view, keep, b))
      write(i) == IF i \in DOMAIN view[b] THEN PutItem(b, i, items[i], view[b][i], keep) ELSE items[i]
  IN  IF Opaque(c, b) THEN items
      ELSE [j \in DOMAIN rest |-> write(rest[j])]
           \o [j \in 1 .. Len(view[b]) - Len(items) |-> New(b, view[b][Len(items) + j])]

\* The block is found by its comment, or else by its address.
Located(c, name) == c.marker = name \/ c.label = name

Writable(m, c) ==
  LET view == Project(m)
      keep == Read(m, c).keep
  IN  /\ Located(c, m.vm[1].name)
      /\ \A b \in Block : \A i \in Surplus(c, view, keep, b) : Removable(b, i, c.blocks[b][i], keep)

Put(m, c) ==
  LET view == Project(m)
      keep == Read(m, c).keep
  IN  [c EXCEPT !.blocks = [b \in Block |-> PutBlock(c, view, keep, b)]]

-----------------------------------------------------------------------------
(* Synchronize. *)

\* The value of a path in a document, or nothing if the document has none:
\* a pointer that is nil is not there, a template that is not set is "".
ValueAt(m, p) ==
  IF p[1] = "clone" THEN {IF m.clone = <<>> THEN "" ELSE m.clone[1].vm_id}
  ELSE IF p[3] \notin Said(p[1]) \/ p[2] \notin DOMAIN m[p[1]] THEN {}
  ELSE {At(m, p)} \ {None}

\* m with the values of other at paths.
SetAt(m, other, paths) ==
  [b \in Block |->
     IF b = "clone" THEN IF \E p \in paths : p[1] = b THEN other[b] ELSE m[b]
     ELSE [i \in DOMAIN m[b] |-> [a \in Said(b) |-> IF <<b, i, a>> \in paths THEN other[b][i][a]
                                                    ELSE m[b][i][a]]]]

\* What the caller wants to have changed.  A path that one of the two
\* documents has no value for is passed over.
Wanted(m, c, desired) ==
  {p \in Rows(c) : /\ ValueAt(desired, p) # {} /\ ValueAt(m, p) # {}
                   /\ ValueAt(desired, p) # ValueAt(m, p)}

RoundTrips(synced, final, again) ==
  \A p \in synced : p \in again.synced /\ ValueAt(final, p) = ValueAt(again.vm, p)

\* Mutant: a value that intent has none for is not mirrored.
MirroredKnown(m, again) ==
  {p \in again.synced : {} \notin {ValueAt(m, p), ValueAt(again.vm, p)}
                        /\ ValueAt(m, p) # ValueAt(again.vm, p)}

Mirrored(m, again) ==
  {p \in again.synced : ValueAt(again.vm, p) \notin {{}, ValueAt(m, p)}}

\* render.lock names the block that was rendered first.
LockMatches(m, c) == Located(c, m.vm[1].name) /\ c.label = Name

\* The documents that may come out: none on an error.  An item that intent
\* does not have cannot be edited.
Synchronized(m, c, desired) ==
  LET read == Read(m, c)
      wanted == Wanted(m, c, desired)
      final == SetAt(read.vm, desired, wanted)
      new == Put(final, c)
      again == Read(final, new)
      mirrored == Mirrored(m, again)
  IN  IF /\ LockMatches(m, c)
         /\ wanted \subseteq read.synced
         /\ Writable(final, c)
         /\ RoundTrips(read.synced, final, again)
         /\ \A p \in mirrored : p[1] = "clone" \/ p[2] \in DOMAIN m[p[1]]
      THEN {[intent |-> SetAt(m, again.vm, mirrored), code |-> new]}
      ELSE {}

-----------------------------------------------------------------------------
(* The files over time. *)

Init == intent = First /\ code = Render(First) /\ edits = 0 /\ fresh = "none"

\* What people may write for an attribute.
Cells(a) ==
  {Absent, Cell("null", None), Cell("expression", None), Cell("invalid", None)}
    \cup {Cell(k, v) : k \in {"literal", "pinned"}, v \in Literals[a]}

Values(a, i) ==
  (UNION {ToIntent(a, i, v) : v \in Literals[a] \cup (IF a \in Pointer THEN {None} ELSE {})})
    \cup (IF a = "protection" THEN {None} ELSE {})

\* Documents that differ from m in one value, in the template or in a disk.
Variants(m) ==
  LET disks == m.disk
  IN  (UNION {{[m EXCEPT ![p[1]][p[2]][p[3]] = v] : v \in Values(p[3], p[2])} :
                 p \in {q \in Places(Project(m)) : q[1] # "clone" /\ q[3] \in Said(q[1])}})
      \cup {[m EXCEPT !.clone = t] : t \in {<<>>} \cup {<<[vm_id |-> n]>> : n \in DOMAIN Templates}}
      \cup {[m EXCEPT !.disk = d] :
               d \in {Append(disks, [size |-> v, ssd |-> "false"]) : v \in Values("size", 1)}
                       \cup (IF disks = <<>> THEN {} ELSE {Front(disks)})}

EditIntent ==
  /\ edits < MaxEdits /\ edits' = edits + 1 /\ fresh' = "none"
  /\ intent' \in Variants(intent)
  /\ UNCHANGED code

\* People change one thing in the block.
EditCode ==
  /\ edits < MaxEdits /\ edits' = edits + 1 /\ fresh' = "none"
  /\ \/ \E p \in Places(code.blocks) : \E cell \in Cells(p[3]) :
          code' = [code EXCEPT !.blocks[p[1]][p[2]].attrs[p[3]] = cell]
     \/ \E b \in Block : \E i \in DOMAIN code.blocks[b] :
          code' = [code EXCEPT !.blocks[b][i].extra = TRUE]
     \/ \E b \in Block \ {"vm"} :
          code' \in {[code EXCEPT !.dynamic = @ \cup {b}],
                     [code EXCEPT !.blocks[b] = Append(@, New(b, [a \in Attributes[b] |-> CHOOSE v \in Literals[a] : TRUE]))]}
     \/ \E b \in Block \ {"vm"} :
          code.blocks[b] # <<>> /\ code' = [code EXCEPT !.blocks[b] = Front(@)]
     \/ code' \in {[code EXCEPT !.meta = TRUE], [code EXCEPT !.marker = None],
                   [code EXCEPT !.label = None]}
  /\ UNCHANGED intent

\* Synchronize, with a change of the caller or without any.
Synchronize ==
  /\ \E desired \in {intent} \cup (IF edits < MaxEdits THEN Variants(intent) ELSE {}) :
       /\ \E out \in Synchronized(intent, code, desired) :
            intent' = out.intent /\ code' = out.code
       /\ edits' = edits + (IF desired = intent THEN 0 ELSE 1)
  /\ fresh' = "synchronize"

\* Compiling writes into the block with the comment.  Without one a new block
\* is written, unless the address is taken by a block that nodr does not own.
Compile ==
  LET name == intent.vm[1].name
  IN  /\ \/ code.marker = name /\ Writable(intent, code) /\ code' = Put(intent, code)
         \/ ~Located(code, name) /\ code' = Render(intent)
      /\ fresh' = "compile" /\ UNCHANGED <<intent, edits>>

Next == EditIntent \/ EditCode \/ Synchronize \/ Compile

Spec == Init /\ [][Next]_vars

-----------------------------------------------------------------------------
(* Properties *)

\* What people took over in an item: attributes and whatever is not in the
\* schema.
TakenIn(b, item) ==
  [extra |-> item.extra,
   owned |-> {<<a, item.attrs[a]>> :
                a \in {a \in Attributes[b] : /\ CodeOwned(a, item.attrs[a])
                                             /\ item.attrs[a].kind # "null"}}]

Held(c, b) ==
  {i \in DOMAIN c.blocks[b] : TakenIn(b, c.blocks[b][i]) # [extra |-> FALSE, owned |-> {}]}

\* What people took over: a block as a whole, or its items in order, but for
\* those that are gone.
Taken(c, b, gone) ==
  IF Opaque(c, b) THEN c.blocks[b]
  ELSE LET order == InOrder(Held(c, b) \ gone)
       IN  [j \in DOMAIN order |-> TakenIn(b, c.blocks[b][order[j]])]

\* Items that intent does not have, and in which people took over no more than
\* optional attributes whose literals are not of their type.
Misread(m, c, b) ==
  {i \in DOMAIN c.blocks[b] \ DOMAIN m[b] :
     LET taken == TakenIn(b, c.blocks[b][i])
     IN  ~taken.extra /\ \A t \in taken.owned : t[1] \in Optional /\ t[2].kind = "invalid"}

\* Whatever the caller wants or intent says, synchronizing leaves in the
\* block what people took over, and in its order.  So does compiling, but
\* for items that intent does not have: "removing it loses nothing the user
\* wrote by hand", put.go:307, forgets about invalid literals.
TakenStays ==
  [][fresh' # "none" /\ Located(code, intent.vm[1].name) =>
       \A b \in Block :
         \E gone \in SUBSET (IF fresh' = "compile" THEN Misread(intent, code, b) ELSE {}) :
           Taken(code', b, {}) = Taken(code, b, gone)]_vars

\* Synchronizing m and c changes neither, and m says what c does wherever c
\* is synced.
SyncChangesNothing(m, c) ==
  LET read == Read(m, c)
  IN  /\ Synchronized(m, c, m) = {[intent |-> m, code |-> c]}
      /\ \A p \in read.synced : ValueAt(read.vm, p) \in {{}, ValueAt(m, p)}

CompileChangesNothing(m, c) == Writable(m, c) /\ Put(m, c) = c

\* No two disks are given one interface.
OwnInterfaces(c) ==
  \A i, j \in DOMAIN c.blocks.disk :
    LET cell(n) == c.blocks.disk[n].attrs.interface
    IN  cell(i).kind = "literal" /\ cell(i) = cell(j) => i = j

\* The files settle: synchronizing or compiling again changes nothing.  Of
\* two disks at one interface a compilation may remove the first, so that
\* the second, which nodr left alone, is in its place at the next one.
Settled ==
  [][/\ fresh' = "synchronize" => SyncChangesNothing(intent', code')
     /\ fresh' = "compile" /\ OwnInterfaces(code) => CompileChangesNothing(intent', code')]_vars

\* "comments, extensions and code-owned attributes stay exactly as they are":
\* put.go:40.  An attribute that is null is reported as code-owned too.
CodeOwnedStays ==
  [][\A p \in Rows(code) :
       fresh' # "none" /\ Located(code, intent.vm[1].name) /\ Owned(code, p) /\ ~Opaque(code, p[1])
         => /\ p \in Rows(code')
            /\ At([b \in Block |-> [i \in DOMAIN code'.blocks[b] |-> code'.blocks[b][i].attrs]], p)
                 = At([b \in Block |-> [i \in DOMAIN code.blocks[b] |-> code.blocks[b][i].attrs]], p)]_vars
=============================================================================
