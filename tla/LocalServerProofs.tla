------------------------- MODULE LocalServerProofs -------------------------
(***************************************************************************)
(* Proofs about the local server, for any number of clients, machines,     *)
(* units, requests, edits, crashes and failing writes.                     *)
(*                                                                         *)
(* LocalInv says, for every step that a request can be at, who holds which *)
(* lock, how intent differs from what it was when the lock was taken, what *)
(* the plans that are stored or under way know of the guests, and what has *)
(* been applied of them.                                                   *)
(***************************************************************************)
EXTENDS LocalServer, TLAPS

Power == {"running", "stopped"}

Machines == UNION {[names -> Machine] : names \in SUBSET Name}
Documents == UNION {[names -> Document] : names \in SUBSET Name}

Block == [vmid : Nat, power : Power, managed : BOOLEAN]
Blocks == UNION {[names -> Block] : names \in SUBSET Name}

Entry == [serial : Nat, target : Machines, destroys : SUBSET Name, changes : BOOLEAN]
Plans == UNION {[us -> Entry] : us \in SUBSET Units}

Creating == {"create", "open", "write", "admit", "undo"}
Changing == {"change", "remove", "reopen", "refill"}
Filling == {"truncate", "fill", "check"}
Commanding == Creating \cup Changing \cup Filling
Inside(c) == req[c].at \in Commanding

\* The steps of a command, after it has the lock.
StepsOf(op) == IF op = "create" THEN Creating \cup Filling ELSE Changing \cup Filling

Request ==
  [at : Commanding \cup {"idle", "lock", "load", "compile", "init", "apply"},
   op : {"none", "create", "power", "delete", "plan", "cli", "apply"},
   name : Name \cup {None}, power : Power, file : Name \cup {None}, doc : Documents, src : Documents,
   seen : Documents, todo : SUBSET Units, plan : Plans, allow : BOOLEAN, id : Nat]

FilesInv == intent \in Documents /\ empty \subseteq Name /\ broken \subseteq Name \cup {None}

TypeInv ==
  /\ FilesInv /\ before \in Documents /\ infra \in Machines
  /\ code \in Blocks /\ units \subseteq Units /\ serial \in [Units -> Nat]
  /\ createMu \in Client \cup {None} /\ planMu \in Client \cup {None}
  /\ DOMAIN plans \subseteq Nat /\ plans \in [DOMAIN plans -> Plans]
  /\ req \in [Client -> Request]
  /\ answer \in [Client -> {"none", "ok", "error"}]
  /\ applied \subseteq [id : Nat, units : SUBSET Units, unit : Units]
  /\ count \in [requests : Nat, outside : Nat, faults : Nat]

\* Which requests hold which lock, and what a request at each step is.
LockInv ==
  \A c \in Client :
    /\ createMu = c <=> Inside(c)
    /\ planMu = c <=> req[c].op \in {"plan", "apply"}
    /\ At(c, "idle") => req[c] = Idle
    /\ At(c, "lock") \/ Inside(c) => req[c].name \in Name /\ req[c].op \in {"create", "power", "delete"}
    /\ Inside(c) => req[c].at \in StepsOf(req[c].op)
    /\ req[c].at \in {"load", "compile", "init"} => req[c].op \in {"plan", "cli"}
    /\ At(c, "apply") => req[c].op \in {"apply", "cli"}

\* What a request has asked for, and the machines that were in a file.
Ask(r) == [op |-> r.op, name |-> r.name, power |-> r.power]

In(machines, f) == [n \in {m \in DOMAIN machines : machines[m].file = f} |-> machines[n]]

\* What a command at the step of r has made of intent: at any step, damage to
\* its own file at most.
Done(r, was, now) ==
  LET n == r.name
  IN  /\ Abstract!Damages(Ask(r), was, now)
      /\ r.at \in {"create", "open", "change", "remove"} => now = was
      /\ r.op # "create" /\ r.at = "truncate" => now = was
      /\ r.op = "create" /\ r.at # "create" => n \notin DOMAIN was
      /\ r.op = "create" /\ r.at \notin {"create", "open"} => \A m \in DOMAIN was : was[m].file # n
      /\ r.op = "create" /\ r.at \in Filling =>
           /\ r.file = n
           /\ \E id \in Ids \ Abstract!Taken(was, n) :
                r.doc = Only(n, [vmid |-> id, power |-> "running", file |-> n])
      /\ r.op # "create" /\ r.at # "change" =>
           /\ n \in DOMAIN was /\ r.file = was[n].file
           /\ r.src = In(was, r.file) /\ r.doc = [r.src EXCEPT ![n].power = r.power]
      /\ r.at = "remove" => r.op = "delete"
      /\ r.at \in {"truncate", "fill"} => r.op # "delete"
      /\ r.at = "check" =>
           now = IF r.op = "delete" THEN Outside(was, r.file) ELSE Over(Outside(was, r.file), r.doc)

IntentInv == \A c \in Client : Inside(c) => Done(req[c], before, intent)

\* A plan whose unit has not changed since lists every guest that is destroyed.
Sound(plan) ==
  \A u \in DOMAIN plan :
    LET e == plan[u]
    IN  /\ \A n \in DOMAIN e.target : UnitOf[n] = u
        /\ e.serial <= serial[u]
        /\ e.serial = serial[u] =>
             e.destroys = {n \in InUnit(infra, u) : n \in DOMAIN e.target => e.target[n].vmid # infra[n].vmid}

PlanInv ==
  /\ \A c \in Client : Sound(req[c].plan)
  /\ \A i \in DOMAIN plans : Sound(plans[i])

\* What an apply under way has applied, and that it was allowed to.
ApplyInv ==
  \A c \in Client :
    At(c, "apply") =>
      /\ req[c].todo \subseteq DOMAIN req[c].plan
      /\ DestructiveChanges(req[c].plan) # {} => req[c].allow
      /\ \A u \in DOMAIN req[c].plan \ req[c].todo : Mark(c, u) \in applied

LocalInv == TypeInv /\ LockInv /\ IntentInv /\ PlanInv /\ ApplyInv /\ AppliedInOrder
-----------------------------------------------------------------------------
(* Machines and documents, and what the operators make of them. *)

LEMMA MachinesAre ==
  ASSUME NEW f
  PROVE  f \in Machines <=> f \in [DOMAIN f -> Machine] /\ DOMAIN f \subseteq Name
  BY DEF Machines

LEMMA DocumentsAre ==
  ASSUME NEW f
  PROVE  f \in Documents <=> f \in [DOMAIN f -> Document] /\ DOMAIN f \subseteq Name
  BY DEF Documents

LEMMA WrittenAndMade == Written \in Documents /\ Made \in Machines
  BY LocalServerAssumption, MachinesAre, DocumentsAre DEF AreMachines, AreDocuments

LEMMA OutsideDocuments ==
  ASSUME NEW g \in Documents, NEW f
  PROVE  Outside(g, f) \in Documents
<1>1. g \in [DOMAIN g -> Document] /\ DOMAIN g \subseteq Name
  BY DocumentsAre
<1>2. Outside(g, f) \in [{k \in DOMAIN g : g[k].file # f} -> Document]
  BY <1>1 DEF Outside, Abstract!Outside
<1>3. QED
  BY <1>1, <1>2 DEF Documents

LEMMA OverDocuments ==
  ASSUME NEW g \in Documents, NEW h \in Documents
  PROVE  Over(g, h) \in Documents
<1>1. /\ g \in [DOMAIN g -> Document] /\ DOMAIN g \subseteq Name
      /\ h \in [DOMAIN h -> Document] /\ DOMAIN h \subseteq Name
  BY DocumentsAre
<1>2. Over(g, h) \in [DOMAIN g \cup DOMAIN h -> Document]
  BY <1>1 DEF Over, Abstract!Over
<1>3. QED
  BY <1>1, <1>2 DEF Documents

LEMMA OnlyDocuments ==
  ASSUME NEW n \in Name, NEW id \in Nat
  PROVE  Only(n, [vmid |-> id, power |-> "running", file |-> n]) \in Documents
<1>1. Only(n, [vmid |-> id, power |-> "running", file |-> n]) \in [{n} -> Document]
  BY DEF Only, Abstract!Only, Document
<1>2. QED
  BY <1>1 DEF Documents

LEMMA InDocuments ==
  ASSUME NEW g \in Documents, NEW f, NEW n \in DOMAIN In(g, f), NEW p \in Power
  PROVE  In(g, f) \in Documents /\ [In(g, f) EXCEPT ![n].power = p] \in Documents
<1> DEFINE names == {m \in DOMAIN g : g[m].file = f}
<1>1. g \in [DOMAIN g -> Document] /\ DOMAIN g \subseteq Name
  BY DocumentsAre
<1>2. In(g, f) \in [names -> Document] /\ names \subseteq Name
  BY <1>1 DEF In
<1>3. [In(g, f) EXCEPT ![n].power = p] \in [names -> Document]
  BY <1>2 DEF Document, Power
<1>4. QED
  BY <1>2, <1>3 DEF Documents

LEMMA PartIs ==
  ASSUME NEW doc \in Document, NEW part \in Parts(doc)
  PROVE  /\ part \in Document /\ part.file = doc.file
         /\ part.vmid \in {0, doc.vmid} /\ part.power \in {"running", doc.power}
<1>1. PICK id \in {0, doc.vmid}, p \in {"running", doc.power} : part = [doc EXCEPT !.vmid = id, !.power = p]
  BY DEF Parts
<1>2. part = [vmid |-> id, power |-> p, file |-> doc.file]
  BY <1>1 DEF Document
<1>3. id \in Nat /\ p \in {"running", "stopped"} /\ doc.file \in Name
  BY <1>1 DEF Document
<1>4. QED
  BY <1>1, <1>2, <1>3 DEF Document

\* The front of what was to be written has some of its machines, each with its
\* file, and with its guest ID and power state or the defaults.
LEMMA FrontIs ==
  ASSUME NEW content, NEW front \in Fronts(content)
  PROVE  /\ DOMAIN front \subseteq DOMAIN content
         /\ content \in Documents => front \in Documents
         /\ \A m \in DOMAIN front : content[m] \in Document =>
              /\ front[m].file = content[m].file
              /\ front[m].vmid \in {0, content[m].vmid}
              /\ front[m].power \in {"running", content[m].power}
<1>1. PICK cut \in DOMAIN content :
        front \in {[n \in left |-> IF n = cut THEN part ELSE content[n]] :
                     left \in SUBSET DOMAIN content, part \in Parts(content[cut])}
  BY DEF Fronts
<1>2. PICK left \in SUBSET DOMAIN content, part \in Parts(content[cut]) :
        front = [n \in left |-> IF n = cut THEN part ELSE content[n]]
  BY <1>1
<1>3. content[cut] \in Document =>
        /\ part \in Document /\ part.file = content[cut].file
        /\ part.vmid \in {0, content[cut].vmid}
        /\ part.power \in {"running", content[cut].power}
  BY <1>2, PartIs
<1>4. \A m \in DOMAIN front : content[m] \in Document =>
        /\ front[m].file = content[m].file
        /\ front[m].vmid \in {0, content[m].vmid}
        /\ front[m].power \in {"running", content[m].power}
  BY <1>2, <1>3
<1>5. content \in Documents => front \in Documents
  <2> SUFFICES ASSUME content \in Documents PROVE front \in Documents
    OBVIOUS
  <2>1. content \in [DOMAIN content -> Document] /\ DOMAIN content \subseteq Name
    BY DocumentsAre
  <2>2. front \in [left -> Document]
    BY <1>2, <1>3, <2>1
  <2>3. left \subseteq Name
    BY <1>2, <2>1
  <2>4. QED
    BY <2>2, <2>3 DEF Documents
<1>6. QED
  BY <1>2, <1>4, <1>5

\* What the file operations leave is files.
LEMMA FilesTypes ==
  ASSUME FilesInv, NEW f \in Name, NEW content \in Documents,
         Opens(f) \/ Removes(f) \/ Writes(f, content) \/ Tears(f, content)
  PROVE  FilesInv'
<1>1. Outside(intent, f) \in Documents
  BY OutsideDocuments DEF FilesInv
<1>2. CASE Opens(f) \/ Removes(f)
  BY <1>1, <1>2 DEF Opens, Removes, FilesInv
<1>3. CASE Writes(f, content)
  BY <1>1, <1>3, OverDocuments DEF Writes, FilesInv
<1>4. CASE Tears(f, content)
  <2>1. PICK front \in Fronts(content) :
          /\ intent' = Over(Outside(intent, f), front)
          /\ empty' = IF DOMAIN front = {} THEN empty \cup {f} ELSE empty \ {f}
          /\ broken' \in {broken, broken \cup {f}}
    BY <1>4 DEF Tears
  <2>2. intent' \in Documents
    BY <1>1, <2>1, FrontIs, OverDocuments
  <2>3. QED
    BY <2>1, <2>2 DEF FilesInv
<1>5. QED
  BY <1>2, <1>3, <1>4
-----------------------------------------------------------------------------
(* Damage to one file. *)

\* What a machine may be that a command writes into its file.
Fits(ask, old, m, x) ==
  LET f == Abstract!FileOf(old, ask.name)
      created == {ask.name} \ DOMAIN old
  IN  /\ m \in DOMAIN old \cup (IF ask.op = "create" THEN created ELSE {})
      /\ m \in DOMAIN old => old[m].file = f
      /\ x.file = f
      /\ x.vmid \in {0} \cup (IF m \in created THEN Ids \ Abstract!Taken(old, m) ELSE {old[m].vmid})
      /\ x.power \in {"running"} \cup (IF m \in created THEN {} ELSE {old[m].power})
                                 \cup (IF m = ask.name THEN {ask.power} ELSE {})

AllFit(ask, old, content) == \A m \in DOMAIN content : Fits(ask, old, m, content[m])

LEMMA DamagesOver ==
  ASSUME NEW ask, ask.op \in {"create", "power", "delete"}, NEW old, NEW content, AllFit(ask, old, content)
  PROVE  Abstract!Damages(ask, old, Over(Outside(old, Abstract!FileOf(old, ask.name)), content))
<1> DEFINE f == Abstract!FileOf(old, ask.name)
           created == {ask.name} \ DOMAIN old
           new == Over(Outside(old, f), content)
<1>1. DOMAIN new = {k \in DOMAIN old : old[k].file # f} \cup DOMAIN content
  BY DEF Over, Outside, Abstract!Over, Abstract!Outside
<1>2. ASSUME NEW m \in DOMAIN content PROVE new[m] = content[m] /\ Fits(ask, old, m, new[m])
  BY <1>2 DEF AllFit, Over, Abstract!Over
<1>3. ASSUME NEW m \in DOMAIN old, old[m].file # f PROVE m \in DOMAIN new /\ new[m] = old[m]
  <2>1. m \notin DOMAIN content
    BY <1>3 DEF AllFit, Fits
  <2>2. m \in DOMAIN new
    BY <1>1, <1>3
  <2>3. QED
    BY <1>3, <2>1, <2>2 DEF Over, Outside, Abstract!Over, Abstract!Outside
<1> HIDE DEF new
<1>4. Abstract!Damages(ask, old, new)
  <2>1. DOMAIN new \subseteq DOMAIN old \cup (IF ask.op = "create" THEN created ELSE {})
    BY <1>1, <1>2 DEF Fits
  <2>2. ASSUME NEW m \in DOMAIN new, ~(m \in DOMAIN old /\ old[m].file # f) PROVE Fits(ask, old, m, new[m])
    BY <1>1, <1>2, <2>2
  <2>3. QED
    BY <1>3, <2>1, <2>2 DEF Abstract!Damages, Fits
<1>5. QED
  BY <1>4 DEF new

LEMMA DamagesOutside ==
  ASSUME NEW ask, ask.op \in {"create", "power", "delete"}, NEW old
  PROVE  Abstract!Damages(ask, old, Outside(old, Abstract!FileOf(old, ask.name)))
  BY DEF Abstract!Damages, Outside, Abstract!Outside

LEMMA DamagesNothing ==
  ASSUME NEW ask, ask.op \in {"create", "power", "delete"}, NEW old
  PROVE  Abstract!Damages(ask, old, old)
<1> DEFINE f == Abstract!FileOf(old, ask.name)
<1>1. ASSUME NEW m \in DOMAIN old, old[m].file = f PROVE m \notin {ask.name} \ DOMAIN old
  OBVIOUS
<1>2. QED
  BY <1>1 DEF Abstract!Damages

\* The other files are as they were.
LEMMA DamagesInside ==
  ASSUME NEW ask, NEW old, NEW new \in Documents, old \in Documents, Abstract!Damages(ask, old, new)
  PROVE  Outside(new, Abstract!FileOf(old, ask.name)) = Outside(old, Abstract!FileOf(old, ask.name))
<1> DEFINE f == Abstract!FileOf(old, ask.name)
<1>1. \A m \in DOMAIN old : old[m].file # f => m \in DOMAIN new /\ new[m] = old[m]
  BY DEF Abstract!Damages
<1>2. \A m \in DOMAIN new : (m \in DOMAIN old /\ old[m].file # f) \/ new[m].file = f
  BY DEF Abstract!Damages
<1> HIDE DEF f
<1>3. {k \in DOMAIN new : new[k].file # f} = {k \in DOMAIN old : old[k].file # f}
  BY <1>1, <1>2
<1>4. \A m \in {k \in DOMAIN old : old[k].file # f} : new[m] = old[m]
  BY <1>1
<1>5. Outside(new, f) = Outside(old, f)
  BY <1>3, <1>4 DEF Outside, Abstract!Outside
<1>6. QED
  BY <1>5 DEF f

\* A part of what may be written may be written.
LEMMA FrontFits ==
  ASSUME NEW ask, NEW old, NEW content \in Documents, AllFit(ask, old, content), NEW front \in Fronts(content)
  PROVE  AllFit(ask, old, front)
<1> SUFFICES ASSUME NEW m \in DOMAIN front PROVE Fits(ask, old, m, front[m])
  BY DEF AllFit
<1>1. m \in DOMAIN content /\ content[m] \in Document
  BY FrontIs, DocumentsAre
<1>2. /\ front[m].file = content[m].file
      /\ front[m].vmid \in {0, content[m].vmid}
      /\ front[m].power \in {"running", content[m].power}
  BY <1>1, FrontIs
<1>3. Fits(ask, old, m, content[m])
  BY <1>1 DEF AllFit
<1>4. QED
  BY <1>2, <1>3 DEF Fits
-----------------------------------------------------------------------------
(* Steps of intent commands. *)

CommandStep(c) ==
  \/ CreateLoad(c) \/ CreateOpen(c) \/ CreateWrite(c) \/ CreateAdmit(c) \/ CreateUndo(c)
  \/ ChangeLoad(c) \/ DeleteRemove(c)
  \/ Truncate(c) \/ Fill(c) \/ Check(c) \/ Reopen(c) \/ Refill(c)

\* The request goes on.
Moved(c, step, f, doc, src) ==
  /\ req' = [req EXCEPT ![c] = [req[c] EXCEPT !.at = step, !.file = f, !.doc = doc, !.src = src]]
  /\ UNCHANGED <<createMu, before, engine, answer, count>>

Moves(c) ==
  \E step \in StepsOf(req[c].op), f \in Name \cup {None}, doc \in Documents, src \in Documents :
    Moved(c, step, f, doc, src)

\* The request answers, and maybe the disk has failed it.
Ends(c) ==
  \E a \in {"ok", "error"} :
    Return(c, a) /\ count' \in {count, [count EXCEPT !.faults = @ + 1]}

LEMMA IdleRequest == Idle \in Request /\ NoPlan \in Plans
  BY WrittenAndMade DEF Idle, NoPlan, Request, Plans, Power

LEMMA InsideKnown ==
  ASSUME TypeInv, LockInv, IntentInv, NEW c \in Client, Inside(c)
  PROVE  /\ req[c] \in Request /\ req[c].name \in Name /\ req[c].op \in {"create", "power", "delete"}
         /\ req[c].at \in StepsOf(req[c].op) /\ createMu = c /\ c # None
         /\ Done(req[c], before, intent) /\ before \in Documents /\ intent \in Documents
  BY LocalServerAssumption DEF TypeInv, FilesInv, LockInv, IntentInv

LEMMA StepInside ==
  ASSUME NEW c \in Client, CommandStep(c)
  PROVE  Inside(c)
  BY DEF CommandStep, CreateLoad, CreateOpen, CreateWrite, CreateAdmit, CreateUndo, ChangeLoad, DeleteRemove,
         Truncate, Fill, Check, Reopen, Refill, At, Inside, Commanding, Creating, Changing, Filling

\* The file that a command is about.
LEMMA FileKnown ==
  ASSUME TypeInv, LockInv, IntentInv, NEW c \in Client,
         req[c].at \in {"remove", "reopen", "refill"} \cup Filling
  PROVE  req[c].file \in Name /\ req[c].file = Abstract!FileOf(before, req[c].name)
<1>1. Inside(c)
  BY DEF Inside, Commanding, Changing
<1>2. Done(req[c], before, intent) /\ req[c].name \in Name /\ before \in Documents
      /\ req[c].at \in StepsOf(req[c].op)
  BY <1>1, InsideKnown
<1>3. CASE req[c].op = "create"
  <2>1. req[c].at \in Filling
    BY <1>2, <1>3 DEF StepsOf, Creating, Filling
  <2>2. req[c].at # "create"
    BY <2>1 DEF Filling
  <2>3. req[c].file = req[c].name /\ req[c].name \notin DOMAIN before
    BY <1>2, <1>3, <2>1, <2>2 DEF Done
  <2>4. QED
    BY <1>2, <2>3 DEF Abstract!FileOf
<1>4. CASE req[c].op # "create"
  <2>1. req[c].at # "change"
    BY DEF Filling
  <2>2. req[c].name \in DOMAIN before /\ req[c].file = before[req[c].name].file
    BY <1>2, <1>4, <2>1 DEF Done
  <2>3. before[req[c].name] \in Document
    BY <1>2, <2>2, DocumentsAre
  <2>4. QED
    BY <2>2, <2>3 DEF Document, Abstract!FileOf
<1>5. QED
  BY <1>3, <1>4

LEMMA StepFiles ==
  ASSUME TypeInv, LockInv, IntentInv, NEW c \in Client, CommandStep(c)
  PROVE  FilesInv'
<1>1. req[c].name \in Name /\ req[c] \in Request /\ FilesInv
  BY StepInside, InsideKnown DEF TypeInv
<1>2. CASE UNCHANGED files
  BY <1>1, <1>2 DEF files, FilesInv
<1>3. ASSUME NEW f \in Name, NEW content \in Documents,
             Opens(f) \/ Removes(f) \/ Writes(f, content) \/ Tears(f, content)
      PROVE  FilesInv'
  BY <1>1, <1>3, FilesTypes
<1>4. CASE CreateOpen(c) \/ CreateUndo(c)
  BY <1>1, <1>2, <1>3, <1>4, WrittenAndMade DEF CreateOpen, CreateUndo, Refuse
<1>5. CASE CreateWrite(c)
  <2>1. Only(req[c].name, [vmid |-> 0, power |-> "running", file |-> req[c].name]) \in Documents
    BY <1>1, OnlyDocuments
  <2>2. QED
    BY <1>1, <1>3, <1>5, <2>1 DEF CreateWrite
<1>6. CASE DeleteRemove(c) \/ Truncate(c) \/ Fill(c) \/ Reopen(c) \/ Refill(c)
  <2>1. req[c].file \in Name
    BY <1>6, FileKnown DEF DeleteRemove, Truncate, Fill, Reopen, Refill, At, Filling
  <2>2. req[c].doc \in Documents /\ req[c].src \in Documents
    BY <1>1 DEF Request
  <2>3. QED
    BY <1>2, <1>3, <1>6, <2>1, <2>2 DEF DeleteRemove, Truncate, Fill, Reopen, Refill, Refuse
<1>7. CASE CreateLoad(c) \/ CreateAdmit(c) \/ ChangeLoad(c) \/ Check(c)
  BY <1>2, <1>7 DEF CreateLoad, CreateAdmit, ChangeLoad, Check, Refuse
<1>8. QED
  BY <1>4, <1>5, <1>6, <1>7 DEF CommandStep

LEMMA GoMoves ==
  ASSUME TypeInv, NEW c \in Client, NEW step \in StepsOf(req[c].op), Go(c, step)
  PROVE  Moved(c, step, req[c].file, req[c].doc, req[c].src) /\ Moves(c)
<1>1. /\ req[c] \in Request /\ req \in [Client -> Request]
      /\ req[c].file \in Name \cup {None} /\ req[c].doc \in Documents /\ req[c].src \in Documents
  BY DEF TypeInv, Request
<1>2. [req[c] EXCEPT !.at = step]
        = [req[c] EXCEPT !.at = step, !.file = req[c].file, !.doc = req[c].doc, !.src = req[c].src]
  BY <1>1 DEF Request
<1>3. req' = [req EXCEPT ![c] = [req[c] EXCEPT !.at = step]]
  BY <1>1 DEF Go, Goto
<1>4. Moved(c, step, req[c].file, req[c].doc, req[c].src)
  BY <1>2, <1>3 DEF Go, Moved
<1>5. QED
  BY <1>1, <1>4 DEF Moves

\* Admission of a new machine.
LEMMA AdmitMoves ==
  ASSUME TypeInv, LockInv, IntentInv, NEW c \in Client, CreateAdmit(c), ~Go(c, "undo")
  PROVE  \E id \in Ids \ Abstract!Taken(intent, req[c].name) :
           LET doc == Only(req[c].name, [vmid |-> id, power |-> "running", file |-> req[c].name])
           IN  doc \in Documents /\ Moved(c, "truncate", req[c].name, doc, req[c].src)
<1> DEFINE n == req[c].name
           Doc(id) == Only(n, [vmid |-> id, power |-> "running", file |-> n])
<1>1. n \in Name /\ req[c] \in Request /\ req \in [Client -> Request]
  BY StepInside, InsideKnown DEF CommandStep, TypeInv
<1>2. PICK id \in Ids \ Abstract!Taken(intent, n) :
        req' = [req EXCEPT ![c].at = "truncate", ![c].file = n, ![c].doc = Doc(id)]
  BY DEF CreateAdmit
<1>3. Doc(id) \in Documents
  BY <1>1, <1>2, OnlyDocuments, LocalServerAssumption
<1> HIDE DEF Doc
<1>4. [req[c] EXCEPT !.at = "truncate", !.file = n, !.doc = Doc(id)]
        = [req[c] EXCEPT !.at = "truncate", !.file = n, !.doc = Doc(id), !.src = req[c].src]
  BY <1>1, <1>3 DEF Request
<1>5. req' = [req EXCEPT ![c] = [req[c] EXCEPT !.at = "truncate", !.file = n, !.doc = Doc(id)]]
  BY <1>1, <1>2
<1>6. UNCHANGED <<createMu, before, engine, answer, count>>
  BY DEF CreateAdmit
<1>7. Moved(c, "truncate", n, Doc(id), req[c].src)
  BY <1>4, <1>5, <1>6 DEF Moved
<1>8. QED
  BY <1>2, <1>3, <1>7 DEF Doc

\* A command reads the file of its machine.
LEMMA LoadMoves ==
  ASSUME TypeInv, LockInv, IntentInv, NEW c \in Client, ChangeLoad(c), ~Refuse(c)
  PROVE  LET n == req[c].name
             src == In(intent, intent[n].file)
             doc == [src EXCEPT ![n].power = req[c].power]
             step == IF req[c].op = "delete" THEN "remove" ELSE "truncate"
         IN  /\ n \in DOMAIN intent /\ intent[n].file \in Name
             /\ src \in Documents /\ doc \in Documents
             /\ Moved(c, step, intent[n].file, doc, src)
<1> DEFINE n == req[c].name
           f == intent[n].file
           src == In(intent, f)
           doc == [src EXCEPT ![n].power = req[c].power]
           step == IF req[c].op = "delete" THEN "remove" ELSE "truncate"
<1>1. req[c] \in Request /\ req \in [Client -> Request] /\ intent \in Documents /\ req[c].power \in Power
  BY DEF TypeInv, FilesInv, Request
<1>2. n \in DOMAIN intent
  BY DEF ChangeLoad
<1>3. intent[n] \in Document /\ f \in Name
  BY <1>1, <1>2, DocumentsAre DEF Document
<1>4. n \in DOMAIN src
  BY <1>2 DEF In
<1>5. src \in Documents /\ doc \in Documents
  BY <1>1, <1>4, InDocuments
<1>6. src = InFile(f)
  BY DEF In, InFile
<1>7. req' = [req EXCEPT ![c].at = step, ![c].file = f, ![c].src = src, ![c].doc = doc]
  BY <1>6 DEF ChangeLoad
<1> HIDE DEF src, doc, step
<1>8. req' = [req EXCEPT ![c] = [req[c] EXCEPT !.at = step, !.file = f, !.doc = doc, !.src = src]]
  BY <1>1, <1>7 DEF Request
<1>9. UNCHANGED <<createMu, before, engine, answer, count>>
  BY DEF ChangeLoad
<1>10. Moved(c, step, f, doc, src)
  BY <1>8, <1>9 DEF Moved
<1>11. QED
  BY <1>2, <1>3, <1>5, <1>10 DEF src, doc, step

\* Every step of a command goes on or answers.
LEMMA StepMoves ==
  ASSUME TypeInv, LockInv, IntentInv, NEW c \in Client, CommandStep(c)
  PROVE  Moves(c) \/ Ends(c)
<1>1. /\ req[c] \in Request /\ req[c].name \in Name /\ req[c].op \in {"create", "power", "delete"}
      /\ req[c].at \in StepsOf(req[c].op)
  BY StepInside, InsideKnown
<1>2. ASSUME NEW a \in {"ok", "error"}, Reply(c, a) PROVE Ends(c)
  BY <1>2 DEF Reply, Ends
<1>3. ASSUME Fault(c) PROVE Ends(c)
  BY <1>3 DEF Fault, Ends
<1>4. ASSUME NEW step \in StepsOf(req[c].op), Go(c, step) PROVE Moves(c)
  BY <1>4, GoMoves
<1>5. CASE CreateLoad(c) \/ CreateOpen(c) \/ CreateWrite(c) \/ CreateUndo(c) \/ (CreateAdmit(c) /\ Go(c, "undo"))
  <2>1. req[c].op = "create"
    BY <1>1, <1>5 DEF CreateLoad, CreateOpen, CreateWrite, CreateUndo, CreateAdmit, At, StepsOf, Changing, Filling
  <2>2. {"open", "write", "admit", "undo"} \subseteq StepsOf(req[c].op)
    BY <2>1 DEF StepsOf, Creating
  <2>3. QED
    BY <1>2, <1>3, <1>4, <1>5, <2>2 DEF CreateLoad, CreateOpen, CreateWrite, CreateUndo, Refuse
<1>6. CASE CreateAdmit(c) /\ ~Go(c, "undo")
  <2>1. req[c].op = "create" /\ "truncate" \in StepsOf(req[c].op)
    BY <1>1, <1>6 DEF CreateAdmit, At, StepsOf, Changing, Filling
  <2>2. req[c].src \in Documents
    BY <1>1 DEF Request
  <2>3. QED
    BY <1>1, <1>6, <2>1, <2>2, AdmitMoves DEF Moves
<1>7. CASE ChangeLoad(c) /\ ~Refuse(c)
  <2>1. req[c].op # "create"
    BY <1>1, <1>7 DEF ChangeLoad, At, StepsOf, Creating, Filling
  <2>2. {"remove", "truncate"} \subseteq StepsOf(req[c].op)
    BY <2>1 DEF StepsOf, Changing, Filling
  <2>3. QED
    BY <1>7, <2>2, LoadMoves DEF Moves
<1>8. CASE ChangeLoad(c) /\ Refuse(c)
  BY <1>2, <1>8 DEF Refuse
<1>9. CASE DeleteRemove(c) \/ Reopen(c) \/ Refill(c)
  <2>1. req[c].op # "create"
    BY <1>1, <1>9 DEF DeleteRemove, Reopen, Refill, At, StepsOf, Creating, Filling
  <2>2. {"check", "refill"} \subseteq StepsOf(req[c].op)
    BY <2>1 DEF StepsOf, Changing, Filling
  <2>3. QED
    BY <1>2, <1>3, <1>4, <1>9, <2>2 DEF DeleteRemove, Reopen, Refill, Refuse
<1>10. CASE Truncate(c) \/ Fill(c) \/ Check(c)
  <2>1. {"fill", "check"} \subseteq StepsOf(req[c].op)
    BY DEF StepsOf, Filling
  <2>2. req[c].op = "create" => "undo" \in StepsOf(req[c].op)
    BY DEF StepsOf, Creating
  <2>3. req[c].op # "create" => "reopen" \in StepsOf(req[c].op)
    BY DEF StepsOf, Changing
  <2>4. QED
    BY <1>2, <1>3, <1>4, <1>10, <2>1, <2>2, <2>3 DEF Truncate, Fill, Check, Refuse
<1>11. QED
  BY <1>5, <1>6, <1>7, <1>8, <1>9, <1>10 DEF CommandStep
-----------------------------------------------------------------------------
(* Types. *)

LEMMA InitTypes == Init => TypeInv
<1> SUFFICES ASSUME Init PROVE TypeInv
  OBVIOUS
<1>1. code \in [{} -> Block] /\ code \in Blocks
  BY DEF Init, Blocks
<1>2. QED
  BY <1>1, IdleRequest, WrittenAndMade DEF Init, TypeInv, FilesInv

LEMMA CommandTypes ==
  ASSUME TypeInv, NEW c \in Client, NEW n \in Name, NEW p \in Power, NEW op \in {"create", "power", "delete"},
         Command(c, op, n, p)
  PROVE  TypeInv'
<1>1. [Idle EXCEPT !.at = "lock", !.op = op, !.name = n, !.power = p] \in Request
  BY IdleRequest DEF Request
<1>2. QED
  BY <1>1 DEF Command, Arrive, TypeInv, FilesInv, documents, files, engine

LEMMA LockTypes ==
  ASSUME TypeInv, NEW c \in Client, Lock(c)
  PROVE  TypeInv'
<1> DEFINE step == IF req[c].op = "create" THEN "create" ELSE "change"
<1>1. req[c] \in Request
  BY DEF TypeInv
<1>2. [req[c] EXCEPT !.at = step] \in Request
  BY <1>1 DEF Request, Commanding, Creating, Changing
<1>3. req' \in [Client -> Request]
  BY <1>2 DEF Lock, Goto, TypeInv
<1>4. QED
  BY <1>3 DEF Lock, TypeInv, FilesInv, files, engine

LEMMA CommandStepTypes ==
  ASSUME TypeInv, LockInv, IntentInv, NEW c \in Client, CommandStep(c)
  PROVE  TypeInv'
<1>1. FilesInv' /\ req[c] \in Request /\ req \in [Client -> Request]
  BY StepFiles DEF TypeInv
<1>2. CASE Moves(c)
  <2>1. PICK step \in StepsOf(req[c].op), f \in Name \cup {None}, doc \in Documents, src \in Documents :
          Moved(c, step, f, doc, src)
    BY <1>2 DEF Moves
  <2>2. step \in Commanding
    BY <2>1 DEF StepsOf, Commanding
  <2>3. [req[c] EXCEPT !.at = step, !.file = f, !.doc = doc, !.src = src] \in Request
    BY <1>1, <2>1, <2>2 DEF Request
  <2>4. req' \in [Client -> Request]
    BY <1>1, <2>1, <2>3 DEF Moved
  <2>5. QED
    BY <1>1, <2>1, <2>4 DEF Moved, TypeInv, engine
<1>3. CASE Ends(c)
  <2>1. count' \in [requests : Nat, outside : Nat, faults : Nat]
    BY <1>3 DEF Ends, TypeInv
  <2>2. QED
    BY <1>1, <1>3, <2>1, IdleRequest, WrittenAndMade DEF Ends, Return, TypeInv, engine
<1>4. QED
  BY <1>2, <1>3, StepMoves

LEMMA PlanTypes ==
  ASSUME TypeInv, NEW c \in Client, NEW op \in {"plan", "cli"}, NEW allow \in BOOLEAN, Plan(c, op, allow)
  PROVE  TypeInv'
<1>1. [Idle EXCEPT !.at = "load", !.op = op, !.allow = allow, !.id = count.requests + 1] \in Request
  <2>1. count.requests + 1 \in Nat
    BY DEF TypeInv
  <2>2. QED
    BY <2>1, IdleRequest DEF Request
<1>2. QED
  BY <1>1 DEF Plan, Arrive, TypeInv, FilesInv, documents, files

\* A plan or an apply ends.
LEMMA FinishTypes ==
  ASSUME TypeInv, NEW c \in Client, NEW a \in {"ok", "error"}, Finish(c, a),
         infra' \in Machines, serial' \in [Units -> Nat], applied' = applied,
         DOMAIN plans' \subseteq Nat, plans' \in [DOMAIN plans' -> Plans]
  PROVE  TypeInv'
  BY IdleRequest DEF Finish, TypeInv, FilesInv, documents, files

LEMMA AbandonTypes ==
  ASSUME TypeInv, NEW c \in Client, NEW a \in {"ok", "error"}, Finish(c, a), UNCHANGED quiet
  PROVE  TypeInv'
  BY FinishTypes DEF quiet, TypeInv

\* The blocks of the code, and the plan of a unit.
LEMMA CompiledBlocks ==
  ASSUME code \in Blocks, NEW seen \in Documents
  PROVE  Compiled(seen) \in Blocks
<1>1. /\ code \in [DOMAIN code -> Block] /\ DOMAIN code \subseteq Name
      /\ seen \in [DOMAIN seen -> Document] /\ DOMAIN seen \subseteq Name
  BY DocumentsAre DEF Blocks
<1>2. Compiled(seen) \in [DOMAIN code \cup DOMAIN seen -> Block]
  BY <1>1 DEF Compiled, Block, Document, Power
<1>3. QED
  BY <1>1, <1>2 DEF Blocks

LEMMA UnitPlanEntry ==
  ASSUME TypeInv, NEW u \in Units
  PROVE  UnitPlan(u) \in Entry /\ \A n \in DOMAIN Target(u) : UnitOf[n] = u
<1>1. /\ code \in [DOMAIN code -> Block] /\ DOMAIN code \subseteq Name
      /\ infra \in [DOMAIN infra -> Machine] /\ DOMAIN infra \subseteq Name
  BY MachinesAre DEF Blocks, TypeInv
<1>2. Target(u) \in [InUnit(code, u) -> Machine] /\ InUnit(code, u) \subseteq Name
  BY <1>1 DEF Target, InUnit, Block, Machine, Power
<1>3. Target(u) \in Machines /\ \A n \in DOMAIN Target(u) : UnitOf[n] = u
  BY <1>2 DEF Machines, InUnit
<1>4. Destroys(u) \subseteq Name
  BY <1>1 DEF Destroys, InUnit
<1>5. QED
  BY <1>3, <1>4 DEF UnitPlan, Entry, TypeInv

LEMMA PlansAre ==
  ASSUME NEW p
  PROVE  p \in Plans <=> p \in [DOMAIN p -> Entry] /\ DOMAIN p \subseteq Units
  BY DEF Plans

LEMMA PlanStepTypes ==
  ASSUME TypeInv, NEW c \in Client, PlanLoad(c) \/ PlanCompile(c) \/ PlanUnit(c) \/ PlanStored(c)
  PROVE  TypeInv'
<1>1. req \in [Client -> Request] /\ req[c] \in Request /\ req[c].plan \in Plans
  BY DEF TypeInv, Request
<1>2. ASSUME Abandon(c) PROVE TypeInv'
  BY <1>2, AbandonTypes DEF Abandon
<1>3. CASE PlanLoad(c) /\ ~Abandon(c)
  <2>1. [req[c] EXCEPT !.at = "compile", !.seen = intent] \in Request
    BY <1>1 DEF Request, TypeInv, FilesInv
  <2>2. req' \in [Client -> Request]
    BY <1>1, <1>3, <2>1 DEF PlanLoad
  <2>3. QED
    BY <1>3, <2>2 DEF PlanLoad, TypeInv, FilesInv, documents, files, engine
<1>4. CASE PlanCompile(c) /\ ~Abandon(c)
  <2>1. code' \in Blocks
    BY <1>1, <1>4, CompiledBlocks DEF PlanCompile, TypeInv, Request
  <2>2. units' \subseteq Units
    <3>1. DOMAIN code' \subseteq Name
      BY <2>1 DEF Blocks
    <3>2. QED
      BY <1>4, <3>1, LocalServerAssumption DEF PlanCompile, TypeInv
  <2>3. PICK selected \in SUBSET units' :
          req' = [req EXCEPT ![c].at = "init", ![c].seen = Written, ![c].todo = selected]
    BY <1>4 DEF PlanCompile
  <2>4. [req[c] EXCEPT !.at = "init", !.seen = Written, !.todo = selected] \in Request
    BY <1>1, <2>2, WrittenAndMade DEF Request
  <2>5. req' \in [Client -> Request]
    BY <1>1, <2>3, <2>4
  <2>6. QED
    BY <1>4, <2>1, <2>2, <2>5 DEF PlanCompile, TypeInv, FilesInv, documents, files
<1>5. CASE PlanUnit(c) /\ ~Abandon(c)
  <2>1. PICK u \in req[c].todo :
          req' = [req EXCEPT ![c].todo = @ \ {u},
                  ![c].plan = [v \in DOMAIN @ \cup {u} |-> IF v = u THEN UnitPlan(u) ELSE @[v]]]
    BY <1>5 DEF PlanUnit
  <2> DEFINE plan == [v \in DOMAIN req[c].plan \cup {u} |-> IF v = u THEN UnitPlan(u) ELSE req[c].plan[v]]
  <2>2. u \in Units
    BY <1>1 DEF Request
  <2>3. plan \in Plans
    BY <1>1, <2>2, PlansAre, UnitPlanEntry DEF Plans
  <2>4. req' = [req EXCEPT ![c] = [req[c] EXCEPT !.todo = req[c].todo \ {u}, !.plan = plan]]
    BY <1>1, <2>1
  <2> HIDE DEF plan
  <2>5. [req[c] EXCEPT !.todo = req[c].todo \ {u}, !.plan = plan] \in Request
    BY <1>1, <2>3 DEF Request
  <2>6. req' \in [Client -> Request]
    BY <1>1, <2>4, <2>5
  <2>7. QED
    BY <1>5, <2>6 DEF PlanUnit, TypeInv, FilesInv, documents, files, engine
<1>6. CASE PlanStored(c)
  <2>1. DOMAIN plans' \subseteq Nat /\ plans' \in [DOMAIN plans' -> Plans]
    BY <1>1, <1>6 DEF PlanStored, TypeInv, Request
  <2>2. QED
    BY <1>6, <2>1, FinishTypes DEF PlanStored, TypeInv
<1>7. QED
  BY <1>2, <1>3, <1>4, <1>5, <1>6

LEMMA CliTypes ==
  ASSUME TypeInv, NEW c \in Client, CliEnds(c) \/ CliConfirms(c)
  PROVE  TypeInv'
<1>1. req \in [Client -> Request] /\ req[c] \in Request /\ req[c].plan \in Plans
  BY DEF TypeInv, Request
<1>2. CASE CliEnds(c)
  BY <1>2, AbandonTypes DEF CliEnds
<1>3. CASE CliConfirms(c)
  <2> DEFINE changed == {u \in DOMAIN req[c].plan : req[c].plan[u].changes}
             plan == [u \in changed |-> req[c].plan[u]]
  <2>1. changed \subseteq Units /\ plan \in Plans
    BY <1>1, PlansAre DEF Plans
  <2>2. req' = [req EXCEPT ![c] = [req[c] EXCEPT !.at = "apply", !.plan = plan, !.todo = changed]]
    BY <1>1, <1>3 DEF CliConfirms
  <2> HIDE DEF plan, changed
  <2>3. [req[c] EXCEPT !.at = "apply", !.plan = plan, !.todo = changed] \in Request
    BY <1>1, <2>1 DEF Request
  <2>4. req' \in [Client -> Request]
    BY <1>1, <2>2, <2>3
  <2>5. QED
    BY <1>3, <2>4 DEF CliConfirms, TypeInv, FilesInv, documents, files, engine
<1>4. QED
  BY <1>2, <1>3

LEMMA WithoutPlans ==
  ASSUME NEW i, DOMAIN plans \subseteq Nat, plans \in [DOMAIN plans -> Plans], plans' = Without(plans, i)
  PROVE  /\ DOMAIN plans' \subseteq Nat /\ plans' \in [DOMAIN plans' -> Plans]
         /\ DOMAIN plans' \subseteq DOMAIN plans /\ \A j \in DOMAIN plans' : plans'[j] = plans[j]
  BY DEF Without

LEMMA ApplyTypes ==
  ASSUME TypeInv, NEW c \in Client, NEW i \in DOMAIN plans, NEW allow \in BOOLEAN, Apply(c, i, allow)
  PROVE  TypeInv'
<1>1. plans[i] \in Plans /\ DOMAIN plans[i] \subseteq Units /\ i \in Nat
  BY PlansAre DEF TypeInv
<1>2. [Idle EXCEPT !.at = "apply", !.op = "apply", !.plan = plans[i],
                   !.todo = DOMAIN plans[i], !.id = i, !.allow = allow] \in Request
  BY <1>1, IdleRequest DEF Request
<1>3. req' \in [Client -> Request]
  BY <1>2 DEF Apply, TypeInv
<1>4. QED
  BY <1>3 DEF Apply, Arrive, TypeInv, FilesInv, documents, files

\* The guests of one unit change, with the version of its state.
LEMMA BecomeTypes ==
  ASSUME TypeInv, NEW u \in Units, NEW target \in Machines, Become(u, target)
  PROVE  infra' \in Machines /\ serial' \in [Units -> Nat]
<1>1. /\ infra \in [DOMAIN infra -> Machine] /\ DOMAIN infra \subseteq Name
      /\ target \in [DOMAIN target -> Machine] /\ DOMAIN target \subseteq Name
  BY MachinesAre DEF TypeInv
<1>2. infra' \in [DOMAIN target \cup (DOMAIN infra \ InUnit(infra, u)) -> Machine]
  BY <1>1 DEF Become
<1>3. infra' \in Machines
  BY <1>1, <1>2 DEF Machines
<1>4. serial' \in [Units -> Nat]
  BY DEF Become, TypeInv
<1>5. QED
  BY <1>3, <1>4

LEMMA HalfwayMachines ==
  ASSUME infra \in Machines, NEW u \in Units, NEW target \in Machines,
         NEW done \in SUBSET (DOMAIN target \cup InUnit(infra, u))
  PROVE  Halfway(u, target, done) \in Machines
<1>1. /\ infra \in [DOMAIN infra -> Machine] /\ DOMAIN infra \subseteq Name
      /\ target \in [DOMAIN target -> Machine] /\ DOMAIN target \subseteq Name
  BY MachinesAre
<1>2. Halfway(u, target, done) \in [(DOMAIN target \cap done) \cup (InUnit(infra, u) \ done) -> Machine]
  BY <1>1 DEF Halfway, InUnit
<1>3. QED
  BY <1>1, <1>2 DEF Machines, InUnit

\* The entry that an apply is about to apply.
LEMMA NextEntry ==
  ASSUME TypeInv, ApplyInv, NEW c \in Client, At(c, "apply"), NEW u, First(u, req[c].todo)
  PROVE  /\ u \in DOMAIN req[c].plan /\ u \in Units
         /\ req[c].plan[u] \in Entry /\ req[c].plan[u].target \in Machines
<1>1. req[c].plan \in Plans /\ u \in DOMAIN req[c].plan
  BY DEF TypeInv, Request, First, ApplyInv
<1>2. QED
  BY <1>1, PlansAre DEF Entry

LEMMA ApplyStepTypes ==
  ASSUME TypeInv, ApplyInv, NEW c \in Client, NEW u \in Units, ApplyUnit(c, u) \/ ApplyFails(c, u)
  PROVE  TypeInv'
<1>1. req \in [Client -> Request] /\ req[c] \in Request
  BY DEF TypeInv
<1>2. req[c].plan[u].target \in Machines /\ u \in DOMAIN req[c].plan /\ DOMAIN req[c].plan \subseteq Units
  BY <1>1, NextEntry, PlansAre DEF ApplyUnit, ApplyFails, Request
<1>3. CASE ApplyUnit(c, u)
  <2>1. infra' \in Machines /\ serial' \in [Units -> Nat]
    BY <1>2, <1>3, BecomeTypes DEF ApplyUnit
  <2>2. [req[c] EXCEPT !.todo = req[c].todo \ {u}] \in Request
    BY <1>1 DEF Request
  <2>3. req' \in [Client -> Request]
    BY <1>1, <1>3, <2>2 DEF ApplyUnit
  <2>4. Mark(c, u) \in [id : Nat, units : SUBSET Units, unit : Units]
    BY <1>1, <1>2 DEF Mark, Request
  <2>5. QED
    BY <1>3, <2>1, <2>3, <2>4 DEF ApplyUnit, TypeInv, FilesInv, documents, files
<1>4. CASE ApplyFails(c, u)
  <2>1. infra' \in Machines /\ serial' \in [Units -> Nat]
    <3>1. CASE UNCHANGED <<infra, serial>>
      BY <3>1 DEF TypeInv
    <3>2. CASE \E done \in SUBSET (DOMAIN req[c].plan[u].target \cup InUnit(infra, u)) :
                 Become(u, Halfway(u, req[c].plan[u].target, done))
      BY <1>2, <3>2, BecomeTypes, HalfwayMachines DEF TypeInv
    <3>3. QED
      BY <1>4, <3>1, <3>2 DEF ApplyFails
  <2>2. QED
    BY <1>4, <2>1, FinishTypes DEF ApplyFails, TypeInv
<1>5. QED
  BY <1>3, <1>4

LEMMA ApplyDoneTypes ==
  ASSUME TypeInv, NEW c \in Client, ApplyDone(c)
  PROVE  TypeInv'
  BY WithoutPlans, FinishTypes DEF ApplyDone, TypeInv

LEMMA OutsideTypes ==
  ASSUME TypeInv,
         \/ \E i \in DOMAIN plans : Expire(i)
         \/ EditIntent
         \/ \E n \in DOMAIN code : EditCode(n)
         \/ Crash
  PROVE  TypeInv'
<1>1. CASE \E i \in DOMAIN plans : Expire(i)
  BY <1>1, WithoutPlans DEF Expire, TypeInv, FilesInv, documents, files
<1>2. CASE EditIntent
  BY <1>2 DEF EditIntent, Edit, TypeInv, FilesInv
<1>3. ASSUME NEW n \in DOMAIN code, EditCode(n) PROVE TypeInv'
  <2>1. code \in [DOMAIN code -> Block] /\ DOMAIN code \subseteq Name
    BY DEF TypeInv, Blocks
  <2>2. Without(code, n) \in [DOMAIN code \ {n} -> Block]
    BY <2>1 DEF Without
  <2>3. [code EXCEPT ![n].managed = FALSE] \in [DOMAIN code -> Block]
    BY <2>1 DEF Block
  <2>4. code' \in Blocks
    BY <1>3, <2>1, <2>2, <2>3 DEF EditCode, Blocks
  <2>5. QED
    BY <1>3, <2>4 DEF EditCode, Edit, TypeInv, FilesInv
<1>4. CASE Crash
  BY <1>4, IdleRequest, WrittenAndMade DEF Crash, TypeInv, FilesInv, files
<1>5. QED
  BY <1>1, <1>2, <1>3, <1>4

LEMMA StepTypes == LocalInv /\ [Next]_vars => TypeInv'
<1> SUFFICES ASSUME LocalInv, [Next]_vars PROVE TypeInv'
  OBVIOUS
<1> USE DEF LocalInv
<1>1. ASSUME NEW c \in Client, NEW n \in Name, NEW p \in Abstract!Power,
             Command(c, "create", n, "running") \/ Command(c, "delete", n, "running") \/ Command(c, "power", n, p)
      PROVE  TypeInv'
  BY <1>1, CommandTypes DEF Power, Abstract!Power
<1>2. ASSUME NEW c \in Client, NEW allow \in BOOLEAN, Plan(c, "plan", FALSE) \/ Plan(c, "cli", allow)
      PROVE  TypeInv'
  BY <1>2, PlanTypes
<1>3. ASSUME NEW c \in Client, NEW i \in DOMAIN plans, NEW allow \in BOOLEAN, Apply(c, i, allow)
      PROVE  TypeInv'
  BY <1>3, ApplyTypes
<1>4. ASSUME NEW c \in Client, Lock(c) PROVE TypeInv'
  BY <1>4, LockTypes
<1>5. ASSUME NEW c \in Client, Step(c) PROVE TypeInv'
  BY <1>5, CommandStepTypes, PlanStepTypes, CliTypes, ApplyStepTypes, ApplyDoneTypes DEF Step, CommandStep
<1>6. CASE UNCHANGED vars
  BY <1>6 DEF vars, TypeInv, FilesInv
<1>7. QED
  BY <1>1, <1>2, <1>3, <1>4, <1>5, <1>6, OutsideTypes DEF Next, Abstract!Power

-----------------------------------------------------------------------------
(* Locks. *)

\* What LockInv says of one request.
Locks(c) ==
  /\ createMu = c <=> Inside(c)
  /\ planMu = c <=> req[c].op \in {"plan", "apply"}
  /\ At(c, "idle") => req[c] = Idle
  /\ At(c, "lock") \/ Inside(c) => req[c].name \in Name /\ req[c].op \in {"create", "power", "delete"}
  /\ Inside(c) => req[c].at \in StepsOf(req[c].op)
  /\ req[c].at \in {"load", "compile", "init"} => req[c].op \in {"plan", "cli"}
  /\ At(c, "apply") => req[c].op \in {"apply", "cli"}

LEMMA IdleIs == Idle.at = "idle" /\ Idle.op = "none"
  BY DEF Idle

\* A step of one request leaves the locks of the others alone.
LEMMA LocksOfOne ==
  ASSUME LockInv, TypeInv, NEW c \in Client, NEW r, req' = [req EXCEPT ![c] = r], Locks(c)',
         createMu' = createMu \/ {createMu, createMu'} \subseteq {c, None},
         planMu' = planMu \/ {planMu, planMu'} \subseteq {c, None}
  PROVE  LockInv'
<1>1. req \in [Client -> Request] /\ None \notin Client
  BY LocalServerAssumption DEF TypeInv
<1>2. ASSUME NEW d \in Client, d # c PROVE Locks(d)'
  <2>1. req'[d] = req[d] /\ (createMu' = d <=> createMu = d) /\ (planMu' = d <=> planMu = d)
    BY <1>1, <1>2
  <2>2. Locks(d)
    BY DEF LockInv, Locks
  <2>3. QED
    BY <2>1, <2>2 DEF Locks, Inside, At
<1>3. QED
  BY <1>2 DEF LockInv, Locks

LEMMA InitLocks == Init => LockInv
<1> SUFFICES ASSUME Init, NEW c \in Client PROVE Locks(c)
  BY DEF LockInv, Locks
<1>1. req[c] = Idle /\ createMu # c /\ planMu # c
  BY LocalServerAssumption DEF Init
<1>2. Idle.at = "idle" /\ Idle.op = "none"
  BY DEF Idle
<1>3. QED
  BY <1>1, <1>2 DEF Locks, At, Inside, Commanding, Creating, Changing, Filling

\* The command goes on.
LEMMA MoveLocks ==
  ASSUME TypeInv, LockInv, NEW c \in Client, NEW r,
         req' = [req EXCEPT ![c] = r], r.name = req[c].name, r.op = req[c].op, r.at \in StepsOf(req[c].op),
         \/ Inside(c) /\ createMu' = createMu
         \/ At(c, "lock") /\ createMu = None /\ createMu' = c,
         planMu' = planMu
  PROVE  LockInv'
<1>1. req'[c] = r
  BY DEF TypeInv
<1>2. Locks(c)
  BY DEF LockInv, Locks
<1>3. r.at \in Commanding
  BY DEF StepsOf, Commanding
<1>4. Locks(c)'
  BY <1>1, <1>2, <1>3 DEF Locks, Inside, At, Commanding, Creating, Changing, Filling
<1>5. QED
  BY <1>4, LocksOfOne

LEMMA CommandStepLocks ==
  ASSUME TypeInv, LockInv, IntentInv, NEW c \in Client, CommandStep(c)
  PROVE  LockInv'
<1>1. Inside(c) /\ req[c] \in Request /\ createMu = c /\ c # None /\ req \in [Client -> Request]
  BY StepInside, InsideKnown DEF TypeInv
<1>2. CASE Moves(c)
  <2>1. PICK step \in StepsOf(req[c].op), f \in Name \cup {None}, doc \in Documents, src \in Documents :
          Moved(c, step, f, doc, src)
    BY <1>2 DEF Moves
  <2> DEFINE r == [req[c] EXCEPT !.at = step, !.file = f, !.doc = doc, !.src = src]
  <2>2. req' = [req EXCEPT ![c] = r] /\ createMu' = createMu /\ planMu' = planMu
    BY <2>1 DEF Moved, engine
  <2>3. r.name = req[c].name /\ r.op = req[c].op /\ r.at = step
    BY <1>1 DEF Request
  <2> HIDE DEF r
  <2>4. QED
    BY <1>1, <2>1, <2>2, <2>3, MoveLocks
<1>3. CASE Ends(c)
  <2>1. req' = [req EXCEPT ![c] = Idle] /\ createMu' = None /\ planMu' = planMu
    BY <1>3 DEF Ends, Return, engine
  <2>2. req'[c] = Idle /\ planMu # c
    BY <1>1, <2>1 DEF LockInv
  <2>3. Locks(c)'
    BY <1>1, <2>1, <2>2, IdleIs DEF Locks, At, Inside, Commanding, Creating, Changing, Filling
  <2>4. QED
    BY <1>1, <2>1, <2>3, LocksOfOne
<1>4. QED
  BY <1>2, <1>3, StepMoves

LEMMA LockLocks ==
  ASSUME TypeInv, LockInv, NEW c \in Client, Lock(c)
  PROVE  LockInv'
<1> DEFINE step == IF req[c].op = "create" THEN "create" ELSE "change"
           r == [req[c] EXCEPT !.at = step]
<1>1. req' = [req EXCEPT ![c] = r] /\ createMu' = c /\ createMu = None /\ At(c, "lock") /\ planMu' = planMu
  BY DEF Lock, Goto, TypeInv, engine
<1>2. r.name = req[c].name /\ r.op = req[c].op /\ r.at = step
  BY DEF TypeInv, Request
<1>3. step \in StepsOf(req[c].op)
  BY DEF StepsOf, Creating, Changing
<1>4. QED
  BY <1>1, <1>2, <1>3, MoveLocks

LEMMA CommandLocks ==
  ASSUME TypeInv, LockInv, NEW c \in Client, NEW n \in Name, NEW p \in Power,
         NEW op \in {"create", "power", "delete"}, Command(c, op, n, p)
  PROVE  LockInv'
<1> DEFINE r == [Idle EXCEPT !.at = "lock", !.op = op, !.name = n, !.power = p]
<1>1. req' = [req EXCEPT ![c] = r] /\ At(c, "idle") /\ createMu' = createMu /\ planMu' = planMu
  BY DEF Command, Arrive, documents, engine
<1>2. req'[c] = r /\ r.at = "lock" /\ r.op = op /\ r.name = n
  BY <1>1 DEF TypeInv, Idle
<1>3. Locks(c)'
  BY <1>1, <1>2, IdleIs DEF Locks, LockInv, At, Inside, Commanding, Creating, Changing, Filling
<1>4. QED
  BY <1>1, <1>3, LocksOfOne

LEMMA PlanLocks ==
  ASSUME TypeInv, LockInv, NEW c \in Client, NEW op \in {"plan", "cli"}, NEW allow, Plan(c, op, allow)
  PROVE  LockInv'
<1> DEFINE r == [Idle EXCEPT !.at = "load", !.op = op, !.allow = allow, !.id = count.requests + 1]
<1>1. req' = [req EXCEPT ![c] = r] /\ createMu' = createMu /\ At(c, "idle")
      /\ planMu' = IF op = "plan" THEN c ELSE planMu
  BY DEF Plan, Arrive, documents
<1>2. r.at = "load" /\ r.op = op
  BY DEF Idle
<1> HIDE DEF r
<1>3. req'[c] = r
  BY <1>1 DEF TypeInv
<1>4. planMu' = planMu \/ {planMu, planMu'} \subseteq {c, None}
  BY <1>1 DEF Plan
<1>5. planMu # c /\ createMu # c /\ c # None
  BY <1>1, IdleIs, LocalServerAssumption DEF LockInv, At, Inside, Commanding, Creating, Changing, Filling
<1>6. Locks(c)'
  BY <1>1, <1>2, <1>3, <1>5 DEF Locks, At, Inside, Commanding, Creating, Changing, Filling
<1>7. QED
  BY <1>1, <1>4, <1>6, LocksOfOne

LEMMA FinishLocks ==
  ASSUME TypeInv, LockInv, NEW c \in Client, ~Inside(c), NEW a, Finish(c, a)
  PROVE  LockInv'
<1>1. /\ req' = [req EXCEPT ![c] = Idle] /\ createMu' = createMu
      /\ planMu' = IF planMu = c THEN None ELSE planMu
  BY DEF Finish, documents
<1>2. req'[c] = Idle /\ Idle.at = "idle" /\ Idle.op = "none"
  BY <1>1 DEF TypeInv, Idle
<1>3. createMu # c /\ planMu' # c
  BY <1>1, LocalServerAssumption DEF LockInv
<1>4. Locks(c)'
  BY <1>1, <1>2, <1>3 DEF Locks, At, Inside, Commanding, Creating, Changing, Filling
<1>5. QED
  BY <1>1, <1>4, LocksOfOne

\* A plan or an apply goes on.
LEMMA PlanMoveLocks ==
  ASSUME TypeInv, LockInv, NEW c \in Client, NEW r,
         req' = [req EXCEPT ![c] = r], r.op = req[c].op, UNCHANGED <<createMu, planMu>>,
         req[c].at \in {"load", "compile", "init", "apply"},
         \/ r.at \in {"load", "compile", "init"} /\ req[c].at # "apply"
         \/ r.at = "apply" /\ req[c].op \in {"cli", "apply"}
  PROVE  LockInv'
<1>1. req'[c] = r
  BY DEF TypeInv
<1>2. Locks(c)
  BY DEF LockInv, Locks
<1>3. Locks(c)'
  BY <1>1, <1>2 DEF Locks, Inside, At, Commanding, Creating, Changing, Filling
<1>4. QED
  BY <1>3, LocksOfOne

LEMMA PlanStepLocks ==
  ASSUME TypeInv, LockInv, NEW c \in Client,
         PlanLoad(c) \/ PlanCompile(c) \/ PlanUnit(c) \/ PlanStored(c) \/ CliEnds(c) \/ CliConfirms(c)
  PROVE  LockInv'
<1>1. ~Inside(c) /\ req[c].at \in {"load", "compile", "init"}
  BY DEF PlanLoad, PlanCompile, PlanUnit, PlanStored, CliEnds, CliConfirms, At, Inside, Commanding,
         Creating, Changing, Filling
<1>2. CASE \E a \in {"ok", "error"} : Finish(c, a)
  BY <1>1, <1>2, FinishLocks
<1>3. CASE PlanLoad(c) /\ ~Abandon(c)
  <2> DEFINE r == [req[c] EXCEPT !.at = "compile", !.seen = intent]
  <2>1. req' = [req EXCEPT ![c] = r] /\ UNCHANGED <<createMu, planMu>>
    BY <1>3 DEF PlanLoad, TypeInv, documents, engine
  <2>2. r.op = req[c].op /\ r.at = "compile"
    BY DEF TypeInv, Request
  <2> HIDE DEF r
  <2>3. QED
    BY <1>1, <2>1, <2>2, PlanMoveLocks
<1>4. CASE PlanCompile(c) /\ ~Abandon(c)
  <2>1. PICK selected \in SUBSET units' :
          req' = [req EXCEPT ![c].at = "init", ![c].seen = Written, ![c].todo = selected]
    BY <1>4 DEF PlanCompile
  <2> DEFINE r == [req[c] EXCEPT !.at = "init", !.seen = Written, !.todo = selected]
  <2>2. req' = [req EXCEPT ![c] = r] /\ UNCHANGED <<createMu, planMu>>
    BY <1>4, <2>1 DEF PlanCompile, TypeInv, documents
  <2>3. r.op = req[c].op /\ r.at = "init"
    BY DEF TypeInv, Request
  <2> HIDE DEF r
  <2>4. QED
    BY <1>1, <2>2, <2>3, PlanMoveLocks
<1>5. CASE PlanUnit(c) /\ ~Abandon(c)
  <2>1. PICK u \in req[c].todo :
          req' = [req EXCEPT ![c].todo = @ \ {u},
                  ![c].plan = [v \in DOMAIN @ \cup {u} |-> IF v = u THEN UnitPlan(u) ELSE @[v]]]
    BY <1>5 DEF PlanUnit
  <2> DEFINE plan == [v \in DOMAIN req[c].plan \cup {u} |-> IF v = u THEN UnitPlan(u) ELSE req[c].plan[v]]
             r == [req[c] EXCEPT !.todo = req[c].todo \ {u}, !.plan = plan]
  <2>2. req' = [req EXCEPT ![c] = r] /\ UNCHANGED <<createMu, planMu>>
    BY <1>5, <2>1 DEF PlanUnit, TypeInv, documents, engine
  <2> HIDE DEF plan
  <2>3. r.op = req[c].op /\ r.at = req[c].at
    BY DEF TypeInv, Request
  <2> HIDE DEF r
  <2>4. QED
    BY <1>1, <2>2, <2>3, PlanMoveLocks
<1>6. CASE CliConfirms(c)
  <2> DEFINE changed == {u \in DOMAIN req[c].plan : req[c].plan[u].changes}
             plan == [u \in changed |-> req[c].plan[u]]
             r == [req[c] EXCEPT !.at = "apply", !.plan = plan, !.todo = changed]
  <2>1. req' = [req EXCEPT ![c] = r] /\ UNCHANGED <<createMu, planMu>> /\ req[c].op = "cli"
    BY <1>6 DEF CliConfirms, TypeInv, documents, engine
  <2> HIDE DEF plan, changed
  <2>2. r.op = req[c].op /\ r.at = "apply"
    BY DEF TypeInv, Request
  <2> HIDE DEF r
  <2>3. QED
    BY <1>1, <2>1, <2>2, PlanMoveLocks
<1>7. QED
  BY <1>2, <1>3, <1>4, <1>5, <1>6 DEF PlanLoad, PlanCompile, PlanUnit, PlanStored, CliEnds, CliConfirms, Abandon

LEMMA ApplyLocks ==
  ASSUME TypeInv, LockInv, NEW c \in Client, NEW i, NEW allow, Apply(c, i, allow)
  PROVE  LockInv'
<1> DEFINE r == [Idle EXCEPT !.at = "apply", !.op = "apply", !.plan = plans[i],
                             !.todo = DOMAIN plans[i], !.id = i, !.allow = allow]
<1>1. req' = [req EXCEPT ![c] = r] /\ createMu' = createMu /\ At(c, "idle") /\ planMu' = c /\ planMu = None
  BY DEF Apply, Arrive, documents
<1>2. r.at = "apply" /\ r.op = "apply"
  BY DEF Idle
<1> HIDE DEF r
<1>3. req'[c] = r
  BY <1>1 DEF TypeInv
<1>4. createMu # c
  BY <1>1 DEF LockInv, At, Inside, Commanding, Creating, Changing, Filling
<1>5. Locks(c)'
  BY <1>1, <1>2, <1>3, <1>4 DEF Locks, At, Inside, Commanding, Creating, Changing, Filling
<1>6. QED
  BY <1>1, <1>5, LocksOfOne

LEMMA ApplyStepLocks ==
  ASSUME TypeInv, LockInv, NEW c \in Client, NEW u,
         ApplyUnit(c, u) \/ ApplyFails(c, u) \/ ApplyDone(c)
  PROVE  LockInv'
<1>1. ~Inside(c) /\ At(c, "apply")
  BY DEF ApplyUnit, ApplyFails, ApplyDone, At, Inside, Commanding, Creating, Changing, Filling
<1>2. CASE \E a \in {"ok", "error"} : Finish(c, a)
  BY <1>1, <1>2, FinishLocks
<1>3. CASE ApplyUnit(c, u)
  <2> DEFINE r == [req[c] EXCEPT !.todo = req[c].todo \ {u}]
  <2>1. req' = [req EXCEPT ![c] = r] /\ UNCHANGED <<createMu, planMu>>
    BY <1>3 DEF ApplyUnit, TypeInv, documents
  <2>2. r.op = req[c].op /\ r.at = req[c].at
    BY DEF TypeInv, Request
  <2>3. req[c].op \in {"cli", "apply"}
    BY <1>1 DEF LockInv
  <2> HIDE DEF r
  <2>4. QED
    BY <1>1, <2>1, <2>2, <2>3, PlanMoveLocks DEF At
<1>4. QED
  BY <1>2, <1>3 DEF ApplyFails, ApplyDone

LEMMA OutsideLocks ==
  ASSUME TypeInv, LockInv,
         \/ \E i \in DOMAIN plans : Expire(i)
         \/ EditIntent
         \/ \E n \in DOMAIN code : EditCode(n)
         \/ Crash
  PROVE  LockInv'
<1>1. CASE UNCHANGED <<createMu, planMu, req>>
  BY <1>1 DEF LockInv, At, Inside
<1>2. CASE Crash
  <2> SUFFICES ASSUME NEW c \in Client PROVE Locks(c)'
    BY DEF LockInv, Locks
  <2>1. Locks(c) /\ c # None
    BY LocalServerAssumption DEF LockInv, Locks
  <2>2. createMu' = None /\ planMu' = None /\ req'[c] = IF req[c].op = "cli" THEN req[c] ELSE Idle
    BY <1>2 DEF Crash
  <2>3. Idle.at = "idle" /\ Idle.op = "none"
    BY DEF Idle
  <2>4. QED
    BY <2>1, <2>2, <2>3 DEF Locks, At, Inside, Commanding, Creating, Changing, Filling
<1>3. QED
  BY <1>1, <1>2 DEF Expire, EditIntent, EditCode, Edit, documents

LEMMA StepLocks == LocalInv /\ [Next]_vars => LockInv'
<1> SUFFICES ASSUME LocalInv, [Next]_vars PROVE LockInv'
  OBVIOUS
<1> USE DEF LocalInv
<1>1. ASSUME NEW c \in Client, NEW n \in Name, NEW p \in Abstract!Power,
             Command(c, "create", n, "running") \/ Command(c, "delete", n, "running") \/ Command(c, "power", n, p)
      PROVE  LockInv'
  BY <1>1, CommandLocks DEF Power, Abstract!Power
<1>2. ASSUME NEW c \in Client, NEW allow \in BOOLEAN, Plan(c, "plan", FALSE) \/ Plan(c, "cli", allow)
      PROVE  LockInv'
  BY <1>2, PlanLocks
<1>3. ASSUME NEW c \in Client, NEW i \in DOMAIN plans, NEW allow \in BOOLEAN, Apply(c, i, allow)
      PROVE  LockInv'
  BY <1>3, ApplyLocks
<1>4. ASSUME NEW c \in Client, Lock(c) PROVE LockInv'
  BY <1>4, LockLocks
<1>5. ASSUME NEW c \in Client, Step(c) PROVE LockInv'
  BY <1>5, CommandStepLocks, PlanStepLocks, ApplyStepLocks DEF Step, CommandStep
<1>6. CASE UNCHANGED vars
  BY <1>6 DEF vars, LockInv, At, Inside
<1>7. QED
  BY <1>1, <1>2, <1>3, <1>4, <1>5, <1>6, OutsideLocks DEF Next, Abstract!Power

-----------------------------------------------------------------------------
(* What a command has made of intent. *)

LEMMA DonePrime ==
  ASSUME NEW c \in Client, Done(req'[c], before', intent')
  PROVE  Done(req[c], before, intent)'
  BY DEF Done, Ask, In, Outside, Over, Only, Abstract!Damages, Abstract!FileOf, Abstract!Taken, Abstract!Outside,
         Abstract!Over, Abstract!Only

\* Nobody inside, or the one who holds the lock.
LEMMA NobodyInside ==
  ASSUME LockInv', createMu' = None
  PROVE  IntentInv'
  BY LocalServerAssumption DEF LockInv, IntentInv

LEMMA DoneOfOne ==
  ASSUME LockInv', NEW c \in Client, createMu' = c, Done(req'[c], before', intent')
  PROVE  IntentInv'
<1>1. Done(req[c], before, intent)'
  BY DonePrime
<1>2. QED
  BY <1>1 DEF LockInv, IntentInv

LEMMA DoneKept ==
  ASSUME LockInv, LockInv', IntentInv, UNCHANGED <<createMu, before, intent>>,
         \A d \in Client : Inside(d) => req'[d] = req[d]
  PROVE  IntentInv'
<1> SUFFICES ASSUME NEW d \in Client, Inside(d)' PROVE Done(req[d], before, intent)'
  BY DEF IntentInv
<1>1. Inside(d) /\ req'[d] = req[d]
  BY DEF LockInv
<1>2. Done(req[d], before, intent)
  BY <1>1 DEF IntentInv
<1>3. QED
  BY <1>1, <1>2, DonePrime

LEMMA LockDone ==
  ASSUME TypeInv, LockInv, LockInv', NEW c \in Client, Lock(c)
  PROVE  IntentInv'
<1> DEFINE step == IF req[c].op = "create" THEN "create" ELSE "change"
           r == [req[c] EXCEPT !.at = step]
<1>1. req[c] \in Request /\ req \in [Client -> Request] /\ req[c].op \in {"create", "power", "delete"}
  BY DEF TypeInv, LockInv, Lock
<1>2. r.at = step /\ r.op = req[c].op
  BY <1>1 DEF Request
<1>3. req'[c] = r /\ intent' = before' /\ createMu' = c
  BY <1>1 DEF Lock, Goto, files
<1> HIDE DEF r
<1>4. Abstract!Damages(Ask(r), before', before')
  BY <1>1, <1>2, DamagesNothing DEF Ask
<1>5. Done(r, before', before')
  BY <1>2, <1>4 DEF Done, Filling
<1>6. QED
  BY <1>3, <1>5, DoneOfOne

\* A new machine before admission, and a command on its way.
LEMMA DoneNew ==
  ASSUME NEW r, NEW was, NEW now, r.op = "create", r.at \in {"write", "admit", "undo"},
         r.name \notin DOMAIN was, \A m \in DOMAIN was : was[m].file # r.name,
         Abstract!Damages(Ask(r), was, now)
  PROVE  Done(r, was, now)
  BY DEF Done, Filling

LEMMA DoneNext ==
  ASSUME NEW s, NEW r, NEW was, NEW now, NEW new, Done(s, was, now),
         s.at \in {"remove", "truncate", "fill", "check", "reopen"},
         r.at \in {"fill", "check", "undo", "reopen", "refill"},
         r.op = s.op, r.name = s.name, r.power = s.power, r.file = s.file, r.doc = s.doc, r.src = s.src,
         r.at = "fill" => r.op # "delete",
         r.at = "check" =>
           new = IF r.op = "delete" THEN Outside(was, r.file) ELSE Over(Outside(was, r.file), r.doc),
         r.op = "create" => s.at \in Filling,
         Abstract!Damages(Ask(r), was, new)
  PROVE  Done(r, was, new)
<1>1. CASE r.op = "create"
  BY <1>1 DEF Done, Filling
<1>2. CASE r.op # "create"
  BY <1>2 DEF Done, Filling
<1>3. QED
  BY <1>1, <1>2

\* What a command writes is about its file, and so is what it restores.
LEMMA NewFits ==
  ASSUME NEW r, NEW was, r.op = "create", r.name \notin DOMAIN was,
         NEW id \in {0} \cup (Ids \ Abstract!Taken(was, r.name))
  PROVE  AllFit(Ask(r), was, Only(r.name, [vmid |-> id, power |-> "running", file |-> r.name]))
  BY DEF AllFit, Fits, Ask, Only, Abstract!Only, Abstract!FileOf

LEMMA DocFits ==
  ASSUME NEW r \in Request, NEW was \in Documents, NEW now, Done(r, was, now),
         r.op = "create" => r.at \in Filling, r.op # "create" => r.at # "change"
  PROVE  AllFit(Ask(r), was, r.doc) /\ (r.op # "create" => AllFit(Ask(r), was, r.src))
<1>1. CASE r.op = "create"
  <2>1. r.at # "create"
    BY <1>1 DEF Filling
  <2>2. r.name \notin DOMAIN was
    BY <1>1, <2>1 DEF Done
  <2>3. PICK id \in Ids \ Abstract!Taken(was, r.name) :
          r.doc = Only(r.name, [vmid |-> id, power |-> "running", file |-> r.name])
    BY <1>1 DEF Done
  <2>4. QED
    BY <1>1, <2>2, <2>3, NewFits
<1>2. CASE r.op # "create"
  <2> DEFINE n == r.name
             names == {m \in DOMAIN was : was[m].file = was[n].file}
  <2>1. n \in DOMAIN was /\ r.src = In(was, was[n].file) /\ r.doc = [r.src EXCEPT ![n].power = r.power]
    BY <1>2 DEF Done
  <2>2. r.src = [m \in names |-> was[m]] /\ was \in [DOMAIN was -> Document]
    BY <2>1, DocumentsAre DEF In
  <2>3. AllFit(Ask(r), was, r.src)
    BY <1>2, <2>1, <2>2 DEF AllFit, Fits, Ask, Abstract!FileOf, Document
  <2>4. DOMAIN r.doc = names /\ \A m \in names : m # n => r.doc[m] = was[m]
    BY <2>1, <2>2
  <2>5. r.doc[n].file = was[n].file /\ r.doc[n].vmid = was[n].vmid /\ r.doc[n].power = r.power
    BY <2>1, <2>2 DEF Document
  <2>6. AllFit(Ask(r), was, r.doc)
    <3> SUFFICES ASSUME NEW m \in names PROVE Fits(Ask(r), was, m, r.doc[m])
      BY <2>4 DEF AllFit
    <3>1. CASE m = n
      BY <1>2, <2>1, <2>5, <3>1 DEF Fits, Ask, Abstract!FileOf
    <3>2. CASE m # n
      BY <1>2, <2>1, <2>4, <3>2 DEF Fits, Ask, Abstract!FileOf
    <3>3. QED
      BY <3>1, <3>2
  <2>7. QED
    BY <2>3, <2>6
<1>3. QED
  BY <1>1, <1>2

\* The file operations damage no other file.
LEMMA FilesDamage ==
  ASSUME NEW ask, ask.op \in {"create", "power", "delete"}, NEW was \in Documents, intent \in Documents,
         Abstract!Damages(ask, was, intent), NEW f, f = Abstract!FileOf(was, ask.name)
  PROVE  /\ Opens(f) \/ Removes(f) =>
              Abstract!Damages(ask, was, intent') /\ intent' = Outside(was, f)
         /\ \A content \in Documents : AllFit(ask, was, content) /\ Writes(f, content) =>
              Abstract!Damages(ask, was, intent') /\ intent' = Over(Outside(was, f), content)
         /\ \A content \in Documents : AllFit(ask, was, content) /\ Tears(f, content) =>
              Abstract!Damages(ask, was, intent')
<1>1. Outside(intent, f) = Outside(was, f)
  BY DamagesInside
<1>2. Opens(f) \/ Removes(f) => intent' = Outside(was, f)
  BY <1>1 DEF Opens, Removes
<1>3. Abstract!Damages(ask, was, Outside(was, f))
  BY DamagesOutside
<1>4. \A content \in Documents : Writes(f, content) => intent' = Over(Outside(was, f), content)
  BY <1>1 DEF Writes
<1>5. \A content \in Documents : AllFit(ask, was, content) =>
        Abstract!Damages(ask, was, Over(Outside(was, f), content))
  BY DamagesOver
<1>6. ASSUME NEW content \in Documents, AllFit(ask, was, content), Tears(f, content)
      PROVE  Abstract!Damages(ask, was, intent')
  <2>1. PICK front \in Fronts(content) : intent' = Over(Outside(intent, f), front)
    BY <1>6 DEF Tears
  <2>2. AllFit(ask, was, front)
    BY <1>6, <2>1, FrontFits
  <2>3. Abstract!Damages(ask, was, Over(Outside(was, f), front))
    BY <2>2, DamagesOver
  <2>4. QED
    BY <1>1, <2>1, <2>3
<1>7. QED
  BY <1>2, <1>3, <1>4, <1>5, <1>6

\* A step that goes on, with nothing but where it is.
LEMMA GoDone ==
  ASSUME TypeInv, LockInv, LockInv', IntentInv, NEW c \in Client, Inside(c), NEW step \in Commanding, Go(c, step)
  PROVE  \E r \in Request :
           /\ r.at = step /\ r.op = req[c].op /\ r.name = req[c].name /\ r.power = req[c].power
           /\ r.file = req[c].file /\ r.doc = req[c].doc /\ r.src = req[c].src
           /\ Done(r, before, intent') => IntentInv'
<1> DEFINE r == [req[c] EXCEPT !.at = step]
<1>1. req[c] \in Request /\ req \in [Client -> Request] /\ createMu = c
  BY InsideKnown DEF TypeInv
<1>2. /\ r \in Request /\ r.at = step /\ r.op = req[c].op /\ r.name = req[c].name /\ r.power = req[c].power
      /\ r.file = req[c].file /\ r.doc = req[c].doc /\ r.src = req[c].src
  BY <1>1 DEF Request
<1>3. req'[c] = r /\ createMu' = c /\ before' = before
  BY <1>1 DEF Go, Goto
<1> HIDE DEF r
<1>4. Done(r, before, intent') => IntentInv'
  BY <1>3, DoneOfOne
<1>5. QED
  BY <1>2, <1>4

LEMMA CreateStepDone ==
  ASSUME TypeInv, LockInv, LockInv', IntentInv, NEW c \in Client,
         CreateLoad(c) \/ CreateOpen(c) \/ CreateWrite(c) \/ CreateAdmit(c), ~Ends(c)
  PROVE  IntentInv'
<1> DEFINE n == req[c].name
           ask == Ask(req[c])
<1>1. /\ Inside(c) /\ req[c] \in Request /\ n \in Name /\ createMu = c
      /\ Done(req[c], before, intent) /\ before \in Documents /\ intent \in Documents
      /\ req[c].at \in StepsOf(req[c].op)
  BY StepInside, InsideKnown DEF CommandStep
<1>2. req[c].op = "create" /\ ask.op = "create" /\ ask.name = n
  BY <1>1 DEF CreateLoad, CreateOpen, CreateWrite, CreateAdmit, At, StepsOf, Changing, Filling, Ask
<1>3. Abstract!Damages(ask, before, intent)
  BY <1>1 DEF Done
<1>4. ~Refuse(c)
  BY DEF Ends, Refuse, Reply
<1>5. ASSUME NEW step \in {"write", "admit", "undo"}, Go(c, step), n \notin DOMAIN before,
             \A m \in DOMAIN before : before[m].file # n, Abstract!Damages(ask, before, intent')
      PROVE  IntentInv'
  <2>1. PICK r \in Request :
          /\ r.at = step /\ r.op = req[c].op /\ r.name = n /\ r.power = req[c].power
          /\ Done(r, before, intent') => IntentInv'
    BY <1>1, <1>5, GoDone DEF Commanding, Creating
  <2>2. Ask(r) = ask
    BY <2>1 DEF Ask
  <2>3. QED
    BY <1>2, <1>5, <2>1, <2>2, DoneNew
<1>6. CASE CreateLoad(c)
  <2>1. intent = before /\ intent' = before /\ n \notin DOMAIN before /\ Go(c, "open")
    BY <1>1, <1>4, <1>6 DEF CreateLoad, Done, At, files
  <2>2. PICK r \in Request :
          /\ r.at = "open" /\ r.op = req[c].op /\ r.name = n /\ r.power = req[c].power
          /\ Done(r, before, intent') => IntentInv'
    BY <1>1, <2>1, GoDone DEF Commanding, Creating
  <2>3. Ask(r) = ask
    BY <2>2 DEF Ask
  <2>4. Done(r, before, before)
    BY <1>2, <1>3, <2>1, <2>2, <2>3 DEF Done, Filling
  <2>5. QED
    BY <2>1, <2>2, <2>4
<1>7. ASSUME n \notin DOMAIN before PROVE Abstract!FileOf(before, n) = n
  BY <1>7 DEF Abstract!FileOf
<1>8. CASE CreateOpen(c)
  <2>1. intent = before /\ n \notin DOMAIN before
    BY <1>1, <1>2, <1>8 DEF CreateOpen, Done, At
  <2>2. Opens(n) /\ Go(c, "write") /\ \A m \in DOMAIN before : before[m].file # n
    BY <1>4, <1>8, <2>1 DEF CreateOpen, Exists
  <2>3. Abstract!Damages(ask, before, intent')
    BY <1>1, <1>2, <1>3, <1>7, <2>1, <2>2, FilesDamage
  <2>4. QED
    BY <1>5, <2>1, <2>2, <2>3
<1>9. ASSUME CreateWrite(c) \/ CreateAdmit(c)
      PROVE  n \notin DOMAIN before /\ \A m \in DOMAIN before : before[m].file # n
  BY <1>1, <1>2, <1>9 DEF CreateWrite, CreateAdmit, Done, At
<1>10. CASE CreateWrite(c)
  <2> DEFINE new == Only(n, [vmid |-> 0, power |-> "running", file |-> n])
  <2>1. new \in Documents
    BY <1>1, OnlyDocuments
  <2>2. AllFit(ask, before, new)
    BY <1>2, <1>9, <1>10, NewFits
  <2>3. (Writes(n, new) /\ Go(c, "admit")) \/ (Tears(n, new) /\ Go(c, "undo"))
    BY <1>10 DEF CreateWrite
  <2> HIDE DEF new
  <2>4. Abstract!Damages(ask, before, intent')
    BY <1>1, <1>2, <1>3, <1>7, <1>9, <1>10, <2>1, <2>2, <2>3, FilesDamage
  <2>5. QED
    BY <1>5, <1>9, <1>10, <2>3, <2>4
<1>11. CASE CreateAdmit(c) /\ Go(c, "undo")
  <2>1. intent' = intent
    BY <1>11 DEF CreateAdmit, files
  <2>2. QED
    BY <1>3, <1>5, <1>9, <1>11, <2>1
<1>12. CASE CreateAdmit(c) /\ ~Go(c, "undo")
  <2>1. PICK id \in Ids \ Abstract!Taken(intent, n) :
          LET doc == Only(n, [vmid |-> id, power |-> "running", file |-> n])
          IN  doc \in Documents /\ Moved(c, "truncate", n, doc, req[c].src)
    BY <1>12, AdmitMoves
  <2> DEFINE doc == Only(n, [vmid |-> id, power |-> "running", file |-> n])
             r == [req[c] EXCEPT !.at = "truncate", !.file = n, !.doc = doc, !.src = req[c].src]
  <2>2. Abstract!Taken(before, n) \subseteq Abstract!Taken(intent, n)
    <3>1. \A m \in DOMAIN before : m \in DOMAIN intent /\ intent[m] = before[m]
      BY <1>2, <1>3, <1>7, <1>9, <1>12 DEF Abstract!Damages
    <3>2. QED
      BY <3>1 DEF Abstract!Taken
  <2>3. id \in Ids \ Abstract!Taken(before, n)
    BY <2>1, <2>2
  <2>4. /\ r.at = "truncate" /\ r.op = "create" /\ r.name = n /\ r.power = req[c].power
        /\ r.file = n /\ r.doc = doc
    BY <1>1, <1>2 DEF Request
  <2>5. req'[c] = r /\ createMu' = c /\ before' = before
    BY <1>1, <2>1 DEF Moved, TypeInv
  <2>6. intent' = intent
    BY <1>12 DEF CreateAdmit, files
  <2> HIDE DEF r
  <2>7. Ask(r) = ask
    BY <1>2, <2>4 DEF Ask
  <2>8. Done(r, before, intent)
    BY <1>3, <1>9, <1>12, <2>3, <2>4, <2>7 DEF Done
  <2>9. QED
    BY <2>5, <2>6, <2>8, DoneOfOne
<1>13. QED
  BY <1>6, <1>8, <1>10, <1>11, <1>12

LEMMA ChangeLoadDone ==
  ASSUME TypeInv, LockInv, LockInv', IntentInv, NEW c \in Client, ChangeLoad(c), ~Refuse(c)
  PROVE  IntentInv'
<1> DEFINE n == req[c].name
           f == intent[n].file
           src == In(intent, f)
           doc == [src EXCEPT ![n].power = req[c].power]
           step == IF req[c].op = "delete" THEN "remove" ELSE "truncate"
           r == [req[c] EXCEPT !.at = step, !.file = f, !.doc = doc, !.src = src]
<1>1. /\ req[c] \in Request /\ createMu = c /\ Done(req[c], before, intent)
      /\ req[c].at \in StepsOf(req[c].op) /\ At(c, "change")
  BY StepInside, InsideKnown DEF CommandStep, ChangeLoad
<1>2. req[c].op # "create" /\ intent = before /\ Abstract!Damages(Ask(req[c]), before, intent)
  BY <1>1 DEF StepsOf, Creating, Filling, At, Done
<1>3. n \in DOMAIN intent /\ f \in Name /\ src \in Documents /\ doc \in Documents /\ Moved(c, step, f, doc, src)
  BY LoadMoves
<1>4. intent' = intent
  BY DEF ChangeLoad, files
<1> HIDE DEF src, doc, f
<1>5. /\ r.at = step /\ r.op = req[c].op /\ r.name = n /\ r.power = req[c].power
      /\ r.file = f /\ r.doc = doc /\ r.src = src
  BY <1>1, <1>3 DEF Request
<1>6. req'[c] = r /\ createMu' = c /\ before' = before
  BY <1>1, <1>3 DEF Moved, TypeInv
<1> HIDE DEF r
<1>7. Ask(r) = Ask(req[c])
  BY <1>5 DEF Ask
<1>8. r.file = before[n].file /\ r.src = In(before, r.file) /\ r.doc = [r.src EXCEPT ![n].power = r.power]
  BY <1>2, <1>5 DEF f, src, doc
<1>9. r.at \in {"remove", "truncate"} /\ (r.at = "remove" <=> r.op = "delete")
  BY <1>5
<1>10. Done(r, before, before)
  BY <1>2, <1>3, <1>5, <1>7, <1>8, <1>9 DEF Done
<1>11. QED
  BY <1>2, <1>4, <1>6, <1>10, DoneOfOne

LEMMA WriteStepDone ==
  ASSUME TypeInv, LockInv, LockInv', IntentInv, NEW c \in Client,
         DeleteRemove(c) \/ Truncate(c) \/ Fill(c) \/ Check(c) \/ Reopen(c), ~Ends(c)
  PROVE  IntentInv'
<1> DEFINE f == req[c].file
           ask == Ask(req[c])
<1>1. /\ Inside(c) /\ req[c] \in Request /\ createMu = c
      /\ Done(req[c], before, intent) /\ before \in Documents /\ intent \in Documents
      /\ req[c].at \in StepsOf(req[c].op) /\ req[c].op \in {"create", "power", "delete"}
  BY StepInside, InsideKnown DEF CommandStep
<1>2. ~Refuse(c) /\ ~Fault(c) /\ ~Reply(c, "ok")
  BY DEF Ends, Refuse, Reply, Fault
<1>3. req[c].at \in {"remove", "truncate", "fill", "check", "reopen"}
  BY DEF DeleteRemove, Truncate, Fill, Check, Reopen, At
<1>4. f \in Name /\ f = Abstract!FileOf(before, ask.name)
  BY <1>3, FileKnown DEF Filling, Ask
<1>5. Abstract!Damages(ask, before, intent) /\ ask.op = req[c].op
  BY <1>1 DEF Done, Ask
<1>6. req[c].op = "create" => req[c].at \in Filling
  BY <1>1, <1>3 DEF StepsOf, Creating, Filling
<1>7. ASSUME NEW step \in {"fill", "check", "undo", "reopen", "refill"}, Go(c, step),
             step = "fill" => req[c].op # "delete",
             step = "check" =>
               intent' = IF req[c].op = "delete" THEN Outside(before, f) ELSE Over(Outside(before, f), req[c].doc),
             Abstract!Damages(ask, before, intent')
      PROVE  IntentInv'
  <2>1. PICK r \in Request :
          /\ r.at = step /\ r.op = req[c].op /\ r.name = req[c].name /\ r.power = req[c].power
          /\ r.file = req[c].file /\ r.doc = req[c].doc /\ r.src = req[c].src
          /\ Done(r, before, intent') => IntentInv'
    BY <1>1, <1>7, GoDone DEF Commanding, Creating, Changing, Filling
  <2>2. Ask(r) = ask
    BY <2>1 DEF Ask
  <2>3. Done(r, before, intent')
    BY <1>1, <1>3, <1>6, <1>7, <2>1, <2>2, DoneNext
  <2>4. QED
    BY <2>1, <2>3
<1>8. ASSUME Opens(f) \/ Removes(f)
      PROVE  Abstract!Damages(ask, before, intent') /\ intent' = Outside(before, f)
  BY <1>1, <1>4, <1>5, <1>8, FilesDamage
<1>9. CASE DeleteRemove(c)
  <2>1. req[c].op = "delete"
    BY <1>1, <1>9 DEF DeleteRemove, At, Done
  <2>2. Removes(f) /\ Go(c, "check")
    BY <1>2, <1>9 DEF DeleteRemove
  <2>3. QED
    BY <1>7, <1>8, <2>1, <2>2
<1>10. CASE Truncate(c)
  <2>1. req[c].op # "delete"
    BY <1>1, <1>10 DEF Truncate, At, Done
  <2>2. CASE Opens(f) /\ Go(c, "fill")
    BY <1>7, <1>8, <2>1, <2>2
  <2>3. CASE Go(c, "undo") /\ UNCHANGED files
    BY <1>5, <1>7, <2>3 DEF files
  <2>4. QED
    BY <1>2, <1>10, <2>2, <2>3 DEF Truncate
<1>11. CASE Fill(c)
  <2>1. req[c].op # "delete"
    BY <1>1, <1>11 DEF Fill, At, Done
  <2>2. req[c].at # "change" /\ req[c].doc \in Documents
    BY <1>1, <1>11 DEF Fill, At, Request
  <2>3. AllFit(ask, before, req[c].doc)
    BY <1>1, <1>6, <2>2, DocFits
  <2>4. CASE Writes(f, req[c].doc) /\ Go(c, "check")
    <3>1. Abstract!Damages(ask, before, intent') /\ intent' = Over(Outside(before, f), req[c].doc)
      BY <1>1, <1>4, <1>5, <2>2, <2>3, <2>4, FilesDamage
    <3>2. QED
      BY <1>7, <2>1, <2>4, <3>1
  <2>5. CASE Tears(f, req[c].doc) /\ Go(c, "undo")
    <3>1. Abstract!Damages(ask, before, intent')
      BY <1>1, <1>4, <1>5, <2>2, <2>3, <2>5, FilesDamage
    <3>2. QED
      BY <1>7, <2>5, <3>1
  <2>6. QED
    BY <1>2, <1>11, <2>4, <2>5 DEF Fill
<1>12. CASE Check(c)
  <2>1. intent' = intent
    BY <1>12 DEF Check, files
  <2>2. Go(c, "undo") \/ Go(c, "reopen")
    BY <1>2, <1>12 DEF Check
  <2>3. QED
    BY <1>5, <1>7, <2>1, <2>2
<1>13. CASE Reopen(c)
  <2>1. Opens(f) /\ Go(c, "refill")
    BY <1>2, <1>13 DEF Reopen
  <2>2. QED
    BY <1>7, <1>8, <2>1
<1>14. QED
  BY <1>9, <1>10, <1>11, <1>12, <1>13

LEMMA CommandStepDone ==
  ASSUME TypeInv, LockInv, LockInv', IntentInv, NEW c \in Client, CommandStep(c)
  PROVE  IntentInv'
<1>1. CASE Ends(c)
  BY <1>1, NobodyInside DEF Ends, Return
<1>2. CASE CreateUndo(c) \/ Refill(c) \/ (ChangeLoad(c) /\ Refuse(c))
  <2>1. Ends(c)
    BY <1>2 DEF CreateUndo, Refill, Refuse, Reply, Fault, Ends
  <2>2. QED
    BY <1>1, <2>1
<1>3. QED
  BY <1>1, <1>2, CreateStepDone, ChangeLoadDone, WriteStepDone DEF CommandStep

LEMMA OtherDone ==
  ASSUME TypeInv, LockInv, LockInv', IntentInv, NEW c \in Client, ~Inside(c),
         UNCHANGED <<createMu, before, intent>>, NEW r, req' = [req EXCEPT ![c] = r]
  PROVE  IntentInv'
  BY DoneKept DEF TypeInv

LEMMA StepDone == LocalInv /\ [Next]_vars => IntentInv'
<1> SUFFICES ASSUME LocalInv, [Next]_vars PROVE IntentInv'
  OBVIOUS
<1> USE DEF LocalInv
<1>1. LockInv' /\ TypeInv'
  BY StepLocks, StepTypes
<1>2. ASSUME NEW c \in Client, Lock(c) \/ Step(c) PROVE IntentInv'
  <2>1. CASE Lock(c)
    BY <1>1, <2>1, LockDone
  <2>2. CASE CommandStep(c)
    BY <1>1, <2>2, CommandStepDone
  <2>3. CASE \/ PlanLoad(c) \/ PlanCompile(c) \/ PlanUnit(c) \/ PlanStored(c) \/ CliEnds(c) \/ CliConfirms(c)
             \/ \E u \in Units : ApplyUnit(c, u) \/ ApplyFails(c, u)
             \/ ApplyDone(c)
    <3>1. req[c].at \in {"load", "compile", "init", "apply"} /\ UNCHANGED <<createMu, before, intent>>
      BY <2>3 DEF PlanLoad, PlanCompile, PlanUnit, PlanStored, CliEnds, CliConfirms, ApplyUnit, ApplyFails,
                  ApplyDone, Abandon, Finish, documents, files, engine, At
    <3>2. ASSUME NEW d \in Client, Inside(d) PROVE req'[d] = req[d]
      <4>1. d # c
        BY <3>1, <3>2 DEF Inside, Commanding, Creating, Changing, Filling
      <4>2. QED
        BY <2>3, <4>1 DEF PlanLoad, PlanCompile, PlanUnit, PlanStored, CliEnds, CliConfirms, ApplyUnit, ApplyFails,
                  ApplyDone, Abandon, Finish, TypeInv
    <3>3. QED
      BY <1>1, <3>1, <3>2, DoneKept
  <2>4. QED
    BY <1>2, <2>1, <2>2, <2>3 DEF Step, CommandStep
<1>3. ASSUME NEW c \in Client, At(c, "idle"), UNCHANGED <<createMu, before, intent>>,
             NEW r, req' = [req EXCEPT ![c] = r]
      PROVE  IntentInv'
  BY <1>1, <1>3, OtherDone DEF At, Inside, Commanding, Creating, Changing, Filling
<1>4. ASSUME NEW c \in Client, NEW op, NEW n, NEW p, Command(c, op, n, p) PROVE IntentInv'
  BY <1>3, <1>4 DEF Command, Arrive, documents, files
<1>5. ASSUME NEW c \in Client, NEW op, NEW allow, Plan(c, op, allow) PROVE IntentInv'
  BY <1>3, <1>5 DEF Plan, Arrive, documents, files
<1>6. ASSUME NEW c \in Client, NEW i, NEW allow, Apply(c, i, allow) PROVE IntentInv'
  BY <1>3, <1>6 DEF Apply, Arrive, documents, files
<1>7. CASE UNCHANGED <<createMu, before, intent, req>>
  BY <1>1, <1>7, DoneKept
<1>8. CASE Crash
  BY <1>1, <1>8, NobodyInside DEF Crash
<1>9. QED
  BY <1>2, <1>4, <1>5, <1>6, <1>7, <1>8 DEF Next, Expire, EditIntent, EditCode, Edit, documents, files, vars

-----------------------------------------------------------------------------
(* The commands implement atomic ones. *)

\* What the clients see of intent, and what they have asked for.
Shown == IF createMu = None THEN intent ELSE before
Wanted == [c \in Client |-> Ask(req[c])]

LEMMA NothingAsked == Ask(Idle) = Abstract!Nothing
  BY DEF Ask, Idle, Abstract!Nothing, Abstract!Ask

LEMMA WantedNow ==
  ASSUME TypeInv, NEW c \in Client, NEW r, req' = [req EXCEPT ![c] = r]
  PROVE  Wanted[c] = Ask(req[c]) /\ Wanted' = [Wanted EXCEPT ![c] = Ask(r)]
<1>1. req \in [Client -> Request]
  BY DEF TypeInv
<1>2. Wanted' = [d \in Client |-> Ask(req'[d])]
  BY DEF Wanted, Ask
<1>3. \A d \in Client : req'[d] = IF d = c THEN r ELSE req[d]
  BY <1>1
<1>4. [Wanted EXCEPT ![c] = Ask(r)] = [d \in Client |-> IF d = c THEN Ask(r) ELSE Ask(req[d])]
  BY DEF Wanted
<1>5. Wanted' = [d \in Client |-> IF d = c THEN Ask(r) ELSE Ask(req[d])]
  BY <1>2, <1>3
<1>6. QED
  BY <1>4, <1>5 DEF Wanted

LEMMA InitFleet == Init => Abstract!Init
<1> SUFFICES ASSUME Init PROVE Abstract!Init
  OBVIOUS
<1>1. Wanted = [c \in Client |-> Abstract!Nothing]
  BY NothingAsked DEF Init, Wanted
<1>2. QED
  BY <1>1 DEF Init, Abstract!Init, Wanted, Ask

LEMMA SameFleet ==
  ASSUME UNCHANGED <<Shown, Wanted, answer, count>>
  PROVE  UNCHANGED Abstract!vars
  BY DEF Abstract!vars, Shown, Wanted, Ask

\* A request answers.
LEMMA AnswerFleet ==
  ASSUME TypeInv, NEW c \in Client, req[c].op # "none", NEW a,
         answer' = [answer EXCEPT ![c] = a], req' = [req EXCEPT ![c] = Idle]
  PROVE  Abstract!Answer(c, a)
<1>1. Wanted[c] = Ask(req[c]) /\ Wanted' = [Wanted EXCEPT ![c] = Abstract!Nothing]
  BY WantedNow, NothingAsked
<1>2. Wanted[c] # Abstract!Nothing
  <2>1. Wanted[c].op = req[c].op
    BY <1>1 DEF Ask
  <2>2. Abstract!Nothing.op = "none"
    BY DEF Abstract!Nothing, Abstract!Ask
  <2>3. QED
    BY <2>1, <2>2
<1>3. QED
  BY <1>1, <1>2 DEF Wanted, Ask, Abstract!Answer

LEMMA ReturnFleet ==
  ASSUME TypeInv, LockInv, IntentInv, NEW c \in Client, Inside(c), NEW a, Return(c, a)
  PROVE  Abstract!Answer(c, a) /\ Shown = before /\ Shown' = intent'
<1>1. createMu = c /\ c # None /\ req[c].op # "none"
  BY InsideKnown
<1>2. QED
  BY <1>1, AnswerFleet DEF Return, Shown

LEMMA RefusedFleet ==
  ASSUME TypeInv, LockInv, IntentInv, NEW c \in Client, Inside(c), Reply(c, "error"), intent' = before
  PROVE  Abstract!Next
<1>1. Abstract!Answer(c, "error") /\ Shown' = Shown /\ count' = count
  BY ReturnFleet DEF Reply
<1>2. Abstract!Refuse(c)
  BY <1>1 DEF Abstract!Refuse, Shown
<1>3. QED
  BY <1>2 DEF Abstract!Next

LEMMA FaultFleet ==
  ASSUME TypeInv, LockInv, IntentInv, NEW c \in Client, Inside(c), Fault(c),
         Abstract!Damages(Ask(req[c]), before, intent')
  PROVE  Abstract!Next
<1>1. Abstract!Answer(c, "error") /\ Shown = before /\ Shown' = intent'
  BY ReturnFleet DEF Fault
<1>2. count'.faults = count.faults + 1
  BY DEF Fault, TypeInv
<1>3. Wanted[c] = Ask(req[c])
  BY DEF Wanted
<1>4. Abstract!Damages(Wanted[c], Shown, Shown')
  BY <1>1, <1>3
<1>5. Abstract!Fail(c)
  BY <1>1, <1>2, <1>4 DEF Abstract!Fail, Shown, Wanted, Ask
<1>6. QED
  BY <1>5 DEF Abstract!Next

LEMMA MovesFleet ==
  ASSUME TypeInv, LockInv, IntentInv, NEW c \in Client, Inside(c), Moves(c)
  PROVE  UNCHANGED Abstract!vars
<1>1. /\ createMu = c /\ c # None /\ req[c] \in Request /\ req \in [Client -> Request]
  BY InsideKnown DEF TypeInv
<1>2. PICK step \in StepsOf(req[c].op), f \in Name \cup {None}, doc \in Documents, src \in Documents :
        Moved(c, step, f, doc, src)
  BY DEF Moves
<1> DEFINE r == [req[c] EXCEPT !.at = step, !.file = f, !.doc = doc, !.src = src]
<1>3. req' = [req EXCEPT ![c] = r]
  BY <1>2 DEF Moved
<1>4. r.op = req[c].op /\ r.name = req[c].name /\ r.power = req[c].power
  BY <1>1 DEF Request
<1> HIDE DEF r
<1>5. Ask(r) = Ask(req[c])
  BY <1>4 DEF Ask
<1>6. Wanted' = [Wanted EXCEPT ![c] = Wanted[c]]
  BY <1>3, <1>5, WantedNow
<1>7. Wanted' = Wanted
  BY <1>6 DEF Wanted
<1>8. QED
  BY <1>1, <1>2, <1>7, SameFleet DEF Moved, Shown

\* Steps end or go on.
LEMMA EndsNotGo ==
  ASSUME TypeInv, NEW c \in Client, Inside(c), Ends(c), NEW step, step # "idle"
  PROVE  ~Go(c, step)
<1>1. req' = [req EXCEPT ![c] = Idle] /\ req \in [Client -> Request] /\ req[c] \in Request
  BY DEF Ends, Return, TypeInv
<1>2. req'[c].at = "idle"
  BY <1>1 DEF Idle
<1>3. ASSUME Go(c, step) PROVE req'[c].at = step
  BY <1>1, <1>3 DEF Go, Goto, Request
<1>4. QED
  BY <1>2, <1>3

LEMMA OutsideNone ==
  ASSUME NEW g \in Documents, NEW f, \A m \in DOMAIN g : g[m].file # f
  PROVE  Outside(g, f) = g
<1>1. g \in [DOMAIN g -> Document]
  BY DocumentsAre
<1>2. {k \in DOMAIN g : g[k].file # f} = DOMAIN g
  OBVIOUS
<1>3. QED
  BY <1>1, <1>2 DEF Outside, Abstract!Outside

LEMMA OverBack ==
  ASSUME NEW g \in Documents, NEW f
  PROVE  Over(Outside(g, f), In(g, f)) = g
<1> DEFINE out == {k \in DOMAIN g : g[k].file # f}
           in == {k \in DOMAIN g : g[k].file = f}
<1>1. g = [m \in DOMAIN g |-> g[m]]
  BY DocumentsAre
<1>2. Outside(g, f) = [m \in out |-> g[m]] /\ In(g, f) = [m \in in |-> g[m]]
  BY DEF Outside, Abstract!Outside, In
<1>3. out \cup in = DOMAIN g
  OBVIOUS
<1>4. Over(Outside(g, f), In(g, f)) = [m \in DOMAIN g |-> IF m \in in THEN g[m] ELSE Outside(g, f)[m]]
  BY <1>2, <1>3 DEF Over, Abstract!Over
<1>5. \A m \in DOMAIN g : m \notin in => Outside(g, f)[m] = g[m]
  BY <1>2
<1>6. QED
  BY <1>1, <1>4, <1>5

Powered(machines, n, p) == [machines EXCEPT ![n].power = p]

LEMMA PowerOver ==
  ASSUME NEW g \in Documents, NEW n \in DOMAIN g, NEW p, NEW f, f = g[n].file
  PROVE  Over(Outside(g, f), Powered(In(g, f), n, p)) = Powered(g, n, p)
<1> DEFINE out == {k \in DOMAIN g : g[k].file # f}
           in == {k \in DOMAIN g : g[k].file = f}
           vm == [g[n] EXCEPT !.power = p]
           doc == Powered(In(g, f), n, p)
<1>1. g = [m \in DOMAIN g |-> g[m]]
  BY DocumentsAre
<1>2. Outside(g, f) = [m \in out |-> g[m]] /\ In(g, f) = [m \in in |-> g[m]] /\ n \in in
  BY DEF Outside, Abstract!Outside, In
<1>3. doc = [In(g, f) EXCEPT ![n] = [In(g, f)[n] EXCEPT !.power = p]]
  BY DEF Powered
<1>4. In(g, f)[n] = g[n]
  BY <1>2
<1> HIDE DEF vm, doc
<1>5. doc = [m \in in |-> IF m = n THEN vm ELSE g[m]]
  BY <1>2, <1>3, <1>4 DEF vm
<1>6. out \cup in = DOMAIN g
  OBVIOUS
<1>7. Over(Outside(g, f), doc)
        = [m \in DOMAIN g |-> IF m \in in THEN (IF m = n THEN vm ELSE g[m]) ELSE Outside(g, f)[m]]
  BY <1>2, <1>5, <1>6 DEF Over, Abstract!Over
<1>8. \A m \in DOMAIN g : m \notin in => Outside(g, f)[m] = g[m]
  BY <1>2
<1>9. Over(Outside(g, f), doc) = [m \in DOMAIN g |-> IF m = n THEN vm ELSE g[m]]
  BY <1>2, <1>7, <1>8
<1>10. [g EXCEPT ![n] = vm] = [m \in DOMAIN g |-> IF m = n THEN vm ELSE g[m]]
  BY <1>1
<1>11. QED
  BY <1>9, <1>10 DEF vm, doc, Powered

\* A create answers "ok".
LEMMA CreatedFleet ==
  ASSUME TypeInv, LockInv, IntentInv, NEW c \in Client, At(c, "check"), req[c].op = "create",
         Reply(c, "ok"), intent' = intent
  PROVE  Abstract!Next
<1> DEFINE n == req[c].name
<1>1. Inside(c)
  BY DEF At, Inside, Commanding, Filling
<1>2. Done(req[c], before, intent)
  BY <1>1, InsideKnown
<1>3. /\ n \notin DOMAIN before /\ \A m \in DOMAIN before : before[m].file # n
      /\ req[c].file = n /\ intent = Over(Outside(before, n), req[c].doc)
  BY <1>2 DEF Done, At, Filling
<1>4. PICK id \in Ids \ Abstract!Taken(before, n) :
        req[c].doc = Only(n, [vmid |-> id, power |-> "running", file |-> n])
  BY <1>2 DEF Done, At, Filling
<1>5. Outside(before, n) = before
  BY <1>1, <1>3, InsideKnown, OutsideNone
<1>6. Shown = before /\ Shown' = Over(before, Only(n, [vmid |-> id, power |-> "running", file |-> n]))
      /\ Abstract!Answer(c, "ok")
  BY <1>1, <1>3, <1>4, <1>5, ReturnFleet DEF Reply
<1>7. Wanted[c].op = "create" /\ Wanted[c].name = n /\ count' = count
  BY DEF Wanted, Ask, Reply
<1>8. Abstract!Create(c)
  BY <1>3, <1>6, <1>7 DEF Abstract!Create, Shown, Wanted, Ask, Over, Only
<1>9. QED
  BY <1>8 DEF Abstract!Next

\* Start, stop and delete answer "ok".
LEMMA ChangedFleet ==
  ASSUME TypeInv, LockInv, IntentInv, NEW c \in Client, At(c, "check"), req[c].op # "create",
         Reply(c, "ok"), intent' = intent
  PROVE  Abstract!Next
<1> DEFINE n == req[c].name
           f == before[n].file
<1>1. Inside(c)
  BY DEF At, Inside, Commanding, Filling
<1>2. /\ Done(req[c], before, intent) /\ before \in Documents /\ req[c].op \in {"power", "delete"}
      /\ req[c] \in Request
  BY <1>1, InsideKnown
<1>3. /\ n \in DOMAIN before /\ req[c].file = f /\ req[c].src = In(before, f)
      /\ req[c].doc = [In(before, f) EXCEPT ![n].power = req[c].power]
      /\ intent = IF req[c].op = "delete" THEN Outside(before, f) ELSE Over(Outside(before, f), req[c].doc)
  BY <1>2 DEF Done, At
<1>4. Shown = before /\ Shown' = intent /\ Abstract!Answer(c, "ok")
  BY <1>1, ReturnFleet DEF Reply
<1>5. Wanted[c].op = req[c].op /\ Wanted[c].name = n /\ Wanted[c].power = req[c].power /\ count' = count
  BY DEF Wanted, Ask, Reply
<1>6. CASE req[c].op = "delete"
  <2>1. Abstract!Delete(c)
    BY <1>3, <1>4, <1>5, <1>6 DEF Abstract!Delete, Shown, Wanted, Ask, Outside
  <2>2. QED
    BY <2>1 DEF Abstract!Next
<1>7. CASE req[c].op = "power"
  <2> HIDE DEF f
  <2>0. n \in DOMAIN before /\ f = before[n].file
    BY <1>3 DEF f
  <2>1. Over(Outside(before, f), Powered(In(before, f), n, req[c].power)) = Powered(before, n, req[c].power)
    BY <1>2, <2>0, PowerOver
  <2>2. intent = [before EXCEPT ![n].power = req[c].power]
    BY <1>3, <1>7, <2>1 DEF Powered
  <2>3. Abstract!SetPower(c)
    BY <1>4, <1>5, <1>7, <2>0, <2>2 DEF Abstract!SetPower, Shown, Wanted, Ask
  <2>4. QED
    BY <2>3 DEF Abstract!Next
<1>8. QED
  BY <1>2, <1>6, <1>7

LEMMA CreateFleet ==
  ASSUME TypeInv, LockInv, IntentInv, NEW c \in Client,
         CreateLoad(c) \/ CreateOpen(c) \/ CreateUndo(c), Ends(c)
  PROVE  Abstract!Next
<1> DEFINE n == req[c].name
<1>1. Inside(c) /\ Done(req[c], before, intent) /\ before \in Documents /\ intent \in Documents
      /\ req[c].at \in StepsOf(req[c].op)
  BY StepInside, InsideKnown DEF CommandStep
<1>2. CASE CreateLoad(c) \/ CreateOpen(c)
  <2>1. intent = before
    BY <1>1, <1>2 DEF CreateLoad, CreateOpen, At, Done
  <2>2. Refuse(c)
    BY <1>1, <1>2, EndsNotGo DEF CreateLoad, CreateOpen
  <2>3. QED
    BY <1>1, <2>1, <2>2, RefusedFleet DEF Refuse, files
<1>3. CASE CreateUndo(c)
  <2>1. req[c].op = "create" /\ n \notin DOMAIN before /\ \A m \in DOMAIN before : before[m].file # n
    BY <1>1, <1>3 DEF CreateUndo, At, StepsOf, Changing, Filling, Done
  <2>2. Abstract!Damages(Ask(req[c]), before, intent)
    BY <1>1 DEF Done
  <2>3. CASE Removes(n) /\ Reply(c, "error")
    <3>1. Abstract!FileOf(before, Ask(req[c]).name) = n
      BY <2>1 DEF Abstract!FileOf, Ask
    <3>2. intent' = Outside(before, n)
      BY <1>1, <2>2, <2>3, <3>1, DamagesInside DEF Removes
    <3>3. intent' = before
      BY <1>1, <2>1, <3>2, OutsideNone
    <3>4. QED
      BY <1>1, <2>3, <3>3, RefusedFleet
  <2>4. CASE Fault(c) /\ UNCHANGED files
    BY <1>1, <2>2, <2>4, FaultFleet DEF files
  <2>5. QED
    BY <1>3, <2>3, <2>4 DEF CreateUndo
<1>4. QED
  BY <1>2, <1>3

\* What was read is back.
LEMMA RefillFleet ==
  ASSUME TypeInv, LockInv, IntentInv, NEW c \in Client, Refill(c)
  PROVE  Abstract!Next
<1> DEFINE n == req[c].name
           f == req[c].file
           ask == Ask(req[c])
<1>1. /\ Inside(c) /\ Done(req[c], before, intent) /\ before \in Documents /\ intent \in Documents
      /\ req[c].at \in StepsOf(req[c].op) /\ req[c] \in Request
  BY StepInside, InsideKnown DEF CommandStep
<1>2. req[c].op # "create" /\ req[c].op \in {"power", "delete"}
  BY <1>1, InsideKnown DEF Refill, At, StepsOf, Creating, Filling
<1>3. n \in DOMAIN before /\ f = before[n].file /\ req[c].src = In(before, f) /\ req[c].src \in Documents
  BY <1>1, <1>2 DEF Refill, At, Done, Request
<1>4. Abstract!Damages(ask, before, intent) /\ f = Abstract!FileOf(before, ask.name)
      /\ ask.op \in {"create", "power", "delete"}
  BY <1>1, <1>2, <1>3 DEF Done, Abstract!FileOf, Ask
<1>5. AllFit(ask, before, req[c].src)
  BY <1>1, <1>2, DocFits DEF Refill, At
<1>6. CASE Writes(f, req[c].src) /\ Reply(c, "error")
  <2>1. intent' = Over(Outside(before, f), In(before, f))
    BY <1>1, <1>3, <1>4, <1>5, <1>6, FilesDamage
  <2>2. intent' = before
    BY <1>1, <2>1, OverBack
  <2>3. QED
    BY <1>1, <1>6, <2>2, RefusedFleet
<1>7. CASE Tears(f, req[c].src) /\ Fault(c)
  <2>1. Abstract!Damages(ask, before, intent')
    BY <1>1, <1>3, <1>4, <1>5, <1>7, FilesDamage
  <2>2. QED
    BY <1>1, <1>7, <2>1, FaultFleet
<1>8. QED
  BY <1>6, <1>7 DEF Refill

\* The other steps of a command that answer.
LEMMA WriteFleet ==
  ASSUME TypeInv, LockInv, IntentInv, NEW c \in Client,
         ChangeLoad(c) \/ DeleteRemove(c) \/ Truncate(c) \/ Fill(c) \/ Check(c) \/ Reopen(c), Ends(c)
  PROVE  Abstract!Next
<1> DEFINE f == req[c].file
           ask == Ask(req[c])
<1>1. /\ Inside(c) /\ Done(req[c], before, intent) /\ before \in Documents /\ intent \in Documents
      /\ req[c].op \in {"create", "power", "delete"} /\ req[c] \in Request
  BY StepInside, InsideKnown DEF CommandStep
<1>2. Abstract!Damages(ask, before, intent) /\ ask.op \in {"create", "power", "delete"}
  BY <1>1 DEF Done, Ask
<1>3. ASSUME Refuse(c), intent = before PROVE Abstract!Next
  BY <1>1, <1>3, RefusedFleet DEF Refuse, files
<1>4. CASE ChangeLoad(c)
  <2>1. intent = before
    BY <1>1, <1>4 DEF ChangeLoad, At, Done
  <2>2. CASE Refuse(c)
    BY <1>3, <2>1, <2>2
  <2>3. CASE ~Refuse(c)
    <3>1. createMu = c /\ createMu' = createMu /\ c # None
      BY <1>1, <1>4, <2>3, InsideKnown DEF ChangeLoad
    <3>2. QED
      BY <3>1 DEF Ends, Return
  <2>4. QED
    BY <2>2, <2>3
<1>5. CASE DeleteRemove(c)
  <2>1. Refuse(c)
    BY <1>1, <1>5, EndsNotGo DEF DeleteRemove
  <2>2. intent = before
    BY <1>1, <1>5 DEF DeleteRemove, At, Done
  <2>3. QED
    BY <1>3, <2>1, <2>2
<1>6. CASE Truncate(c)
  <2>1. Refuse(c) /\ req[c].op # "create"
    BY <1>1, <1>6, EndsNotGo DEF Truncate
  <2>2. intent = before
    BY <1>1, <1>6, <2>1 DEF Truncate, At, Done
  <2>3. QED
    BY <1>3, <2>1, <2>2
<1>7. CASE Fill(c)
  <2>1. Tears(f, req[c].doc) /\ Fault(c)
    BY <1>1, <1>7, EndsNotGo DEF Fill
  <2>2. f \in Name /\ f = Abstract!FileOf(before, ask.name)
    BY <1>7, FileKnown DEF Fill, At, Filling, Ask
  <2>3. req[c].doc \in Documents /\ AllFit(ask, before, req[c].doc)
    BY <1>1, <1>7, DocFits DEF Fill, At, Filling, Request
  <2>4. Abstract!Damages(ask, before, intent')
    BY <1>1, <1>2, <2>1, <2>2, <2>3, FilesDamage
  <2>5. QED
    BY <1>1, <2>1, <2>4, FaultFleet
<1>8. CASE Check(c)
  <2>1. Reply(c, "ok") /\ intent' = intent
    BY <1>1, <1>8, EndsNotGo DEF Check, files
  <2>2. QED
    BY <1>8, <2>1, CreatedFleet, ChangedFleet DEF Check
<1>9. CASE Reopen(c)
  <2>1. Fault(c) /\ UNCHANGED files
    BY <1>1, <1>9, EndsNotGo DEF Reopen
  <2>2. QED
    BY <1>1, <1>2, <2>1, FaultFleet DEF files
<1>10. QED
  BY <1>4, <1>5, <1>6, <1>7, <1>8, <1>9

LEMMA CommandFleet ==
  ASSUME TypeInv, LockInv, IntentInv, NEW c \in Client, CommandStep(c)
  PROVE  [Abstract!Next]_(Abstract!vars)
<1>1. CASE Moves(c)
  <2>1. UNCHANGED Abstract!vars
    BY <1>1, StepInside, MovesFleet
  <2>2. QED
    BY <2>1
<1>2. CASE Ends(c)
  <2>1. ~CreateWrite(c) /\ ~CreateAdmit(c)
    <3>1. Inside(c) /\ createMu = c /\ c # None
      BY StepInside, InsideKnown
    <3>2. createMu' = None
      BY <1>2 DEF Ends, Return
    <3>3. QED
      BY <3>1, <3>2 DEF CreateWrite, CreateAdmit, Go
  <2>2. Abstract!Next
    BY <1>2, <2>1, CreateFleet, RefillFleet, WriteFleet DEF CommandStep
  <2>3. QED
    BY <2>2
<1>3. QED
  BY <1>1, <1>2, StepMoves

\* A request that arrives.
LEMMA BeginFleet ==
  ASSUME TypeInv, LockInv, NEW c \in Client, At(c, "idle"),
         NEW r, req' = [req EXCEPT ![c] = r], Ask(r) \in Abstract!Asks,
         answer' = [answer EXCEPT ![c] = "none"], UNCHANGED <<intent, createMu, before>>,
         count'.faults = count.faults
  PROVE  Abstract!Next
<1>1. Wanted[c] = Abstract!Nothing /\ Wanted' = [Wanted EXCEPT ![c] = Ask(r)]
  BY WantedNow, NothingAsked DEF LockInv
<1>2. Abstract!Begin(c)
  BY <1>1 DEF Abstract!Begin, Wanted, Ask, Shown
<1>3. QED
  BY <1>2 DEF Abstract!Next

\* A plan or an apply that answers.
LEMMA FinishFleet ==
  ASSUME TypeInv, LockInv, NEW c \in Client, req[c].op \in {"plan", "cli", "apply"},
         NEW a \in {"ok", "error"}, Finish(c, a)
  PROVE  Abstract!Next
<1>1. Abstract!Answer(c, a)
  BY AnswerFleet DEF Finish
<1>2. Wanted[c].op = req[c].op
  BY DEF Wanted, Ask
<1>3. UNCHANGED <<intent, createMu, before, count>>
  BY DEF Finish, documents, files
<1>4. CASE a = "ok"
  <2>1. Abstract!Other(c)
    BY <1>1, <1>2, <1>3, <1>4 DEF Abstract!Other, Wanted, Ask
  <2>2. QED
    BY <2>1 DEF Abstract!Next
<1>5. CASE a = "error"
  <2>1. Abstract!Refuse(c)
    BY <1>1, <1>3, <1>5 DEF Abstract!Refuse
  <2>2. QED
    BY <2>1 DEF Abstract!Next
<1>6. QED
  BY <1>4, <1>5

\* A request that goes on, and still wants what it wanted.
LEMMA SameWanted ==
  ASSUME TypeInv, NEW c \in Client, NEW r, req' = [req EXCEPT ![c] = r], Ask(r) = Ask(req[c])
  PROVE  Wanted' = Wanted
<1>1. Wanted' = [Wanted EXCEPT ![c] = Wanted[c]]
  BY WantedNow
<1>2. QED
  BY <1>1 DEF Wanted

LEMMA PlanFleet ==
  ASSUME TypeInv, LockInv, NEW c \in Client,
         \/ PlanLoad(c) \/ PlanCompile(c) \/ PlanUnit(c) \/ PlanStored(c) \/ CliEnds(c) \/ CliConfirms(c)
         \/ \E u \in Units : ApplyUnit(c, u) \/ ApplyFails(c, u)
         \/ ApplyDone(c)
  PROVE  [Abstract!Next]_(Abstract!vars)
<1>1. req[c].op \in {"plan", "cli", "apply"} /\ req[c] \in Request /\ req \in [Client -> Request]
  BY DEF PlanLoad, PlanCompile, PlanUnit, PlanStored, CliEnds, CliConfirms, ApplyUnit, ApplyFails, ApplyDone, At,
         LockInv, TypeInv
<1>2. CASE \E a \in {"ok", "error"} : Finish(c, a)
  BY <1>1, <1>2, FinishFleet
<1>3. CASE ~\E a \in {"ok", "error"} : Finish(c, a)
  <2>1. UNCHANGED <<documents, answer, count>>
    BY <1>3 DEF PlanLoad, PlanCompile, PlanUnit, PlanStored, CliEnds, CliConfirms, ApplyUnit, ApplyFails, ApplyDone,
         Abandon
  <2>2. \A d \in Client : Ask(req'[d]) = Ask(req[d])
    <3>1. CASE PlanLoad(c)
      BY <1>1, <1>3, <3>1 DEF PlanLoad, Abandon, Ask, Request
    <3>2. CASE PlanCompile(c)
      <4>1. PICK selected : req' = [req EXCEPT ![c].at = "init", ![c].seen = Written, ![c].todo = selected]
        BY <1>3, <3>2 DEF PlanCompile, Abandon
      <4>2. QED
        BY <1>1, <4>1 DEF Ask, Request
    <3>3. CASE PlanUnit(c)
      <4>1. PICK todo, plan : req' = [req EXCEPT ![c].todo = todo, ![c].plan = plan]
        BY <1>3, <3>3 DEF PlanUnit, Abandon
      <4>2. QED
        BY <1>1, <4>1 DEF Ask, Request
    <3>4. CASE CliConfirms(c)
      <4>1. PICK todo, plan : req' = [req EXCEPT ![c].at = "apply", ![c].plan = plan, ![c].todo = todo]
        BY <3>4 DEF CliConfirms
      <4>2. QED
        BY <1>1, <4>1 DEF Ask, Request
    <3>5. CASE \E u \in Units : ApplyUnit(c, u) \/ ApplyFails(c, u)
      BY <1>1, <1>3, <3>5 DEF ApplyUnit, ApplyFails, Ask, Request
    <3>6. CASE PlanStored(c) \/ CliEnds(c) \/ ApplyDone(c)
      BY <1>3, <3>6 DEF PlanStored, CliEnds, ApplyDone
    <3>7. QED
      BY <3>1, <3>2, <3>3, <3>4, <3>5, <3>6
  <2>3. Wanted' = Wanted
    <3>1. Wanted' = [d \in Client |-> Ask(req'[d])]
      BY DEF Wanted, Ask
    <3>2. QED
      BY <2>2, <3>1 DEF Wanted
  <2>4. UNCHANGED Abstract!vars
    BY <2>1, <2>3, SameFleet DEF documents, files, Shown
  <2>5. QED
    BY <2>4
<1>4. QED
  BY <1>2, <1>3

\* A crash leaves what the command had made of intent.
LEMMA CrashFleet ==
  ASSUME TypeInv, LockInv, IntentInv, Crash
  PROVE  Abstract!Crash
<1>1. /\ Shown' = intent /\ answer' = [c \in Client |-> "none"]
      /\ req' = [c \in Client |-> IF req[c].op = "cli" THEN req[c] ELSE Idle]
      /\ count'.faults = count.faults
  BY DEF Crash, Shown, files, TypeInv
<1>2. Wanted' = [c \in Client |-> IF Wanted[c].op = "cli" THEN Wanted[c] ELSE Abstract!Nothing]
  <2>1. Wanted' = [c \in Client |-> Ask(req'[c])]
    BY DEF Wanted, Ask
  <2>2. \A c \in Client : Ask(req'[c]) = IF req[c].op = "cli" THEN Ask(req[c]) ELSE Abstract!Nothing
    BY <1>1, NothingAsked
  <2>3. \A c \in Client : Wanted[c] = Ask(req[c]) /\ Wanted[c].op = req[c].op
    BY DEF Wanted, Ask
  <2>4. QED
    BY <2>1, <2>2, <2>3
<1>3. Shown' = Shown \/ \E c \in Client : Abstract!Damages(Wanted[c], Shown, Shown')
  <2>1. CASE createMu = None
    BY <1>1, <2>1 DEF Shown
  <2>2. CASE createMu # None
    <3>1. createMu \in Client /\ Shown = before
      BY <2>2 DEF TypeInv, Shown
    <3>2. Done(req[createMu], before, intent)
      BY <3>1 DEF LockInv, IntentInv
    <3>3. Abstract!Damages(Wanted[createMu], before, intent)
      BY <3>1, <3>2 DEF Done, Wanted
    <3>4. QED
      BY <1>1, <3>1, <3>3
  <2>3. QED
    BY <2>1, <2>2
<1>4. QED
  BY <1>1, <1>2, <1>3 DEF Abstract!Crash, Shown, Wanted, Ask

LEMMA StepFleet == LocalInv /\ [Next]_vars => [Abstract!Next]_(Abstract!vars)
<1> SUFFICES ASSUME LocalInv, [Next]_vars PROVE [Abstract!Next]_(Abstract!vars)
  OBVIOUS
<1> USE DEF LocalInv
<1>1. ASSUME UNCHANGED <<intent, createMu, before, req, answer>>, count'.faults = count.faults
      PROVE  UNCHANGED Abstract!vars
  BY <1>1 DEF Abstract!vars
<1>2. ASSUME NEW c \in Client, NEW op \in {"create", "power", "delete"}, NEW n \in Name, NEW p \in Power,
             op = "power" \/ p = "running", Command(c, op, n, p)
      PROVE  Abstract!Next
  <2> DEFINE r == [Idle EXCEPT !.at = "lock", !.op = op, !.name = n, !.power = p]
  <2>1. /\ At(c, "idle") /\ req' = [req EXCEPT ![c] = r] /\ answer' = [answer EXCEPT ![c] = "none"]
        /\ UNCHANGED <<intent, createMu, before>> /\ count'.faults = count.faults
    BY <1>2 DEF Command, Arrive, documents, files, TypeInv
  <2>2. r.op = op /\ r.name = n /\ r.power = p
    BY DEF Idle
  <2> HIDE DEF r
  <2>3. Ask(r) \in Abstract!Asks
    BY <1>2, <2>2 DEF Ask, Abstract!Asks, Abstract!Ask, Power, Abstract!Power
  <2>4. QED
    BY <2>1, <2>3, BeginFleet
<1>3. ASSUME NEW c \in Client, NEW op \in {"plan", "cli"}, NEW allow, Plan(c, op, allow)
      PROVE  Abstract!Next
  <2> DEFINE r == [Idle EXCEPT !.at = "load", !.op = op, !.allow = allow, !.id = count.requests + 1]
  <2>1. /\ At(c, "idle") /\ req' = [req EXCEPT ![c] = r] /\ answer' = [answer EXCEPT ![c] = "none"]
        /\ UNCHANGED <<intent, createMu, before>> /\ count'.faults = count.faults
    BY <1>3 DEF Plan, Arrive, documents, files, TypeInv
  <2>2. r.op = op /\ r.name = None /\ r.power = "running"
    BY DEF Idle
  <2> HIDE DEF r
  <2>3. Ask(r) \in Abstract!Asks
    BY <1>3, <2>2 DEF Ask, Abstract!Asks, Abstract!Ask
  <2>4. QED
    BY <2>1, <2>3, BeginFleet
<1>4. ASSUME NEW c \in Client, NEW i, NEW allow, Apply(c, i, allow)
      PROVE  Abstract!Next
  <2> DEFINE r == [Idle EXCEPT !.at = "apply", !.op = "apply", !.plan = plans[i],
                               !.todo = DOMAIN plans[i], !.id = i, !.allow = allow]
  <2>1. /\ At(c, "idle") /\ req' = [req EXCEPT ![c] = r] /\ answer' = [answer EXCEPT ![c] = "none"]
        /\ UNCHANGED <<intent, createMu, before>> /\ count'.faults = count.faults
    BY <1>4 DEF Apply, Arrive, documents, files, TypeInv
  <2>2. r.op = "apply" /\ r.name = None /\ r.power = "running"
    BY DEF Idle
  <2> HIDE DEF r
  <2>3. Ask(r) \in Abstract!Asks
    BY <2>2 DEF Ask, Abstract!Asks, Abstract!Ask
  <2>4. QED
    BY <2>1, <2>3, BeginFleet
<1>5. ASSUME NEW c \in Client, Lock(c) PROVE UNCHANGED Abstract!vars
  <2> DEFINE step == IF req[c].op = "create" THEN "create" ELSE "change"
             r == [req[c] EXCEPT !.at = step]
  <2>1. req' = [req EXCEPT ![c] = r] /\ req[c] \in Request
    BY <1>5 DEF Lock, Goto, TypeInv
  <2>2. Ask(r) = Ask(req[c])
    BY <2>1 DEF Ask, Request
  <2> HIDE DEF r
  <2>3. Wanted' = Wanted
    BY <2>1, <2>2, SameWanted
  <2>4. Shown' = Shown
    BY <1>5, LocalServerAssumption DEF Lock, Shown
  <2>5. QED
    BY <1>5, <2>3, <2>4, SameFleet DEF Lock
<1>6. ASSUME NEW c \in Client, Step(c) PROVE [Abstract!Next]_(Abstract!vars)
  <2>1. CASE CommandStep(c)
    BY <2>1, CommandFleet
  <2>2. CASE ~CommandStep(c)
    BY <1>6, <2>2, PlanFleet DEF Step, CommandStep
  <2>3. QED
    BY <2>1, <2>2
<1>7. CASE Crash
  BY <1>7, CrashFleet DEF Abstract!Next
<1>8. CASE (\E i \in DOMAIN plans : Expire(i)) \/ EditIntent \/ \E n \in DOMAIN code : EditCode(n)
  <2>1. UNCHANGED <<intent, createMu, before, req, answer>> /\ count'.faults = count.faults
    BY <1>8 DEF Expire, EditIntent, EditCode, Edit, documents, files, TypeInv
  <2>2. QED
    BY <1>1, <2>1
<1>9. CASE UNCHANGED vars
  BY <1>1, <1>9 DEF vars
<1>10. CASE \E c \in Client, n \in Name : \/ Command(c, "create", n, "running") \/ Command(c, "delete", n, "running")
                                        \/ \E p \in Abstract!Power : Command(c, "power", n, p)
  BY <1>2, <1>10 DEF Power, Abstract!Power
<1>11. CASE \E c \in Client : \/ Plan(c, "plan", FALSE)
                             \/ \E allow \in BOOLEAN : \/ Plan(c, "cli", allow)
                                                     \/ \E i \in DOMAIN plans : Apply(c, i, allow)
  BY <1>3, <1>4, <1>11
<1>12. QED
  BY <1>5, <1>6, <1>7, <1>8, <1>9, <1>10, <1>11 DEF Next

-----------------------------------------------------------------------------
(* What the plans know of the guests. *)

\* The guests of one unit change; those of the others stay.
LEMMA BecomeOnly ==
  ASSUME TypeInv, NEW u \in Units, NEW target \in Machines, Become(u, target),
         \A n \in DOMAIN target : UnitOf[n] = u
  PROVE  /\ \A n \in DOMAIN infra \ InUnit(infra, u) : n \in DOMAIN infra' /\ infra'[n] = infra[n]
         /\ \A v \in Units \ {u} : InUnit(infra', v) = InUnit(infra, v) /\ serial'[v] = serial[v]
         /\ serial[u] \in Nat
         /\ \/ serial'[u] = serial[u] + 1
            \/ serial'[u] = serial[u] /\ infra' = infra
<1>1. /\ infra' = [n \in DOMAIN target \cup (DOMAIN infra \ InUnit(infra, u)) |->
                     IF n \in DOMAIN target THEN target[n] ELSE infra[n]]
      /\ serial' = [serial EXCEPT ![u] = @ + (IF infra' # infra THEN 1 ELSE 0)]
      /\ serial \in [Units -> Nat]
  BY DEF Become, TypeInv
<1>2. \A n \in DOMAIN infra \ InUnit(infra, u) : n \in DOMAIN infra' /\ infra'[n] = infra[n]
  BY <1>1 DEF InUnit
<1>3. \A v \in Units \ {u} : InUnit(infra', v) = InUnit(infra, v) /\ serial'[v] = serial[v]
  BY <1>1 DEF InUnit
<1>4. /\ serial[u] \in Nat
      /\ \/ serial'[u] = serial[u] + 1
         \/ serial'[u] = serial[u] /\ infra' = infra
  BY <1>1
<1>5. QED
  BY <1>2, <1>3, <1>4

\* A plan stays sound: the plans of a unit that changes are stale from then on.
LEMMA SoundKept ==
  ASSUME TypeInv, NEW u \in Units, NEW target \in Machines, Become(u, target),
         \A n \in DOMAIN target : UnitOf[n] = u,
         NEW plan \in Plans, Sound(plan)
  PROVE  Sound(plan)'
<1> SUFFICES ASSUME NEW v \in DOMAIN plan
             PROVE  /\ \A n \in DOMAIN plan[v].target : UnitOf[n] = v
                    /\ plan[v].serial <= serial'[v]
                    /\ plan[v].serial = serial'[v] =>
                         plan[v].destroys = {n \in InUnit(infra', v) :
                            n \in DOMAIN plan[v].target => plan[v].target[n].vmid # infra'[n].vmid}
  BY DEF Sound
<1>1. v \in Units /\ plan[v].serial \in Nat /\ plan[v].serial <= serial[v] /\ serial[v] \in Nat
      /\ \A n \in DOMAIN plan[v].target : UnitOf[n] = v
  BY PlansAre DEF Sound, Entry, TypeInv
<1>2. CASE v # u
  <2>1. /\ InUnit(infra', v) = InUnit(infra, v) /\ serial'[v] = serial[v]
        /\ \A n \in InUnit(infra, v) : infra'[n] = infra[n]
    BY <1>1, <1>2, BecomeOnly DEF InUnit
  <2>2. QED
    BY <1>1, <2>1 DEF Sound
<1>3. CASE v = u
  <2>1. CASE serial'[u] = serial[u] + 1
    BY <1>1, <1>3, <2>1
  <2>2. CASE serial'[u] = serial[u] /\ infra' = infra
    BY <1>1, <1>3, <2>2 DEF Sound
  <2>3. QED
    BY <2>1, <2>2, BecomeOnly
<1>4. QED
  BY <1>2, <1>3

\* Plans that change are new, sound, or were there.
LEMMA PlansKept ==
  ASSUME PlanInv, UNCHANGED <<infra, serial>>,
         \A c \in Client : req'[c].plan = req[c].plan \/ Sound(req'[c].plan),
         \A i \in DOMAIN plans' : (i \in DOMAIN plans /\ plans'[i] = plans[i]) \/ Sound(plans'[i])
  PROVE  PlanInv'
<1>1. ASSUME NEW p, Sound(p), NEW q, q = p PROVE Sound(q) /\ (Sound(p))'
  BY <1>1 DEF Sound
<1>2. QED
  BY <1>1 DEF PlanInv

LEMMA NoPlanSound == Sound(NoPlan) /\ Idle.plan = NoPlan /\ DOMAIN NoPlan = {}
  BY DEF Sound, NoPlan, Idle

\* A step that leaves the guests alone.
LEMMA PlanStepPlans ==
  ASSUME LocalInv, NEW c \in Client, NEW r, req' = [req EXCEPT ![c] = r],
         r.plan = req[c].plan \/ Sound(r.plan), UNCHANGED <<infra, serial>>,
         \A i \in DOMAIN plans' : (i \in DOMAIN plans /\ plans'[i] = plans[i]) \/ Sound(plans'[i])
  PROVE  PlanInv'
<1>1. \A d \in Client : req'[d].plan = req[d].plan \/ Sound(req'[d].plan)
  BY DEF LocalInv, TypeInv
<1>2. QED
  BY <1>1, PlansKept DEF LocalInv

\* A step of a request that leaves guests and plans alone.
LEMMA SameStepPlans ==
  ASSUME LocalInv, UNCHANGED <<infra, serial, plans>>,
         \A d \in Client : req'[d].plan = req[d].plan \/ req'[d] = Idle
  PROVE  PlanInv'
<1>1. \A d \in Client : req'[d].plan = req[d].plan \/ Sound(req'[d].plan)
  BY NoPlanSound
<1>2. QED
  BY <1>1, PlansKept DEF LocalInv

\* The new plan of a unit lists what it destroys.
LEMMA UnitPlanSound ==
  ASSUME TypeInv, NEW u \in Units, NEW plan, Sound(plan)
  PROVE  Sound([v \in DOMAIN plan \cup {u} |-> IF v = u THEN UnitPlan(u) ELSE plan[v]])
<1> DEFINE new == [v \in DOMAIN plan \cup {u} |-> IF v = u THEN UnitPlan(u) ELSE plan[v]]
<1> SUFFICES ASSUME NEW v \in DOMAIN new
             PROVE  LET e == new[v]
                    IN  /\ \A n \in DOMAIN e.target : UnitOf[n] = v
                        /\ e.serial <= serial[v]
                        /\ e.serial = serial[v] =>
                             e.destroys = {n \in InUnit(infra, v) :
                                n \in DOMAIN e.target => e.target[n].vmid # infra[n].vmid}
  BY DEF Sound
<1>1. CASE v = u
  <2>1. new[v] = UnitPlan(u)
    BY <1>1
  <2>2. /\ UnitPlan(u).target = Target(u) /\ UnitPlan(u).destroys = Destroys(u) /\ UnitPlan(u).serial = serial[u]
        /\ serial[u] \in Nat
    BY DEF UnitPlan, TypeInv
  <2>3. \A n \in DOMAIN Target(u) : UnitOf[n] = u
    BY UnitPlanEntry
  <2>4. QED
    BY <1>1, <2>1, <2>2, <2>3 DEF Destroys
<1>2. CASE v # u
  <2>1. new[v] = plan[v] /\ v \in DOMAIN plan
    BY <1>2
  <2>2. QED
    BY <2>1 DEF Sound
<1>3. QED
  BY <1>1, <1>2

LEMMA PlanActionPlans ==
  ASSUME LocalInv, NEW c \in Client,
         PlanLoad(c) \/ PlanCompile(c) \/ PlanUnit(c) \/ PlanStored(c) \/ CliEnds(c) \/ CliConfirms(c)
  PROVE  PlanInv'
<1>1. req \in [Client -> Request] /\ req[c] \in Request /\ req[c].plan \in Plans /\ Sound(req[c].plan) /\ TypeInv
  BY DEF LocalInv, TypeInv, Request, PlanInv
<1>2. CASE \E a : Finish(c, a) /\ UNCHANGED quiet
  BY <1>1, <1>2, SameStepPlans DEF Finish, quiet
<1>3. CASE PlanLoad(c) /\ ~Abandon(c)
  BY <1>1, <1>3, SameStepPlans DEF PlanLoad, engine, Request
<1>4. CASE PlanCompile(c) /\ ~Abandon(c)
  <2>1. PICK selected : req' = [req EXCEPT ![c].at = "init", ![c].seen = Written, ![c].todo = selected]
    BY <1>4 DEF PlanCompile
  <2>2. UNCHANGED <<infra, serial, plans>>
    BY <1>4 DEF PlanCompile
  <2>3. QED
    BY <1>1, <2>1, <2>2, SameStepPlans DEF Request
<1>5. CASE PlanUnit(c) /\ ~Abandon(c)
  <2>1. PICK u \in req[c].todo :
          req' = [req EXCEPT ![c].todo = @ \ {u},
                  ![c].plan = [v \in DOMAIN @ \cup {u} |-> IF v = u THEN UnitPlan(u) ELSE @[v]]]
    BY <1>5 DEF PlanUnit
  <2> DEFINE plan == [v \in DOMAIN req[c].plan \cup {u} |-> IF v = u THEN UnitPlan(u) ELSE req[c].plan[v]]
             r == [req[c] EXCEPT !.todo = req[c].todo \ {u}, !.plan = plan]
  <2>2. req' = [req EXCEPT ![c] = r]
    BY <1>1, <2>1
  <2>3. u \in Units
    BY <1>1 DEF Request
  <2>4. Sound(plan)
    BY <1>1, <2>3, UnitPlanSound
  <2>5. UNCHANGED <<infra, serial, plans>>
    BY <1>5 DEF PlanUnit, engine
  <2> HIDE DEF plan
  <2>6. r.plan = plan
    BY <1>1 DEF Request
  <2> HIDE DEF r
  <2>7. QED
    BY <2>2, <2>4, <2>5, <2>6, PlanStepPlans
<1>6. CASE PlanStored(c)
  <2>1. /\ req' = [req EXCEPT ![c] = Idle] /\ UNCHANGED <<infra, serial>>
        /\ plans' = [i \in DOMAIN plans \cup {req[c].id} |-> IF i = req[c].id THEN req[c].plan ELSE plans[i]]
    BY <1>6 DEF PlanStored, Finish
  <2>2. \A i \in DOMAIN plans' : (i \in DOMAIN plans /\ plans'[i] = plans[i]) \/ Sound(plans'[i])
    BY <1>1, <2>1
  <2>3. QED
    BY <2>1, <2>2, NoPlanSound, PlanStepPlans
<1>7. CASE CliConfirms(c)
  <2> DEFINE changed == {u \in DOMAIN req[c].plan : req[c].plan[u].changes}
             plan == [u \in changed |-> req[c].plan[u]]
             r == [req[c] EXCEPT !.at = "apply", !.plan = plan, !.todo = changed]
  <2>1. req' = [req EXCEPT ![c] = r] /\ UNCHANGED <<infra, serial, plans>>
    BY <1>1, <1>7 DEF CliConfirms, engine
  <2>2. Sound(plan)
    BY <1>1 DEF Sound
  <2> HIDE DEF plan, changed
  <2>3. r.plan = plan
    BY <1>1 DEF Request
  <2> HIDE DEF r
  <2>4. QED
    BY <2>1, <2>2, <2>3, PlanStepPlans
<1>8. QED
  BY <1>2, <1>3, <1>4, <1>5, <1>6, <1>7
     DEF PlanLoad, PlanCompile, PlanUnit, PlanStored, CliEnds, CliConfirms, Abandon

\* The target of an apply that fails half way.
LEMMA HalfwayTarget ==
  ASSUME infra \in Machines, NEW u \in Units, NEW target \in Machines,
         NEW done \in SUBSET (DOMAIN target \cup InUnit(infra, u)),
         \A n \in DOMAIN target : UnitOf[n] = u
  PROVE  \A n \in DOMAIN Halfway(u, target, done) : UnitOf[n] = u
  BY DEF Halfway, InUnit

LEMMA ApplyStepPlans ==
  ASSUME LocalInv, NEW c \in Client, NEW u \in Units, ApplyUnit(c, u) \/ ApplyFails(c, u)
  PROVE  PlanInv'
<1> DEFINE target == req[c].plan[u].target
<1>1. TypeInv /\ ApplyInv /\ PlanInv /\ req[c] \in Request
  BY DEF LocalInv, TypeInv
<1>2. u \in DOMAIN req[c].plan /\ target \in Machines /\ \A n \in DOMAIN target : UnitOf[n] = u
  <2>1. At(c, "apply") /\ First(u, req[c].todo)
    BY DEF ApplyUnit, ApplyFails
  <2>2. u \in DOMAIN req[c].plan /\ target \in Machines
    BY <1>1, <2>1, NextEntry
  <2>3. Sound(req[c].plan)
    BY <1>1 DEF PlanInv
  <2>4. QED
    BY <2>2, <2>3 DEF Sound
<1>3. /\ plans' = plans
      /\ \A d \in Client : req'[d].plan = req[d].plan \/ req'[d] = Idle
  BY <1>1 DEF ApplyUnit, ApplyFails, Finish, TypeInv, Request
<1>4. CASE UNCHANGED <<infra, serial>>
  BY <1>3, <1>4, SameStepPlans
<1>5. ASSUME NEW t \in Machines, \A n \in DOMAIN t : UnitOf[n] = u, Become(u, t) PROVE PlanInv'
  <2>1. \A p \in Plans : Sound(p) => Sound(p)'
    BY <1>1, <1>5, SoundKept
  <2>2. \A d \in Client : req[d].plan \in Plans /\ Sound(req[d].plan)
    BY <1>1 DEF TypeInv, Request, PlanInv
  <2>3. \A i \in DOMAIN plans : plans[i] \in Plans /\ Sound(plans[i])
    BY <1>1 DEF TypeInv, PlanInv
  <2>4. NoPlan \in Plans /\ Sound(NoPlan) /\ Idle.plan = NoPlan
    BY NoPlanSound, IdleRequest
  <2>5. QED
    BY <1>3, <2>1, <2>2, <2>3, <2>4 DEF PlanInv
<1>6. QED
  <2>1. CASE ApplyUnit(c, u)
    BY <1>2, <1>5, <2>1 DEF ApplyUnit
  <2>2. CASE ApplyFails(c, u)
    <3>1. CASE \E done \in SUBSET (DOMAIN target \cup InUnit(infra, u)) : Become(u, Halfway(u, target, done))
      BY <1>1, <1>2, <1>5, <3>1, HalfwayMachines, HalfwayTarget DEF TypeInv
    <3>2. QED
      BY <1>4, <2>2, <3>1 DEF ApplyFails
  <2>3. QED
    BY <2>1, <2>2

\* Commands leave plans and guests alone.
LEMMA CommandLeaves ==
  ASSUME LocalInv, NEW c \in Client, CommandStep(c)
  PROVE  /\ UNCHANGED <<infra, serial, plans, applied>>
         /\ \A d \in Client : req'[d].plan = req[d].plan \/ req'[d] = Idle
         /\ \A d \in Client : req'[d] = req[d] \/ req'[d].at # "apply"
<1>1. TypeInv /\ LockInv /\ IntentInv /\ req \in [Client -> Request] /\ req[c] \in Request /\ Idle.at = "idle"
  BY DEF LocalInv, TypeInv, Idle
<1>2. CASE Ends(c)
  BY <1>1, <1>2 DEF Ends, Return, engine
<1>3. CASE Moves(c)
  <2>1. PICK step \in StepsOf(req[c].op), f \in Name \cup {None}, doc \in Documents, src \in Documents :
          Moved(c, step, f, doc, src)
    BY <1>3 DEF Moves
  <2> DEFINE r == [req[c] EXCEPT !.at = step, !.file = f, !.doc = doc, !.src = src]
  <2>2. req' = [req EXCEPT ![c] = r] /\ UNCHANGED <<infra, serial, plans, applied>>
    BY <2>1 DEF Moved, engine
  <2>3. r.plan = req[c].plan /\ r.at = step
    BY <1>1 DEF Request
  <2>4. step # "apply"
    BY DEF StepsOf, Creating, Changing, Filling
  <2> HIDE DEF r
  <2>5. QED
    BY <1>1, <2>2, <2>3, <2>4
<1>4. QED
  BY <1>1, <1>2, <1>3, StepMoves

LEMMA StepPlans == LocalInv /\ [Next]_vars => PlanInv'
<1> SUFFICES ASSUME LocalInv, [Next]_vars PROVE PlanInv'
  OBVIOUS
<1>1. req \in [Client -> Request] /\ TypeInv /\ PlanInv
  BY DEF LocalInv, TypeInv
<1>2. ASSUME NEW c \in Client, NEW r, req' = [req EXCEPT ![c] = r], UNCHANGED <<infra, serial, plans>>,
             r.plan \in {req[c].plan, NoPlan} \/ Sound(r.plan)
      PROVE  PlanInv'
  BY <1>2, NoPlanSound, PlanStepPlans
<1>3. ASSUME NEW c \in Client, NEW op, NEW n, NEW p, Command(c, op, n, p) PROVE PlanInv'
  <2> DEFINE r == [Idle EXCEPT !.at = "lock", !.op = op, !.name = n, !.power = p]
  <2>1. r.plan = NoPlan
    BY DEF Idle
  <2>2. QED
    BY <1>2, <1>3, <2>1 DEF Command, engine
<1>4. ASSUME NEW c \in Client, NEW op, NEW allow, Plan(c, op, allow) PROVE PlanInv'
  <2> DEFINE r == [Idle EXCEPT !.at = "load", !.op = op, !.allow = allow, !.id = count.requests + 1]
  <2>1. r.plan = NoPlan
    BY DEF Idle
  <2>2. QED
    BY <1>2, <1>4, <2>1 DEF Plan
<1>5. ASSUME NEW c \in Client, NEW i \in DOMAIN plans, NEW allow, Apply(c, i, allow) PROVE PlanInv'
  <2> DEFINE r == [Idle EXCEPT !.at = "apply", !.op = "apply", !.plan = plans[i],
                               !.todo = DOMAIN plans[i], !.id = i, !.allow = allow]
  <2>1. r.plan = plans[i] /\ Sound(plans[i])
    BY <1>1 DEF Idle, PlanInv
  <2>2. req' = [req EXCEPT ![c] = r] /\ UNCHANGED <<infra, serial, plans>>
    BY <1>5 DEF Apply
  <2> HIDE DEF r
  <2>3. QED
    BY <1>2, <2>1, <2>2
<1>6. ASSUME NEW c \in Client, Lock(c) PROVE PlanInv'
  BY <1>1, <1>6, SameStepPlans DEF Lock, Goto, engine, Request
<1>7. ASSUME NEW c \in Client, Step(c) PROVE PlanInv'
  <2>1. CASE CommandStep(c)
    <3>1. LocalInv /\ UNCHANGED <<infra, serial, plans>>
          /\ \A d \in Client : req'[d].plan = req[d].plan \/ req'[d] = Idle
      BY <2>1, CommandLeaves
    <3>2. QED
      BY <3>1, SameStepPlans
  <2>2. CASE ApplyDone(c)
    <3>1. req' = [req EXCEPT ![c] = Idle] /\ UNCHANGED <<infra, serial>>
      BY <2>2 DEF ApplyDone, Finish
    <3>2. \A i \in DOMAIN plans' : i \in DOMAIN plans /\ plans'[i] = plans[i]
      BY <1>1, <2>2, WithoutPlans DEF ApplyDone, TypeInv
    <3>3. QED
      BY <3>1, <3>2, NoPlanSound, PlanStepPlans
  <2>3. QED
    BY <1>7, <2>1, <2>2, PlanActionPlans, ApplyStepPlans DEF Step, CommandStep
<1>8. CASE \E i \in DOMAIN plans : Expire(i)
  <2>1. UNCHANGED <<infra, serial, req>> /\ \A i \in DOMAIN plans' : i \in DOMAIN plans /\ plans'[i] = plans[i]
    BY <1>1, <1>8, WithoutPlans DEF Expire, TypeInv
  <2>2. QED
    BY <1>1, <2>1, PlansKept
<1>9. CASE UNCHANGED <<infra, serial, plans, req>>
  BY <1>9, SameStepPlans
<1>10. CASE Crash
  <2>1. /\ UNCHANGED <<infra, serial>> /\ DOMAIN plans' = {}
        /\ \A d \in Client : req'[d] = req[d] \/ req'[d] = Idle
    BY <1>10 DEF Crash
  <2>2. \A d \in Client : req'[d].plan = req[d].plan \/ Sound(req'[d].plan)
    BY <2>1, NoPlanSound
  <2>3. QED
    BY <1>1, <2>1, <2>2, PlansKept
<1>11. QED
  BY <1>3, <1>4, <1>5, <1>6, <1>7, <1>8, <1>9, <1>10 DEF Next, EditIntent, EditCode, Edit, vars

-----------------------------------------------------------------------------
(* What has been applied. *)

\* What ApplyInv says of one request.
Applying(c) ==
  At(c, "apply") =>
    /\ req[c].todo \subseteq DOMAIN req[c].plan
    /\ DestructiveChanges(req[c].plan) # {} => req[c].allow
    /\ \A u \in DOMAIN req[c].plan \ req[c].todo : Mark(c, u) \in applied

LEMMA ApplyingKept ==
  ASSUME LocalInv, applied' = applied,
         NEW c \in Client, NEW r, req' = [req EXCEPT ![c] = r], r.at = "apply" => Applying(c)'
  PROVE  ApplyInv' /\ AppliedInOrder'
<1>1. ASSUME NEW d \in Client, d # c PROVE Applying(d)'
  <2>1. req'[d] = req[d] /\ Applying(d)
    BY <1>1 DEF LocalInv, TypeInv, ApplyInv, Applying
  <2>2. QED
    BY <2>1 DEF Applying, At, Mark, DestructiveChanges
<1>2. Applying(c)'
  <2>1. req'[c] = r
    BY DEF LocalInv, TypeInv
  <2>2. QED
    BY <2>1 DEF Applying, At
<1>3. QED
  BY <1>1, <1>2 DEF ApplyInv, Applying, LocalInv, AppliedInOrder

LEMMA ApplyingSame ==
  ASSUME LocalInv, applied' = applied,
         \A d \in Client : req'[d] = req[d] \/ req'[d].at # "apply"
  PROVE  ApplyInv' /\ AppliedInOrder'
<1>1. ASSUME NEW d \in Client PROVE Applying(d)'
  <2>1. Applying(d)
    BY DEF LocalInv, ApplyInv, Applying
  <2>2. QED
    BY <2>1 DEF Applying, At, Mark, DestructiveChanges
<1>2. QED
  BY <1>1 DEF ApplyInv, Applying, LocalInv, AppliedInOrder

\* An apply starts with everything to do, and with the leave to do it.
LEMMA ApplyingStarts ==
  ASSUME LocalInv, NEW c \in Client, NEW i \in DOMAIN plans, NEW allow, Apply(c, i, allow)
  PROVE  ApplyInv' /\ AppliedInOrder'
<1> DEFINE r == [Idle EXCEPT !.at = "apply", !.op = "apply", !.plan = plans[i],
                             !.todo = DOMAIN plans[i], !.id = i, !.allow = allow]
<1>1. req' = [req EXCEPT ![c] = r] /\ applied' = applied /\ (DestructiveChanges(plans[i]) # {} => allow)
  BY DEF Apply
<1>2. r.plan = plans[i] /\ r.todo = DOMAIN plans[i] /\ r.allow = allow
  BY DEF Idle
<1> HIDE DEF r
<1>3. req'[c] = r
  BY <1>1 DEF LocalInv, TypeInv
<1>4. Applying(c)'
  BY <1>1, <1>2, <1>3 DEF Applying, DestructiveChanges
<1>5. QED
  BY <1>1, <1>4, ApplyingKept

LEMMA ApplyingConfirms ==
  ASSUME LocalInv, NEW c \in Client, CliConfirms(c)
  PROVE  ApplyInv' /\ AppliedInOrder'
<1> DEFINE changed == {u \in DOMAIN req[c].plan : req[c].plan[u].changes}
           plan == [u \in changed |-> req[c].plan[u]]
           r == [req[c] EXCEPT !.at = "apply", !.plan = plan, !.todo = changed]
<1>1. req \in [Client -> Request] /\ req[c] \in Request /\ applied' = applied
  BY DEF LocalInv, TypeInv, CliConfirms, engine
<1>2. req' = [req EXCEPT ![c] = r] /\ (DestructiveChanges(plan) # {} => req[c].allow)
  BY <1>1 DEF CliConfirms
<1>3. DOMAIN plan = changed
  OBVIOUS
<1> HIDE DEF plan, changed
<1>4. r.plan = plan /\ r.todo = changed /\ r.allow = req[c].allow
  BY <1>1 DEF Request
<1> HIDE DEF r
<1>5. req'[c] = r
  BY <1>1, <1>2
<1>6. Applying(c)'
  BY <1>2, <1>3, <1>4, <1>5 DEF Applying, DestructiveChanges
<1>7. QED
  BY <1>1, <1>2, <1>6, ApplyingKept

\* The next unit is applied: those in front of it were.
LEMMA ApplyingNext ==
  ASSUME LocalInv, NEW c \in Client, NEW u \in Units, ApplyUnit(c, u)
  PROVE  ApplyInv' /\ AppliedInOrder'
<1> DEFINE r == [req[c] EXCEPT !.todo = req[c].todo \ {u}]
<1>1. req \in [Client -> Request] /\ req[c] \in Request /\ Applying(c) /\ At(c, "apply")
      /\ First(u, req[c].todo) /\ applied' = applied \cup {Mark(c, u)}
      /\ req' = [req EXCEPT ![c] = r]
  BY DEF LocalInv, TypeInv, ApplyUnit, ApplyInv, Applying
<1>2. req'[c] = r /\ r.plan = req[c].plan /\ r.id = req[c].id /\ r.allow = req[c].allow /\ r.at = req[c].at
      /\ r.todo = req[c].todo \ {u}
  BY <1>1 DEF Request
<1> HIDE DEF r
<1>3. \A v : Mark(c, v)' = Mark(c, v)
  BY <1>2 DEF Mark
<1>4. Applying(c)'
  BY <1>1, <1>2 DEF Applying, Mark, DestructiveChanges, At
<1>5. ASSUME NEW d \in Client, d # c PROVE Applying(d)'
  <2>1. req'[d] = req[d] /\ Applying(d)
    BY <1>1, <1>5 DEF LocalInv, ApplyInv, Applying
  <2>2. QED
    BY <1>1, <2>1 DEF Applying, At, Mark, DestructiveChanges
<1>6. AppliedInOrder'
  <2> SUFFICES ASSUME NEW a \in applied', NEW v \in a.units, v < a.unit
               PROVE  [a EXCEPT !.unit = v] \in applied'
    BY DEF AppliedInOrder
  <2>1. CASE a \in applied
    BY <1>1, <2>1 DEF LocalInv, AppliedInOrder
  <2>2. CASE a = Mark(c, u)
    <3>1. v \in DOMAIN req[c].plan /\ v < u /\ [a EXCEPT !.unit = v] = Mark(c, v)
      BY <2>2 DEF Mark
    <3>2. v \in Nat /\ u \in Nat /\ req[c].plan \in Plans
      BY <1>1, <3>1, PlansAre, LocalServerAssumption DEF Request
    <3>3. v \notin req[c].todo
      BY <1>1, <3>1, <3>2 DEF First
    <3>4. QED
      BY <1>1, <3>1, <3>3 DEF Applying
  <2>3. QED
    BY <1>1, <2>1, <2>2
<1>7. QED
  BY <1>4, <1>5, <1>6 DEF ApplyInv, Applying

LEMMA StepApplied == LocalInv /\ [Next]_vars => ApplyInv' /\ AppliedInOrder'
<1> SUFFICES ASSUME LocalInv, [Next]_vars PROVE ApplyInv' /\ AppliedInOrder'
  OBVIOUS
<1>1. req \in [Client -> Request] /\ Idle.at = "idle"
  BY DEF LocalInv, TypeInv, Idle
<1>2. CASE /\ applied' = applied
           /\ \A d \in Client : req'[d] = req[d] \/ req'[d].at # "apply"
  BY <1>2, ApplyingSame
<1>3. ASSUME NEW c \in Client, Lock(c) \/ Step(c) PROVE ApplyInv' /\ AppliedInOrder'
  <2>1. CASE \E u \in Units : ApplyUnit(c, u)
    BY <2>1, ApplyingNext
  <2>2. CASE CliConfirms(c)
    BY <2>2, ApplyingConfirms
  <2>3. CASE \/ Lock(c) \/ PlanLoad(c) \/ PlanCompile(c) \/ PlanUnit(c) \/ PlanStored(c) \/ CliEnds(c)
             \/ ApplyDone(c) \/ \E u \in Units : ApplyFails(c, u)
    <3>1. applied' = applied
      BY <2>3 DEF Lock, engine, PlanLoad, PlanCompile, PlanUnit, PlanStored, CliEnds,
         ApplyDone, ApplyFails, Abandon, quiet
    <3>2. CASE req' = [req EXCEPT ![c] = Idle]
      BY <1>1, <1>2, <3>1, <3>2
    <3>3. CASE \E step : step # "apply" /\ Goto(c, step)
      BY <1>1, <1>2, <3>1, <3>3 DEF Goto, Request
    <3>4. CASE PlanUnit(c) /\ ~Abandon(c)
      <4>1. req'[c].at = "init" /\ \A d \in Client \ {c} : req'[d] = req[d]
        BY <1>1, <3>4 DEF PlanUnit, At, Request
      <4>2. QED
        BY <1>2, <3>1, <4>1
    <3>5. CASE \/ PlanLoad(c) /\ ~Abandon(c)
               \/ PlanCompile(c) /\ ~Abandon(c)
      <4>1. req'[c].at \in {"compile", "init"} /\ \A d \in Client \ {c} : req'[d] = req[d]
        BY <1>1, <3>5 DEF PlanLoad, PlanCompile, Request
      <4>2. QED
        BY <1>2, <3>1, <4>1
    <3>6. QED
      BY <2>3, <3>2, <3>3, <3>4, <3>5 DEF Lock, PlanLoad, PlanCompile, PlanUnit, PlanStored, CliEnds,
         ApplyDone, ApplyFails, Abandon, Finish
  <2>4. CASE CommandStep(c)
    <3>1. applied' = applied /\ \A d \in Client : req'[d] = req[d] \/ req'[d].at # "apply"
      BY <2>4, CommandLeaves
    <3>2. QED
      BY <1>2, <3>1
  <2>5. QED
    BY <1>3, <2>1, <2>2, <2>3, <2>4 DEF Step, CommandStep
<1>4. ASSUME NEW c \in Client, NEW op, NEW n, NEW p, Command(c, op, n, p) PROVE ApplyInv' /\ AppliedInOrder'
  BY <1>1, <1>2, <1>4 DEF Command, engine, Idle
<1>5. ASSUME NEW c \in Client, NEW op, NEW allow, Plan(c, op, allow) PROVE ApplyInv' /\ AppliedInOrder'
  BY <1>1, <1>2, <1>5 DEF Plan, Idle
<1>6. ASSUME NEW c \in Client, NEW i \in DOMAIN plans, NEW allow, Apply(c, i, allow)
      PROVE  ApplyInv' /\ AppliedInOrder'
  BY <1>6, ApplyingStarts
<1>7. CASE UNCHANGED <<applied, req>>
  BY <1>2, <1>7
<1>8. CASE Crash
  BY <1>1, <1>2, <1>8 DEF Crash
<1>9. QED
  BY <1>3, <1>4, <1>5, <1>6, <1>7, <1>8 DEF Next, Expire, EditIntent, EditCode, Edit, vars

-----------------------------------------------------------------------------
(* The specification. *)

LEMMA InitLocal == Init => LocalInv
<1> SUFFICES ASSUME Init PROVE LocalInv
  OBVIOUS
<1>1. TypeInv /\ LockInv
  BY InitTypes, InitLocks
<1>2. \A c \in Client : req[c] = Idle
  BY DEF Init
<1>3. Idle.at = "idle" /\ Idle.plan = NoPlan
  BY DEF Idle
<1>4. IntentInv /\ ApplyInv
  BY <1>2, <1>3 DEF IntentInv, ApplyInv, Inside, Commanding, Creating, Changing, Filling, At
<1>5. PlanInv
  BY <1>2, <1>3, NoPlanSound DEF Init, PlanInv
<1>6. AppliedInOrder
  BY DEF Init, AppliedInOrder
<1>7. QED
  BY <1>1, <1>4, <1>5, <1>6 DEF LocalInv

LEMMA StepLocal == LocalInv /\ [Next]_vars => LocalInv'
  BY StepTypes, StepLocks, StepDone, StepPlans, StepApplied DEF LocalInv

\* Every reachable state satisfies the inductive invariant.
THEOREM LocalInvariant == Spec => []LocalInv
  BY InitLocal, StepLocal, PTL DEF Spec

\* The variables have their types, and whoever holds createMu or planMu has a
\* request that needs it: no lock is left to a request that has answered.
THEOREM LocksAreUsed == Spec => []TypeOK
<1>1. ASSUME LocalInv PROVE TypeOK
  <2>1. AreDocuments(intent) /\ AreDocuments(before) /\ AreMachines(infra)
    BY <1>1, MachinesAre, DocumentsAre DEF LocalInv, TypeInv, FilesInv, AreDocuments, AreMachines
  <2>2. code \in [DOMAIN code -> Block] /\ DOMAIN code \subseteq Name
    BY <1>1 DEF LocalInv, TypeInv, Blocks
  <2>3. createMu # None => req[createMu].op \in {"create", "power", "delete"}
    BY <1>1 DEF LocalInv, TypeInv, LockInv
  <2>4. planMu # None => req[planMu].op \in {"plan", "apply"}
    BY <1>1 DEF LocalInv, TypeInv, LockInv
  <2>5. QED
    BY <1>1, <2>1, <2>2, <2>3, <2>4 DEF TypeOK, LocalInv, TypeInv, FilesInv, Block, Power, Abstract!Power
<1>2. LocalInv => TypeOK
  BY <1>1
<1>3. QED
  BY <1>2, LocalInvariant, PTL

\* No unit is applied before the units in front of it, however often an apply
\* fails half way and the plan is applied again.
THEOREM UnitsInOrder == Spec => []AppliedInOrder
<1>1. LocalInv => AppliedInOrder
  BY DEF LocalInv
<1>2. QED
  BY <1>1, LocalInvariant, PTL

\* The guests of a unit that a plan made for its present state keeps.
LEMMA SoundKeeps ==
  ASSUME LocalInv, NEW c \in Client, At(c, "apply"), NEW u \in Units, First(u, req[c].todo),
         serial[u] = req[c].plan[u].serial
  PROVE  /\ req[c].plan[u].target \in Machines
         /\ \A n \in DOMAIN req[c].plan[u].target : UnitOf[n] = u
         /\ \A n \in InUnit(infra, u) \ req[c].plan[u].destroys :
              n \in DOMAIN req[c].plan[u].target /\ req[c].plan[u].target[n].vmid = infra[n].vmid
<1>1. u \in DOMAIN req[c].plan /\ req[c].plan[u].target \in Machines
  BY NextEntry DEF LocalInv
<1>2. Sound(req[c].plan)
  BY DEF LocalInv, PlanInv
<1>3. QED
  BY <1>1, <1>2 DEF Sound

\* Only an apply of the unit of a guest takes it away.
LEMMA LostListed ==
  ASSUME LocalInv, NEW c \in Client, At(c, "apply"), NEW u \in Units, First(u, req[c].todo),
         NEW target \in Machines, Become(u, target), \A n \in DOMAIN target : UnitOf[n] = u,
         \A n \in InUnit(infra, u) \ req[c].plan[u].destroys :
           n \in DOMAIN target /\ target[n].vmid = infra[n].vmid,
         NEW m \in DOMAIN infra, m \in DOMAIN infra' => infra'[m].vmid # infra[m].vmid
  PROVE  req[c].allow /\ m \in req[c].plan[u].destroys
<1>1. m \in InUnit(infra, u)
  BY BecomeOnly DEF LocalInv
<1>2. ASSUME m \notin req[c].plan[u].destroys PROVE FALSE
  <2>1. m \in DOMAIN target /\ target[m].vmid = infra[m].vmid
    BY <1>1, <1>2
  <2>2. m \in DOMAIN infra' /\ infra'[m] = target[m]
    BY <2>1 DEF Become
  <2>3. QED
    BY <2>1, <2>2
<1>3. u \in DOMAIN req[c].plan
  BY NextEntry DEF LocalInv
<1>4. DestructiveChanges(req[c].plan) # {}
  BY <1>2, <1>3 DEF DestructiveChanges
<1>5. QED
  BY <1>2, <1>4 DEF LocalInv, ApplyInv

LEMMA ApplyLists ==
  ASSUME LocalInv, NEW c \in Client, NEW u \in Units, ApplyUnit(c, u) \/ ApplyFails(c, u),
         NEW m \in DOMAIN infra, m \in DOMAIN infra' => infra'[m].vmid # infra[m].vmid
  PROVE  At(c, "apply") /\ First(u, req[c].todo) /\ req[c].allow /\ m \in req[c].plan[u].destroys
<1> DEFINE target == req[c].plan[u].target
<1>1. At(c, "apply") /\ First(u, req[c].todo) /\ infra' # infra
  BY DEF ApplyUnit, ApplyFails
<1>2. serial[u] = req[c].plan[u].serial
  BY <1>1 DEF ApplyUnit, ApplyFails
<1>3. /\ target \in Machines /\ \A n \in DOMAIN target : UnitOf[n] = u
      /\ \A n \in InUnit(infra, u) \ req[c].plan[u].destroys :
           n \in DOMAIN target /\ target[n].vmid = infra[n].vmid
  BY <1>1, <1>2, SoundKeeps
<1>4. CASE ApplyUnit(c, u)
  <2>1. Become(u, target)
    BY <1>4 DEF ApplyUnit
  <2> HIDE DEF target
  <2>2. QED
    BY <1>1, <1>3, <2>1, LostListed
<1>5. CASE ApplyFails(c, u)
  <2>1. PICK done \in SUBSET (DOMAIN target \cup InUnit(infra, u)) : Become(u, Halfway(u, target, done))
    BY <1>1, <1>5 DEF ApplyFails
  <2> HIDE DEF target
  <2>2. Halfway(u, target, done) \in Machines /\ \A n \in DOMAIN Halfway(u, target, done) : UnitOf[n] = u
    BY <1>3, HalfwayMachines, HalfwayTarget DEF LocalInv, TypeInv
  <2>3. \A n \in InUnit(infra, u) \ req[c].plan[u].destroys :
          n \in DOMAIN Halfway(u, target, done) /\ Halfway(u, target, done)[n].vmid = infra[n].vmid
    BY <1>3 DEF Halfway
  <2>4. QED
    BY <1>1, <2>1, <2>2, <2>3, LostListed
<1>6. QED
  BY <1>1, <1>4, <1>5

\* Every other step leaves the guests alone.
LEMMA OnlyAppliesChange ==
  ASSUME LocalInv, [Next]_vars, infra' # infra
  PROVE  \E c \in Client, u \in Units : ApplyUnit(c, u) \/ ApplyFails(c, u)
<1>1. ASSUME NEW c \in Client, Step(c) PROVE \E u \in Units : ApplyUnit(c, u) \/ ApplyFails(c, u)
  <2>1. ~CommandStep(c)
    BY CommandLeaves
  <2>2. QED
    BY <1>1, <2>1 DEF Step, CommandStep, engine, PlanLoad, PlanCompile, PlanUnit, PlanStored, CliEnds, CliConfirms,
       ApplyDone, Abandon, quiet
<1>2. QED
  BY <1>1 DEF Next, Command, Plan, Apply, Lock, Expire, EditIntent, EditCode, Edit, Crash, engine, vars

\* A guest is destroyed or replaced only by a request that allows it and whose
\* plan, as it was shown, lists that guest.
THEOREM DestroyedAsShown == Spec => DestroysOnlyListed
<1> DEFINE Lost(n) == n \in DOMAIN infra /\ (n \in DOMAIN infra' => infra'[n].vmid # infra[n].vmid)
           Listed(n) == \E c \in Client, u \in Units : /\ At(c, "apply") /\ First(u, req[c].todo)
                                                      /\ req[c].allow /\ n \in req[c].plan[u].destroys
<1>1. ASSUME LocalInv, [Next]_vars, NEW n, Lost(n) PROVE Listed(n)
  <2>1. infra' # infra
    BY <1>1
  <2>2. QED
    BY <1>1, <2>1, OnlyAppliesChange, ApplyLists
<1>2. LocalInv /\ [Next]_vars =>
        [\A n \in DOMAIN infra :
           (n \in DOMAIN infra' => infra'[n].vmid # infra[n].vmid) =>
             \E c \in Client, u \in Units : /\ At(c, "apply") /\ First(u, req[c].todo)
                                           /\ req[c].allow /\ n \in req[c].plan[u].destroys]_vars
  BY <1>1
<1>3. QED
  BY <1>2, LocalInvariant, PTL DEF Spec, DestroysOnlyListed

\* The commands implement atomic ones: whatever fails half way and whoever else
\* sends requests, a command does what it was asked to do, or answers an error
\* and leaves no trace.  Where the disk keeps it from undoing what it did, or the
\* process stops, the damage stays within the file of its machine, and no machine
\* gets a guest ID that was not free.
THEOREM CommandsAreAtomic == Spec => ImplementsFleet
  BY InitFleet, StepFleet, LocalInvariant, PTL DEF Spec, ImplementsFleet, Abstract!Spec
=============================================================================
