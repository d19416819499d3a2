---------------------------- MODULE LocalServer -----------------------------
(***************************************************************************)
(* A nodr server on a local workspace, with the nodr command beside it:    *)
(* src/internal/api/api.go, commands, compile, planapply, engine/opentofu  *)
(* and src/internal/cli/plan.go.                                           *)
(*                                                                         *)
(* Requests create, start, stop and delete virtual machines under createMu *)
(* by writing intent files, and plan and apply the state units under       *)
(* planMu.  nodr apply on the command line takes neither lock.  A plan     *)
(* loads intent, compiles it into the managed blocks of the code, and has  *)
(* OpenTofu save a plan of each unit; an apply runs the saved plans.       *)
(*                                                                         *)
(* A file of intent may hold several machines, which people wrote there.   *)
(* It is written in place: opening it makes it empty, and a write that     *)
(* fails leaves the front of what was to be written.                       *)
(*                                                                         *)
(* A cluster has one unit.  Admission is Admission.tla; here it is the     *)
(* guest ID alone, the lowest that is free.  A request that is refused     *)
(* before it changes anything (malformed, unknown, a lock that is held, a  *)
(* plan that is gone or was not approved) leaves no trace and is left out. *)
(***************************************************************************)
EXTENDS Naturals

CONSTANTS
  Client,      \* senders of requests, each with one in flight at most
  Name,        \* names of virtual machines, and of the files they are in
  Units,       \* the state units, numbered in path order
  UnitOf,      \* the state unit, and so the cluster, of each machine
  Ids,         \* the guest IDs of the environment
  Written,     \* the virtual machines in intent at the start
  Made,        \* the guests there at the start
  Mentions,    \* <<n, m>>: the document of n names m
  None,
  MaxRequests, \* bounds on requests, and on edits by hand, crashes and commands
  MaxMishaps   \* that the disk keeps from undoing what they did

VARIABLES
  intent,    \* the virtual machines in intent/
  empty,     \* the files there that hold no machine
  broken,    \* the files that do not load; None stands for all other ones
  code,      \* the blocks in terraform/
  units,     \* the units that have .tf files
  infra,     \* the guests OpenTofu has made, by name
  serial,    \* the version of the state of each unit
  createMu,  \* who holds the lock of the intent commands
  planMu,    \* who holds the lock of plans and applies
  plans,     \* the stored plans by ID
  req,       \* the request of each client
  answer,    \* the last answer to each
  before,    \* intent when createMu was taken, while it is held
  applied,   \* the units of each plan that were applied
  count      \* requests, edits and crashes, and faults so far

vars == <<intent, empty, broken, code, units, infra, serial, createMu, planMu, plans, req, answer,
          before, applied, count>>

Machine == [vmid : Nat, power : {"running", "stopped"}]
Document == [vmid : Nat, power : {"running", "stopped"}, file : Name]

\* Machines by name, as on the clusters or in intent.
AreMachines(machines) == DOMAIN machines \subseteq Name /\ machines \in [DOMAIN machines -> Machine]
AreDocuments(machines) == DOMAIN machines \subseteq Name /\ machines \in [DOMAIN machines -> Document]

ASSUME LocalServerAssumption ==
  /\ None \notin Client \cup Name
  /\ Units \subseteq Nat /\ UnitOf \in [Name -> Units]
  /\ Ids \subseteq Nat \ {0}
  /\ AreDocuments(Written) /\ AreMachines(Made)
  /\ Mentions \subseteq Name \X Name
  /\ MaxRequests \in Nat /\ MaxMishaps \in Nat

\* Until a command answers, its clients see what was there before it.
Abstract == INSTANCE Fleet WITH
  fleet <- IF createMu = None THEN intent ELSE before,
  asked <- [c \in Client |-> [op |-> req[c].op, name |-> req[c].name, power |-> req[c].power]],
  failures <- count.faults

Outside(machines, f) == Abstract!Outside(machines, f)
Over(machines, others) == Abstract!Over(machines, others)
Only(n, vm) == Abstract!Only(n, vm)
Distinct(machines) == Abstract!Distinct(machines)

Without(entries, i) == [j \in DOMAIN entries \ {i} |-> entries[j]]

\* A plan has an entry for each of its units.
NoPlan == [u \in {} |-> None]

Idle == [at |-> "idle", op |-> "none", name |-> None, power |-> "running",
         file |-> None, doc |-> Written, src |-> Written, seen |-> Written,
         todo |-> {}, plan |-> NoPlan, allow |-> FALSE, id |-> 0]

\* The first unit, or the lowest ID, of a set.
First(u, set) == u \in set /\ \A v \in set : u <= v

Init ==
  /\ intent = Written /\ empty = {} /\ broken = {}
  /\ code = [n \in {} |-> None] /\ units = {} /\ infra = Made
  /\ serial = [u \in Units |-> 0]
  /\ createMu = None /\ planMu = None /\ plans = [i \in {} |-> NoPlan]
  /\ req = [c \in Client |-> Idle] /\ answer = [c \in Client |-> "none"]
  /\ before = Written /\ applied = {}
  /\ count = [requests |-> 0, outside |-> 0, faults |-> 0]

\* Whether the workspace loads and is valid.
Loads == /\ broken = {} /\ Distinct(intent)
         /\ \A m \in Mentions : m[1] \in DOMAIN intent => m[2] \in DOMAIN intent

At(c, step) == req[c].at = step

Goto(c, step) == req' = [req EXCEPT ![c].at = step]

\* What intent commands, and plans and applies, leave alone.
engine == <<code, units, infra, serial, planMu, plans, applied>>
files == <<intent, empty, broken>>
documents == <<files, createMu, before>>

Mishap == count.outside + count.faults < MaxMishaps

Arrive(c, op) ==
  /\ At(c, "idle") /\ count.requests < MaxRequests
  /\ count' = [count EXCEPT !.requests = @ + 1]
  /\ answer' = [answer EXCEPT ![c] = "none"]

-----------------------------------------------------------------------------
(* Files of intent. *)

InFile(f) == [n \in {m \in DOMAIN intent : intent[m].file = f} |-> intent[n]]

Exists(f) == f \in empty \cup broken \cup {intent[n].file : n \in DOMAIN intent}

\* Opening a file for writing makes it empty.
Opens(f) == intent' = Outside(intent, f) /\ empty' = empty \cup {f} /\ broken' = broken \ {f}

Removes(f) == intent' = Outside(intent, f) /\ empty' = empty \ {f} /\ broken' = broken \ {f}

Writes(f, content) ==
  intent' = Over(Outside(intent, f), content) /\ empty' = empty \ {f} /\ broken' = broken \ {f}

\* What a write that fails leaves: some of the documents, and of one of them
\* maybe a part, which has its defaults for what is missing or does not load.
Parts(doc) == {[doc EXCEPT !.vmid = id, !.power = p] : id \in {0, doc.vmid}, p \in {"running", doc.power}}

Fronts(content) ==
  UNION {{[n \in left |-> IF n = cut THEN part ELSE content[n]] :
            left \in SUBSET DOMAIN content, part \in Parts(content[cut])} : cut \in DOMAIN content}

Tears(f, content) ==
  \E front \in Fronts(content) :
    /\ intent' = Over(Outside(intent, f), front)
    /\ empty' = IF DOMAIN front = {} THEN empty \cup {f} ELSE empty \ {f}
    /\ broken' \in {broken, broken \cup {f}}

-----------------------------------------------------------------------------
(* Intent commands. *)

\* vm.create, vm.start, vm.stop and vm.delete wait for createMu.
Command(c, op, n, p) ==
  /\ Arrive(c, op)
  /\ req' = [req EXCEPT ![c] = [Idle EXCEPT !.at = "lock", !.op = op, !.name = n, !.power = p]]
  /\ UNCHANGED <<documents, engine>>

Lock(c) ==
  /\ At(c, "lock") /\ createMu = None
  /\ createMu' = c /\ before' = intent
  /\ Goto(c, IF req[c].op = "create" THEN "create" ELSE "change")
  /\ UNCHANGED <<files, engine, answer, count>>

\* The command answers and gives the lock back.
Return(c, a) ==
  /\ createMu' = None /\ before' = Written
  /\ answer' = [answer EXCEPT ![c] = a]
  /\ req' = [req EXCEPT ![c] = Idle]
  /\ UNCHANGED engine

Reply(c, a) == Return(c, a) /\ UNCHANGED count

Refuse(c) == Reply(c, "error") /\ UNCHANGED files

\* The answer is an error, and the disk has kept the command from putting
\* back what was there.
Fault(c) ==
  /\ Mishap /\ count' = [count EXCEPT !.faults = @ + 1]
  /\ Return(c, "error")

Go(c, step) == Goto(c, step) /\ UNCHANGED <<createMu, before, engine, answer, count>>

CreateLoad(c) ==
  /\ At(c, "create")
  /\ IF Loads /\ req[c].name \notin DOMAIN intent
     THEN Go(c, "open") /\ UNCHANGED files
     ELSE Refuse(c)

\* The file of the new machine is created only if it is not there.
CreateOpen(c) ==
  LET n == req[c].name
  IN  /\ At(c, "open")
      /\ \/ Refuse(c)
         \/ ~Exists(n) /\ Opens(n) /\ Go(c, "write")

CreateWrite(c) ==
  LET n == req[c].name
      new == Only(n, [vmid |-> 0, power |-> "running", file |-> n])
  IN  /\ At(c, "write")
      /\ \/ Writes(n, new) /\ Go(c, "admit")
         \/ Tears(n, new) /\ Go(c, "undo")

\* Admission plans on the workspace as it is loaded now.
CreateAdmit(c) ==
  LET n == req[c].name
      free == Ids \ Abstract!Taken(intent, n)
  IN  /\ At(c, "admit") /\ UNCHANGED files
      /\ IF Loads /\ free # {}
         THEN /\ \E id \in free :
                   /\ First(id, free)
                   /\ req' = [req EXCEPT ![c].at = "truncate", ![c].file = n,
                               ![c].doc = Only(n, [vmid |-> id, power |-> "running", file |-> n])]
              /\ UNCHANGED <<createMu, before, engine, answer, count>>
         ELSE Go(c, "undo")

\* Mutant: the file of a new machine stays.
UndoLeaves(c) == At(c, "undo") /\ Refuse(c)

\* A create that fails removes the file again, if it can.
CreateUndo(c) ==
  /\ At(c, "undo")
  /\ \/ Removes(req[c].name) /\ Reply(c, "error")
     \/ Fault(c) /\ UNCHANGED files

\* vm.start, vm.stop and vm.delete read the file they change.
ChangeLoad(c) ==
  LET n == req[c].name
      src == InFile(intent[n].file)
  IN  /\ At(c, "change") /\ UNCHANGED files
      /\ IF Loads /\ n \in DOMAIN intent
         THEN /\ req' = [req EXCEPT
                   ![c].at = IF req[c].op = "delete" THEN "remove" ELSE "truncate",
                   ![c].file = intent[n].file, ![c].src = src,
                   ![c].doc = [src EXCEPT ![n].power = req[c].power]]
              /\ UNCHANGED <<createMu, before, engine, answer, count>>
         ELSE Refuse(c)

\* The whole file goes, with all the machines in it.
DeleteRemove(c) ==
  /\ At(c, "remove")
  /\ \/ Refuse(c)
     \/ Removes(req[c].file) /\ Go(c, "check")

\* A command that writes its file, as admission does for a create, opens it
\* first.
Truncate(c) ==
  /\ At(c, "truncate")
  /\ \/ Opens(req[c].file) /\ Go(c, "fill")
     \/ IF req[c].op = "create" THEN Go(c, "undo") /\ UNCHANGED files ELSE Refuse(c)

Fill(c) ==
  /\ At(c, "fill")
  /\ \/ Writes(req[c].file, req[c].doc) /\ Go(c, "check")
     \/ /\ Tears(req[c].file, req[c].doc)
        /\ IF req[c].op = "create" THEN Go(c, "undo") ELSE Fault(c)

\* If the workspace does not load any more, the change is taken back.
Check(c) ==
  /\ At(c, "check") /\ UNCHANGED files
  /\ IF Loads THEN Reply(c, "ok")
     ELSE Go(c, IF req[c].op = "create" THEN "undo" ELSE "reopen")

\* What was read is written back, if the disk lets it.
Reopen(c) ==
  /\ At(c, "reopen")
  /\ \/ Opens(req[c].file) /\ Go(c, "refill")
     \/ Fault(c) /\ UNCHANGED files

Refill(c) ==
  /\ At(c, "refill")
  /\ \/ Writes(req[c].file, req[c].src) /\ Reply(c, "error")
     \/ Tears(req[c].file, req[c].src) /\ Fault(c)

-----------------------------------------------------------------------------
(* Plans. *)

\* workspace.plan holds planMu; nodr plan and nodr apply hold nothing.
Plan(c, op, allow) ==
  /\ Arrive(c, op)
  /\ op = "plan" => planMu = None
  /\ planMu' = IF op = "plan" THEN c ELSE planMu
  /\ req' = [req EXCEPT ![c] = [Idle EXCEPT !.at = "load", !.op = op, !.allow = allow,
                                           !.id = count.requests + 1]]
  /\ UNCHANGED <<documents, code, units, infra, serial, plans, applied>>

\* Mutant: a request that fails does not give planMu back.
FinishHolds(c, a) ==
  /\ planMu' = IF planMu = c /\ a = "ok" THEN None ELSE planMu
  /\ answer' = [answer EXCEPT ![c] = a]
  /\ req' = [req EXCEPT ![c] = Idle]
  /\ UNCHANGED <<documents, code, units, count>>

\* The request answers and gives up planMu if it holds it.
Finish(c, a) ==
  /\ planMu' = IF planMu = c THEN None ELSE planMu
  /\ answer' = [answer EXCEPT ![c] = a]
  /\ req' = [req EXCEPT ![c] = Idle]
  /\ UNCHANGED <<documents, code, units, count>>

quiet == <<infra, serial, plans, applied>>

Abandon(c) == Finish(c, "error") /\ UNCHANGED quiet

\* createMu is not taken: the load may see a machine that is being created.
PlanLoad(c) ==
  /\ At(c, "load")
  /\ IF Loads
     THEN /\ req' = [req EXCEPT ![c].at = "compile", ![c].seen = intent]
          /\ UNCHANGED <<documents, engine, answer, count>>
     ELSE Abandon(c)

\* A machine that is not admitted, or whose address an unmanaged block has,
\* is an error, and then nothing is written.
Compiles(seen) ==
  \A n \in DOMAIN seen : seen[n].vmid # 0 /\ (n \in DOMAIN code => code[n].managed)

\* Every machine gets its managed block; a block without a machine stays.
Compiled(seen) ==
  [n \in DOMAIN code \cup DOMAIN seen |->
     IF n \in DOMAIN seen
     THEN [vmid |-> seen[n].vmid, power |-> seen[n].power, managed |-> TRUE]
     ELSE code[n]]

\* The units of a plan: all that are there, or about to be; the command line
\* may name the units it is about.
Selects(c, selected) == IF req[c].op = "cli" THEN selected = {} => units' = {}
                                            ELSE selected = units'

PlanCompile(c) ==
  /\ At(c, "compile")
  /\ IF Compiles(req[c].seen)
     THEN /\ code' = Compiled(req[c].seen)
          /\ units' = units \cup {UnitOf[n] : n \in DOMAIN code'}
          /\ \E selected \in SUBSET units' :
               /\ Selects(c, selected)
               /\ req' = [req EXCEPT ![c].at = "init", ![c].seen = Written, ![c].todo = selected]
          /\ UNCHANGED <<documents, infra, serial, planMu, plans, applied, answer, count>>
     ELSE Abandon(c)

InUnit(machines, u) == {n \in DOMAIN machines : UnitOf[n] = u}

Infra(u) == [n \in InUnit(infra, u) |-> infra[n]]

Target(u) == [n \in InUnit(code, u) |-> [vmid |-> code[n].vmid, power |-> code[n].power]]

\* Mutant: a replacement does not count.
DestroysDeleted(u) == InUnit(infra, u) \ InUnit(code, u)

\* A guest with another guest ID is a replacement, one without block is a
\* deletion.
Destroys(u) == {n \in InUnit(infra, u) : n \in DOMAIN Target(u) => Target(u)[n].vmid # infra[n].vmid}

UnitPlan(u) == [serial |-> serial[u], target |-> Target(u), destroys |-> Destroys(u),
                changes |-> Target(u) # Infra(u)]

\* OpenTofu initializes and plans the units in order, and the first failure
\* ends the request.
PlanUnit(c) ==
  /\ At(c, "init")
  /\ \E u \in req[c].todo :
       /\ First(u, req[c].todo)
       /\ \/ Abandon(c)
          \/ /\ req' = [req EXCEPT ![c].todo = @ \ {u},
                  ![c].plan = [v \in DOMAIN @ \cup {u} |-> IF v = u THEN UnitPlan(u) ELSE @[v]]]
             /\ UNCHANGED <<documents, engine, answer, count>>

PlanStored(c) ==
  /\ At(c, "init") /\ req[c].op = "plan" /\ req[c].todo = {}
  /\ plans' = [i \in DOMAIN plans \cup {req[c].id} |->
                 IF i = req[c].id THEN req[c].plan ELSE plans[i]]
  /\ Finish(c, "ok") /\ UNCHANGED <<infra, serial, applied>>

DestructiveChanges(plan) == UNION {plan[u].destroys : u \in DOMAIN plan}

\* nodr plan, or nodr apply with nothing to apply, without --allow-destroy
\* for a plan that needs it, or without a yes.
CliEnds(c) ==
  /\ At(c, "init") /\ req[c].op = "cli" /\ req[c].todo = {}
  /\ \E a \in {"ok", "error"} : Finish(c, a)
  /\ UNCHANGED quiet

\* nodr apply goes on with the units that have changes.
CliConfirms(c) ==
  LET changed == {u \in DOMAIN req[c].plan : req[c].plan[u].changes}
      plan == [u \in changed |-> req[c].plan[u]]
  IN  /\ At(c, "init") /\ req[c].op = "cli" /\ req[c].todo = {}
      /\ changed # {}
      /\ DestructiveChanges(plan) # {} => req[c].allow
      /\ req' = [req EXCEPT ![c].at = "apply", ![c].plan = plan, ![c].todo = changed]
      /\ UNCHANGED <<documents, engine, answer, count>>

-----------------------------------------------------------------------------
(* Applies. *)

\* A stored plan is dropped when it is looked up after 15 minutes.
Expire(i) ==
  /\ planMu = None /\ i \in DOMAIN plans
  /\ plans' = Without(plans, i)
  /\ UNCHANGED <<documents, code, units, infra, serial, planMu, applied, req, answer, count>>

\* workspace.apply of a stored plan.
Apply(c, i, allow) ==
  /\ Arrive(c, "apply") /\ planMu = None
  /\ i \in DOMAIN plans
  /\ DestructiveChanges(plans[i]) # {} => allow
  /\ planMu' = c
  /\ req' = [req EXCEPT ![c] = [Idle EXCEPT !.at = "apply", !.op = "apply", !.plan = plans[i],
                                           !.todo = DOMAIN plans[i], !.id = i, !.allow = allow]]
  /\ UNCHANGED <<documents, code, units, infra, serial, plans, applied>>

\* The guests of a unit become those of target; Proxmox has no two with one
\* guest ID in a cluster.
Become(u, target) ==
  /\ infra' = [n \in DOMAIN target \cup (DOMAIN infra \ InUnit(infra, u)) |->
                 IF n \in DOMAIN target THEN target[n] ELSE infra[n]]
  /\ Distinct(infra')
  /\ serial' = [serial EXCEPT ![u] = @ + (IF infra' # infra THEN 1 ELSE 0)]

\* Part of the changes of a unit: the guests in done are as planned, the
\* others as they were.
Halfway(u, target, done) ==
  [n \in (DOMAIN target \cap done) \cup (InUnit(infra, u) \ done) |->
     IF n \in done THEN target[n] ELSE infra[n]]

\* A unit of a plan that was applied.
Mark(c, u) == [id |-> req[c].id, units |-> DOMAIN req[c].plan, unit |-> u]

\* OpenTofu applies the saved plan of the next unit unless its state has
\* changed since.
ApplyUnit(c, u) ==
  /\ At(c, "apply") /\ First(u, req[c].todo)
  /\ serial[u] = req[c].plan[u].serial
  /\ Become(u, req[c].plan[u].target)
  /\ applied' = applied \cup {Mark(c, u)}
  /\ req' = [req EXCEPT ![c].todo = @ \ {u}]
  /\ UNCHANGED <<documents, code, units, planMu, plans, answer, count>>

\* Mutant: the apply goes on with the next unit.
ApplyFailsOn(c, u) ==
  /\ At(c, "apply") /\ First(u, req[c].todo)
  /\ req' = [req EXCEPT ![c].todo = @ \ {u}]
  /\ UNCHANGED <<documents, engine, answer, count>>

\* A failure, or a plan that is stale, ends the apply; the units before stay
\* applied, and a stored plan stays stored.
ApplyFails(c, u) ==
  LET target == req[c].plan[u].target
  IN  /\ At(c, "apply") /\ First(u, req[c].todo)
      /\ \/ UNCHANGED <<infra, serial>>
         \/ /\ serial[u] = req[c].plan[u].serial
            /\ \E done \in SUBSET (DOMAIN target \cup InUnit(infra, u)) :
                 Become(u, Halfway(u, target, done))
      /\ Finish(c, "error") /\ UNCHANGED <<plans, applied>>

ApplyDone(c) ==
  /\ At(c, "apply") /\ req[c].todo = {}
  /\ plans' = Without(plans, req[c].id)
  /\ Finish(c, "ok") /\ UNCHANGED <<infra, serial, applied>>

-----------------------------------------------------------------------------
(* The outside. *)

Edit == /\ Mishap /\ count' = [count EXCEPT !.outside = @ + 1]
        /\ UNCHANGED <<intent, empty, createMu, before, units, infra, serial, planMu, plans, applied,
                       req, answer>>

\* Another document is broken, or whatever does not load is mended.
EditIntent == Edit /\ broken' = (IF broken = {} THEN {None} ELSE {}) /\ UNCHANGED code

\* A managed block is removed, or made code that nodr does not own.
EditCode(n) ==
  /\ n \in DOMAIN code /\ Edit
  /\ code' \in {Without(code, n), [code EXCEPT ![n].managed = FALSE]}
  /\ UNCHANGED broken

\* The server stops: locks, its requests and stored plans were in memory.
\* A command line goes on.
Crash ==
  /\ Mishap /\ count' = [count EXCEPT !.outside = @ + 1]
  /\ createMu' = None /\ planMu' = None /\ plans' = [i \in {} |-> NoPlan]
  /\ req' = [c \in Client |-> IF req[c].op = "cli" THEN req[c] ELSE Idle]
  /\ answer' = [c \in Client |-> "none"]
  /\ before' = Written
  /\ UNCHANGED <<files, code, units, infra, serial, applied>>

Step(c) ==
  \/ CreateLoad(c) \/ CreateOpen(c) \/ CreateWrite(c) \/ CreateAdmit(c) \/ CreateUndo(c)
  \/ ChangeLoad(c) \/ DeleteRemove(c)
  \/ Truncate(c) \/ Fill(c) \/ Check(c) \/ Reopen(c) \/ Refill(c)
  \/ PlanLoad(c) \/ PlanCompile(c) \/ PlanUnit(c) \/ PlanStored(c)
  \/ CliEnds(c) \/ CliConfirms(c)
  \/ \E u \in Units : ApplyUnit(c, u) \/ ApplyFails(c, u)
  \/ ApplyDone(c)

Next ==
  \/ \E c \in Client :
       \/ \E n \in Name : \/ Command(c, "create", n, "running") \/ Command(c, "delete", n, "running")
                         \/ \E p \in Abstract!Power : Command(c, "power", n, p)
       \/ Plan(c, "plan", FALSE)
       \/ \E allow \in BOOLEAN : \/ Plan(c, "cli", allow)
                               \/ \E i \in DOMAIN plans : Apply(c, i, allow)
       \/ Lock(c) \/ Step(c)
  \/ \E i \in DOMAIN plans : Expire(i)
  \/ EditIntent \/ \E n \in DOMAIN code : EditCode(n)
  \/ Crash

Spec == Init /\ [][Next]_vars

-----------------------------------------------------------------------------
(* Properties *)

\* Every variable has its type, and whoever holds a lock has a request that
\* needs it.
TypeOK ==
  /\ AreDocuments(intent) /\ AreDocuments(before) /\ AreMachines(infra)
  /\ empty \subseteq Name /\ broken \subseteq Name \cup {None}
  /\ code \in [DOMAIN code -> [vmid : Nat, power : Abstract!Power, managed : BOOLEAN]]
  /\ DOMAIN code \subseteq Name /\ units \subseteq Units /\ serial \in [Units -> Nat]
  /\ createMu # None => req[createMu].op \in {"create", "power", "delete"}
  /\ planMu # None => req[planMu].op \in {"plan", "apply"}
  /\ answer \in [Client -> {"none", "ok", "error"}]

\* The commands implement atomic ones: whatever fails half way, and whoever
\* else sends requests, a command does what it was asked to do, or answers an
\* error and leaves no trace.  Where the disk fails twice, or once in the
\* middle of a write to a file that was there, or the process stops, the
\* damage stays within the file of the machine it is about, and no two
\* machines of a cluster get one guest ID.
ImplementsFleet == Abstract!Spec

\* A guest is destroyed or replaced only by a request that allows it and
\* whose plan, as it was shown, lists that guest.
DestroysOnlyListed ==
  [][\A n \in DOMAIN infra :
       (n \in DOMAIN infra' => infra'[n].vmid # infra[n].vmid) =>
         \E c \in Client, u \in Units : /\ At(c, "apply") /\ First(u, req[c].todo)
                                       /\ req[c].allow /\ n \in req[c].plan[u].destroys]_vars

\* No unit of a plan is applied before the units in front of it, also when a
\* plan that failed half way is applied again.
AppliedInOrder ==
  \A a \in applied : \A u \in a.units : u < a.unit => [a EXCEPT !.unit = u] \in applied
=============================================================================
