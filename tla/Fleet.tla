------------------------------- MODULE Fleet --------------------------------
(***************************************************************************)
(* What the intent commands promise their clients, as one atomic step      *)
(* each: a command either does what it was asked to do and answers "ok",   *)
(* or changes nothing and answers "error".  Where the disk fails a command *)
(* half way, or the process stops, the damage is confined to the file of   *)
(* the machine that the command is about, and no machine gets a guest ID   *)
(* that was not free.                                                      *)
(*                                                                         *)
(* This is the abstract specification that LocalServer implements.         *)
(***************************************************************************)
EXTENDS Naturals

CONSTANTS
  Client,    \* who sends requests
  Name,      \* names of virtual machines, and of the files they are in
  UnitOf,    \* the state unit, and so the cluster, of each
  Ids,       \* the guest IDs of an environment
  Written,   \* the machines there at the start
  None

VARIABLES
  fleet,    \* the virtual machines in intent: guest ID, power state and file
  asked,    \* what each client has asked for, and has no answer to
  answer,   \* the last answer to each client
  failures  \* how often the disk kept a command from undoing what it did

vars == <<fleet, asked, answer, failures>>

Power == {"running", "stopped"}

Ask(op, n, p) == [op |-> op, name |-> n, power |-> p]

Nothing == Ask("none", None, "running")

Asks == {Ask(op, n, "running") : op \in {"create", "delete"}, n \in Name}
          \cup {Ask("power", n, p) : n \in Name, p \in Power}
          \cup {Ask(op, None, "running") : op \in {"plan", "cli", "apply"}}

\* The guest IDs in use in the cluster of n.
Taken(machines, n) == {machines[m].vmid : m \in {k \in DOMAIN machines : UnitOf[k] = UnitOf[n]}}

\* No two machines of a cluster share a guest ID; 0 is none.
Distinct(machines) ==
  \A n, m \in DOMAIN machines :
    (n # m /\ UnitOf[n] = UnitOf[m] /\ machines[n].vmid # 0)
      => machines[n].vmid # machines[m].vmid

\* Without the machines of a file, and with others in place of what there is.
Outside(machines, f) == [m \in {k \in DOMAIN machines : machines[k].file # f} |-> machines[m]]

Over(machines, others) ==
  [m \in DOMAIN machines \cup DOMAIN others |-> IF m \in DOMAIN others THEN others[m] ELSE machines[m]]

Only(n, vm) == [m \in {n} |-> vm]

\* The file of a machine, or of a new one.
FileOf(machines, n) == IF n \in DOMAIN machines THEN machines[n].file ELSE n

Init == /\ fleet = Written /\ asked = [c \in Client |-> Nothing]
        /\ answer = [c \in Client |-> "none"] /\ failures = 0

Begin(c) ==
  /\ asked[c] = Nothing
  /\ answer' = [answer EXCEPT ![c] = "none"]
  /\ \E ask \in Asks : asked' = [asked EXCEPT ![c] = ask]
  /\ UNCHANGED <<fleet, failures>>

Answer(c, a) ==
  /\ asked[c] # Nothing
  /\ answer' = [answer EXCEPT ![c] = a]
  /\ asked' = [asked EXCEPT ![c] = Nothing]

\* A new machine gets a free guest ID and a file of its own.
Create(c) ==
  LET n == asked[c].name
  IN  /\ asked[c].op = "create" /\ Answer(c, "ok")
      /\ n \notin DOMAIN fleet
      /\ \A m \in DOMAIN fleet : fleet[m].file # n
      /\ \E id \in Ids \ Taken(fleet, n) :
           fleet' = Over(fleet, Only(n, [vmid |-> id, power |-> "running", file |-> n]))
      /\ UNCHANGED failures

SetPower(c) ==
  /\ asked[c].op = "power" /\ Answer(c, "ok")
  /\ asked[c].name \in DOMAIN fleet
  /\ fleet' = [fleet EXCEPT ![asked[c].name].power = asked[c].power]
  /\ UNCHANGED failures

\* The machines that people wrote into one file go together.
Delete(c) ==
  /\ asked[c].op = "delete" /\ Answer(c, "ok")
  /\ asked[c].name \in DOMAIN fleet
  /\ fleet' = Outside(fleet, fleet[asked[c].name].file)
  /\ UNCHANGED failures

\* Plans and applies change no intent.
Other(c) ==
  /\ asked[c].op \in {"plan", "cli", "apply"}
  /\ Answer(c, "ok") /\ UNCHANGED <<fleet, failures>>

Refuse(c) == Answer(c, "error") /\ UNCHANGED <<fleet, failures>>

\* What is left of a command: the other files are as they were.  In its own,
\* machines may be gone, or cut off before their guest ID or power state.
Damages(ask, old, new) ==
  LET f == FileOf(old, ask.name)
      created == {ask.name} \ DOMAIN old
  IN  /\ ask.op \in {"create", "power", "delete"}
      /\ DOMAIN new \subseteq DOMAIN old \cup (IF ask.op = "create" THEN created ELSE {})
      /\ \A m \in DOMAIN old : old[m].file # f => m \in DOMAIN new /\ new[m] = old[m]
      /\ \A m \in DOMAIN new :
           \/ m \in DOMAIN old /\ old[m].file # f
           \/ /\ new[m].file = f
              /\ new[m].vmid \in {0} \cup (IF m \in created THEN Ids \ Taken(old, m) ELSE {old[m].vmid})
              /\ new[m].power \in {"running"} \cup (IF m \in created THEN {} ELSE {old[m].power})
                                              \cup (IF m = ask.name THEN {ask.power} ELSE {})

\* The disk failed, and so did putting back what there was.
Fail(c) == Answer(c, "error") /\ failures' = failures + 1 /\ Damages(asked[c], fleet, fleet')

\* A crash answers nobody and leaves a part of one command at most.
Crash ==
  /\ answer' = [c \in Client |-> "none"]
  /\ asked' = [c \in Client |-> IF asked[c].op = "cli" THEN asked[c] ELSE Nothing]
  /\ fleet' = fleet \/ \E c \in Client : Damages(asked[c], fleet, fleet')
  /\ UNCHANGED failures

Next ==
  \/ \E c \in Client : \/ Begin(c) \/ Refuse(c) \/ Fail(c)
                       \/ Create(c) \/ SetPower(c) \/ Delete(c) \/ Other(c)
  \/ Crash

Spec == Init /\ [][Next]_vars
=============================================================================
