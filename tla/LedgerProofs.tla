---------------------------- MODULE LedgerProofs ----------------------------
(***************************************************************************)
(* Proofs about the ledger service, for any number of requests,            *)
(* changesets, commits, faults and crashes: that it uses the store as      *)
(* module Operations assumes, that a key commits once, that what it        *)
(* acknowledges is durable, that the database never runs ahead of Git, and *)
(* that the default branch is what module Trunk promises.                  *)
(*                                                                         *)
(* None of these is inductive.  LedgerInv adds what each request knows of  *)
(* its operation and of its commit at every step, that one request at most *)
(* runs an operation, that one at most is between the mirror and origin,   *)
(* and that a changeset's draft is behind both of its refs, which may have *)
(* parted: a push that arrived but reported an error, then another commit  *)
(* and a crash before its push, leave them on two lines.                   *)
(***************************************************************************)
EXTENDS Ledger, FiniteSetTheorems, TLAPS

\* What is proved about the store for every caller.
Rows == INSTANCE OperationsProofs WITH Operation <- Request

Local == [pc : Labels, cs : Changeset \cup {None}, sha : SHA \cup {None}, new : SHA \cup {None},
          op : Request \cup {None}, plan : Plans \cup {None}, fresh : BOOLEAN]

Refs == [main : SHA, draft : [Changeset -> SHA \cup {None}]]

TypeInv ==
  /\ Rows!RowsInv
  /\ history \in [SHA -> SUBSET SHA]
  /\ mirror \in Refs /\ origin \in Refs
  /\ retained \subseteq Plans
  /\ req \in [Request -> Local]
  /\ crashes \in 0..MaxCrashes
  /\ committed \in [Request -> SUBSET SHA]
  /\ started \subseteq Applies

\* The commits are partially ordered by ancestry, and every ref is at one.
HistoryInv ==
  /\ \A s \in SHA : Made(s) => s \in history[s]
  /\ \A s \in SHA : \A t \in history[s] : Made(t) /\ history[t] \subseteq history[s]
  /\ \A s, t \in SHA : s \in history[t] /\ t \in history[s] => s = t
  /\ Made(mirror.main) /\ Made(origin.main)
  /\ \A c \in Changeset :
       /\ mirror.draft[c] # None => Made(mirror.draft[c])
       /\ origin.draft[c] # None => Made(origin.draft[c]) /\ mirror.draft[c] # None

\* The steps in which a request works on an operation it has started.
Running == {"commit", "publish", "advance", "planning", "store", "check", "promote", "push", "run",
            "applying", "finish", "fail"}

\* Nobody but r changes a plan or an apply that r has claimed, and a command
\* is run by one request.
Kinds(o) ==
  Store!Claimed(o) => /\ operations[o].kind = "command" <=> o \in Commands
                      /\ operations[o].kind = "plan" <=> o \in Plans

Works(r) ==
  /\ req[r].pc \in Running \cup {"start"} => req[r].op \in Request /\ Store!Claimed(req[r].op)
  /\ req[r].pc \in Running => operations[req[r].op].status = "running"
  /\ r \notin Commands /\ req[r].pc \notin {"idle", "done"} => req[r].op = r
  /\ r \notin Commands /\ req[r].pc = "queued" => operations[r].status = "queued"
  /\ r \in Commands /\ req[r].pc \in Running \cup {"start"} => req[r].op \in Commands

OperationInv ==
  /\ \A o \in Request : Kinds(o)
  /\ \A r \in Request : Works(r)
  /\ \A r, q \in Request :
       req[r].pc \in Running /\ req[q].pc \in Running /\ req[r].op = req[q].op => r = q

\* What request r works on.
Target(r) ==
  /\ req[r].pc = "create" => req[r].sha \in SHA /\ Made(req[r].sha)
  /\ req[r].pc \notin {"idle", "create", "done"} =>
       req[r].cs \in Changeset /\ Store!Exists(req[r].cs) /\ req[r].sha \in SHA
  /\ req[r].fresh => req[r].pc \notin {"idle", "create", "done"}
  /\ req[r].pc = "push" => req[r].new \in SHA /\ Made(req[r].new)

TargetInv == \A r \in Request : Target(r)

\* One request at most is between the mirror and origin.
LockInv ==
  \A r, q \in Request : req[r].pc \in {"publish", "push"} /\ req[q].pc \in {"publish", "push"} => r = q

\* The commit that a command makes on top of the draft it read.
Commit(r) ==
  LET n == req[r].new
      s == req[r].sha
  IN  /\ req[r].pc = "commit" => committed[req[r].op] = {}
      /\ req[r].pc \in {"publish", "advance"} \/ (r \in Commands /\ req[r].pc = "finish") =>
           n \in SHA /\ committed[req[r].op] = {n}
      /\ req[r].pc \in {"publish", "advance"} =>
           Made(s) /\ n \notin history[s] /\ history[n] = history[s] \cup {n}

CommitInv ==
  /\ \A o \in Request : operations[o].status \in {"absent", "queued"} => committed[o] = {}
  /\ \A o \in Request : committed[o] = {} \/ \E n \in SHA : committed[o] = {n}
  /\ \A r \in Request : Commit(r)

\* How the refs of changeset c, its row and the commits under way relate.
Behind(c) ==
  Store!Exists(c) =>
    /\ mirror.draft[c] # None
    /\ drafted[c] \subseteq history[changesets[c].draft]
    /\ changesets[c].draft \in history[mirror.draft[c]]
    /\ origin.draft[c] # None => changesets[c].draft \in history[origin.draft[c]]

Ahead(r) ==
  LET c == req[r].cs
      s == req[r].sha
  IN  /\ req[r].pc = "publish" =>
           /\ mirror.draft[c] = req[r].new
           /\ changesets[c].draft \in history[s]
           /\ \A q \in Request : req[q].pc = "advance" /\ req[q].cs = c => req[q].new \in history[s]
      /\ req[r].pc = "advance" => req[r].new \in history[mirror.draft[c]]
      /\ req[r].pc = "advance" \/ (r \in Commands /\ req[r].pc = "finish") =>
           origin.draft[c] # None /\ req[r].new \in history[origin.draft[c]]

RefInv == (\A c \in Changeset : Behind(c)) /\ (\A r \in Request : Ahead(r))

LedgerInv == /\ TypeInv /\ HistoryInv /\ OperationInv /\ TargetInv /\ LockInv /\ CommitInv /\ RefInv
             /\ AcknowledgedIsDurable
-----------------------------------------------------------------------------
(* The store of this module is the one of OperationsProofs. *)

LEMMA StoreTypes == Rows!TypeOK <=> Store!TypeOK
  BY DEF Store!TypeOK, Rows!TypeOK, Store!ChangesetRow, Rows!ChangesetRow, Store!OperationRow,
     Rows!OperationRow, Store!Event, Rows!Event

LEMMA StoreInits == Store!Init <=> Rows!Init
  BY DEF Store!Init, Rows!Init, Store!NoChangeset, Rows!NoChangeset, Store!NoOperation, Rows!NoOperation

LEMMA ChangesetSteps ==
  ASSUME NEW c \in Changeset, Store!ChangesetStep(c)
  PROVE  Rows!ChangesetStep(c)
  BY DEF Store!ChangesetStep, Rows!ChangesetStep, Store!CreateChangeset, Rows!CreateChangeset, Store!Exists,
     Rows!Exists, Store!AdvanceDraft, Rows!AdvanceDraft, Store!AppendEvent, Rows!AppendEvent,
     Store!TransitionChangeset, Rows!TransitionChangeset, Store!TransitionAccepted, Rows!TransitionAccepted,
     Store!ChangesetTransition, Rows!ChangesetTransition, Store!HasExactPlan, Rows!HasExactPlan,
     Store!SucceededPlans, Rows!SucceededPlans

LEMMA OperationSteps ==
  ASSUME NEW o \in Request, Store!OperationStep(o)
  PROVE  Rows!OperationStep(o)
<1>1. ASSUME NEW c, NEW kind, NEW sha, NEW key, Store!ClaimOperation(o, c, kind, sha, key)
      PROVE  Rows!ClaimOperation(o, c, kind, sha, key)
  BY <1>1 DEF Store!ClaimOperation, Rows!ClaimOperation, Store!Claimed, Rows!Claimed, Store!ClaimAccepted,
     Rows!ClaimAccepted, Store!Exists, Rows!Exists, Store!OperationByKey, Rows!OperationByKey,
     Store!AppendEvent, Rows!AppendEvent
<1>2. ASSUME NEW to, Store!TransitionOperation(o, to) PROVE Rows!TransitionOperation(o, to)
  BY <1>2 DEF Store!TransitionOperation, Rows!TransitionOperation, Store!OperationTransition,
     Rows!OperationTransition, Store!AppendEvent, Rows!AppendEvent
<1>3. ASSUME NEW to, Store!FinishOperation(o, to) PROVE Rows!FinishOperation(o, to)
  BY <1>3 DEF Store!FinishOperation, Rows!FinishOperation, Store!OperationTransition,
     Rows!OperationTransition, Store!AppendEvent, Rows!AppendEvent
<1>4. ASSUME NEW sha, Store!PutPlanArtifact(o, sha) PROVE Rows!PutPlanArtifact(o, sha)
  BY <1>4 DEF Store!PutPlanArtifact, Rows!PutPlanArtifact, Store!MayStoreArtifact, Rows!MayStoreArtifact,
     Store!AppendEvent, Rows!AppendEvent
<1>5. QED
  BY <1>1, <1>2, <1>3, <1>4 DEF Store!OperationStep, Rows!OperationStep

LEMMA StoreIsRows == [Store!Next]_(Store!vars) => [Rows!Next]_(Rows!vars)
  BY ChangesetSteps, OperationSteps DEF Store!Next, Rows!Next, Store!vars, Rows!vars

\* What the requests rely on: a changeset stays, and an operation keeps its
\* kind, is never queued again and never changes once it has ended.
LEMMA StoreEvolves ==
  ASSUME Rows!TypeOK, [Store!Next]_(Store!vars)
  PROVE  /\ \A c \in Changeset : Store!Exists(c) => Store!Exists(c)'
         /\ \A o \in Request :
              /\ Store!Claimed(o) => Store!Claimed(o)' /\ operations'[o].kind = operations[o].kind
              /\ operations'[o].status \in {"absent", "queued"} => operations[o].status \in {"absent", "queued"}
              /\ operations[o].status \in {"succeeded", "failed"} => operations'[o] = operations[o]
<1>1. /\ changesets \in [Changeset -> Rows!ChangesetRow] /\ operations \in [Request -> Rows!OperationRow]
  BY DEF Rows!TypeOK
<1>2. ASSUME NEW d \in Changeset, Store!ChangesetStep(d), NEW c \in Changeset, Store!Exists(c)
      PROVE  Store!Exists(c)'
  <2>1. PICK row : changesets' = [changesets EXCEPT ![d] = row] /\ row.status # "absent"
    <3>1. CASE \E to \in {"planned", "applied", "abandoned"} : Store!TransitionChangeset(d, to)
      <4>1. PICK to \in {"planned", "applied", "abandoned"} : Store!TransitionChangeset(d, to)
        BY <3>1
      <4>2. changesets' = [changesets EXCEPT ![d] = [changesets[d] EXCEPT !.status = to]]
        BY <1>1, <4>1 DEF Store!TransitionChangeset
      <4>3. [changesets[d] EXCEPT !.status = to].status # "absent"
        BY <1>1 DEF Rows!ChangesetRow
      <4>4. QED
        BY <4>2, <4>3
    <3>2. CASE \E base \in SHA : Store!CreateChangeset(d, base)
      <4>1. PICK base \in SHA : Store!CreateChangeset(d, base)
        BY <3>2
      <4> DEFINE row == [status |-> "open", base |-> base, draft |-> base, revision |-> 0]
      <4>2. changesets' = [changesets EXCEPT ![d] = row] /\ row.status # "absent"
        BY <4>1 DEF Store!CreateChangeset
      <4>3. QED
        BY <4>2
    <3>3. CASE \E expected \in SHA, new \in SHA \ drafted[d] : Store!AdvanceDraft(d, expected, new)
      <4>1. PICK new \in SHA : /\ changesets' = [changesets EXCEPT ![d].draft = new, ![d].revision = @ + 1,
                                                                   ![d].status = "open"]
        BY <3>3 DEF Store!AdvanceDraft
      <4> DEFINE next == changesets[d].revision + 1
                 row == [changesets[d] EXCEPT !.draft = new, !.revision = next, !.status = "open"]
      <4>2. changesets' = [changesets EXCEPT ![d] = row]
        BY <1>1, <4>1
      <4>3. row.status # "absent"
        BY <1>1 DEF Rows!ChangesetRow
      <4>4. QED
        BY <4>2, <4>3
    <3>4. QED
      BY <1>2, <3>1, <3>2, <3>3 DEF Store!ChangesetStep
  <2>2. QED
    BY <1>1, <1>2, <2>1 DEF Store!Exists
<1>3. ASSUME NEW p \in Request, Store!OperationStep(p)
      PROVE  changesets' = changesets /\ \A o \in Request : o # p => operations'[o] = operations[o]
  BY <1>1, <1>3 DEF Store!OperationStep, Store!ClaimOperation, Store!TransitionOperation, Store!FinishOperation,
     Store!PutPlanArtifact
<1>4. ASSUME NEW p \in Request, Store!OperationStep(p)
      PROVE  /\ Store!Claimed(p) => Store!Claimed(p)' /\ operations'[p].kind = operations[p].kind
             /\ operations'[p].status \in {"absent", "queued"} => operations[p].status \in {"absent", "queued"}
             /\ operations[p].status \in {"succeeded", "failed"} => operations'[p] = operations[p]
  BY <1>1, <1>4 DEF Store!OperationStep, Store!ClaimOperation, Store!TransitionOperation, Store!FinishOperation,
     Store!PutPlanArtifact, Store!Claimed, Rows!OperationRow, Store!OperationTransition
<1>5. ASSUME NEW d \in Changeset, Store!ChangesetStep(d) PROVE operations' = operations
  BY <1>5 DEF Store!ChangesetStep, Store!CreateChangeset, Store!AdvanceDraft, Store!TransitionChangeset
<1>6. \A c \in Changeset : Store!Exists(c) => Store!Exists(c)'
  BY <1>2, <1>3 DEF Store!Next, Store!vars, Store!Exists
<1>7. QED
  BY <1>3, <1>4, <1>5, <1>6 DEF Store!Next, Store!vars, Store!Claimed
-----------------------------------------------------------------------------
(* What a step does to the requests: one class for all the steps that only *)
(* change a label, and one for each kind of change to the other variables. *)

Only(r) == req' \in [Request -> Local] /\ \A q \in Request : q # r => req'[q] = req[q]

\* Goto(r, label), which may also forget that a changeset is fresh.
Turn(r, label) ==
  /\ Only(r)
  /\ req'[r].pc = label /\ req'[r].plan = req[r].plan
  /\ label # "done" => /\ req'[r].cs = req[r].cs /\ req'[r].sha = req[r].sha
                       /\ req'[r].op = req[r].op /\ req'[r].new = req[r].new
  /\ req'[r].fresh => req[r].fresh /\ label # "done"

\* A request is received, or picks the operation or the plan to work with.
Chooses(r) ==
  /\ UNCHANGED <<store, git, host, aux>>
  /\ Only(r)
  /\ req'[r].fresh = req[r].fresh
  /\ \/ /\ req[r].pc = "idle" /\ req'[r].pc = "create" /\ r \in Commands
        /\ req'[r].sha = mirror.main
     \/ /\ req[r].pc = "idle" /\ req'[r].pc \in {"claim", "select"}
        /\ req'[r].cs \in Changeset /\ Store!Exists(req'[r].cs)
        /\ req'[r].sha = changesets[req'[r].cs].draft
        /\ r \notin Commands => req'[r].op = r
        /\ r \in Applies => req'[r].pc = "select"
     \/ /\ req[r].pc = "select" /\ req'[r].pc = "claim" /\ r \in Applies
        /\ req'[r].cs = req[r].cs /\ req'[r].sha = req[r].sha /\ req'[r].op = req[r].op
        /\ req'[r].plan \in Plans \cap Store!LatestPlan(req[r].cs)
        /\ artifacts[req'[r].plan] = req[r].sha
     \/ /\ req[r].pc = "claim" /\ req'[r].pc = "start" /\ r \in Commands
        /\ req'[r].cs = req[r].cs /\ req'[r].sha = req[r].sha /\ req'[r].op \in Request
        /\ Store!Claimed(req'[r].op) /\ operations[req'[r].op].kind = "command"

\* A request is refused, gives up or ends, and nothing else changes.
Retreats(r) ==
  /\ UNCHANGED <<store, git, host, aux>>
  /\ \/ req[r].pc \in Running \ {"publish", "push", "fail"} /\ Turn(r, "fail")
     \/ r \in Commands /\ req[r].pc \in {"claim", "start"} /\ Turn(r, "discard")
     \/ req[r].pc \in {"claim", "select", "finish"} /\ Turn(r, "done")
     \/ r \in Applies /\ req[r].pc = "check" /\ req[r].plan \in retained /\ Turn(r, "promote")

Creates(r) ==
  \E c \in Changeset :
    /\ req[r].pc = "create" /\ r \in Commands /\ MirrorFree /\ mirror.draft[c] = None
    /\ Store!CreateChangeset(c, req[r].sha)
    /\ mirror' = [mirror EXCEPT !.draft[c] = req[r].sha]
    /\ Only(r) /\ req'[r].pc = "claim" /\ req'[r].cs = c /\ req'[r].sha = req[r].sha
    /\ UNCHANGED <<history, origin, host, aux>>

Claims(r) ==
  /\ req[r].pc = "claim"
  /\ \/ /\ r \in Commands /\ Store!ClaimOperation(r, req[r].cs, "command", None, KeyOf[r])
        /\ Only(r) /\ req'[r].pc = "start" /\ req'[r].op = r /\ req'[r].fresh = req[r].fresh
        /\ req'[r].cs = req[r].cs /\ req'[r].sha = req[r].sha
     \/ /\ r \in Plans /\ Store!ClaimOperation(r, req[r].cs, "plan", req[r].sha, KeyOf[r])
        /\ Turn(r, "queued")
     \/ /\ r \in Applies /\ Store!ClaimOperation(r, req[r].cs, "apply", req[r].sha, KeyOf[r])
        /\ Turn(r, "queued")
  /\ UNCHANGED <<git, host, aux>>

Starts(r) ==
  /\ \/ r \in Commands /\ req[r].pc = "start" /\ Turn(r, "commit")
     \/ r \in Plans /\ req[r].pc = "queued" /\ req[r].op = r /\ Turn(r, "planning")
     \/ r \in Applies /\ req[r].pc = "queued" /\ req[r].op = r /\ Turn(r, "check")
  /\ Store!TransitionOperation(req[r].op, "running")
  /\ UNCHANGED <<git, host, aux>>

Commits(r) ==
  \E n \in SHA :
    /\ r \in Commands /\ req[r].pc = "commit" /\ MirrorFree /\ ~Made(n)
    /\ mirror.draft[req[r].cs] = req[r].sha
    /\ history' = [history EXCEPT ![n] = history[req[r].sha] \cup {n}]
    /\ mirror' = [mirror EXCEPT !.draft[req[r].cs] = n]
    /\ committed' = [committed EXCEPT ![req[r].op] = @ \cup {n}]
    /\ Only(r) /\ req'[r].pc = "publish" /\ req'[r].new = n /\ req'[r].cs = req[r].cs
    /\ req'[r].sha = req[r].sha /\ req'[r].op = req[r].op /\ req'[r].fresh = req[r].fresh
    /\ UNCHANGED <<store, origin, host, started>>

\* Origin's draft is either left alone or moved to the new commit, and the
\* mirror's draft is put back when the push fails.
Publishes(r) ==
  LET c == req[r].cs
      moved == DraftAccepted(c, req[r].new) /\ origin' = [origin EXCEPT !.draft[c] = req[r].new]
  IN  /\ r \in Commands /\ req[r].pc = "publish"
      /\ \/ moved /\ Turn(r, "advance") /\ UNCHANGED mirror
         \/ /\ UNCHANGED origin \/ moved
            /\ mirror' = [mirror EXCEPT !.draft[c] = req[r].sha]
            /\ Turn(r, "fail")
      /\ UNCHANGED <<store, history, host, aux>>

Advances(r) ==
  /\ r \in Commands /\ req[r].pc = "advance"
  /\ Store!AdvanceDraft(req[r].cs, req[r].sha, req[r].new)
  /\ Turn(r, "finish")
  /\ UNCHANGED <<git, host, aux>>

Finishes(r) ==
  /\ \/ /\ req[r].pc = "finish" /\ Store!FinishOperation(req[r].op, "succeeded")
        /\ \E label \in {"done", "mark"} : Turn(r, label)
     \/ /\ req[r].pc = "fail" /\ Store!FinishOperation(req[r].op, "failed") /\ Turn(r, "discard")
  /\ UNCHANGED <<git, host, aux>>

Closes(r) ==
  /\ \/ UNCHANGED store
     \/ /\ req[r].cs \in Changeset
        /\ \E to \in {"planned", "applied", "abandoned"} : Store!TransitionChangeset(req[r].cs, to)
  /\ req[r].pc \in {"discard", "mark"} /\ Turn(r, "done")
  /\ UNCHANGED <<git, host, aux>>

\* The runner plans or applies, or the plan is saved.
Runs(r) ==
  /\ r \notin Commands
  /\ \/ /\ req[r].pc = "planning" /\ Turn(r, "store")
        /\ retained' = retained \cup {r} /\ r \in Plans /\ UNCHANGED <<store, started>>
     \/ /\ req[r].pc = "store" /\ Turn(r, "finish")
        /\ Store!PutPlanArtifact(r, req[r].sha) /\ r \in Plans /\ UNCHANGED <<retained, started>>
     \/ /\ req[r].pc = "run" /\ Turn(r, "applying")
        /\ started' = started \cup {r} /\ r \in Applies /\ req[r].plan \in retained
        /\ UNCHANGED <<store, retained>>
     \/ /\ req[r].pc = "applying" /\ Turn(r, "finish")
        /\ retained' = retained \ {req[r].plan} /\ r \in Applies /\ UNCHANGED <<store, started>>
  /\ UNCHANGED <<git, crashes, committed>>

\* As Publishes, for the default branch.
Promotes(r) ==
  LET moved == OriginAccepts(r) /\ origin' = [origin EXCEPT !.main = req[r].sha]
  IN  /\ r \in Applies
      /\ \/ /\ req[r].pc = "promote" /\ MirrorFree /\ FastForward(r)
            /\ mirror' = [mirror EXCEPT !.main = req[r].sha]
            /\ Only(r) /\ req'[r].pc = "push" /\ req'[r].new = mirror.main /\ req'[r].cs = req[r].cs
            /\ req'[r].sha = req[r].sha /\ req'[r].op = req[r].op /\ req'[r].fresh = req[r].fresh
            /\ req'[r].plan = req[r].plan
            /\ UNCHANGED origin
         \/ req[r].pc = "push" /\ moved /\ Turn(r, "run") /\ UNCHANGED mirror
         \/ /\ req[r].pc = "push" /\ (UNCHANGED origin \/ moved)
            /\ mirror' = [mirror EXCEPT !.main = req[r].new]
            /\ Turn(r, "fail")
      /\ UNCHANGED <<store, history, host, aux>>

Step(r) ==
  \/ Chooses(r) \/ Retreats(r) \/ Creates(r) \/ Claims(r) \/ Starts(r) \/ Commits(r)
  \/ Publishes(r) \/ Advances(r) \/ Finishes(r) \/ Closes(r) \/ Runs(r) \/ Promotes(r)

LEMMA GotoTurns ==
  ASSUME req \in [Request -> Local], NEW r \in Request, NEW label \in Labels, Goto(r, label)
  PROVE  Turn(r, label)
<1>1. CASE label = "done"
  <2> DEFINE l == Done(r)
  <2>1. req' = [req EXCEPT ![r] = l]
    BY <1>1 DEF Goto
  <2>2. l \in Local /\ l.pc = "done" /\ l.plan = req[r].plan /\ l.fresh = FALSE
    BY DEF Done, Idle, Local, Labels
  <2> HIDE DEF l
  <2>3. QED
    BY <1>1, <2>1, <2>2 DEF Turn, Only
<1>2. CASE label # "done"
  <2> DEFINE l == [req[r] EXCEPT !.pc = label]
  <2>1. req' = [req EXCEPT ![r] = l]
    BY <1>2 DEF Goto
  <2>2. /\ l \in Local /\ l.pc = label /\ l.plan = req[r].plan /\ l.fresh = req[r].fresh
        /\ l.cs = req[r].cs /\ l.sha = req[r].sha /\ l.op = req[r].op /\ l.new = req[r].new
    BY DEF Local
  <2> HIDE DEF l
  <2>3. QED
    BY <1>2, <2>1, <2>2 DEF Turn, Only
<1>3. QED
  BY <1>1, <1>2

\* A choice of a request is a row of its local variables.
LEMMA OnlyOne ==
  ASSUME req \in [Request -> Local], NEW r \in Request, NEW l \in Local, req' = [req EXCEPT ![r] = l]
  PROVE  Only(r) /\ req'[r] = l
  BY DEF Only

LEMMA CommandSteps ==
  ASSUME TypeInv, TargetInv, LedgerAssumption, NEW r \in Commands, CommandStep(r)
  PROVE  Step(r)
<1>1. /\ req \in [Request -> Local] /\ r \in Request /\ mirror.main \in SHA /\ req[r] \in Local
      /\ changesets \in [Changeset -> Rows!ChangesetRow]
      /\ \A c \in Changeset : changesets[c].draft \in SHA \cup {None}
  BY DEF TypeInv, Refs, Request, Rows!RowsInv, Rows!TypeOK, Rows!ChangesetRow
<1>2. ASSUME ReadDefault(r) PROVE Chooses(r)
  <2> DEFINE l == [req[r] EXCEPT !.pc = "create", !.sha = mirror.main]
  <2>1. req' = [req EXCEPT ![r] = l]
    BY <1>1, <1>2 DEF ReadDefault, Local
  <2>2. l \in Local /\ l.pc = "create" /\ l.sha = mirror.main /\ l.fresh = req[r].fresh
    BY <1>1 DEF Local, Labels
  <2>3. Only(r) /\ req'[r] = l
    BY <1>1, <2>1, <2>2, OnlyOne
  <2> HIDE DEF l
  <2>4. QED
    BY <1>2, <2>2, <2>3 DEF ReadDefault, Chooses
<1>3. ASSUME NEW c \in Changeset, ReadChangeset(r, c) PROVE Chooses(r)
  <2> DEFINE l == [req[r] EXCEPT !.pc = "claim", !.cs = c, !.sha = changesets[c].draft]
  <2>1. req' = [req EXCEPT ![r] = l]
    BY <1>1, <1>3 DEF ReadChangeset, Local
  <2>2. /\ l \in Local /\ l.pc = "claim" /\ l.cs = c /\ l.sha = changesets[c].draft
        /\ l.fresh = req[r].fresh
    BY <1>1 DEF Local, Labels
  <2>3. Only(r) /\ req'[r] = l
    BY <1>1, <2>1, <2>2, OnlyOne
  <2> HIDE DEF l
  <2>4. QED
    BY <1>3, <2>2, <2>3 DEF ReadChangeset, Chooses, AcceptsCommand, Store!Exists
<1>4. ASSUME NEW c \in Changeset, CreateDraft(r, c) PROVE Creates(r)
  <2> DEFINE l == [req[r] EXCEPT !.pc = "claim", !.cs = c, !.fresh = TRUE]
  <2>1. req' = [req EXCEPT ![r] = l]
    BY <1>1, <1>4 DEF CreateDraft, Local
  <2>2. l \in Local /\ l.pc = "claim" /\ l.cs = c /\ l.sha = req[r].sha
    BY <1>1 DEF Local, Labels
  <2>3. Only(r) /\ req'[r] = l
    BY <1>1, <2>1, <2>2, OnlyOne
  <2> HIDE DEF l
  <2>4. QED
    BY <1>4, <2>2, <2>3 DEF CreateDraft, Creates
<1>5. ASSUME ClaimCommand(r) PROVE Claims(r)
  <2> DEFINE l == [req[r] EXCEPT !.pc = "start", !.op = r]
  <2>1. req' = [req EXCEPT ![r] = l]
    BY <1>1, <1>5 DEF ClaimCommand, Local
  <2>2. /\ l \in Local /\ l.pc = "start" /\ l.op = r /\ l.sha = req[r].sha /\ l.cs = req[r].cs
        /\ l.fresh = req[r].fresh
    BY <1>1 DEF Local, Labels
  <2>3. Only(r) /\ req'[r] = l
    BY <1>1, <2>1, <2>2, OnlyOne
  <2> HIDE DEF l
  <2>4. QED
    BY <1>5, <2>2, <2>3 DEF ClaimCommand, Claims
<1>6. ASSUME NEW o \in Request, FindClaimed(r, o) PROVE Chooses(r) \/ Retreats(r)
  <2>1. o \in Request /\ Store!Claimed(o) /\ operations[o].kind = "command"
    BY <1>6 DEF FindClaimed, Store!OperationByKey
  <2>2. CASE operations[o].status = "queued"
    <3> DEFINE l == [req[r] EXCEPT !.pc = "start", !.op = o]
    <3>1. req' = [req EXCEPT ![r] = l]
      BY <1>1, <1>6, <2>2 DEF FindClaimed, Local
    <3>2. /\ l \in Local /\ l.pc = "start" /\ l.op = o /\ l.sha = req[r].sha /\ l.cs = req[r].cs
          /\ l.fresh = req[r].fresh
      BY <1>1 DEF Local, Labels
    <3>3. Only(r) /\ req'[r] = l
      BY <1>1, <3>1, <3>2, OnlyOne
    <3> HIDE DEF l
    <3>4. QED
      BY <1>6, <2>1, <3>2, <3>3 DEF FindClaimed, Chooses
  <2>3. CASE operations[o].status # "queued"
    BY <1>1, <1>6, <2>3, GotoTurns DEF FindClaimed, Retreats, Labels
  <2>4. QED
    BY <2>2, <2>3
<1>7. ASSUME StartCommand(r) PROVE Starts(r)
  BY <1>1, <1>7, GotoTurns DEF StartCommand, Starts, Labels
<1>8. ASSUME RefuseCommand(r) \/ RejectCommit(r) \/ SwapRefused(r) \/ AdvanceRefused(r) PROVE Retreats(r)
  BY <1>1, <1>8, GotoTurns DEF RefuseCommand, RejectCommit, SwapRefused, AdvanceRefused, Retreats, Running, Labels
<1>9. ASSUME NEW n \in SHA, CommitDraft(r, n) PROVE Commits(r)
  <2> DEFINE l == [req[r] EXCEPT !.pc = "publish", !.new = n]
  <2>1. req' = [req EXCEPT ![r] = l]
    BY <1>1, <1>9 DEF CommitDraft, Local
  <2>2. /\ l \in Local /\ l.pc = "publish" /\ l.new = n /\ l.op = req[r].op /\ l.sha = req[r].sha
        /\ l.cs = req[r].cs /\ l.fresh = req[r].fresh
    BY <1>1 DEF Local, Labels
  <2>3. Only(r) /\ req'[r] = l
    BY <1>1, <2>1, <2>2, OnlyOne
  <2> HIDE DEF l
  <2>4. QED
    BY <1>9, <2>2, <2>3 DEF CommitDraft, Commits
<1>10. ASSUME PublishDraft(r) PROVE Publishes(r)
  <2>1. CASE req' = [req EXCEPT ![r].pc = "advance", ![r].fresh = FALSE]
    <3> DEFINE l == [req[r] EXCEPT !.pc = "advance", !.fresh = FALSE]
    <3>1. req' = [req EXCEPT ![r] = l]
      BY <1>1, <2>1 DEF Local
    <3>2. /\ l \in Local /\ l.pc = "advance" /\ l.new = req[r].new /\ l.op = req[r].op /\ l.sha = req[r].sha
          /\ l.cs = req[r].cs /\ l.fresh = FALSE /\ l.plan = req[r].plan
      BY <1>1 DEF Local, Labels
    <3>3. Only(r) /\ req'[r] = l
      BY <1>1, <3>1, <3>2, OnlyOne
    <3>4. ~Goto(r, "fail")
      BY <1>1, <3>2, <3>3, GotoTurns DEF Turn, Labels
    <3> HIDE DEF l
    <3>5. Turn(r, "advance")
      BY <3>2, <3>3 DEF Turn
    <3>6. QED
      BY <1>10, <3>4, <3>5 DEF PublishDraft, Publishes
  <2>2. CASE Goto(r, "fail")
    <3>1. Turn(r, "fail")
      BY <1>1, <2>2, GotoTurns DEF Labels
    <3>2. req' # [req EXCEPT ![r].pc = "advance", ![r].fresh = FALSE]
      BY <1>1, <3>1 DEF Turn, Local
    <3>3. QED
      BY <1>10, <3>1, <3>2 DEF PublishDraft, Publishes
  <2>3. QED
    BY <1>10, <2>1, <2>2 DEF PublishDraft
<1>11. ASSUME AdvanceDraft(r) PROVE Advances(r)
  BY <1>1, <1>11, GotoTurns DEF AdvanceDraft, Advances, Labels
<1>12. ASSUME FinishCommand(r) PROVE Finishes(r)
  BY <1>1, <1>12, GotoTurns DEF FinishCommand, Finishes, Labels
<1>13. ASSUME FinishCancelled(r) PROVE Retreats(r)
  BY <1>1, <1>13, GotoTurns DEF FinishCancelled, Retreats, Running, Labels
<1>14. QED
  BY <1>2, <1>3, <1>4, <1>5, <1>6, <1>7, <1>8, <1>9, <1>10, <1>11, <1>12, <1>13 DEF CommandStep, Step

LEMMA PlanSteps ==
  ASSUME TypeInv, OperationInv, TargetInv, LedgerAssumption, NEW r \in Plans, PlanStep(r)
  PROVE  Step(r)
<1>1. /\ req \in [Request -> Local] /\ r \in Request /\ r \notin Commands /\ r \notin Applies
      /\ req[r] \in Local
      /\ \A c \in Changeset : changesets[c].draft \in SHA \cup {None}
  BY DEF TypeInv, Request, LedgerAssumption, Rows!RowsInv, Rows!TypeOK, Rows!ChangesetRow
<1>2. req[r].pc \in {"queued", "finish"} => req[r].op = r
  BY <1>1 DEF OperationInv, Works
<1>3. ASSUME NEW c \in Changeset, ReadForPlan(r, c) PROVE Chooses(r)
  <2> DEFINE l == [req[r] EXCEPT !.pc = "claim", !.cs = c, !.op = r, !.sha = changesets[c].draft]
  <2>1. req' = [req EXCEPT ![r] = l]
    BY <1>1, <1>3 DEF ReadForPlan, Local
  <2>2. /\ l \in Local /\ l.pc = "claim" /\ l.cs = c /\ l.op = r /\ l.sha = changesets[c].draft
        /\ l.fresh = req[r].fresh
    BY <1>1 DEF Local, Labels
  <2>3. Only(r) /\ req'[r] = l
    BY <1>1, <2>1, <2>2, OnlyOne
  <2> HIDE DEF l
  <2>4. QED
    BY <1>3, <2>2, <2>3 DEF ReadForPlan, Chooses, Store!Exists
<1>4. ASSUME ClaimPlan(r) PROVE Claims(r)
  BY <1>1, <1>4, GotoTurns DEF ClaimPlan, Claims, Labels
<1>5. ASSUME ClaimRefused(r, "plan") \/ PlanFails(r) PROVE Retreats(r)
  BY <1>1, <1>5, GotoTurns DEF ClaimRefused, PlanFails, Retreats, Running, Labels
<1>6. ASSUME StartOperation(r, "planning") PROVE Starts(r)
  BY <1>1, <1>2, <1>6, GotoTurns DEF StartOperation, Starts, Labels
<1>7. ASSUME RunnerPlan(r) \/ StorePlan(r) PROVE Runs(r)
  BY <1>1, <1>7, GotoTurns DEF RunnerPlan, StorePlan, Runs, Labels, aux, host
<1>8. ASSUME FinishOperation(r) PROVE Finishes(r)
  BY <1>1, <1>2, <1>8, GotoTurns DEF FinishOperation, Finishes, Labels
<1>9. ASSUME MarkChangeset(r, "planned") PROVE Closes(r)
  <2>1. req[r].cs \in Changeset
    BY <1>1, <1>9 DEF TargetInv, Target, MarkChangeset
  <2>2. QED
    BY <1>1, <1>9, <2>1, GotoTurns DEF MarkChangeset, Closes, Labels
<1>10. QED
  BY <1>3, <1>4, <1>5, <1>6, <1>7, <1>8, <1>9 DEF PlanStep, Step

LEMMA ApplySteps ==
  ASSUME TypeInv, OperationInv, TargetInv, LedgerAssumption, NEW r \in Applies, ApplyStep(r)
  PROVE  Step(r)
<1>1. /\ req \in [Request -> Local] /\ r \in Request /\ r \notin Commands /\ r \notin Plans
      /\ req[r] \in Local /\ mirror.main \in SHA
      /\ \A c \in Changeset : changesets[c].draft \in SHA \cup {None}
  BY DEF TypeInv, Request, Refs, LedgerAssumption, Rows!RowsInv, Rows!TypeOK, Rows!ChangesetRow
<1>2. req[r].pc \in {"queued", "finish"} => req[r].op = r
  BY <1>1 DEF OperationInv, Works
<1>3. ASSUME NEW c \in Changeset, ReadForApply(r, c) PROVE Chooses(r)
  <2> DEFINE l == [req[r] EXCEPT !.pc = "select", !.cs = c, !.op = r, !.sha = changesets[c].draft]
  <2>1. req' = [req EXCEPT ![r] = l]
    BY <1>1, <1>3 DEF ReadForApply, Local
  <2>2. /\ l \in Local /\ l.pc = "select" /\ l.cs = c /\ l.op = r /\ l.sha = changesets[c].draft
        /\ l.fresh = req[r].fresh
    BY <1>1 DEF Local, Labels
  <2>3. Only(r) /\ req'[r] = l
    BY <1>1, <2>1, <2>2, OnlyOne
  <2> HIDE DEF l
  <2>4. QED
    BY <1>3, <2>2, <2>3 DEF ReadForApply, AcceptsApply, Chooses, Store!Exists
<1>4. ASSUME NEW p \in Plans, SelectPlan(r, p) PROVE Chooses(r) \/ Retreats(r)
  <2>1. CASE PlanFits(r, p)
    <3> DEFINE l == [req[r] EXCEPT !.pc = "claim", !.plan = p]
    <3>1. req' = [req EXCEPT ![r] = l]
      BY <1>1, <1>4, <2>1 DEF SelectPlan, Local
    <3>2. /\ l \in Local /\ l.pc = "claim" /\ l.op = req[r].op /\ l.sha = req[r].sha /\ l.cs = req[r].cs
          /\ l.fresh = req[r].fresh /\ l.plan = p
      BY <1>1 DEF Local, Labels
    <3>3. Only(r) /\ req'[r] = l
      BY <1>1, <3>1, <3>2, OnlyOne
    <3> HIDE DEF l
    <3>4. QED
      BY <1>4, <2>1, <3>2, <3>3 DEF SelectPlan, PlanFits, Chooses
  <2>2. CASE ~PlanFits(r, p)
    BY <1>1, <1>4, <2>2, GotoTurns DEF SelectPlan, Retreats, Labels
  <2>3. QED
    BY <2>1, <2>2
<1>5. ASSUME ClaimApply(r) PROVE Claims(r)
  BY <1>1, <1>5, GotoTurns DEF ClaimApply, Claims, Labels
<1>6. ASSUME ClaimRefused(r, "apply") \/ PromoteRefused(r) \/ ApplyFails(r) \/ CheckRetained(r)
      PROVE  Retreats(r)
  BY <1>1, <1>6, GotoTurns DEF ClaimRefused, PromoteRefused, ApplyFails, CheckRetained, Retreats, Running, Labels
<1>7. ASSUME StartOperation(r, "check") PROVE Starts(r)
  BY <1>1, <1>2, <1>7, GotoTurns DEF StartOperation, Starts, Labels
<1>8. ASSUME PromoteMirror(r) PROVE Promotes(r) \/ Retreats(r)
  <2>1. CASE FastForward(r)
    <3> DEFINE l == [req[r] EXCEPT !.pc = "push", !.new = mirror.main]
    <3>1. req' = [req EXCEPT ![r] = l]
      BY <1>1, <1>8, <2>1 DEF PromoteMirror, Local
    <3>2. /\ l \in Local /\ l.pc = "push" /\ l.new = mirror.main /\ l.op = req[r].op /\ l.sha = req[r].sha
          /\ l.cs = req[r].cs /\ l.fresh = req[r].fresh /\ l.plan = req[r].plan
      BY <1>1 DEF Local, Labels
    <3>3. Only(r) /\ req'[r] = l
      BY <1>1, <3>1, <3>2, OnlyOne
    <3> HIDE DEF l
    <3>4. QED
      BY <1>8, <2>1, <3>2, <3>3 DEF PromoteMirror, Promotes
  <2>2. CASE ~FastForward(r)
    <3>1. Turn(r, "fail") /\ UNCHANGED mirror
      BY <1>1, <1>8, <2>2, GotoTurns DEF PromoteMirror, Labels
    <3>2. QED
      BY <1>8, <3>1 DEF PromoteMirror, Retreats, Running, git
  <2>3. QED
    BY <2>1, <2>2
<1>9. ASSUME PromoteOrigin(r) PROVE Promotes(r)
  BY <1>1, <1>9, GotoTurns DEF PromoteOrigin, Promotes, Labels
<1>10. ASSUME RunnerApply(r) \/ ApplyReturns(r) PROVE Runs(r) \/ Retreats(r)
  BY <1>1, <1>10, GotoTurns DEF RunnerApply, ApplyReturns, Runs, Retreats, Running, Labels, aux, host
<1>11. ASSUME FinishOperation(r) PROVE Finishes(r)
  BY <1>1, <1>2, <1>11, GotoTurns DEF FinishOperation, Finishes, Labels
<1>12. ASSUME MarkChangeset(r, "applied") PROVE Closes(r)
  <2>1. req[r].cs \in Changeset
    BY <1>1, <1>12 DEF TargetInv, Target, MarkChangeset
  <2>2. QED
    BY <1>1, <1>12, <2>1, GotoTurns DEF MarkChangeset, Closes, Labels
<1>13. QED
  BY <1>3, <1>4, <1>5, <1>6, <1>7, <1>8, <1>9, <1>10, <1>11, <1>12 DEF ApplyStep, Step

\* Every step of the service is one of the classes, or of the environment.
LEMMA AllSteps ==
  ASSUME TypeInv, OperationInv, TargetInv, LedgerAssumption, Next
  PROVE  \/ \E r \in Request : Step(r)
         \/ \E n \in SHA : ExternalPush(n)
         \/ Fetch
         \/ Crash
<1>1. req \in [Request -> Local]
  BY DEF TypeInv
<1>2. ASSUME NEW r \in Request, Fail(r) PROVE Finishes(r)
  BY <1>1, <1>2, GotoTurns DEF Fail, Finishes, Labels
<1>3. ASSUME NEW r \in Request, Discard(r) PROVE Closes(r)
  <2>1. req[r].cs \in Changeset
    BY <1>3 DEF Discard, TargetInv, Target
  <2>2. QED
    BY <1>1, <1>3, <2>1, GotoTurns DEF Discard, Closes, Labels
<1>4. QED
  BY <1>2, <1>3, CommandSteps, PlanSteps, ApplySteps DEF Next, Step, Request
-----------------------------------------------------------------------------
(* The store, and the types *)

\* Each class uses the store in a way its specification allows.
LEMMA UsesStore ==
  ASSUME TypeInv, OperationInv, TargetInv, CommitInv, RefInv, LedgerAssumption,
         NEW r \in Request, Step(r)
  PROVE  [Store!Next]_(Store!vars)
<1>1. UNCHANGED store => UNCHANGED Store!vars
  BY DEF store, Store!vars
<1>2. CASE Chooses(r) \/ Retreats(r) \/ Commits(r) \/ Publishes(r) \/ Promotes(r)
  BY <1>1, <1>2 DEF Chooses, Retreats, Commits, Publishes, Promotes
<1>3. CASE Creates(r)
  <2>1. req[r].sha \in SHA
    BY <1>3 DEF Creates, TargetInv, Target
  <2>2. QED
    BY <1>3, <2>1 DEF Creates, Store!Next, Store!ChangesetStep
<1>4. CASE Claims(r)
  <2>1. req[r].cs \in Changeset /\ req[r].sha \in SHA /\ KeyOf[r] \in Key
    BY <1>4 DEF Claims, TargetInv, Target, LedgerAssumption
  <2>2. QED
    BY <1>4, <2>1 DEF Claims, Store!Next, Store!OperationStep
<1>5. CASE Starts(r)
  <2>1. req[r].op \in Request
    BY <1>5 DEF Starts, OperationInv, Works
  <2>2. QED
    BY <1>5, <2>1 DEF Starts, Store!Next, Store!OperationStep
<1>6. CASE Advances(r)
  <2> DEFINE c == req[r].cs
             s == req[r].sha
             n == req[r].new
  <2>1. /\ c \in Changeset /\ s \in SHA /\ n \in SHA /\ Store!Exists(c)
        /\ n \notin history[s]
    BY <1>6 DEF Advances, TargetInv, Target, CommitInv, Commit
  <2>2. drafted[c] \subseteq history[s]
    BY <1>6, <2>1 DEF Advances, Store!AdvanceDraft, RefInv, Behind, Ahead
  <2>3. Store!AdvanceDraft(c, s, n) /\ n \in SHA \ drafted[c]
    BY <1>6, <2>1, <2>2 DEF Advances
  <2> HIDE DEF c, s, n
  <2>4. QED
    BY <2>1, <2>3 DEF Store!Next, Store!ChangesetStep
<1>7. CASE Finishes(r)
  <2>1. req[r].op \in Request
    BY <1>7 DEF Finishes, OperationInv, Works, Running
  <2>2. QED
    BY <1>7, <2>1 DEF Finishes, Store!Next, Store!OperationStep
<1>8. CASE Closes(r)
  BY <1>1, <1>8 DEF Closes, Store!Next, Store!ChangesetStep
<1>9. CASE Runs(r)
  <2>1. req[r].pc = "store" => req[r].sha \in SHA
    BY DEF TargetInv, Target
  <2>2. QED
    BY <1>1, <1>9, <2>1 DEF Runs, Store!Next, Store!OperationStep, store
<1>10. QED
  BY <1>2, <1>3, <1>4, <1>5, <1>6, <1>7, <1>8, <1>9 DEF Step

LEMMA StoreStep ==
  ASSUME TypeInv, OperationInv, TargetInv, CommitInv, RefInv, LedgerAssumption, [Next]_vars
  PROVE  [Store!Next]_(Store!vars)
<1>1. CASE UNCHANGED vars \/ Fetch \/ Crash \/ \E n \in SHA : ExternalPush(n)
  BY <1>1 DEF vars, store, Store!vars, Fetch, Crash, ExternalPush
<1>2. CASE Next
  BY <1>1, <1>2, AllSteps, UsesStore
<1>3. QED
  BY <1>1, <1>2

LEMMA StoreInvariant ==
  ASSUME TypeInv, LedgerAssumption, [Store!Next]_(Store!vars)
  PROVE  Rows!RowsInv'
  BY StoreIsRows, Rows!StepRows, LedgerAssumption DEF TypeInv, LedgerAssumption

\* The requests keep their shape.
LEMMA RequestTypes ==
  ASSUME TypeInv, NEW r \in Request, Step(r)
  PROVE  Only(r)
  BY DEF Step, Chooses, Retreats, Creates, Claims, Starts, Commits, Publishes, Advances, Finishes, Closes,
     Runs, Promotes, Turn

LEMMA TypesStep ==
  ASSUME TypeInv, OperationInv, TargetInv, CommitInv, RefInv, LedgerAssumption, Next
  PROVE  TypeInv'
<1>1. Rows!RowsInv'
  BY StoreStep, StoreInvariant
<1>2. ASSUME NEW r \in Request, Step(r) PROVE TypeInv'
  <2>1. req' \in [Request -> Local]
    BY <1>2, RequestTypes DEF Only
  <2>2. CASE UNCHANGED <<git, host, aux>>
    BY <1>1, <2>1, <2>2 DEF TypeInv, git, host, aux
  <2>3. CASE Creates(r)
    BY <1>1, <2>1, <2>3 DEF TypeInv, Creates, TargetInv, Target, Refs, host, aux
  <2>4. CASE Commits(r)
    <3>1. req[r].op \in Request /\ req[r].cs \in Changeset /\ req[r].sha \in SHA
      BY <2>4 DEF Commits, OperationInv, Works, TargetInv, Target, Running
    <3>2. QED
      BY <1>1, <2>1, <2>4, <3>1 DEF TypeInv, Commits, Refs, host
  <2>5. CASE Publishes(r)
    <3>1. req[r].cs \in Changeset /\ req[r].sha \in SHA /\ req[r].new \in SHA
      BY <2>5 DEF Publishes, CommitInv, Commit, TargetInv, Target
    <3>2. QED
      BY <1>1, <2>1, <2>5, <3>1 DEF TypeInv, Publishes, Refs, host, aux
  <2>6. CASE Promotes(r)
    <3>1. req[r].sha \in SHA /\ (req[r].pc = "push" => req[r].new \in SHA)
      BY <2>6 DEF Promotes, TargetInv, Target
    <3>2. QED
      BY <1>1, <2>1, <2>6, <3>1 DEF TypeInv, Promotes, Refs, host, aux
  <2>7. CASE Runs(r)
    BY <1>1, <2>1, <2>7 DEF TypeInv, Runs, git
  <2>8. QED
    BY <1>2, <2>2, <2>3, <2>4, <2>5, <2>6, <2>7 DEF Step, Chooses, Retreats, Claims, Starts, Advances,
       Finishes, Closes
<1>3. ASSUME NEW n \in SHA, ExternalPush(n) PROVE TypeInv'
  BY <1>1, <1>3 DEF TypeInv, ExternalPush, Refs, host, aux
<1>4. CASE Fetch
  BY <1>1, <1>4 DEF TypeInv, Fetch, Refs, host, aux
<1>5. CASE Crash
  <2>1. \A r \in Request : Idle \in Local /\ Done(r) \in Local
    BY DEF TypeInv, Done, Idle, Local, Labels
  <2>2. req' \in [Request -> Local]
    BY <1>5, <2>1 DEF Crash
  <2>3. QED
    BY <1>1, <1>5, <2>2, LedgerAssumption DEF TypeInv, Crash, git, aux, LedgerAssumption
<1>6. QED
  BY <1>2, <1>3, <1>4, <1>5, AllSteps
-----------------------------------------------------------------------------
(* Git *)

HistoryOrdered ==
  /\ \A s \in SHA : Made(s) => s \in history[s]
  /\ \A s \in SHA : \A t \in history[s] : Made(t) /\ history[t] \subseteq history[s]
  /\ \A s, t \in SHA : s \in history[t] /\ t \in history[s] => s = t

\* What was made stays as it is.
HistoryKept == \A s \in SHA : Made(s) => history'[s] = history[s]

\* Refs at GitHub only move forward.
OriginForward ==
  /\ origin.main \in history'[origin'.main]
  /\ \A c \in Changeset : origin.draft[c] # None =>
       origin'.draft[c] # None /\ origin.draft[c] \in history'[origin'.draft[c]]

LEMMA NewCommit ==
  ASSUME history \in [SHA -> SUBSET SHA], HistoryOrdered, NEW s \in SHA, NEW n \in SHA, Made(s), ~Made(n),
         history' = [history EXCEPT ![n] = history[s] \cup {n}]
  PROVE  /\ HistoryOrdered' /\ HistoryKept /\ history'[n] = history[s] \cup {n}
         /\ \A t \in SHA : Made(t) => Made(t)'
         /\ n \in history'[n] /\ Made(n)' /\ n \notin history[s]
<1>1. /\ history'[n] = history[s] \cup {n} /\ \A t \in SHA : t # n => history'[t] = history[t]
      /\ \A t \in SHA : n \notin history[t]
  BY DEF HistoryOrdered, Made
<1>2. QED
  BY <1>1 DEF HistoryOrdered, HistoryKept, Made

LEMMA GitStep ==
  ASSUME TypeInv, TargetInv, HistoryInv, LockInv, CommitInv, RefInv, LedgerAssumption,
         \/ \E r \in Request : Step(r)
         \/ \E n \in SHA : ExternalPush(n)
         \/ Fetch
         \/ Crash
  PROVE  HistoryInv' /\ HistoryKept /\ OriginForward
<1>1. /\ HistoryOrdered /\ history \in [SHA -> SUBSET SHA] /\ mirror \in Refs /\ origin \in Refs
      /\ None \notin SHA
      /\ \A s \in SHA : Made(s) => s \in history[s]
  BY DEF HistoryInv, HistoryOrdered, TypeInv, LedgerAssumption
<1>2. ASSUME HistoryOrdered',
             \A s \in SHA : Made(s) => Made(s)',
             Made(mirror.main)', Made(origin.main)',
             \A c \in Changeset :
               /\ mirror'.draft[c] # None => Made(mirror.draft[c])'
               /\ origin'.draft[c] # None => Made(origin.draft[c])' /\ mirror'.draft[c] # None
      PROVE  HistoryInv'
  BY <1>2 DEF HistoryInv, HistoryOrdered
<1>3. ASSUME history' = history PROVE HistoryOrdered' /\ HistoryKept /\ \A s \in SHA : Made(s)' <=> Made(s)
  BY <1>1, <1>3 DEF HistoryOrdered, HistoryKept, Made
<1>4. CASE UNCHANGED git
  BY <1>1, <1>3, <1>4 DEF git, HistoryInv, HistoryOrdered, OriginForward, Refs
<1>5. ASSUME NEW r \in Request, Step(r) PROVE HistoryInv' /\ HistoryKept /\ OriginForward
  <2>1. CASE Creates(r)
    <3>1. req[r].sha \in SHA /\ Made(req[r].sha)
      BY <2>1 DEF Creates, TargetInv, Target
    <3>2. QED
      BY <1>1, <1>3, <2>1, <3>1 DEF Creates, HistoryInv, HistoryOrdered, OriginForward, Refs
  <2>2. CASE Commits(r)
    <3> DEFINE s == req[r].sha
               c == req[r].cs
    <3>1. PICK n \in SHA : /\ mirror.draft[c] = s /\ ~Made(n) /\ origin' = origin
                           /\ history' = [history EXCEPT ![n] = history[s] \cup {n}]
                           /\ mirror' = [mirror EXCEPT !.draft[c] = n]
      BY <2>2 DEF Commits
    <3>2. s \in SHA /\ Made(s) /\ c \in Changeset
      <4>1. c \in Changeset /\ s \in SHA
        BY <2>2 DEF Commits, TargetInv, Target
      <4>2. QED
        BY <1>1, <3>1, <4>1 DEF HistoryInv
    <3> HIDE DEF s, c
    <3>3. /\ HistoryOrdered' /\ HistoryKept
          /\ \A t \in SHA : Made(t) => Made(t)'
          /\ Made(n)'
      BY <1>1, <3>1, <3>2, NewCommit
    <3>4. /\ mirror'.main = mirror.main /\ mirror'.draft[c] = n
          /\ \A d \in Changeset : d # c => mirror'.draft[d] = mirror.draft[d]
      BY <1>1, <3>1, <3>2 DEF Refs
    <3>5. OriginForward
      <4>1. \A t \in SHA : Made(t) => t \in history'[t]
        BY <1>1, <3>3 DEF HistoryKept
      <4>2. QED
        BY <1>1, <3>1, <4>1 DEF HistoryInv, OriginForward, Refs
    <3>6. /\ Made(mirror.main)' /\ Made(origin.main)'
          /\ \A d \in Changeset :
               /\ mirror'.draft[d] # None => Made(mirror.draft[d])'
               /\ origin'.draft[d] # None => Made(origin.draft[d])' /\ mirror'.draft[d] # None
      BY <1>1, <3>1, <3>3, <3>4 DEF HistoryInv, Refs, Made
    <3>7. QED
      BY <1>2, <3>3, <3>5, <3>6
  <2>3. CASE Publishes(r)
    <3> DEFINE c == req[r].cs
               n == req[r].new
               s == req[r].sha
    <3>1. /\ c \in Changeset /\ s \in SHA /\ n \in SHA /\ Made(s) /\ mirror.draft[c] = n /\ Made(n)
          /\ n \in history[n]
      BY <1>1, <2>3 DEF Publishes, TargetInv, Target, CommitInv, Commit, RefInv, Behind, Ahead, HistoryInv
    <3>2. /\ history' = history
          /\ \/ origin' = origin
             \/ /\ origin.draft[c] \in history[n] \cup {None}
                /\ origin' = [origin EXCEPT !.draft[c] = n]
          /\ mirror' = mirror \/ mirror' = [mirror EXCEPT !.draft[c] = s]
      BY <2>3 DEF Publishes, DraftAccepted
    <3> HIDE DEF c, n, s
    <3>3. QED
      BY <1>1, <1>3, <3>1, <3>2 DEF HistoryInv, HistoryOrdered, OriginForward, Refs
  <2>4. CASE Promotes(r)
    <3> DEFINE b == req[r].new
               s == req[r].sha
    <3>1. history' = history
      BY <2>4 DEF Promotes
    <3>2. CASE req[r].pc = "promote"
      <4>1. s \in SHA /\ Made(s) /\ origin' = origin /\ mirror' = [mirror EXCEPT !.main = s]
        <5>1. s \in SHA
          BY <3>2 DEF TargetInv, Target
        <5>2. mirror.main \in history[s] /\ origin' = origin /\ mirror' = [mirror EXCEPT !.main = s]
          BY <2>4, <3>2 DEF Promotes, FastForward
        <5>3. QED
          BY <5>1, <5>2 DEF Made
      <4> HIDE DEF s, b
      <4>2. QED
        BY <1>1, <1>3, <3>1, <4>1 DEF HistoryInv, HistoryOrdered, OriginForward, Refs
    <3>3. CASE req[r].pc = "push"
      <4>1. s \in SHA /\ b \in SHA /\ Made(b)
        BY <3>3 DEF TargetInv, Target
      <4>2. \/ origin' = origin
            \/ origin.main \in history[s] /\ origin' = [origin EXCEPT !.main = s]
        BY <2>4, <3>3 DEF Promotes, OriginAccepts
      <4>3. mirror' = mirror \/ mirror' = [mirror EXCEPT !.main = b]
        BY <2>4, <3>3 DEF Promotes
      <4> HIDE DEF s, b
      <4>4. \A t \in SHA : t \in history[s] => Made(s) /\ s \in history[s]
        BY <1>1, <4>1 DEF Made
      <4>5. OriginForward
        BY <1>1, <3>1, <4>1, <4>2, <4>4 DEF HistoryInv, OriginForward, Refs
      <4>6. /\ Made(mirror.main) /\ Made(origin.main) /\ mirror'.main \in {mirror.main, b}
            /\ origin'.main = origin.main \/ (origin'.main = s /\ Made(s))
            /\ mirror'.draft = mirror.draft /\ origin'.draft = origin.draft
        BY <1>1, <4>1, <4>2, <4>3, <4>4 DEF HistoryInv, Refs
      <4>7. Made(mirror'.main) /\ Made(origin'.main)
        BY <4>1, <4>6
      <4>8. HistoryInv'
        BY <1>2, <1>3, <3>1, <4>6, <4>7 DEF HistoryInv, Made
      <4>9. QED
        BY <1>3, <3>1, <4>5, <4>8
    <3>4. QED
      BY <2>4, <3>2, <3>3 DEF Promotes
  <2>5. QED
    BY <1>4, <1>5, <2>1, <2>2, <2>3, <2>4 DEF Step, Chooses, Retreats, Claims, Starts, Advances, Finishes,
       Closes, Runs
<1>6. ASSUME NEW n \in SHA, ExternalPush(n) PROVE HistoryInv' /\ HistoryKept /\ OriginForward
  <2>1. /\ ~Made(n) /\ mirror' = mirror /\ Made(origin.main) /\ origin.main \in SHA
        /\ history' = [history EXCEPT ![n] = history[origin.main] \cup {n}]
        /\ origin' = [origin EXCEPT !.main = n]
    BY <1>1, <1>6 DEF ExternalPush, HistoryInv, Refs
  <2>2. /\ HistoryOrdered' /\ HistoryKept /\ Made(n)' /\ history'[n] = history[origin.main] \cup {n}
        /\ \A t \in SHA : Made(t) => Made(t)'
    BY <1>1, <2>1, NewCommit
  <2>3. /\ origin'.main = n /\ origin'.draft = origin.draft
        /\ \A t \in SHA : Made(t) => t \in history'[t]
    BY <1>1, <2>1, <2>2 DEF HistoryKept, Refs
  <2>4. OriginForward
    BY <1>1, <2>1, <2>2, <2>3 DEF HistoryInv, OriginForward, Refs
  <2>5. /\ Made(mirror.main)' /\ Made(origin.main)'
        /\ \A d \in Changeset :
             /\ mirror'.draft[d] # None => Made(mirror.draft[d])'
             /\ origin'.draft[d] # None => Made(origin.draft[d])' /\ mirror'.draft[d] # None
    BY <1>1, <2>1, <2>2, <2>3 DEF HistoryInv, Refs, Made
  <2>6. QED
    BY <1>2, <2>2, <2>4, <2>5
<1>7. CASE Fetch
  <2>1. /\ history' = history /\ origin' = origin /\ mirror'.main = origin.main
        /\ \A c \in Changeset : mirror'.draft[c] = IF origin.draft[c] = None THEN mirror.draft[c]
                                                                          ELSE origin.draft[c]
    BY <1>7 DEF Fetch
  <2>2. QED
    BY <1>1, <1>3, <2>1 DEF HistoryInv, HistoryOrdered, OriginForward, Refs
<1>8. CASE Crash
  BY <1>4, <1>8 DEF Crash
<1>9. QED
  BY <1>5, <1>6, <1>7, <1>8
-----------------------------------------------------------------------------
(* What the requests know *)

LEMMA LockStep ==
  ASSUME TypeInv, LockInv, NEW r \in Request, Step(r)
  PROVE  LockInv'
<1>1. \A q \in Request : q # r => req'[q] = req[q]
  BY RequestTypes DEF Only
<1>2. req'[r].pc \in {"publish", "push"} => MirrorFree
  BY DEF Step, Chooses, Retreats, Creates, Claims, Starts, Commits, Publishes, Advances, Finishes, Closes,
     Runs, Promotes, Turn
<1>3. QED
  BY <1>1, <1>2 DEF LockInv, MirrorFree

LEMMA TargetStep ==
  ASSUME TypeInv, TargetInv, HistoryInv, LedgerAssumption, NEW r \in Request, Step(r),
         [Store!Next]_(Store!vars), HistoryKept
  PROVE  TargetInv'
<1>1. /\ \A q \in Request : q # r => req'[q] = req[q]
      /\ \A c \in Changeset : Store!Exists(c) => Store!Exists(c)'
      /\ \A c \in Changeset : Store!Exists(c) => changesets[c].draft \in SHA
      /\ mirror.main \in SHA /\ Made(mirror.main) /\ Target(r)
  BY RequestTypes, StoreEvolves DEF Only, TypeInv, Refs, Rows!RowsInv, Rows!DraftsInv, Rows!Exists, Store!Exists,
     HistoryInv, TargetInv
<1>2. ASSUME NEW q \in Request, q # r PROVE Target(q)'
  BY <1>1, <1>2 DEF TargetInv, Target, Made, Store!Exists, HistoryKept
<1>3. Target(r)'
  <2>1. CASE Chooses(r)
    <3>1. store' = store /\ history' = history /\ changesets' = changesets
      BY <2>1 DEF Chooses, store, git
    <3>2. QED
      BY <1>1, <2>1, <3>1 DEF Chooses, Target, Made, Store!Exists
  <2>2. CASE Creates(r)
    <3>1. PICK c \in Changeset : /\ Store!CreateChangeset(c, req[r].sha)
                                 /\ req'[r].pc = "claim" /\ req'[r].cs = c /\ req'[r].sha = req[r].sha
      BY <2>2 DEF Creates
    <3>2. Store!Exists(c)' /\ req[r].sha \in SHA
      BY <1>1, <2>2, <3>1 DEF Creates, Target, Store!CreateChangeset, Store!Exists, TypeInv, Rows!RowsInv, Rows!TypeOK
    <3>3. QED
      BY <3>1, <3>2 DEF Target, Store!Exists
  <2>3. CASE Commits(r)
    BY <1>1, <2>3 DEF Commits, Target, Store!Exists
  <2>4. ASSUME NEW label \in Labels \ {"idle", "create", "push"}, Turn(r, label),
               req[r].pc \notin {"idle", "create", "done"}
        PROVE  Target(r)'
    BY <1>1, <2>4 DEF Turn, Target, Store!Exists
  <2>5. CASE Claims(r)
    <3>1. CASE r \in Commands
      BY <1>1, <2>5, <3>1, LedgerAssumption DEF Claims, Target, Store!Exists, LedgerAssumption
    <3>2. CASE r \notin Commands
      BY <2>4, <2>5, <3>2 DEF Claims, Labels
    <3>3. QED
      BY <3>1, <3>2
  <2>6. CASE Promotes(r)
    <3>1. history' = history
      BY <2>6 DEF Promotes
    <3>2. CASE req[r].pc = "promote"
      BY <1>1, <2>6, <3>1, <3>2 DEF Promotes, Target, Store!Exists, Made
    <3>3. CASE req[r].pc = "push"
      BY <2>4, <2>6, <3>3 DEF Promotes, Labels
    <3>4. QED
      BY <2>6, <3>2, <3>3 DEF Promotes
  <2>7. CASE Retreats(r)
    BY <2>4, <2>7 DEF Retreats, Labels, Running
  <2>8. CASE Starts(r) \/ Publishes(r) \/ Advances(r)
    BY <2>4, <2>8 DEF Starts, Publishes, Advances, Labels
  <2>9. CASE Finishes(r) \/ Closes(r) \/ Runs(r)
    BY <2>4, <2>9 DEF Finishes, Closes, Runs, Labels
  <2>10. QED
    BY <2>1, <2>2, <2>3, <2>5, <2>6, <2>7, <2>8, <2>9 DEF Step
<1>4. QED
  BY <1>2, <1>3 DEF TargetInv

\* A step of r touches no operation but its own.
LEMMA OwnOperation ==
  ASSUME TypeInv, NEW r \in Request, Step(r)
  PROVE  \/ operations' = operations /\ ~Claims(r) /\ ~Starts(r) /\ ~Finishes(r)
         \/ /\ Claims(r) /\ ~Store!Claimed(r) /\ operations'[r].status = "queued"
            /\ operations'[r].kind = IF r \in Commands THEN "command" ELSE IF r \in Plans THEN "plan" ELSE "apply"
            /\ \A o \in Request : o # r => operations'[o] = operations[o]
         \/ /\ Starts(r) /\ operations[req[r].op].status = "queued"
            /\ req[r].op \in Request => operations'[req[r].op].status = "running"
            /\ \A o \in Request : o # req[r].op => operations'[o] = operations[o]
         \/ /\ Finishes(r) /\ operations[req[r].op].status = "running"
            /\ req[r].op \in Request => operations'[req[r].op].status \in {"succeeded", "failed"}
            /\ \A o \in Request : o # req[r].op => operations'[o] = operations[o]
<1>1. operations \in [Request -> Rows!OperationRow]
  BY DEF TypeInv, Rows!RowsInv, Rows!TypeOK
<1>2. CASE Claims(r)
  <2>1. \E c, kind, sha, key : /\ Store!ClaimOperation(r, c, kind, sha, key)
                               /\ kind = IF r \in Commands THEN "command" ELSE IF r \in Plans THEN "plan" ELSE "apply"
    BY <1>2, LedgerAssumption DEF Claims, LedgerAssumption
  <2>2. QED
    BY <1>1, <1>2, <2>1 DEF Store!ClaimOperation, Store!Claimed
<1>3. CASE Starts(r)
  BY <1>1, <1>3 DEF Starts, Store!TransitionOperation, Store!OperationTransition, Rows!OperationRow
<1>4. CASE Finishes(r)
  <2>1. PICK to \in {"succeeded", "failed"} : Store!FinishOperation(req[r].op, to)
    BY <1>4 DEF Finishes
  <2>2. QED
    BY <1>1, <1>4, <2>1 DEF Store!FinishOperation, Store!OperationTransition, Rows!OperationRow
<1>5. CASE ~Claims(r) /\ ~Starts(r) /\ ~Finishes(r)
  BY <1>5 DEF Step, Chooses, Retreats, Creates, Commits, Publishes, Advances, Closes, Runs, Promotes, store,
     Store!CreateChangeset, Store!AdvanceDraft, Store!TransitionChangeset, Store!PutPlanArtifact
<1>6. QED
  BY <1>2, <1>3, <1>4, <1>5

LEMMA OperationsStep ==
  ASSUME TypeInv, OperationInv, LedgerAssumption, NEW r \in Request, Step(r), [Store!Next]_(Store!vars)
  PROVE  OperationInv'
<1>1. /\ \A q \in Request : q # r => req'[q] = req[q]
      /\ \A o \in Request : Store!Claimed(o) => Store!Claimed(o)' /\ operations'[o].kind = operations[o].kind
      /\ Works(r)
  BY RequestTypes, StoreEvolves DEF Only, TypeInv, Rows!RowsInv, OperationInv
<1>2. ASSUME NEW o \in Request PROVE Kinds(o)'
  BY <1>1, OwnOperation, LedgerAssumption DEF Kinds, Store!Claimed, OperationInv, LedgerAssumption, Request
<1>3. ASSUME NEW q \in Request, q # r PROVE Works(q)'
  <2>1. /\ req[q].pc \in Running => operations'[req[q].op].status = "running"
        /\ q \notin Commands /\ req[q].pc = "queued" => operations'[q].status = "queued"
    BY <1>1, <1>3, OwnOperation DEF OperationInv, Works, Finishes, Starts, Running
  <2>2. QED
    BY <1>1, <1>3, <2>1 DEF OperationInv, Works, Store!Claimed
<1>4. /\ Works(r)'
      /\ req'[r].pc \in Running =>
           /\ req'[r].op = req[r].op
           /\ req[r].pc \notin Running => operations[req[r].op].status = "queued"
  <2>1. CASE Chooses(r)
    BY <1>1, <2>1 DEF Chooses, Works, Running, store, Store!Claimed, Kinds, OperationInv
  <2>2. CASE Retreats(r)
    BY <1>1, <2>2 DEF Retreats, Works, Running, store, Turn, Store!Claimed
  <2>3. CASE Creates(r)
    BY <1>1, <2>3 DEF Creates, Works, Running
  <2>4. CASE Claims(r)
    BY <1>1, <2>4, OwnOperation DEF Claims, Works, Running, Turn, Store!Claimed, Starts, Finishes
  <2>5. CASE Starts(r)
    BY <1>1, <2>5, OwnOperation DEF Starts, Works, Running, Turn, Store!Claimed, Claims, Finishes
  <2>6. CASE Commits(r) \/ Publishes(r) \/ Advances(r) \/ Runs(r) \/ Promotes(r)
    <3>1. operations' = operations
      BY <2>6, OwnOperation DEF Commits, Publishes, Advances, Runs, Promotes, Claims, Starts, Finishes
    <3>2. QED
      BY <1>1, <2>6, <3>1 DEF Commits, Publishes, Advances, Runs, Promotes, Works, Running, Turn, Store!Claimed
  <2>7. CASE Finishes(r) \/ Closes(r)
    BY <1>1, <2>7 DEF Finishes, Closes, Works, Running, Turn
  <2>8. QED
    BY <2>1, <2>2, <2>3, <2>4, <2>5, <2>6, <2>7 DEF Step
<1>5. \A p, q \in Request :
        req'[p].pc \in Running /\ req'[q].pc \in Running /\ req'[p].op = req'[q].op => p = q
  BY <1>1, <1>4 DEF OperationInv, Works
<1>6. QED
  BY <1>2, <1>3, <1>4, <1>5 DEF OperationInv

\* Only the commit step records a commit, for the operation it runs.
LEMMA CommitsOnce ==
  ASSUME TypeInv, OperationInv, TargetInv, HistoryInv, CommitInv, LedgerAssumption, NEW r \in Request, Step(r)
  PROVE  \/ committed' = committed /\ ~Commits(r)
         \/ \E n \in SHA :
              /\ Commits(r) /\ req[r].op \in Commands /\ committed[req[r].op] = {} /\ req'[r].new = n
              /\ operations' = operations /\ operations[req[r].op].status = "running"
              /\ committed'[req[r].op] = {n}
              /\ \A o \in Request : o # req[r].op => committed'[o] = committed[o]
              /\ Made(req[r].sha) /\ ~Made(n) /\ n \notin history[req[r].sha]
              /\ history'[n] = history[req[r].sha] \cup {n}
<1>1. CASE Commits(r)
  <2> DEFINE o == req[r].op
             s == req[r].sha
             c == req[r].cs
  <2>1. PICK n \in SHA : /\ ~Made(n) /\ mirror.draft[c] = s /\ operations' = operations
                         /\ history' = [history EXCEPT ![n] = history[s] \cup {n}]
                         /\ committed' = [committed EXCEPT ![o] = @ \cup {n}]
                         /\ req'[r].new = n
    BY <1>1 DEF Commits, store
  <2>2. /\ o \in Commands /\ o \in Request /\ operations[o].status = "running"
        /\ s \in SHA /\ c \in Changeset /\ committed[o] = {}
    BY <1>1 DEF Commits, OperationInv, Works, Running, TargetInv, Target, CommitInv, Commit
  <2>3. Made(s) /\ n \notin history[s]
    BY <2>1, <2>2, LedgerAssumption DEF HistoryInv, LedgerAssumption
  <2>4. history'[n] = history[s] \cup {n}
    BY <2>1 DEF TypeInv
  <2>5. committed'[o] = {n} /\ \A p \in Request : p # o => committed'[p] = committed[p]
    BY <2>1, <2>2 DEF TypeInv
  <2>6. QED
    BY <1>1, <2>1, <2>2, <2>3, <2>4, <2>5
<1>2. CASE ~Commits(r)
  BY <1>2 DEF Step, Chooses, Retreats, Creates, Claims, Starts, Publishes, Advances, Finishes, Closes, Runs,
     Promotes, aux
<1>3. QED
  BY <1>1, <1>2

LEMMA CommitStep ==
  ASSUME TypeInv, OperationInv, TargetInv, HistoryInv, CommitInv, LedgerAssumption, NEW r \in Request, Step(r),
         [Store!Next]_(Store!vars), HistoryKept, OperationInv'
  PROVE  CommitInv'
<1>1. /\ \A q \in Request : q # r => req'[q] = req[q]
      /\ \A o \in Request : operations'[o].status \in {"absent", "queued"} => operations[o].status \in {"absent", "queued"}
      /\ req' \in [Request -> Local]
  BY RequestTypes, StoreEvolves DEF Only, TypeInv, Rows!RowsInv
<1>2. ASSUME NEW o \in Request
      PROVE  /\ operations'[o].status \in {"absent", "queued"} => committed'[o] = {}
             /\ committed'[o] = {} \/ \E n \in SHA : committed'[o] = {n}
  <2>1. CASE committed' = committed
    BY <1>1, <2>1 DEF CommitInv
  <2>2. CASE committed' # committed
    <3>1. PICK n \in SHA : /\ operations' = operations /\ operations[req[r].op].status = "running"
                           /\ committed'[req[r].op] = {n}
                           /\ \A p \in Request : p # req[r].op => committed'[p] = committed[p]
      BY <2>2, CommitsOnce
    <3>2. CASE o = req[r].op
      BY <3>1, <3>2
    <3>3. CASE o # req[r].op
      BY <3>1, <3>3 DEF CommitInv
    <3>4. QED
      BY <3>2, <3>3
  <2>3. QED
    BY <2>1, <2>2
<1>3. \A s \in SHA : Made(s) => Made(s)' /\ history'[s] = history[s]
  BY DEF HistoryKept, Made
<1>4. \A q \in Request : req[q].pc \in {"publish", "advance"} => Made(req[q].sha) /\ req[q].sha \in SHA /\ Made(req[q].new)
  BY DEF CommitInv, Commit, TargetInv, Target, Made
<1>5. ASSUME NEW q \in Request, q # r PROVE Commit(q)'
  <2>1. req[q].pc \in {"commit", "publish", "advance", "finish"} => committed'[req[q].op] = committed[req[q].op]
    <3>1. req[q].pc \in {"commit", "publish", "advance", "finish"} => req[q].op \in Request /\ req[q].pc \in Running
      BY DEF OperationInv, Works, Running
    <3>2. Commits(r) => req[r].pc \in Running
      BY DEF Commits, Running
    <3>3. req[q].pc \in Running => ~Commits(r) \/ req[q].op # req[r].op
      BY <1>5, <3>2 DEF OperationInv
    <3>4. QED
      BY <3>1, <3>3, CommitsOnce
  <2>2. Commit(q)
    BY DEF CommitInv
  <2>3. /\ req'[q] = req[q]
        /\ req[q].pc \in {"publish", "advance"} =>
             /\ history'[req[q].sha] = history[req[q].sha] /\ history'[req[q].new] = history[req[q].new]
    BY <1>1, <1>3, <1>4, <1>5, <2>2 DEF Commit
  <2>4. QED
    BY <2>1, <2>2, <2>3 DEF Commit, Made
<1>6. Commit(r)'
  <2>0. Commit(r) /\ Works(r) /\ Works(r)'
    BY DEF CommitInv, OperationInv
  <2>1. CASE Commits(r)
    <3>1. PICK n \in SHA : /\ req[r].op \in Commands /\ req'[r].new = n /\ committed'[req[r].op] = {n}
                           /\ Made(req[r].sha) /\ n \notin history[req[r].sha]
                           /\ history'[n] = history[req[r].sha] \cup {n}
      BY <2>1, CommitsOnce
    <3>2. req'[r].pc = "publish" /\ req'[r].sha = req[r].sha /\ req'[r].op = req[r].op /\ req[r].sha \in SHA
      BY <2>1 DEF Commits, TargetInv, Target
    <3>3. history'[req[r].sha] = history[req[r].sha]
      BY <1>3, <3>1, <3>2
    <3>4. QED
      BY <3>1, <3>2, <3>3 DEF Commit, Made
  <2>2. CASE Starts(r)
    <3>1. committed' = committed /\ req'[r].pc \in {"commit", "planning", "check"} /\ req'[r].op = req[r].op
      BY <2>2 DEF Starts, Turn, aux
    <3>2. req'[r].pc = "commit" => committed[req[r].op] = {}
      <4>1. (req[r].op \in Request /\ operations[req[r].op].status = "queued") \/ r \notin Commands
        BY <2>0, <2>2, OwnOperation DEF Starts, Claims, Finishes, Works
      <4>2. req'[r].pc = "commit" => r \in Commands
        BY <2>2, LedgerAssumption DEF Starts, Turn, LedgerAssumption
      <4>3. QED
        BY <4>1, <4>2 DEF CommitInv
    <3>3. QED
      BY <3>1, <3>2 DEF Commit
  <2>3. CASE Publishes(r) \/ Advances(r)
    <3>1. /\ committed' = committed /\ req[r].pc \in {"publish", "advance"} /\ history' = history
          /\ \/ req'[r].pc = "fail"
             \/ /\ req'[r].pc \in {"advance", "finish"} /\ req'[r].op = req[r].op
                /\ req'[r].new = req[r].new /\ req'[r].sha = req[r].sha
                /\ req'[r].pc = "advance" => req[r].pc = "publish"
      BY <2>3 DEF Publishes, Advances, Turn, aux, git
    <3>2. QED
      BY <2>0, <3>1 DEF Commit, Made
  <2>4. CASE Chooses(r) \/ Retreats(r) \/ Creates(r) \/ Claims(r)
    <3>1. req'[r].pc \notin {"commit", "publish", "advance", "finish"}
      BY <2>4 DEF Chooses, Retreats, Creates, Claims, Turn
    <3>2. QED
      BY <3>1 DEF Commit
  <2>5. CASE Finishes(r) \/ Closes(r) \/ Promotes(r) \/ Runs(r)
    <3>1. req'[r].pc \notin {"commit", "publish", "advance"} /\ (req'[r].pc = "finish" => r \notin Commands)
      BY <2>5 DEF Finishes, Closes, Promotes, Runs, Turn
    <3>2. QED
      BY <3>1 DEF Commit
  <2>6. QED
    BY <2>1, <2>2, <2>3, <2>4, <2>5 DEF Step
<1>7. QED
  BY <1>2, <1>5, <1>6 DEF CommitInv
-----------------------------------------------------------------------------
(* The refs *)

\* What has no bearing on the refs of a changeset.
Untouched(c) ==
  /\ changesets'[c].draft = changesets[c].draft /\ drafted'[c] = drafted[c]
  /\ mirror'.draft[c] = mirror.draft[c] /\ origin'.draft[c] = origin.draft[c]
  /\ Store!Exists(c)' => Store!Exists(c)

LEMMA DraftsMade ==
  ASSUME TypeInv, HistoryInv, RefInv, LedgerAssumption
  PROVE  /\ \A c \in Changeset : Store!Exists(c) =>
              /\ changesets[c].draft \in SHA /\ Made(changesets[c].draft)
              /\ changesets[c].draft \in history[changesets[c].draft]
              /\ mirror.draft[c] \in SHA /\ Made(mirror.draft[c])
         /\ \A c \in Changeset : origin.draft[c] # None => origin.draft[c] \in SHA /\ Made(origin.draft[c])
<1>1. ASSUME NEW c \in Changeset, Store!Exists(c)
      PROVE  /\ changesets[c].draft \in SHA /\ changesets[c].draft \in history[changesets[c].draft]
             /\ mirror.draft[c] # None
  BY <1>1 DEF TypeInv, Rows!RowsInv, Rows!DraftsInv, Rows!Exists, Store!Exists, RefInv, Behind
<1>2. mirror \in Refs /\ origin \in Refs
  BY DEF TypeInv
<1>3. QED
  BY <1>1, <1>2 DEF Refs, HistoryInv, Made

LEMMA BehindKept ==
  ASSUME TypeInv, HistoryInv, RefInv, LedgerAssumption, HistoryKept, NEW c \in Changeset, Untouched(c)
  PROVE  Behind(c)'
<1>1. SUFFICES ASSUME Store!Exists(c)
               PROVE  /\ mirror'.draft[c] # None
                      /\ drafted'[c] \subseteq history'[changesets'[c].draft]
                      /\ changesets'[c].draft \in history'[mirror'.draft[c]]
                      /\ origin'.draft[c] # None => changesets'[c].draft \in history'[origin'.draft[c]]
  BY DEF Untouched, Behind
<1>2. /\ history'[changesets[c].draft] = history[changesets[c].draft]
      /\ history'[mirror.draft[c]] = history[mirror.draft[c]]
      /\ origin.draft[c] # None => history'[origin.draft[c]] = history[origin.draft[c]]
  BY <1>1, DraftsMade DEF HistoryKept
<1>3. QED
  BY <1>1, <1>2 DEF Untouched, RefInv, Behind

\* A step that leaves the drafts alone and moves no request forward.
LEMMA AheadKept ==
  ASSUME TypeInv, HistoryInv, TargetInv, CommitInv, RefInv, LedgerAssumption, HistoryKept,
         \A c \in Changeset : Untouched(c),
         NEW q \in Request, req'[q] = req[q],
         \A p \in Request : req'[p].pc = "advance" => req'[p] = req[p]
  PROVE  Ahead(q)'
<1>1. /\ Ahead(q) /\ Target(q) /\ Commit(q)
      /\ \A c \in Changeset : Store!Exists(c) => history'[mirror.draft[c]] = history[mirror.draft[c]]
      /\ \A c \in Changeset : origin.draft[c] # None => history'[origin.draft[c]] = history[origin.draft[c]]
  BY DraftsMade DEF RefInv, TargetInv, CommitInv, HistoryKept
<1>2. req[q].pc = "publish" => history'[req[q].sha] = history[req[q].sha]
  BY <1>1 DEF Target, Commit, HistoryKept
<1>3. QED
  BY <1>1, <1>2 DEF Ahead, Target, Untouched

LEMMA RefStep ==
  ASSUME TypeInv, OperationInv, TargetInv, HistoryInv, LockInv, CommitInv, RefInv, LedgerAssumption,
         NEW r \in Request, Step(r), HistoryKept, OriginForward, HistoryInv', TypeInv'
  PROVE  RefInv'
<1>1. /\ \A q \in Request : q # r => req'[q] = req[q]
      /\ changesets \in [Changeset -> Rows!ChangesetRow]
      /\ mirror \in Refs /\ origin \in Refs /\ drafted \in [Changeset -> SUBSET SHA]
      /\ \A q \in Request : Target(q) /\ Commit(q) /\ Ahead(q)
      /\ \A c \in Changeset : Behind(c)
  BY RequestTypes DEF Only, TypeInv, Rows!RowsInv, Rows!TypeOK, TargetInv, CommitInv, RefInv
<1>2. CASE Chooses(r) \/ Retreats(r) \/ Claims(r) \/ Starts(r) \/ Finishes(r) \/ Closes(r) \/ Runs(r) \/ Promotes(r)
  <2>1. /\ mirror'.draft = mirror.draft /\ origin'.draft = origin.draft
        /\ req'[r].pc \notin {"publish", "advance"} /\ (req'[r].pc = "finish" => r \notin Commands)
    BY <1>1, <1>2 DEF Chooses, Retreats, Claims, Starts, Finishes, Closes, Runs, Promotes, Turn, git, Refs
  <2>2. ASSUME NEW c \in Changeset
        PROVE  /\ changesets'[c].draft = changesets[c].draft /\ drafted'[c] = drafted[c]
               /\ Store!Exists(c)' => Store!Exists(c)
    <3>1. CASE Closes(r)
      <4>1. CASE UNCHANGED store
        BY <4>1 DEF store, Store!Exists
      <4>2. CASE \E to \in {"planned", "applied", "abandoned"} : Store!TransitionChangeset(req[r].cs, to)
        <5>1. /\ drafted' = drafted
              /\ \E to : changesets' = [changesets EXCEPT ![req[r].cs].status = to]
              /\ changesets[req[r].cs].status # "absent"
          BY <4>2 DEF Store!TransitionChangeset, Store!TransitionAccepted, Store!ChangesetTransition
        <5>2. QED
          BY <1>1, <5>1 DEF Store!Exists, Rows!ChangesetRow
      <4>3. QED
        BY <3>1, <4>1, <4>2 DEF Closes
    <3>2. CASE ~Closes(r)
      <4>1. changesets' = changesets /\ drafted' = drafted
        BY <1>2, <3>2 DEF Chooses, Retreats, Claims, Starts, Finishes, Runs, Promotes, store, Store!ClaimOperation,
           Store!TransitionOperation, Store!FinishOperation, Store!PutPlanArtifact
      <4>2. QED
        BY <4>1 DEF Store!Exists
    <3>3. QED
      BY <3>1, <3>2
  <2>3. \A c \in Changeset : Untouched(c)
    BY <2>1, <2>2 DEF Untouched
  <2>4. \A q \in Request : q # r => Ahead(q)'
    BY <1>1, <2>1, <2>3, AheadKept
  <2>5. Ahead(r)'
    BY <2>1 DEF Ahead
  <2>6. QED
    BY <2>3, <2>4, <2>5, BehindKept DEF RefInv
<1>3. CASE Creates(r)
  <2>1. PICK c \in Changeset :
          /\ mirror.draft[c] = None /\ MirrorFree /\ Store!CreateChangeset(c, req[r].sha)
          /\ mirror' = [mirror EXCEPT !.draft[c] = req[r].sha]
          /\ origin' = origin /\ history' = history /\ req'[r].pc = "claim"
    BY <1>3 DEF Creates
  <2>2. req[r].sha \in SHA /\ req[r].sha \in history[req[r].sha] /\ req[r].sha # None
    BY <1>1, <1>3, LedgerAssumption DEF Creates, Target, HistoryInv, LedgerAssumption
  <2>3. /\ mirror'.draft[c] = req[r].sha /\ changesets'[c].draft = req[r].sha /\ drafted'[c] = {req[r].sha}
        /\ origin.draft[c] = None
    BY <1>1, <2>1 DEF Store!CreateChangeset, Refs, HistoryInv
  <2>4. Behind(c)'
    BY <2>1, <2>2, <2>3 DEF Behind
  <2>5. \A d \in Changeset : d # c => Untouched(d)
    BY <1>1, <2>1 DEF Untouched, Store!CreateChangeset, Store!Exists, Refs
  <2>6. ASSUME NEW q \in Request, q # r PROVE Ahead(q)'
    <3>1. req'[q].pc # "publish" /\ req'[q] = req[q]
      BY <1>1, <2>1, <2>6 DEF MirrorFree
    <3>2. req[q].pc \in {"advance", "finish"} => req[q].cs \in Changeset /\ req[q].cs # c
      BY <1>1, <2>1 DEF Target, Behind
    <3>3. QED
      BY <1>1, <2>1, <2>5, <3>1, <3>2 DEF Ahead, Untouched
  <2>7. Ahead(r)'
    BY <2>1 DEF Ahead
  <2>8. QED
    BY <2>4, <2>5, <2>6, <2>7, BehindKept DEF RefInv
<1>4. CASE Commits(r)
  <2>0. PICK c \in Changeset, s \in SHA : c = req[r].cs /\ s = req[r].sha
    BY <1>1, <1>4 DEF Commits, Target
  <2>1. PICK n \in SHA :
          /\ mirror.draft[c] = s /\ MirrorFree /\ ~Made(n) /\ origin' = origin /\ UNCHANGED store
          /\ mirror' = [mirror EXCEPT !.draft[c] = n]
          /\ history' = [history EXCEPT ![n] = history[s] \cup {n}]
          /\ req'[r].pc = "publish" /\ req'[r].new = n /\ req'[r].cs = c /\ req'[r].sha = s
    BY <1>4, <2>0 DEF Commits
  <2>2. n # None
    BY <2>1, LedgerAssumption DEF LedgerAssumption
  <2>3. /\ changesets' = changesets /\ drafted' = drafted /\ mirror'.draft[c] = n
        /\ \A d \in Changeset : d # c => Untouched(d)
    BY <1>1, <2>1, <2>2 DEF store, Refs, Untouched, Store!Exists
  <2>4. history'[n] = history[s] \cup {n} /\ history'[s] = history[s]
    <3>1. Made(s)
      BY <2>1, <2>2, LedgerAssumption DEF HistoryInv, LedgerAssumption
    <3>2. QED
      BY <2>1, <2>2, <3>1 DEF TypeInv, HistoryKept
  <2>5. Store!Exists(c) /\ changesets[c].draft \in history[s]
    BY <1>1, <1>4, <2>0, <2>1 DEF Commits, Target, Behind
  <2>6. \A d \in Changeset : /\ Store!Exists(d) => history'[changesets[d].draft] = history[changesets[d].draft]
                             /\ Store!Exists(d) => history'[mirror.draft[d]] = history[mirror.draft[d]]
                             /\ origin.draft[d] # None => history'[origin.draft[d]] = history[origin.draft[d]]
    BY DraftsMade DEF HistoryKept
  <2>7. Behind(c)'
    BY <1>1, <2>1, <2>2, <2>3, <2>4, <2>5, <2>6 DEF Behind, Store!Exists
  <2>8. ASSUME NEW q \in Request, req[q].pc = "advance" \/ (q \in Commands /\ req[q].pc = "finish"), q # r
        PROVE  /\ req[q].cs \in Changeset /\ Store!Exists(req[q].cs)
               /\ origin.draft[req[q].cs] # None /\ req[q].new \in history[origin.draft[req[q].cs]]
               /\ req[q].pc = "advance" => req[q].new \in history[mirror.draft[req[q].cs]]
    BY <1>1, <2>8 DEF Target, Ahead
  <2>9. ASSUME NEW q \in Request, q # r PROVE Ahead(q)'
    <3>1. req'[q] = req[q] /\ req[q].pc # "publish"
      BY <1>1, <2>1, <2>9 DEF MirrorFree
    <3>2. ASSUME req[q].pc = "advance" PROVE req[q].new \in history'[mirror'.draft[req[q].cs]]
      <4>1. CASE req[q].cs = c
        BY <2>1, <2>3, <2>4, <2>8, <2>9, <3>2, <4>1
      <4>2. CASE req[q].cs # c
        BY <2>3, <2>6, <2>8, <2>9, <3>2, <4>2 DEF Untouched
      <4>3. QED
        BY <4>1, <4>2
    <3>3. QED
      BY <2>1, <2>6, <2>8, <2>9, <3>1, <3>2 DEF Ahead
  <2>10. Ahead(r)'
    <3>1. \A q \in Request : req'[q].pc = "advance" /\ req'[q].cs = c => req'[q].new \in history'[s]
      BY <1>1, <2>1, <2>4, <2>8
    <3>2. QED
      BY <2>1, <2>3, <2>4, <2>5, <3>1 DEF Ahead
  <2>11. QED
    BY <2>3, <2>7, <2>9, <2>10, BehindKept DEF RefInv
<1>5. CASE Publishes(r)
  <2>0. PICK c \in Changeset, s \in SHA, n \in SHA : c = req[r].cs /\ s = req[r].sha /\ n = req[r].new
    BY <1>1, <1>5 DEF Publishes, Target, Commit
  <2>1. /\ c \in Changeset /\ s \in SHA /\ n \in SHA /\ Store!Exists(c) /\ Made(s) /\ n # None /\ s # None
        /\ history[n] = history[s] \cup {n} /\ mirror.draft[c] = n /\ changesets[c].draft \in history[s]
        /\ \A q \in Request : req[q].pc = "advance" /\ req[q].cs = c => req[q].new \in history[s]
        /\ origin.draft[c] # None => changesets[c].draft \in history[origin.draft[c]]
        /\ drafted[c] \subseteq history[changesets[c].draft]
    BY <1>1, <1>5, <2>0, LedgerAssumption DEF Publishes, Target, Commit, Ahead, Behind, LedgerAssumption
  <2>2. /\ history' = history /\ changesets' = changesets /\ drafted' = drafted
        /\ \/ origin' = origin /\ req'[r].pc # "advance"
           \/ /\ origin.draft[c] = None \/ (origin.draft[c] \in history[n] /\ history[origin.draft[c]] \subseteq history[n])
              /\ origin' = [origin EXCEPT !.draft[c] = n]
        /\ \/ mirror' = mirror
           \/ mirror' = [mirror EXCEPT !.draft[c] = s] /\ req'[r].pc # "advance"
        /\ req'[r].pc \in {"advance", "fail"}
        /\ req'[r].cs = c /\ req'[r].new = n
    <3>1. \A t \in history[n] : history[t] \subseteq history[n]
      BY <2>1 DEF HistoryInv
    <3>2. QED
      BY <1>5, <2>0, <3>1 DEF Publishes, DraftAccepted, Turn, store
  <2>3. /\ mirror'.draft[c] \in {n, s} /\ (req'[r].pc = "advance" => mirror'.draft[c] = n)
        /\ origin'.draft[c] = n \/ (origin'.draft[c] = origin.draft[c] /\ req'[r].pc # "advance")
        /\ \A d \in Changeset : d # c => mirror'.draft[d] = mirror.draft[d] /\ origin'.draft[d] = origin.draft[d]
    BY <1>1, <2>1, <2>2 DEF Refs
  <2>4. \A d \in Changeset : d # c => Untouched(d)
    BY <2>2, <2>3 DEF Untouched, Store!Exists
  <2>5. Behind(c)'
    BY <2>1, <2>2, <2>3 DEF Behind
  <2>6. ASSUME NEW q \in Request, q # r PROVE Ahead(q)'
    <3>1. req'[q] = req[q] /\ req[q].pc # "publish" /\ Ahead(q)
      BY <1>1, <1>5, <2>6 DEF LockInv, Publishes
    <3>2. req[q].pc \in {"advance", "finish"} => req[q].cs \in Changeset
      BY <1>1 DEF Target
    <3>3. req[q].pc = "advance" => req[q].new \in history[mirror'.draft[req[q].cs]]
      <4>1. CASE req[q].cs = c
        BY <2>1, <2>3, <4>1
      <4>2. CASE req[q].cs # c
        BY <2>3, <3>1, <3>2, <4>2 DEF Ahead
      <4>3. QED
        BY <4>1, <4>2
    <3>4. req[q].pc = "advance" \/ (q \in Commands /\ req[q].pc = "finish") =>
            origin'.draft[req[q].cs] # None /\ req[q].new \in history[origin'.draft[req[q].cs]]
      <4>1. CASE req[q].cs = c
        BY <1>1, <2>1, <2>2, <3>1, <4>1 DEF Ahead, Refs
      <4>2. CASE req[q].cs # c
        BY <2>3, <3>1, <3>2, <4>2 DEF Ahead
      <4>3. QED
        BY <4>1, <4>2
    <3>5. QED
      BY <2>2, <3>1, <3>3, <3>4 DEF Ahead
  <2>7. Ahead(r)'
    BY <2>1, <2>2, <2>3 DEF Ahead
  <2>8. QED
    BY <2>4, <2>5, <2>6, <2>7, BehindKept DEF RefInv
<1>6. CASE Advances(r)
  <2>0. PICK c \in Changeset, s \in SHA, n \in SHA : c = req[r].cs /\ s = req[r].sha /\ n = req[r].new
    BY <1>1, <1>6 DEF Advances, Target, Commit
  <2>1. /\ c \in Changeset /\ Store!Exists(c) /\ n \in SHA /\ history[n] = history[s] \cup {n}
        /\ n \in history[mirror.draft[c]] /\ origin.draft[c] # None /\ n \in history[origin.draft[c]]
        /\ mirror.draft[c] # None /\ drafted[c] \subseteq history[changesets[c].draft]
    BY <1>1, <1>6, <2>0 DEF Advances, Target, Commit, Ahead, Behind
  <2>2. /\ history' = history /\ mirror' = mirror /\ origin' = origin
        /\ changesets[c].draft = s
        /\ drafted' = [drafted EXCEPT ![c] = @ \cup {n}]
        /\ changesets' = [changesets EXCEPT ![c].draft = n, ![c].revision = @ + 1, ![c].status = "open"]
        /\ req'[r].pc = "finish" /\ req'[r].new = n /\ req'[r].cs = c
    BY <1>6, <2>0 DEF Advances, Store!AdvanceDraft, Turn, git
  <2>3. /\ changesets'[c].draft = n
        /\ \A d \in Changeset : d # c => changesets'[d] = changesets[d] /\ drafted'[d] = drafted[d]
        /\ drafted'[c] = drafted[c] \cup {n}
    BY <1>1, <2>1, <2>2 DEF Rows!ChangesetRow
  <2>4. \A d \in Changeset : d # c => Untouched(d)
    BY <2>2, <2>3 DEF Untouched, Store!Exists
  <2>5. Behind(c)'
    BY <2>1, <2>2, <2>3 DEF Behind
  <2>6. ASSUME NEW q \in Request, q # r PROVE Ahead(q)'
    <3>1. req'[q] = req[q] /\ Ahead(q) /\ Target(q)
      BY <1>1, <2>6
    <3>2. ASSUME req[q].pc = "publish"
          PROVE  /\ changesets'[req[q].cs].draft \in history[req[q].sha]
                 /\ \A p \in Request : req'[p].pc = "advance" /\ req'[p].cs = req[q].cs =>
                      req'[p].new \in history[req[q].sha]
      <4>1. req[q].cs = c => n \in history[req[q].sha]
        BY <1>6, <2>0, <3>1, <3>2 DEF Ahead, Advances
      <4>2. req[q].cs \in Changeset
        BY <3>1, <3>2 DEF Target
      <4>3. QED
        BY <1>1, <2>2, <2>3, <3>1, <3>2, <4>1, <4>2 DEF Ahead
    <3>3. QED
      BY <2>2, <3>1, <3>2 DEF Ahead
  <2>7. Ahead(r)'
    BY <2>1, <2>2 DEF Ahead
  <2>8. QED
    BY <2>4, <2>5, <2>6, <2>7, BehindKept DEF RefInv
<1>7. QED
  BY <1>2, <1>3, <1>4, <1>5, <1>6 DEF Step

LEMMA RefElsewhere ==
  ASSUME TypeInv, TargetInv, HistoryInv, CommitInv, RefInv, LedgerAssumption, HistoryKept, HistoryInv', TypeInv',
         Fetch \/ Crash \/ \E n \in SHA : ExternalPush(n)
  PROVE  RefInv'
<1>1. /\ mirror \in Refs /\ origin \in Refs
      /\ \A q \in Request : Target(q) /\ Commit(q) /\ Ahead(q)
      /\ \A c \in Changeset : Behind(c)
      /\ changesets' = changesets /\ drafted' = drafted
  BY DEF TypeInv, TargetInv, CommitInv, RefInv, Fetch, Crash, ExternalPush, store
<1>2. CASE Crash \/ \E n \in SHA : ExternalPush(n)
  <2>1. \A c \in Changeset : Untouched(c)
    BY <1>1, <1>2 DEF Untouched, Crash, ExternalPush, git, Store!Exists, Refs
  <2>2. ASSUME NEW q \in Request PROVE Ahead(q)'
    <3>1. CASE Crash
      BY <3>1 DEF Crash, Idle, Done, Ahead
    <3>2. CASE \E n \in SHA : ExternalPush(n)
      <4>1. req' = req
        BY <3>2 DEF ExternalPush
      <4>2. QED
        BY <2>1, <4>1, AheadKept
    <3>3. QED
      BY <1>2, <3>1, <3>2
  <2>3. QED
    BY <2>1, <2>2, BehindKept DEF RefInv
<1>3. CASE Fetch
  <2>1. /\ MirrorFree /\ history' = history /\ origin' = origin /\ req' = req
        /\ \A c \in Changeset : mirror'.draft[c] = IF origin.draft[c] = None THEN mirror.draft[c]
                                                                          ELSE origin.draft[c]
    BY <1>3 DEF Fetch
  <2>2. \A c \in Changeset : Behind(c)'
    BY <1>1, <2>1 DEF Behind, Store!Exists
  <2>3. \A q \in Request : Ahead(q)'
    BY <1>1, <2>1 DEF Ahead, MirrorFree, Target
  <2>4. QED
    BY <2>2, <2>3 DEF RefInv
<1>4. QED
  BY <1>2, <1>3

\* What has been acknowledged is durable, whatever happens to the refs.
LEMMA DurableStep ==
  ASSUME TypeInv, OperationInv, TargetInv, HistoryInv, CommitInv, RefInv, AcknowledgedIsDurable,
         LedgerAssumption, HistoryKept, OriginForward, HistoryInv', TypeInv',
         \/ \E r \in Request : Step(r)
         \/ Fetch \/ Crash \/ \E n \in SHA : ExternalPush(n)
  PROVE  AcknowledgedIsDurable'
<1> SUFFICES ASSUME NEW o \in Commands, operations'[o].status = "succeeded"
             PROVE  \E c \in Changeset : /\ origin'.draft[c] # None /\ committed'[o] # {}
                                         /\ committed'[o] \subseteq history'[origin'.draft[c]]
  BY DEF AcknowledgedIsDurable
<1>1. /\ o \in Request
      /\ \A c \in Changeset : origin.draft[c] # None => origin.draft[c] \in SHA /\ Made(origin.draft[c])
      /\ \A c \in Changeset : origin'.draft[c] # None => origin'.draft[c] \in SHA
      /\ \A s \in SHA : \A t \in history'[s] : history'[t] \subseteq history'[s]
  BY DraftsMade DEF Request, HistoryInv, TypeInv, Refs
<1>2. CASE operations[o].status = "succeeded"
  <2>1. PICK c \in Changeset : origin.draft[c] # None /\ committed[o] # {} /\ committed[o] \subseteq history[origin.draft[c]]
    BY <1>2 DEF AcknowledgedIsDurable
  <2>2. committed'[o] = committed[o]
    <3>1. CASE Fetch \/ Crash \/ \E n \in SHA : ExternalPush(n)
      BY <3>1 DEF Fetch, Crash, ExternalPush, aux
    <3>2. ASSUME NEW r \in Request, Step(r) PROVE committed'[o] = committed[o]
      BY <1>1, <1>2, <3>2, CommitsOnce
    <3>3. QED
      BY <3>1, <3>2
  <2>3. /\ origin'.draft[c] # None /\ origin.draft[c] \in history'[origin'.draft[c]]
        /\ history'[origin.draft[c]] = history[origin.draft[c]]
    BY <1>1, <2>1 DEF OriginForward, HistoryKept
  <2>4. QED
    BY <1>1, <2>1, <2>2, <2>3
<1>3. CASE operations[o].status # "succeeded"
  <2>1. PICK r \in Request : Step(r) /\ operations' # operations
    BY <1>3 DEF Fetch, Crash, ExternalPush, store
  <2>2. Finishes(r) /\ o = req[r].op
    BY <1>1, <1>3, <2>1, OwnOperation
  <2>3. /\ req[r].pc = "finish" /\ r \in Commands
        /\ committed' = committed /\ origin' = origin /\ history' = history
    <3>1. operations \in [Request -> Rows!OperationRow]
      BY DEF TypeInv, Rows!RowsInv, Rows!TypeOK
    <3>2. req[r].pc = "finish"
      BY <1>1, <2>2, <3>1 DEF Finishes, Store!FinishOperation, Rows!OperationRow
    <3>3. r \in Commands
      BY <2>2, <3>2 DEF OperationInv, Works
    <3>4. QED
      BY <2>2, <3>2, <3>3 DEF Finishes, git, aux
  <2>4. /\ req[r].cs \in Changeset /\ origin.draft[req[r].cs] # None
        /\ req[r].new \in history[origin.draft[req[r].cs]] /\ committed[o] = {req[r].new}
    BY <2>2, <2>3 DEF TargetInv, Target, RefInv, Ahead, CommitInv, Commit
  <2>5. QED
    BY <2>3, <2>4
<1>4. QED
  BY <1>2, <1>3

-----------------------------------------------------------------------------
(* The theorems *)

\* A step of the environment moves no request forward.
LEMMA EnvironmentStep ==
  ASSUME TypeInv, OperationInv, TargetInv, LockInv, HistoryInv, CommitInv, LedgerAssumption, HistoryKept,
         Fetch \/ Crash \/ \E n \in SHA : ExternalPush(n)
  PROVE  OperationInv' /\ TargetInv' /\ LockInv' /\ CommitInv'
<1>1. operations' = operations /\ changesets' = changesets /\ committed' = committed
  BY DEF Fetch, Crash, ExternalPush, store, aux
<1>2. \A s \in SHA : Made(s) => history'[s] = history[s]
  BY DEF HistoryKept
<1>3. CASE Crash
  <2>1. \A r \in Request : /\ req'[r].pc \in {"idle", "done"} /\ ~req'[r].fresh
    BY <1>3 DEF Crash, Idle, Done
  <2>2. OperationInv'
    BY <1>1, <2>1 DEF OperationInv, Kinds, Works, Running, Store!Claimed
  <2>3. TargetInv' /\ LockInv'
    BY <2>1 DEF TargetInv, Target, LockInv
  <2>4. CommitInv'
    BY <1>1, <2>1 DEF CommitInv, Commit
  <2>5. QED
    BY <2>2, <2>3, <2>4
<1>4. CASE ~Crash
  <2>1. req' = req
    BY <1>4 DEF Fetch, ExternalPush
  <2>2. OperationInv' /\ LockInv'
    BY <1>1, <2>1 DEF OperationInv, Kinds, Works, Store!Claimed, LockInv
  <2>3. TargetInv'
    BY <1>1, <1>2, <2>1 DEF TargetInv, Target, Store!Exists, Made
  <2>4. ASSUME NEW r \in Request PROVE Commit(r)'
    <3>1. /\ Commit(r) /\ Target(r)
          /\ req[r].pc \in {"publish", "advance"} => Made(req[r].new) /\ Made(req[r].sha)
      BY DEF CommitInv, Commit, TargetInv, Target, Made
    <3>2. QED
      BY <1>1, <1>2, <2>1, <3>1 DEF Commit, Target, Made
  <2>5. CommitInv'
    BY <1>1, <2>4 DEF CommitInv
  <2>6. QED
    BY <2>2, <2>3, <2>5
<1>5. QED
  BY <1>3, <1>4

LEMMA LedgerStep == LedgerInv /\ LedgerAssumption /\ [Next]_vars => LedgerInv'
<1> SUFFICES ASSUME LedgerInv, LedgerAssumption, [Next]_vars PROVE LedgerInv'
  OBVIOUS
<1> USE DEF LedgerInv
<1>1. CASE UNCHANGED vars
  <2>1. /\ changesets' = changesets /\ operations' = operations /\ artifacts' = artifacts /\ events' = events
        /\ clock' = clock /\ drafted' = drafted /\ history' = history /\ mirror' = mirror /\ origin' = origin
        /\ retained' = retained /\ req' = req /\ crashes' = crashes /\ committed' = committed /\ started' = started
    BY <1>1 DEF vars, store, git, host, aux
  <2>2. TypeInv'
    <3>1. Rows!RowsInv'
      BY StoreStep, StoreInvariant
    <3>2. QED
      BY <2>1, <3>1 DEF TypeInv
  <2>3. HistoryInv' /\ LockInv' /\ AcknowledgedIsDurable'
    BY <2>1 DEF HistoryInv, Made, LockInv, AcknowledgedIsDurable
  <2>4. OperationInv' /\ TargetInv'
    BY <2>1 DEF OperationInv, Kinds, Works, TargetInv, Target, Made, Store!Claimed, Store!Exists
  <2>5. CommitInv' /\ RefInv'
    BY <2>1 DEF CommitInv, Commit, RefInv, Behind, Ahead, Made, Store!Exists
  <2>6. QED
    BY <2>2, <2>3, <2>4, <2>5
<1>2. CASE Next
  <2>1. /\ [Store!Next]_(Store!vars) /\ TypeInv'
        /\ \/ \E r \in Request : Step(r)
           \/ \E n \in SHA : ExternalPush(n)
           \/ Fetch
           \/ Crash
    BY <1>2, StoreStep, TypesStep, AllSteps
  <2>2. HistoryInv' /\ HistoryKept /\ OriginForward
    BY <2>1, GitStep
  <2>3. AcknowledgedIsDurable'
    BY <2>1, <2>2, DurableStep
  <2>4. ASSUME NEW r \in Request, Step(r) PROVE LedgerInv'
    <3>1. LockInv' /\ TargetInv' /\ OperationInv'
      BY <2>1, <2>2, <2>4, LockStep, TargetStep, OperationsStep
    <3>2. CommitInv' /\ RefInv'
      BY <2>1, <2>2, <2>4, <3>1, CommitStep, RefStep
    <3>3. QED
      BY <2>1, <2>2, <2>3, <3>1, <3>2
  <2>5. CASE Fetch \/ Crash \/ \E n \in SHA : ExternalPush(n)
    BY <2>1, <2>2, <2>3, <2>5, EnvironmentStep, RefElsewhere
  <2>6. QED
    BY <2>1, <2>4, <2>5
<1>3. QED
  BY <1>1, <1>2

LEMMA LedgerInit == Init /\ LedgerAssumption => LedgerInv
<1> SUFFICES ASSUME Init, LedgerAssumption PROVE LedgerInv
  OBVIOUS
<1>1. Rows!RowsInv
  BY StoreInits, Rows!InitRows DEF Init, LedgerAssumption
<1>2. /\ mirror \in Refs /\ origin = mirror /\ \A c \in Changeset : mirror.draft[c] = None
      /\ mirror.main = Root /\ Root \in SHA /\ history[Root] = {Root}
      /\ \A s \in SHA : s # Root => history[s] = {}
      /\ \A r \in Request : req[r] = Idle
      /\ \A c \in Changeset : ~Store!Exists(c)
      /\ \A o \in Request : operations[o].status = "absent" /\ committed[o] = {}
  BY DEF Init, LedgerAssumption, Refs, Store!Init, Store!Exists, Store!NoChangeset, Store!NoOperation
<1>3. TypeInv
  BY <1>1, <1>2 DEF Init, TypeInv, Idle, Local, Labels, LedgerAssumption
<1>4. HistoryInv
  BY <1>2 DEF HistoryInv, Made
<1>5. OperationInv /\ TargetInv /\ LockInv
  BY <1>2 DEF OperationInv, Kinds, Works, Running, TargetInv, Target, LockInv, Idle, Store!Claimed
<1>6. CommitInv /\ RefInv
  BY <1>2 DEF CommitInv, Commit, RefInv, Behind, Ahead, Idle
<1>7. AcknowledgedIsDurable
  BY <1>2 DEF AcknowledgedIsDurable, Request
<1>8. QED
  BY <1>3, <1>4, <1>5, <1>6, <1>7 DEF LedgerInv

\* The invariant that all the properties follow from holds in every reachable
\* state, for any number of requests, changesets, commits and crashes.
THEOREM LedgerInvariant == Spec => []LedgerInv
  BY LedgerAssumption, LedgerInit, LedgerStep, PTL DEF Spec

\* Every handler, goroutine and crash leaves every variable in its shape.
THEOREM LedgerTypes == Spec => []TypeOK
<1>1. LedgerInv => TypeOK
  BY StoreTypes DEF LedgerInv, TypeInv, TypeOK, Rows!RowsInv, Refs, Local
<1>2. QED
  BY <1>1, LedgerInvariant, PTL

\* The service implements the store's specification: what it does to the
\* tables in a step is one method of the store, called as that assumes, so
\* that all that OperationsProofs proves of the store holds of the service.
THEOREM LedgerUsesStore == Spec => ImplementsStore
<1>1. Init => Store!Init
  BY DEF Init
<1>2. LedgerInv /\ [Next]_vars => [Store!Next]_(Store!vars)
  BY LedgerAssumption, StoreStep DEF LedgerInv
<1>3. QED
  BY <1>1, <1>2, LedgerInvariant, PTL DEF Spec, ImplementsStore, Store!Spec

\* A claimed command commits once at most, although a second request with its
\* key may take it over while it is queued.
THEOREM CommitsAtMostOnce == Spec => []OneCommitPerKey
<1>1. LedgerInv => OneCommitPerKey
  <2> SUFFICES ASSUME LedgerInv, NEW o \in Commands PROVE Cardinality(committed[o]) <= 1
    BY DEF OneCommitPerKey
  <2>1. CASE committed[o] = {}
    BY <2>1, FS_EmptySet
  <2>2. CASE \E n \in SHA : committed[o] = {n}
    BY <2>2, FS_Singleton
  <2>3. QED
    BY <2>1, <2>2 DEF LedgerInv, CommitInv, Request
<1>2. QED
  BY <1>1, LedgerInvariant, PTL

\* The commit of a command that was reported succeeded is at GitHub, and stays.
THEOREM AcknowledgedStays == Spec => []AcknowledgedIsDurable
<1>1. LedgerInv => AcknowledgedIsDurable
  BY DEF LedgerInv
<1>2. QED
  BY <1>1, LedgerInvariant, PTL

\* The database never points at a commit that the mirror's ref has lost.
THEOREM RecordNeverAhead == Spec => []RecordFollowsRef
<1>1. LedgerInv => RecordFollowsRef
  BY DEF LedgerInv, RefInv, Behind, RecordFollowsRef
<1>2. QED
  BY <1>1, LedgerInvariant, PTL
-----------------------------------------------------------------------------
(* Plans and applies: that the service implements module Trunk, and what   *)
(* the runner's memory is worth.                                           *)
(*                                                                         *)
(* PlanInv says what an apply knows of its plan from the step in which it  *)
(* selects it to the end of the process: the plan has succeeded and is of  *)
(* the draft that the apply read; before the apply moves the default       *)
(* branch the runner still has the plan, or another apply of it has moved  *)
(* the branch there already; while the plan runs, its commit is on the     *)
(* branch at GitHub; and the plan of an apply that ran to its end is gone. *)

\* A plan or an apply works on a commit that has been made.
Reads(r) == req[r].pc \notin {"idle", "done"} => Made(req[r].sha)

\* A plan that is about to succeed has been saved.
Saves(p) == req[p].pc = "finish" => artifacts[p] = req[p].sha

\* The steps of an apply that has selected its plan.
Chosen == {"claim", "queued", "check", "promote", "push", "run", "applying", "finish"}

Succeeded(p) == p \in Plans /\ operations[p].status = "succeeded"

Follows(a) ==
  LET p == req[a].plan
  IN  /\ req[a].pc \in Chosen => Succeeded(p) /\ artifacts[p] = req[a].sha
      /\ a \in started => /\ req[a].pc \in {"applying", "finish", "mark", "fail", "discard", "done"}
                          /\ Succeeded(p) /\ artifacts[p] # None
      /\ req[a].pc \in {"promote", "push"} => p \in retained \/ req[a].sha \in history[origin.main]
      /\ req[a].pc \in {"run", "applying", "finish"} => req[a].sha \in history[origin.main]
      /\ a \in started /\ (req[a].pc = "finish" \/ operations[a].status = "succeeded") => p \notin retained

PlanInv ==
  /\ \A r \in Plans \cup Applies : Reads(r)
  /\ \A p \in Plans : Saves(p)
  /\ \A a \in Applies : Follows(a)

-----------------------------------------------------------------------------
\* A plan that has succeeded keeps its row and its artifact.
LEMMA PlansKept ==
  ASSUME Rows!TypeOK, [Store!Next]_(Store!vars)
  PROVE  \A p \in Request : operations[p].status = "succeeded" =>
           operations'[p] = operations[p] /\ artifacts'[p] = artifacts[p]
<1>1. artifacts \in [Request -> SHA \cup {None}]
  BY DEF Rows!TypeOK
<1>2. ASSUME NEW c \in Changeset, Store!ChangesetStep(c) PROVE artifacts' = artifacts
  BY <1>2 DEF Store!ChangesetStep, Store!CreateChangeset, Store!AdvanceDraft, Store!TransitionChangeset
<1>3. ASSUME NEW o \in Request, Store!OperationStep(o),
             NEW p \in Request, operations[p].status = "succeeded"
      PROVE  artifacts'[p] = artifacts[p]
  BY <1>1, <1>3 DEF Store!OperationStep, Store!ClaimOperation, Store!TransitionOperation, Store!FinishOperation,
     Store!PutPlanArtifact, Store!MayStoreArtifact
<1>4. \A p \in Request : operations[p].status = "succeeded" => artifacts'[p] = artifacts[p]
  BY <1>2, <1>3 DEF Store!Next, Store!vars
<1>5. QED
  BY <1>4, StoreEvolves

\* What is on the default branch stays on it.
LEMMA MainForward ==
  ASSUME TypeInv, HistoryInv, TypeInv', HistoryInv', HistoryKept, OriginForward,
         NEW s \in SHA, s \in history[origin.main]
  PROVE  s \in history'[origin'.main]
<1>1. origin.main \in SHA /\ origin'.main \in SHA /\ Made(origin.main)
  BY DEF TypeInv, Refs, HistoryInv
<1>2. history'[origin.main] = history[origin.main] /\ origin.main \in history'[origin'.main]
  BY <1>1 DEF HistoryKept, OriginForward
<1>3. QED
  BY <1>1, <1>2 DEF HistoryInv

\* A plan or an apply only changes its label, or chooses.
LEMMA PlanTurns ==
  ASSUME TypeInv, TargetInv, LedgerAssumption, NEW r \in Plans \cup Applies, Step(r)
  PROVE  \/ Chooses(r)
         \/ req[r].pc \notin {"idle", "done"} /\ \E label : Turn(r, label)
         \/ /\ Promotes(r) /\ req[r].pc = "promote" /\ req'[r].sha = req[r].sha
<1>1. r \notin Commands /\ r \in Request
  BY LedgerAssumption DEF LedgerAssumption, Request
<1>2. QED
  BY <1>1 DEF Step, Retreats, Creates, Claims, Starts, Commits, Publishes, Advances, Finishes, Closes, Runs,
     Promotes, Running

LEMMA ReadsStep ==
  ASSUME LedgerInv, LedgerAssumption, HistoryKept, NEW r \in Request, Step(r),
         \A q \in Plans \cup Applies : Reads(q)
  PROVE  \A q \in Plans \cup Applies : Reads(q)'
<1> USE DEF LedgerInv
<1>1. /\ \A q \in Request : q # r => req'[q] = req[q]
      /\ \A q \in Plans \cup Applies : req[q].pc \notin {"idle", "done"} =>
           history'[req[q].sha] = history[req[q].sha] /\ Made(req[q].sha)
  <2>1. \A q \in Plans \cup Applies : req[q].pc = "create" \/ req[q].pc \notin {"idle", "create", "done"} => req[q].sha \in SHA
    BY DEF TargetInv, Target, Request
  <2>2. QED
    BY <2>1, RequestTypes DEF Only, Reads, HistoryKept
<1>2. ASSUME NEW q \in Plans \cup Applies, q # r PROVE Reads(q)'
  BY <1>1, <1>2 DEF Reads, Made, Request
<1>3. ASSUME r \in Plans \cup Applies PROVE Reads(r)'
  <2>1. CASE Chooses(r)
    <3>1. history' = history
      BY <2>1 DEF Chooses, git
    <3>2. req'[r].pc \notin {"idle", "done"} => Made(req'[r].sha)
      BY <1>1, <1>3, <2>1, DraftsMade, LedgerAssumption DEF Chooses, LedgerAssumption
    <3>3. QED
      BY <3>1, <3>2 DEF Reads, Made
  <2>2. CASE req[r].pc \notin {"idle", "done"} /\ \E label : Turn(r, label)
    BY <1>1, <1>3, <2>2 DEF Turn, Reads, Made
  <2>3. CASE Promotes(r) /\ req[r].pc = "promote" /\ req'[r].sha = req[r].sha
    BY <1>1, <1>3, <2>3 DEF Reads, Made
  <2>4. QED
    BY <1>3, <2>1, <2>2, <2>3, PlanTurns
<1>4. QED
  BY <1>2, <1>3

LEMMA SavesStep ==
  ASSUME LedgerInv, LedgerAssumption, [Store!Next]_(Store!vars), NEW r \in Request, Step(r),
         \A p \in Plans : Saves(p)
  PROVE  \A p \in Plans : Saves(p)'
<1> USE DEF LedgerInv
<1>1. /\ \A q \in Request : q # r => req'[q] = req[q]
      /\ artifacts \in [Request -> SHA \cup {None}]
  BY RequestTypes DEF Only, TypeInv, Rows!RowsInv, Rows!TypeOK
<1>2. artifacts' = artifacts \/ (Runs(r) /\ req[r].pc = "store" /\ artifacts' = [artifacts EXCEPT ![r] = req[r].sha])
  BY DEF Step, Chooses, Retreats, Creates, Claims, Starts, Commits, Publishes, Advances, Finishes, Closes, Runs,
     Promotes, store, Store!CreateChangeset, Store!ClaimOperation, Store!TransitionOperation, Store!AdvanceDraft,
     Store!FinishOperation, Store!TransitionChangeset, Store!PutPlanArtifact
<1>3. ASSUME NEW p \in Plans, p # r PROVE Saves(p)'
  BY <1>1, <1>2, <1>3 DEF Saves, Request
<1>4. ASSUME r \in Plans PROVE Saves(r)'
  <2>1. r \notin Commands /\ r \notin Applies
    BY <1>4, LedgerAssumption DEF LedgerAssumption
  <2>2. req'[r].pc = "finish" => Runs(r) /\ req[r].pc = "store" /\ req'[r].sha = req[r].sha
    BY <2>1 DEF Step, Chooses, Retreats, Creates, Claims, Starts, Commits, Publishes, Advances, Finishes, Closes,
       Runs, Promotes, Turn
  <2>3. Runs(r) /\ req[r].pc = "store" => artifacts'[r] = req[r].sha
    BY <1>1 DEF Runs, Store!PutPlanArtifact
  <2>4. QED
    BY <2>2, <2>3 DEF Saves
<1>5. QED
  BY <1>3, <1>4

LEMMA OthersFollow ==
  ASSUME LedgerInv, LedgerAssumption, TypeInv', HistoryInv', HistoryKept, OriginForward,
         [Store!Next]_(Store!vars), NEW r \in Request, Step(r), PlanInv, NEW a \in Applies, a # r
  PROVE  Follows(a)'
<1> USE DEF LedgerInv
<1> DEFINE p == req[a].plan
<1>1. /\ Follows(a) /\ req'[a] = req[a] /\ a \in Request /\ a \notin Commands
      /\ req[a].pc \in {"promote", "push", "run", "applying", "finish"} => req[a].sha \in SHA
  BY RequestTypes, LedgerAssumption DEF PlanInv, Only, Request, LedgerAssumption, TargetInv, Target
<1>2. Succeeded(p) => /\ operations'[p] = operations[p] /\ artifacts'[p] = artifacts[p]
  BY PlansKept DEF TypeInv, Rows!RowsInv, Succeeded, Request
<1>3. a \in started' => a \in started
  BY DEF Step, Chooses, Retreats, Creates, Claims, Starts, Commits, Publishes, Advances, Finishes, Closes, Runs,
     Promotes, aux
<1>4. /\ \A s \in SHA : s \in history[origin.main] => s \in history'[origin'.main]
  BY MainForward
<1>5. \/ retained' = retained
      \/ Runs(r) /\ r \in Plans /\ req[r].pc = "planning" /\ retained' = retained \cup {r}
      \/ Runs(r) /\ r \in Applies /\ req[r].pc = "applying" /\ retained' = retained \ {req[r].plan}
  BY DEF Step, Chooses, Retreats, Creates, Claims, Starts, Commits, Publishes, Advances, Finishes, Closes, Runs,
     Promotes, host
<1>6. req[a].pc \in {"promote", "push"} => p \in retained' \/ req[a].sha \in history'[origin'.main]
  <2>1. ASSUME r \in Applies, req[r].pc = "applying", req[r].plan = p, req[a].pc \in {"promote", "push"}
        PROVE  req[a].sha \in history[origin.main]
    BY <1>1, <2>1 DEF PlanInv, Follows, Chosen
  <2>2. QED
    BY <1>1, <1>4, <1>5, <2>1 DEF Follows
<1>7. a \in started /\ (req[a].pc = "finish" \/ operations'[a].status = "succeeded") => p \notin retained'
  <2>1. operations'[a].status = "succeeded" => operations[a].status = "succeeded"
    <3>1. CASE operations'[a] = operations[a]
      BY <3>1
    <3>2. CASE operations'[a] # operations[a]
      <4>1. (Claims(r) /\ a = r) \/ (Starts(r) /\ a = req[r].op) \/ (Finishes(r) /\ a = req[r].op)
        BY <1>1, <3>2, OwnOperation
      <4>2. /\ req[r].pc \in {"start", "queued", "finish", "fail"} /\ a = req[r].op
            /\ req[r].pc = "queued" => r \notin Commands
        BY <4>1, <1>1, LedgerAssumption DEF Claims, Starts, Finishes, LedgerAssumption
      <4>3. Works(r)
        BY DEF OperationInv
      <4>4. r \in Commands => req[r].op \in Commands
        BY <4>2, <4>3 DEF Works, Running
      <4>5. r \notin Commands => req[r].op = r
        BY <4>2, <4>3 DEF Works
      <4>6. QED
        BY <1>1, <4>2, <4>4, <4>5
    <3>3. QED
      BY <3>1, <3>2
  <2>2. a \in started => Succeeded(p)
    BY <1>1 DEF Follows
  <2>3. r \in Plans /\ req[r].pc = "planning" => operations[r].status = "running"
    BY LedgerAssumption DEF OperationInv, Works, Running, LedgerAssumption
  <2>4. QED
    BY <1>1, <1>5, <2>1, <2>2, <2>3 DEF Follows, Succeeded
<1>8. QED
  BY <1>1, <1>2, <1>3, <1>4, <1>6, <1>7 DEF Follows, Succeeded

LEMMA OwnFollows ==
  ASSUME LedgerInv, LedgerAssumption, TypeInv', HistoryInv', HistoryKept, OriginForward,
         [Store!Next]_(Store!vars), NEW r \in Applies, Step(r), PlanInv
  PROVE  Follows(r)'
<1> USE DEF LedgerInv
<1>1. /\ Follows(r) /\ r \in Request /\ r \notin Commands /\ r \notin Plans
      /\ req[r].pc \notin {"idle", "create", "done"} => req[r].sha \in SHA
  BY LedgerAssumption DEF PlanInv, Request, LedgerAssumption, TargetInv, Target
<1>2. \A p : Succeeded(p) => Succeeded(p)' /\ artifacts'[p] = artifacts[p]
  BY PlansKept DEF TypeInv, Rows!RowsInv, Succeeded, Request
<1>3. \A s \in SHA : s \in history[origin.main] => s \in history'[origin'.main]
  BY MainForward
<1>4. CASE Chooses(r)
  <2>1. /\ started' = started /\ artifacts' = artifacts /\ operations' = operations
    BY <1>4 DEF Chooses, store, aux
  <2>2. CASE req[r].pc = "idle"
    BY <1>1, <1>4, <2>1, <2>2 DEF Chooses, Follows, Chosen
  <2>3. CASE req[r].pc = "select"
    <3>1. /\ req'[r].pc = "claim" /\ req'[r].sha = req[r].sha
          /\ Succeeded(req'[r].plan) /\ artifacts[req'[r].plan] = req[r].sha
      BY <1>1, <1>4, <2>3 DEF Chooses, Store!LatestPlan, Store!SucceededPlans, Succeeded
    <3>2. r \notin started
      BY <1>1, <2>3 DEF Follows
    <3>3. QED
      BY <2>1, <3>1, <3>2 DEF Follows, Succeeded
  <2>4. QED
    BY <1>1, <1>4, <2>2, <2>3 DEF Chooses
<1>5. CASE Promotes(r)
  <2>1. /\ started' = started /\ retained' = retained /\ history' = history
        /\ artifacts' = artifacts /\ operations' = operations
    BY <1>5 DEF Promotes, store, host, aux
  <2>2. CASE req[r].pc = "promote"
    BY <1>1, <1>5, <2>1, <2>2 DEF Promotes, Follows, Succeeded, Chosen
  <2>3. CASE req[r].pc = "push" /\ req'[r].pc = "run"
    <3>1. /\ origin'.main = req[r].sha /\ req'[r].sha = req[r].sha /\ req'[r].plan = req[r].plan
          /\ origin.main \in history[req[r].sha]
      BY <1>1, <1>5, <2>3 DEF Promotes, Turn, TypeInv, Refs, OriginAccepts
    <3>2. req[r].sha \in history[req[r].sha]
      BY <1>1, <2>3, <3>1 DEF HistoryInv, Made
    <3>3. QED
      BY <1>1, <2>1, <2>3, <3>1, <3>2 DEF Follows, Succeeded, Chosen
  <2>4. CASE req[r].pc = "push" /\ req'[r].pc # "run"
    BY <1>1, <1>5, <2>1, <2>4 DEF Promotes, Turn, Follows, Succeeded, Chosen
  <2>5. QED
    BY <1>5, <2>2, <2>3, <2>4 DEF Promotes
<1>6. CASE Runs(r)
  <2>1. /\ history' = history /\ origin' = origin /\ operations' = operations
    BY <1>6 DEF Runs, git, store, Store!PutPlanArtifact
  <2>2. \/ req[r].pc = "run" /\ started' = started \cup {r} /\ retained' = retained /\ Turn(r, "applying")
        \/ /\ req[r].pc = "applying" /\ started' = started /\ retained' = retained \ {req[r].plan}
           /\ Turn(r, "finish")
    BY <1>1, <1>6 DEF Runs
  <2>3. req[r].pc = "run" => operations[r].status = "running"
    BY <1>1 DEF OperationInv, Works, Running
  <2>4. QED
    BY <1>1, <1>2, <2>1, <2>2, <2>3, LedgerAssumption DEF Turn, Follows, Succeeded, Chosen, LedgerAssumption
<1>7. CASE Finishes(r)
  <2>1. /\ started' = started /\ retained' = retained /\ req'[r].pc \in {"done", "mark", "discard"}
        /\ req'[r].plan = req[r].plan
        /\ req[r].pc \in {"finish", "fail"} /\ req[r].op = r
    BY <1>1, <1>7 DEF Finishes, host, aux, Turn, OperationInv, Works
  <2>2. operations'[r].status = "succeeded" => req[r].pc = "finish"
    <3>1. operations \in [Request -> Rows!OperationRow]
      BY DEF TypeInv, Rows!RowsInv, Rows!TypeOK
    <3>2. QED
      BY <1>1, <1>7, <2>1, <3>1 DEF Finishes, Store!FinishOperation, Rows!OperationRow
  <2>3. QED
    BY <1>1, <1>2, <2>1, <2>2, LedgerAssumption DEF Follows, Succeeded, Chosen, LedgerAssumption
<1>8. CASE Retreats(r) \/ Claims(r) \/ Starts(r) \/ Closes(r)
  <2>1. /\ started' = started /\ retained' = retained /\ history' = history /\ origin' = origin
        /\ req'[r].plan = req[r].plan /\ (req'[r].pc # "done" => req'[r].sha = req[r].sha)
        /\ \/ req[r].pc \in Running \ {"fail"} /\ req'[r].pc = "fail"
           \/ req[r].pc \in {"claim", "select", "finish", "discard", "mark"} /\ req'[r].pc = "done"
           \/ req[r].pc = "check" /\ req'[r].pc = "promote" /\ req[r].plan \in retained
           \/ req[r].pc = "claim" /\ req'[r].pc = "queued"
           \/ req[r].pc = "queued" /\ req'[r].pc = "check"
    BY <1>1, <1>8 DEF Retreats, Claims, Starts, Closes, Turn, git, host, aux
  <2>2. operations'[r].status = "succeeded" => operations[r].status = "succeeded"
    <3>1. operations' = operations \/ Claims(r) \/ Starts(r)
      BY <1>8 DEF Retreats, Closes, store, Store!TransitionChangeset
    <3>2. operations \in [Request -> Rows!OperationRow]
      BY DEF TypeInv, Rows!RowsInv, Rows!TypeOK
    <3>3. CASE Claims(r)
      BY <1>1, <3>2, <3>3, LedgerAssumption DEF Claims, Store!ClaimOperation, LedgerAssumption
    <3>4. CASE Starts(r)
      BY <1>1, <3>2, <3>4, LedgerAssumption DEF Starts, Store!TransitionOperation, LedgerAssumption
    <3>5. QED
      BY <3>1, <3>3, <3>4
  <2>3. QED
    BY <1>1, <1>2, <2>1, <2>2 DEF Follows, Succeeded, Chosen, Running
<1>9. QED
  BY <1>1, <1>4, <1>5, <1>6, <1>7, <1>8 DEF Step, Creates, Commits, Publishes, Advances

LEMMA PlanStepInv ==
  ASSUME LedgerInv, PlanInv, LedgerAssumption, [Next]_vars, LedgerInv'
  PROVE  PlanInv'
<1>1. CASE UNCHANGED vars
  <2>1. /\ operations' = operations /\ artifacts' = artifacts /\ history' = history /\ origin' = origin
        /\ retained' = retained /\ req' = req /\ started' = started
    BY <1>1 DEF vars, store, git, host, aux
  <2>2. QED
    BY <2>1 DEF PlanInv, Reads, Saves, Follows, Succeeded, Made
<1>2. CASE Next
  <2>1. /\ [Store!Next]_(Store!vars)
        /\ \/ \E r \in Request : Step(r)
           \/ \E n \in SHA : ExternalPush(n)
           \/ Fetch
           \/ Crash
    BY StoreStep, AllSteps, <1>2 DEF LedgerInv
  <2>2. HistoryKept /\ OriginForward
    BY <2>1, GitStep DEF LedgerInv
  <2>3. ASSUME NEW r \in Request, Step(r) PROVE PlanInv'
    <3>1. /\ \A q \in Plans \cup Applies : Reads(q)'
          /\ \A p \in Plans : Saves(p)'
      BY <2>1, <2>2, <2>3, ReadsStep, SavesStep DEF PlanInv
    <3>2. \A a \in Applies : a # r => Follows(a)'
      BY <2>1, <2>2, <2>3, OthersFollow DEF LedgerInv
    <3>3. r \in Applies => Follows(r)'
      BY <2>1, <2>2, <2>3, OwnFollows DEF LedgerInv
    <3>4. QED
      BY <3>1, <3>2, <3>3 DEF PlanInv
  <2>4. CASE Crash
    <3>1. /\ operations' = operations /\ artifacts' = artifacts /\ started' = started /\ retained' = {}
          /\ \A r \in Request : /\ req'[r].pc \in {"idle", "done"}
                                /\ req[r].pc # "idle" => req'[r].pc = "done" /\ req'[r].plan = req[r].plan
      BY <2>4 DEF Crash, store, aux, Idle, Done
    <3>2. \A a \in Applies : Follows(a)'
      BY <3>1 DEF PlanInv, Follows, Succeeded, Chosen, Request
    <3>3. QED
      BY <3>1, <3>2 DEF PlanInv, Reads, Saves, Request
  <2>5. CASE Fetch \/ \E n \in SHA : ExternalPush(n)
    <3>1. /\ operations' = operations /\ artifacts' = artifacts /\ started' = started /\ retained' = retained
          /\ req' = req
      BY <2>5 DEF Fetch, ExternalPush, store, aux, host
    <3>2. \A s \in SHA : s \in history[origin.main] => s \in history'[origin'.main]
      BY <2>2, MainForward DEF LedgerInv
    <3>3. ASSUME NEW r \in Plans \cup Applies PROVE Reads(r)'
      <4>1. req[r].pc \notin {"idle", "done"} => req[r].sha \in SHA
        BY DEF LedgerInv, TargetInv, Target, Request
      <4>2. QED
        BY <2>2, <3>1, <4>1 DEF PlanInv, Reads, Made, HistoryKept
    <3>4. ASSUME NEW a \in Applies PROVE Follows(a)'
      <4>1. req[a].pc \in {"promote", "push", "run", "applying", "finish"} => req[a].sha \in SHA
        BY DEF LedgerInv, TargetInv, Target, Request
      <4>2. QED
        BY <3>1, <3>2, <4>1 DEF PlanInv, Follows, Succeeded
    <3>5. QED
      BY <3>1, <3>3, <3>4 DEF PlanInv, Saves
  <2>6. QED
    BY <2>1, <2>3, <2>4, <2>5
<1>3. QED
  BY <1>1, <1>2

TrunkInv == LedgerInv /\ PlanInv

LEMMA TrunkInit == Init /\ LedgerAssumption => TrunkInv
<1> SUFFICES ASSUME Init, LedgerAssumption PROVE PlanInv
  BY LedgerInit DEF TrunkInv
<1>1. (\A r \in Request : req[r] = Idle) /\ started = {}
  BY DEF Init
<1>2. QED
  BY <1>1 DEF PlanInv, Reads, Saves, Follows, Chosen, Idle, Request

LEMMA TrunkStep == TrunkInv /\ LedgerAssumption /\ [Next]_vars => TrunkInv'
  BY LedgerStep, PlanStepInv DEF TrunkInv

\* What an apply knows of its plan is true of the store, of GitHub and of the
\* runner's memory at every step, whatever other requests do meanwhile.
THEOREM TrunkInvariant == Spec => []TrunkInv
  BY LedgerAssumption, TrunkInit, TrunkStep, PTL DEF Spec

-----------------------------------------------------------------------------
(* The refinement of module Trunk *)

\* The commits with a successful saved plan, and those whose plan has run.
PlannedCommits == {artifacts[p] : p \in {q \in Plans : artifacts[q] # None /\ operations[q].status = "succeeded"}}

RanCommits == {artifacts[req[a].plan] : a \in started}

LEMMA PlannedGrows ==
  ASSUME TrunkInv, LedgerAssumption, [Store!Next]_(Store!vars), NEW r \in Request, Step(r)
  PROVE  \/ PlannedCommits' = PlannedCommits
         \/ \E s \in SHA : Finishes(r) /\ Made(s) /\ PlannedCommits' = PlannedCommits \cup {s}
<1> USE DEF TrunkInv, LedgerInv
<1>1. /\ \A p \in Plans : p \in Request /\ p \notin Commands
      /\ \A p \in Plans : operations[p].status = "succeeded" => operations'[p] = operations[p] /\ artifacts'[p] = artifacts[p]
      /\ operations \in [Request -> Rows!OperationRow]
  BY PlansKept, LedgerAssumption DEF TypeInv, Rows!RowsInv, Rows!TypeOK, Request, LedgerAssumption
<1>2. CASE Finishes(r) /\ r \in Plans /\ req[r].pc = "finish"
  <2>1. /\ req[r].op = r /\ artifacts' = artifacts /\ artifacts[r] = req[r].sha /\ req[r].sha \in SHA /\ Made(req[r].sha)
        /\ operations'[r].status = "succeeded" /\ \A p \in Request : p # r => operations'[p] = operations[p]
    BY <1>1, <1>2 DEF Finishes, Store!FinishOperation, Works, OperationInv, PlanInv, Saves, Reads, TargetInv, Target,
       Rows!OperationRow
  <2>2. artifacts[r] # None
    BY <2>1, LedgerAssumption DEF LedgerAssumption
  <2>3. PlannedCommits' = PlannedCommits \cup {artifacts[r]}
    BY <1>1, <1>2, <2>1, <2>2 DEF PlannedCommits
  <2>4. QED
    BY <1>2, <2>1, <2>3
<1>3. CASE ~(Finishes(r) /\ r \in Plans /\ req[r].pc = "finish")
  <2>1. ASSUME NEW p \in Plans, operations'[p].status = "succeeded" PROVE operations[p].status = "succeeded"
    <3>1. CASE operations'[p] = operations[p]
      BY <2>1, <3>1
    <3>2. CASE operations'[p] # operations[p]
      <4>1. Finishes(r) /\ p = req[r].op
        BY <1>1, <2>1, <3>2, OwnOperation
      <4>2. req[r].pc = "finish"
        BY <1>1, <2>1, <4>1 DEF Finishes, Store!FinishOperation, Rows!OperationRow
      <4>3. Works(r)
        BY DEF OperationInv
      <4>4. r = p
        BY <1>1, <4>1, <4>2, <4>3 DEF Works, Running
      <4>5. QED
        BY <1>3, <4>1, <4>2, <4>4
    <3>3. QED
      BY <3>1, <3>2
  <2>2. PlannedCommits' = PlannedCommits
    BY <1>1, <2>1 DEF PlannedCommits
  <2>3. QED
    BY <2>2
<1>4. QED
  BY <1>2, <1>3

LEMMA RanGrows ==
  ASSUME TrunkInv, LedgerAssumption, [Store!Next]_(Store!vars), NEW r \in Request, Step(r)
  PROVE  \/ RanCommits' = RanCommits
         \/ \E s \in PlannedCommits : /\ Runs(r) /\ req[r].pc = "run" /\ s \in history[origin.main]
                                      /\ RanCommits' = RanCommits \cup {s}
<1> USE DEF TrunkInv, LedgerInv
<1>1. ASSUME NEW a \in Applies, a \in started \/ (Runs(r) /\ a = r)
      PROVE  req'[a].plan = req[a].plan
  <2>1. a \in Request /\ a \notin Commands /\ a \notin Plans
    BY LedgerAssumption DEF Request, LedgerAssumption
  <2>2. CASE a # r
    BY <2>1, <2>2, RequestTypes DEF Only
  <2>3. CASE Runs(r) /\ a = r
    BY <2>3 DEF Runs, Turn
  <2>4. CASE a \in started /\ a = r
    <3>1. req[r].pc \in {"applying", "finish", "mark", "fail", "discard", "done"}
      BY <2>4 DEF PlanInv, Follows
    <3>2. QED
      BY <2>1, <2>4, <3>1 DEF Step, Chooses, Retreats, Creates, Claims, Starts, Commits, Publishes, Advances,
         Finishes, Closes, Runs, Promotes, Turn
  <2>5. QED
    BY <1>1, <2>2, <2>3, <2>4
<1>2. \A p \in Plans : operations[p].status = "succeeded" => artifacts'[p] = artifacts[p]
  BY PlansKept DEF TypeInv, Rows!RowsInv, Request
<1>3. \A a \in started : a \in Applies /\ artifacts'[req'[a].plan] = artifacts[req[a].plan]
  BY <1>1, <1>2 DEF TypeInv, PlanInv, Follows, Succeeded
<1>4. CASE Runs(r) /\ req[r].pc = "run"
  <2> DEFINE s == artifacts[req[r].plan]
  <2>1. r \in Applies /\ started' = started \cup {r} /\ artifacts' = artifacts
    BY <1>4 DEF Runs, store
  <2>2. /\ Succeeded(req[r].plan) /\ s = req[r].sha /\ s \in history[origin.main]
    BY <1>4, <2>1 DEF PlanInv, Follows, Chosen
  <2>3. s # None
    BY <1>4, <2>1, <2>2, LedgerAssumption DEF TargetInv, Target, Request, LedgerAssumption
  <2>4. s \in PlannedCommits
    BY <2>2, <2>3 DEF PlannedCommits, Succeeded
  <2>5. req'[r].plan = req[r].plan
    BY <1>1, <1>4, <2>1
  <2>6. RanCommits' = RanCommits \cup {s}
    BY <1>3, <2>1, <2>5 DEF RanCommits
  <2>7. QED
    BY <1>4, <2>2, <2>4, <2>6
<1>5. CASE ~(Runs(r) /\ req[r].pc = "run")
  <2>1. started' = started
    BY <1>5 DEF Step, Chooses, Retreats, Creates, Claims, Starts, Commits, Publishes, Advances, Finishes, Closes,
       Runs, Promotes, aux
  <2>2. QED
    BY <1>3, <2>1 DEF RanCommits
<1>6. QED
  BY <1>4, <1>5

LEMMA TrunkMoves ==
  ASSUME TrunkInv, LedgerAssumption, [Next]_vars
  PROVE  [Default!Next]_(Default!vars)
<1> USE DEF TrunkInv, LedgerInv
<1>0. /\ history \in [SHA -> SUBSET SHA] /\ mirror \in Refs /\ origin \in Refs
      /\ origin.main \in SHA /\ Made(origin.main)
  BY DEF TypeInv, Refs, HistoryInv
<1>1. ASSUME history' = history, origin'.main = origin.main, PlannedCommits' = PlannedCommits,
             RanCommits' = RanCommits
      PROVE  UNCHANGED Default!vars
  BY <1>1 DEF Default!vars, PlannedCommits, RanCommits
<1>2. ASSUME NEW s \in SHA, Made(s), PlannedCommits' = PlannedCommits \cup {s}, history' = history,
             origin'.main = origin.main, RanCommits' = RanCommits
      PROVE  Default!Next
  <2>1. Default!Plan(s)
    BY <1>2 DEF Default!Plan, Default!Made, Made, PlannedCommits, RanCommits
  <2>2. QED
    BY <2>1 DEF Default!Next
<1>3. ASSUME NEW s \in PlannedCommits, s \in history[origin.main], RanCommits' = RanCommits \cup {s},
             history' = history, origin'.main = origin.main, PlannedCommits' = PlannedCommits
      PROVE  Default!Next
  <2>1. s \in SHA
    BY <1>0, <1>3
  <2>2. Default!Run(s)
    BY <1>3 DEF Default!Run, PlannedCommits, RanCommits
  <2>3. QED
    BY <2>1, <2>2 DEF Default!Next
<1>4. ASSUME NEW r \in Request, Step(r) PROVE [Default!Next]_(Default!vars)
  <2>1. [Store!Next]_(Store!vars)
    BY <1>4, UsesStore
  <2>2. CASE Finishes(r)
    <3>1. history' = history /\ origin' = origin /\ req[r].pc \in {"finish", "fail"}
      BY <2>2 DEF Finishes, git
    <3>2. RanCommits' = RanCommits
      BY <1>4, <2>1, <3>1, RanGrows
    <3>3. QED
      BY <1>1, <1>2, <1>4, <2>1, <3>1, <3>2, PlannedGrows
  <2>3. ASSUME ~Finishes(r) PROVE PlannedCommits' = PlannedCommits
    BY <1>4, <2>1, <2>3, PlannedGrows
  <2>4. CASE Runs(r)
    <3>1. history' = history /\ origin' = origin /\ ~Finishes(r)
      BY <2>4 DEF Runs, Finishes, git
    <3>2. QED
      BY <1>1, <1>3, <1>4, <2>1, <2>3, <3>1, RanGrows
  <2>5. ASSUME ~Runs(r) PROVE RanCommits' = RanCommits
    BY <1>4, <2>1, <2>5, RanGrows
  <2>6. CASE Commits(r)
    <3>1. /\ PlannedCommits' = PlannedCommits /\ RanCommits' = RanCommits /\ origin' = origin
      BY <2>3, <2>5, <2>6 DEF Commits, Finishes, Runs
    <3>2. PICK n \in SHA : /\ ~Made(n) /\ mirror.draft[req[r].cs] = req[r].sha
                           /\ history' = [history EXCEPT ![n] = history[req[r].sha] \cup {n}]
      BY <2>6 DEF Commits
    <3>3. req[r].sha \in SHA /\ Made(req[r].sha)
      BY <2>6, <3>2, LedgerAssumption DEF Commits, TargetInv, Target, HistoryInv, LedgerAssumption
    <3>4. Default!Write(n, req[r].sha)
      BY <3>1, <3>2, <3>3 DEF Default!Write, Default!NewCommit, Default!Made, Made, PlannedCommits, RanCommits
    <3>5. QED
      BY <3>3, <3>4 DEF Default!Next
  <2>7. CASE Promotes(r)
    <3>1. /\ PlannedCommits' = PlannedCommits /\ RanCommits' = RanCommits /\ history' = history
      BY <2>3, <2>5, <2>7 DEF Promotes, Finishes, Runs
    <3>2. CASE origin' = origin
      BY <1>1, <3>1, <3>2
    <3>3. CASE origin' # origin
      <4>1. /\ req[r].pc = "push" /\ r \in Applies /\ origin.main \in history[req[r].sha]
            /\ origin' = [origin EXCEPT !.main = req[r].sha]
        BY <2>7, <3>3 DEF Promotes, OriginAccepts
      <4>2. /\ req[r].sha \in SHA /\ Succeeded(req[r].plan) /\ artifacts[req[r].plan] = req[r].sha
        BY <4>1 DEF TargetInv, Target, PlanInv, Follows, Chosen
      <4>3. req[r].sha \in PlannedCommits
        BY <4>2, LedgerAssumption DEF PlannedCommits, Succeeded, LedgerAssumption
      <4>4. Default!Promote(req[r].sha)
        BY <1>0, <3>1, <4>1, <4>3 DEF Default!Promote, PlannedCommits, RanCommits, Refs
      <4>5. QED
        BY <4>2, <4>4 DEF Default!Next
    <3>4. QED
      BY <3>2, <3>3
  <2>8. CASE \/ Chooses(r) \/ Retreats(r) \/ Creates(r) \/ Claims(r) \/ Starts(r) \/ Publishes(r)
             \/ Advances(r) \/ Closes(r)
    <3>1. CASE ~Finishes(r) /\ ~Runs(r)
      <4>1. history' = history /\ origin'.main = origin.main
        BY <1>0, <2>8 DEF Chooses, Retreats, Creates, Claims, Starts, Publishes, Advances, Closes, git, Refs
      <4>2. QED
        BY <1>1, <2>3, <2>5, <3>1, <4>1
    <3>2. QED
      BY <2>2, <2>4, <3>1
  <2>9. QED
    BY <1>4, <2>2, <2>4, <2>6, <2>7, <2>8 DEF Step
<1>5. ASSUME NEW n \in SHA, ExternalPush(n) PROVE Default!Next
  <2>1. /\ ~Made(n) /\ history' = [history EXCEPT ![n] = history[origin.main] \cup {n}] /\ origin'.main = n
        /\ operations' = operations /\ artifacts' = artifacts /\ req' = req /\ started' = started
    BY <1>0, <1>5 DEF ExternalPush, Refs, store, aux
  <2>2. PlannedCommits' = PlannedCommits /\ RanCommits' = RanCommits
    BY <2>1 DEF PlannedCommits, RanCommits
  <2>3. Default!Push(n)
    BY <1>0, <2>1, <2>2 DEF Default!Push, Default!NewCommit, Default!Made, Made, PlannedCommits, RanCommits
  <2>4. QED
    BY <2>3 DEF Default!Next
<1>6. CASE UNCHANGED vars \/ Fetch
  <2>1. /\ history' = history /\ origin' = origin
        /\ operations' = operations /\ artifacts' = artifacts /\ req' = req /\ started' = started
    BY <1>6 DEF Fetch, vars, git, store, aux
  <2>2. QED
    BY <1>1, <2>1 DEF PlannedCommits, RanCommits
<1>7. CASE Crash
  <2>1. /\ history' = history /\ origin' = origin
        /\ operations' = operations /\ artifacts' = artifacts /\ started' = started
    BY <1>7 DEF Crash, git, store, aux
  <2>2. ASSUME NEW a \in started PROVE req'[a].plan = req[a].plan
    <3>1. a \in Request /\ req[a].pc # "idle"
      BY <2>2 DEF TypeInv, PlanInv, Follows, Request
    <3>2. QED
      BY <1>7, <3>1 DEF Crash, Done, Idle
  <2>3. QED
    BY <1>1, <2>1, <2>2 DEF PlannedCommits, RanCommits
<1>8. QED
  BY <1>4, <1>5, <1>6, <1>7, AllSteps

\* The default branch is what module Trunk promises: it only moves forward,
\* only to a draft with a successful saved plan (apart from pushes made outside
\* nodr), and a plan only runs when its very commit is on the branch at GitHub.
THEOREM TrunkIsImplemented == Spec => PromotesReviewedDrafts
<1>1. Init => Default!Init
  <2> SUFFICES ASSUME Init PROVE Default!Init
    OBVIOUS
  <2>1. /\ history = [s \in SHA |-> IF s = Root THEN {Root} ELSE {}] /\ origin.main = Root
        /\ \A p \in Plans : artifacts[p] = None
        /\ started = {}
    BY DEF Init, Store!Init, Request
  <2>2. QED
    BY <2>1 DEF Default!Init
<1>2. TrunkInv /\ [Next]_vars => [Default!Next]_(Default!vars)
  BY LedgerAssumption, TrunkMoves
<1>3. QED
  BY <1>1, <1>2, TrunkInvariant, PTL DEF Spec, PromotesReviewedDrafts, Default!Spec

\* Whatever an apply moves the branch at GitHub for, the runner can still do:
\* its plan is retained, although crashes and other applies of the same plan
\* may take it from the runner between the check and the push.
THEOREM RetainedWhenPromoted == Spec => PromotesRetainedOnly
<1>1. TrunkInv /\ [Next]_vars =>
        [\A a \in Applies : req[a].pc = "push" /\ req'[a].pc # "push" /\ origin'.main # origin.main =>
           req[a].plan \in retained]_vars
  <2> SUFFICES ASSUME TrunkInv, Next, NEW a \in Applies, req[a].pc = "push", req'[a].pc # "push",
                      origin'.main # origin.main
               PROVE  req[a].plan \in retained
    OBVIOUS
  <2> USE DEF TrunkInv, LedgerInv
  <2>1. /\ a \in Request /\ origin \in Refs /\ req[a].sha \in SHA
        /\ req[a].plan \in retained \/ req[a].sha \in history[origin.main]
    BY DEF Request, TypeInv, TargetInv, Target, PlanInv, Follows
  <2>2. PICK r \in Request : Step(r)
    BY <2>1, LedgerAssumption, AllSteps DEF Fetch, Crash, ExternalPush, git
  <2>3. a = r
    BY <2>1, <2>2, RequestTypes DEF Only
  <2>4. /\ origin.main \in history[req[a].sha] /\ origin'.main = req[a].sha
    <3>1. CASE Promotes(r)
      BY <2>1, <2>3, <3>1 DEF Promotes, OriginAccepts, Refs
    <3>2. CASE Publishes(r)
      BY <2>3, <3>2 DEF Publishes
    <3>3. CASE ~Promotes(r) /\ ~Publishes(r)
      BY <2>2, <3>3 DEF Step, Chooses, Retreats, Creates, Claims, Starts, Commits, Advances, Finishes, Closes,
         Runs, git
    <3>4. QED
      BY <3>1, <3>2, <3>3
  <2>5. origin.main \in SHA
    BY <2>1 DEF Refs
  <2>6. req[a].sha \in history[origin.main] => req[a].sha = origin.main
    BY <2>1, <2>4, <2>5 DEF HistoryInv
  <2>7. QED
    BY <2>1, <2>4, <2>6
<1>2. QED
  BY <1>1, TrunkInvariant, PTL DEF Spec, PromotesRetainedOnly

\* The plan of an apply that ran to its end never starts again.
THEOREM SpentStaysSpent == Spec => SpentPlanNeverStarts
<1>1. TrunkInv /\ [Next]_vars =>
        [\A a \in started' \ started, b \in started :
           operations[b].status = "succeeded" => req[b].plan # req[a].plan]_vars
  <2> SUFFICES ASSUME TrunkInv, Next, NEW a \in started' \ started, NEW b \in started,
                      operations[b].status = "succeeded"
               PROVE  req[b].plan # req[a].plan
    OBVIOUS
  <2> USE DEF TrunkInv, LedgerInv
  <2>1. PICK r \in Request : Step(r)
    BY LedgerAssumption, AllSteps DEF Fetch, Crash, ExternalPush, aux
  <2>2. a = r /\ req[a].plan \in retained
    BY <2>1 DEF Step, Chooses, Retreats, Creates, Claims, Starts, Commits, Publishes, Advances, Finishes, Closes,
       Runs, Promotes, aux
  <2>3. req[b].plan \notin retained
    BY DEF TypeInv, PlanInv, Follows
  <2>4. QED
    BY <2>2, <2>3
<1>2. QED
  BY <1>1, TrunkInvariant, PTL DEF Spec, SpentPlanNeverStarts
=============================================================================
