------------------------------- MODULE Ledger -------------------------------
(***************************************************************************)
(* The GitHub ledger service, src/internal/ledger, over the operations     *)
(* store (module Operations), the repository mirror and its origin, and    *)
(* the runner that keeps saved plans in memory.                            *)
(*                                                                         *)
(* A request is a command, a plan or an apply.  Its handler, and for plans *)
(* and applies the goroutine it leaves behind, run one step at a time in   *)
(* any interleaving with the others.  A step is one call on the store, on  *)
(* the repository or on the runner.  A request that is refused without any *)
(* change of state simply does not start.  Each request carries the fresh  *)
(* operation ID it would claim, so requests double as operation IDs.       *)
(*                                                                         *)
(* Service.mu and LocalStore.mu are held while a ref is set in the mirror  *)
(* and pushed to origin; MirrorFree says that nobody is between the two.   *)
(***************************************************************************)
EXTENDS Naturals, Sequences, FiniteSets

CONSTANTS
  Commands, Plans, Applies,  \* the requests of each kind
  Changeset, SHA, Key, None,
  Root,         \* the default branch when the workspace is connected
  KeyOf,        \* the idempotency key each request carries
  Destructive,  \* the plans whose result has destructive changes
  Approved,     \* the applies sent with allowDestroy
  Faults,       \* which faults may happen: see below
  MaxCrashes    \* bound on the number of crashes

Request == Commands \cup Plans \cup Applies

ASSUME LedgerAssumption ==
  /\ Root \in SHA
  /\ KeyOf \in [Request -> Key]
  /\ None \notin SHA \cup Key \cup Changeset \cup Request
  /\ Commands \cap Plans = {} /\ Commands \cap Applies = {} /\ Plans \cap Applies = {}
  /\ Destructive \subseteq Plans
  /\ Approved \subseteq Applies
  /\ Faults \subseteq {"cancel",    \* the client of a command disconnects
                       "crash",     \* the server process stops and restarts
                       "network",   \* a push to origin fails
                       "lost",      \* a push arrives but reports an error
                       "external"}  \* somebody else pushes to the default branch
  /\ MaxCrashes \in Nat

VARIABLES
  changesets, operations, artifacts, events, clock, drafted,  \* the store
  history,    \* the commits made so far, as in module Trunk
  mirror,     \* refs of the bare mirror: [main, draft]
  origin,     \* refs of the GitHub repository: [main, draft]
  retained,   \* plans the runner keeps in memory
  req,        \* the local state of each request
  crashes,    \* the number of crashes so far
  committed,  \* auxiliary: commits that moved a draft ref, by operation
  started     \* auxiliary: applies that reached the runner

store == <<changesets, operations, artifacts, events, clock, drafted>>
git == <<history, mirror, origin>>
host == <<retained, crashes>>
aux == <<committed, started>>
vars == <<store, git, host, aux, req>>

Store == INSTANCE Operations WITH Operation <- Request

-----------------------------------------------------------------------------
(* Requests and refs *)

Idle == [pc |-> "idle", cs |-> None, sha |-> None, new |-> None,
         op |-> None, plan |-> None, fresh |-> FALSE]

\* Where a request stands; "idle" before it is received, "done" after.
Labels == {"idle", "create", "claim", "start", "commit", "publish", "advance",
           "queued", "planning", "store", "select", "check", "promote", "push",
           "run", "applying", "finish", "mark", "fail", "discard", "done"}

\* Steps in which a handler holds both mutexes between setting a mirror ref
\* and pushing it.
MirrorFree == \A r \in Request : req[r].pc \notin {"publish", "push"}

\* A handler's local variables end with it; the plan an apply ran is kept for
\* the properties.
Done(r) == [Idle EXCEPT !.pc = "done", !.plan = req[r].plan]

Goto(r, label) ==
  req' = [req EXCEPT ![r] = IF label = "done" THEN Done(r)
                                              ELSE [@ EXCEPT !.pc = label]]

Made(s) == history[s] # {}

FreeSlot(kind, key) == Store!OperationByKey(kind, key) = {}

Fault(f) == f \in Faults

Init ==
  /\ Store!Init
  /\ history = [s \in SHA |-> IF s = Root THEN {Root} ELSE {}]
  /\ mirror = [main |-> Root, draft |-> [c \in Changeset |-> None]]
  /\ origin = mirror
  /\ retained = {}
  /\ req = [r \in Request |-> Idle]
  /\ crashes = 0
  /\ committed = [r \in Request |-> {}]
  /\ started = {}

-----------------------------------------------------------------------------
(* RunCommand (commands.go) *)

\* No operation has the key yet; a new changeset starts from the default
\* branch the mirror shows now, which the If-Match value must equal.
ReadDefault(r) ==
  /\ req[r].pc = "idle"
  /\ FreeSlot("command", KeyOf[r])
  /\ req' = [req EXCEPT ![r].pc = "create", ![r].sha = mirror.main]
  /\ UNCHANGED <<store, git, host, aux>>

\* prepareTarget, new changeset: a draft ref at the base and an open
\* changeset whose ID is the ref's name.
CreateDraft(r, c) ==
  /\ req[r].pc = "create"
  /\ MirrorFree
  /\ mirror.draft[c] = None
  /\ Store!CreateChangeset(c, req[r].sha)
  /\ mirror' = [mirror EXCEPT !.draft[c] = req[r].sha]
  /\ req' = [req EXCEPT ![r].pc = "claim", ![r].cs = c, ![r].fresh = TRUE]
  /\ UNCHANGED <<history, origin, host, aux>>

AcceptsCommand(c) == changesets[c].status = "open"

\* prepareTarget, existing changeset: it is open and If-Match is its draft.
ReadChangeset(r, c) ==
  /\ req[r].pc = "idle"
  /\ FreeSlot("command", KeyOf[r])
  /\ AcceptsCommand(c)
  /\ req' = [req EXCEPT ![r].pc = "claim", ![r].cs = c,
                        ![r].sha = changesets[c].draft]
  /\ UNCHANGED <<store, git, host, aux>>

ClaimCommand(r) ==
  /\ req[r].pc = "claim"
  /\ Store!ClaimOperation(r, req[r].cs, "command", None, KeyOf[r])
  /\ req' = [req EXCEPT ![r].pc = "start", ![r].op = r]
  /\ UNCHANGED <<git, host, aux>>

\* The slot was taken after the lookup.  An operation that is still queued is
\* taken for this request's own; any other is replayed.
FindClaimed(r, o) ==
  /\ req[r].pc = "claim"
  /\ o \in Store!OperationByKey("command", KeyOf[r])
  /\ IF operations[o].status = "queued"
     THEN req' = [req EXCEPT ![r].pc = "start", ![r].op = o]
     ELSE Goto(r, "discard")
  /\ UNCHANGED <<store, git, host, aux>>

\* Mutant: the operation is run whether or not it was still queued.
StartAnyway(r) ==
  /\ req[r].pc = "start"
  /\ IF operations[req[r].op].status = "queued"
     THEN Store!TransitionOperation(req[r].op, "running")
     ELSE UNCHANGED store
  /\ Goto(r, "commit")
  /\ UNCHANGED <<git, host, aux>>

StartCommand(r) ==
  /\ req[r].pc = "start"
  /\ Store!TransitionOperation(req[r].op, "running")
  /\ Goto(r, "commit")
  /\ UNCHANGED <<git, host, aux>>

\* The claim or the start is refused: another request runs the operation, or
\* the client is gone.  The operation keeps its status.
RefuseCommand(r) ==
  /\ \/ req[r].pc = "start" /\ operations[req[r].op].status # "queued"
     \/ req[r].pc \in {"claim", "start"} /\ Fault("cancel")
  /\ Goto(r, "discard")
  /\ UNCHANGED <<store, git, host, aux>>

\* Mutant: a command that changes nothing "commits" the draft it found.
CommitAgain(r, n) ==
  LET c == req[r].cs IN
  /\ req[r].pc = "commit"
  /\ MirrorFree
  /\ mirror.draft[c] = req[r].sha
  /\ n = req[r].sha
  /\ committed' = [committed EXCEPT ![req[r].op] = @ \cup {n}]
  /\ req' = [req EXCEPT ![r].pc = "publish", ![r].new = n]
  /\ UNCHANGED <<store, git, host, started>>

\* commit, up to the mirror ref: a checkout at the expected draft, the
\* command and the compiler on it, a commit, and the first half of
\* CompareAndSwap.
CommitDraft(r, n) ==
  LET c == req[r].cs IN
  /\ req[r].pc = "commit"
  /\ MirrorFree
  /\ mirror.draft[c] = req[r].sha
  /\ ~Made(n)
  /\ history' = [history EXCEPT ![n] = history[req[r].sha] \cup {n}]
  /\ mirror' = [mirror EXCEPT !.draft[c] = n]
  /\ committed' = [committed EXCEPT ![req[r].op] = @ \cup {n}]
  /\ req' = [req EXCEPT ![r].pc = "publish", ![r].new = n]
  /\ UNCHANGED <<store, origin, host, started>>

\* The command or the compiler refuses.
RejectCommit(r) ==
  /\ req[r].pc = "commit"
  /\ MirrorFree
  /\ Goto(r, "fail")
  /\ UNCHANGED <<store, git, host, aux>>

\* CompareAndSwap finds another commit on the ref.
SwapRefused(r) ==
  /\ req[r].pc = "commit"
  /\ MirrorFree
  /\ mirror.draft[req[r].cs] # req[r].sha
  /\ Goto(r, "fail")
  /\ UNCHANGED <<store, git, host, aux>>

\* Origin refuses a push that is not a fast-forward.
DraftAccepted(c, new) == origin.draft[c] \in history[new] \cup {None}

\* Mutant: a failed push is logged and the command goes on.
PublishBestEffort(r) ==
  LET c == req[r].cs IN
  /\ req[r].pc = "publish"
  /\ \/ /\ DraftAccepted(c, req[r].new)
        /\ origin' = [origin EXCEPT !.draft[c] = req[r].new]
     \/ /\ \/ ~DraftAccepted(c, req[r].new)
           \/ Fault("network") \/ Fault("cancel")
        /\ UNCHANGED origin
  /\ req' = [req EXCEPT ![r].pc = "advance", ![r].fresh = FALSE]
  /\ UNCHANGED <<store, history, mirror, host, aux>>

\* The second half of CompareAndSwap.  A failed push restores the mirror ref.
\* The push is cut short when the client disconnects.
PublishDraft(r) ==
  LET c == req[r].cs IN
  /\ req[r].pc = "publish"
  /\ \/ /\ DraftAccepted(c, req[r].new)
        /\ origin' = [origin EXCEPT !.draft[c] = req[r].new]
        /\ req' = [req EXCEPT ![r].pc = "advance", ![r].fresh = FALSE]
        /\ UNCHANGED mirror
     \/ /\ \/ /\ ~DraftAccepted(c, req[r].new) \/ Fault("network") \/ Fault("cancel")
              /\ UNCHANGED origin
           \/ /\ DraftAccepted(c, req[r].new) /\ Fault("lost")
              /\ origin' = [origin EXCEPT !.draft[c] = req[r].new]
        /\ mirror' = [mirror EXCEPT !.draft[c] = req[r].sha]
        /\ Goto(r, "fail")
  /\ UNCHANGED <<store, history, host, aux>>

AdvanceDraft(r) ==
  /\ req[r].pc = "advance"
  /\ Store!AdvanceDraft(req[r].cs, req[r].sha, req[r].new)
  /\ Goto(r, "finish")
  /\ UNCHANGED <<git, host, aux>>

\* The changeset has been closed or moved since, or the client is gone: the
\* commit stays on the draft ref and the operation fails.
AdvanceRefused(r) ==
  /\ req[r].pc = "advance"
  /\ \/ changesets[req[r].cs].status \notin {"open", "planned"}
     \/ changesets[req[r].cs].draft # req[r].sha
     \/ Fault("cancel")
  /\ Goto(r, "fail")
  /\ UNCHANGED <<store, git, host, aux>>

FinishCommand(r) ==
  /\ req[r].pc = "finish"
  /\ r \in Commands
  /\ Store!FinishOperation(req[r].op, "succeeded")
  /\ Goto(r, "done")
  /\ UNCHANGED <<git, host, aux>>

\* The client is gone: the diff fails and the operation is marked failed, or
\* only the last write fails and nothing is recorded.
FinishCancelled(r) ==
  /\ req[r].pc = "finish"
  /\ r \in Commands
  /\ Fault("cancel")
  /\ \E label \in {"fail", "done"} : Goto(r, label)
  /\ UNCHANGED <<store, git, host, aux>>

\* fail and failOperation, on the service context.
Fail(r) ==
  /\ req[r].pc = "fail"
  /\ Store!FinishOperation(req[r].op, "failed")
  /\ Goto(r, "discard")
  /\ UNCHANGED <<git, host, aux>>

\* discardNew: a changeset that this command created and never committed to
\* is abandoned, unless it has been closed meanwhile.
Discard(r) ==
  /\ req[r].pc = "discard"
  /\ IF req[r].fresh /\ changesets[req[r].cs].status \in {"open", "planned"}
     THEN Store!TransitionChangeset(req[r].cs, "abandoned")
     ELSE UNCHANGED store
  /\ Goto(r, "done")
  /\ UNCHANGED <<git, host, aux>>

-----------------------------------------------------------------------------
(* Plan and runPlan (plan.go) *)

\* planReplay and planChangeset: the changeset is open or planned, and
\* If-Match is its draft.
ReadForPlan(r, c) ==
  /\ req[r].pc = "idle"
  /\ FreeSlot("plan", KeyOf[r])
  /\ changesets[c].status \in {"open", "planned"}
  /\ req' = [req EXCEPT ![r].pc = "claim", ![r].cs = c, ![r].op = r,
                        ![r].sha = changesets[c].draft]
  /\ UNCHANGED <<store, git, host, aux>>

ClaimPlan(r) ==
  /\ req[r].pc = "claim"
  /\ Store!ClaimOperation(r, req[r].cs, "plan", req[r].sha, KeyOf[r])
  /\ Goto(r, "queued")
  /\ UNCHANGED <<git, host, aux>>

\* The draft moved since it was read, or another request took the key.
ClaimRefused(r, kind) ==
  /\ req[r].pc = "claim"
  /\ \/ ~FreeSlot(kind, KeyOf[r])
     \/ ~Store!ClaimAccepted(req[r].cs, kind, req[r].sha)
  /\ Goto(r, "done")
  /\ UNCHANGED <<store, git, host, aux>>

\* The goroutine marks its operation running.
StartOperation(r, label) ==
  /\ req[r].pc = "queued"
  /\ Store!TransitionOperation(r, "running")
  /\ Goto(r, label)
  /\ UNCHANGED <<git, host, aux>>

\* Checkout and Runner.Plan: the runner keeps the plan.
RunnerPlan(r) ==
  /\ req[r].pc = "planning"
  /\ retained' = retained \cup {r}
  /\ Goto(r, "store")
  /\ UNCHANGED <<store, git, crashes, aux>>

\* Mutant: the goroutine returns without recording the failure.
PlanVanishes(r) ==
  /\ req[r].pc = "planning"
  /\ Goto(r, "done")
  /\ UNCHANGED <<store, git, host, aux>>

\* The checkout or the plan fails.
PlanFails(r) ==
  /\ req[r].pc = "planning"
  /\ Goto(r, "fail")
  /\ UNCHANGED <<store, git, host, aux>>

StorePlan(r) ==
  /\ req[r].pc = "store"
  /\ Store!PutPlanArtifact(r, req[r].sha)
  /\ Goto(r, "finish")
  /\ UNCHANGED <<git, host, aux>>

FinishOperation(r) ==
  /\ req[r].pc = "finish"
  /\ r \notin Commands
  /\ Store!FinishOperation(r, "succeeded")
  /\ Goto(r, "mark")
  /\ UNCHANGED <<git, host, aux>>

\* The last step of both goroutines.  An error is ignored.
MarkChangeset(r, to) ==
  /\ req[r].pc = "mark"
  /\ IF Store!TransitionAccepted(req[r].cs, to)
     THEN Store!TransitionChangeset(req[r].cs, to)
     ELSE UNCHANGED store
  /\ Goto(r, "done")
  /\ UNCHANGED <<git, host, aux>>

-----------------------------------------------------------------------------
(* Apply and runApply (plan.go) *)

AcceptsApply(c) == changesets[c].status = "planned"

\* planReplay and planChangeset: the changeset as Apply will judge it.
ReadForApply(r, c) ==
  /\ req[r].pc = "idle"
  /\ FreeSlot("apply", KeyOf[r])
  /\ AcceptsApply(c)
  /\ req' = [req EXCEPT ![r].pc = "select", ![r].cs = c, ![r].op = r,
                        ![r].sha = changesets[c].draft]
  /\ UNCHANGED <<store, git, host, aux>>

\* Mutant: whichever plan is the latest is taken, even of another draft.
PlanFitsAny(r, p) == TRUE

\* Apply's checks of the latest plan: it is of the draft that was read, and
\* destructive changes were approved.
PlanFits(r, p) ==
  /\ artifacts[p] = req[r].sha
  /\ p \in Destructive => r \in Approved

SelectPlan(r, p) ==
  /\ req[r].pc = "select"
  /\ p \in Store!LatestPlan(req[r].cs)
  /\ IF PlanFits(r, p)
     THEN req' = [req EXCEPT ![r].pc = "claim", ![r].plan = p]
     ELSE Goto(r, "done")
  /\ UNCHANGED <<store, git, host, aux>>

ClaimApply(r) ==
  /\ req[r].pc = "claim"
  /\ Store!ClaimOperation(r, req[r].cs, "apply", req[r].sha, KeyOf[r])
  /\ Goto(r, "queued")
  /\ UNCHANGED <<git, host, aux>>

\* Mutant: the runner is trusted to still have the plan.
AssumeRetained(r) ==
  /\ req[r].pc = "check"
  /\ Goto(r, "promote")
  /\ UNCHANGED <<store, git, host, aux>>

\* Runner.Has: a plan that was discarded or lost fails the operation.
CheckRetained(r) ==
  /\ req[r].pc = "check"
  /\ Goto(r, IF req[r].plan \in retained THEN "promote" ELSE "fail")
  /\ UNCHANGED <<store, git, host, aux>>

\* Promote's ancestor check, against the default branch read under Service.mu.
FastForward(r) == mirror.main \in history[req[r].sha]

\* The first half of Promote: the mirror's default branch.
PromoteMirror(r) ==
  /\ req[r].pc = "promote"
  /\ MirrorFree
  /\ IF FastForward(r)
     THEN /\ mirror' = [mirror EXCEPT !.main = req[r].sha]
          /\ req' = [req EXCEPT ![r].pc = "push", ![r].new = mirror.main]
     ELSE /\ Goto(r, "fail")
          /\ UNCHANGED mirror
  /\ UNCHANGED <<store, history, origin, host, aux>>

\* Fetch moved the default branch after it was read, or Git fails.
PromoteRefused(r) ==
  /\ req[r].pc = "promote"
  /\ Goto(r, "fail")
  /\ UNCHANGED <<store, git, host, aux>>

\* Origin refuses a push that is not a fast-forward.
OriginAccepts(r) == origin.main \in history[req[r].sha]

\* The second half of Promote.  A failed push restores the previous value,
\* kept in "new".
PromoteOrigin(r) ==
  /\ req[r].pc = "push"
  /\ \/ /\ OriginAccepts(r)
        /\ origin' = [origin EXCEPT !.main = req[r].sha]
        /\ Goto(r, "run")
        /\ UNCHANGED mirror
     \/ /\ \/ (~OriginAccepts(r) \/ Fault("network")) /\ UNCHANGED origin
           \/ /\ OriginAccepts(r) /\ Fault("lost")
              /\ origin' = [origin EXCEPT !.main = req[r].sha]
        /\ mirror' = [mirror EXCEPT !.main = req[r].new]
        /\ Goto(r, "fail")
  /\ UNCHANGED <<store, history, host, aux>>

\* Runner.Apply looks the plan up again and starts to apply it.
RunnerApply(r) ==
  /\ req[r].pc = "run"
  /\ IF req[r].plan \in retained
     THEN started' = started \cup {r} /\ Goto(r, "applying")
     ELSE UNCHANGED started /\ Goto(r, "fail")
  /\ UNCHANGED <<store, git, host, committed>>

ApplyFails(r) ==
  /\ req[r].pc = "applying"
  /\ Goto(r, "fail")
  /\ UNCHANGED <<store, git, host, aux>>

\* Mutant: the plan is kept for another apply.
ApplyKeepsPlan(r) ==
  /\ req[r].pc = "applying"
  /\ Goto(r, "finish")
  /\ UNCHANGED <<store, git, host, aux>>

\* Runner.Apply returns; Discard drops the plan.
ApplyReturns(r) ==
  /\ req[r].pc = "applying"
  /\ retained' = retained \ {req[r].plan}
  /\ Goto(r, "finish")
  /\ UNCHANGED <<store, git, crashes, aux>>

-----------------------------------------------------------------------------
(* The environment *)

\* Somebody pushes a commit of their own to the default branch on GitHub.
ExternalPush(n) ==
  /\ Fault("external")
  /\ ~Made(n)
  /\ history' = [history EXCEPT ![n] = history[origin.main] \cup {n}]
  /\ origin' = [origin EXCEPT !.main = n]
  /\ UNCHANGED <<store, mirror, host, aux, req>>

\* Repo.Fetch, run for every push webhook: the mirror refspec overwrites every
\* ref that origin has.  Deliveries come late, repeatedly or in any order.
Fetch ==
  /\ MirrorFree
  /\ mirror' = [main  |-> origin.main,
                draft |-> [c \in Changeset |->
                             IF origin.draft[c] = None THEN mirror.draft[c]
                                                       ELSE origin.draft[c]]]
  /\ UNCHANGED <<store, history, origin, host, aux, req>>

\* The process stops and starts again.  The store and the refs
\* survive; handlers, goroutines and retained plans do not.
Crash ==
  /\ Fault("crash")
  /\ crashes < MaxCrashes
  /\ crashes' = crashes + 1
  /\ retained' = {}
  /\ req' = [r \in Request |-> IF req[r].pc = "idle" THEN Idle ELSE Done(r)]
  /\ UNCHANGED <<store, git, aux>>

-----------------------------------------------------------------------------
CommandStep(r) ==
  \/ ReadDefault(r)
  \/ \E c \in Changeset : CreateDraft(r, c) \/ ReadChangeset(r, c)
  \/ ClaimCommand(r)
  \/ \E o \in Request : FindClaimed(r, o)
  \/ StartCommand(r)
  \/ RefuseCommand(r)
  \/ \E n \in SHA : CommitDraft(r, n)
  \/ RejectCommit(r)
  \/ SwapRefused(r)
  \/ PublishDraft(r)
  \/ AdvanceDraft(r)
  \/ AdvanceRefused(r)
  \/ FinishCommand(r)
  \/ FinishCancelled(r)

PlanStep(r) ==
  \/ \E c \in Changeset : ReadForPlan(r, c)
  \/ ClaimPlan(r)
  \/ ClaimRefused(r, "plan")
  \/ StartOperation(r, "planning")
  \/ RunnerPlan(r)
  \/ PlanFails(r)
  \/ StorePlan(r)
  \/ FinishOperation(r)
  \/ MarkChangeset(r, "planned")

ApplyStep(r) ==
  \/ \E c \in Changeset : ReadForApply(r, c)
  \/ \E p \in Plans : SelectPlan(r, p)
  \/ ClaimApply(r)
  \/ ClaimRefused(r, "apply")
  \/ StartOperation(r, "check")
  \/ CheckRetained(r)
  \/ PromoteMirror(r)
  \/ PromoteRefused(r)
  \/ PromoteOrigin(r)
  \/ RunnerApply(r)
  \/ ApplyFails(r)
  \/ ApplyReturns(r)
  \/ FinishOperation(r)
  \/ MarkChangeset(r, "applied")

Next ==
  \/ \E r \in Commands : CommandStep(r)
  \/ \E r \in Plans : PlanStep(r)
  \/ \E r \in Applies : ApplyStep(r)
  \/ \E r \in Request : Fail(r) \/ Discard(r)
  \/ \E n \in SHA : ExternalPush(n)
  \/ Fetch
  \/ Crash

Spec == Init /\ [][Next]_vars

-----------------------------------------------------------------------------
(* Properties *)

\* Every variable holds values of its shape.
TypeOK ==
  /\ Store!TypeOK
  /\ history \in [SHA -> SUBSET SHA]
  /\ \A refs \in {mirror, origin} :
       refs \in [main : SHA, draft : [Changeset -> SHA \cup {None}]]
  /\ retained \subseteq Plans
  /\ req \in [Request -> [pc    : Labels,
                         cs    : Changeset \cup {None},
                         sha   : SHA \cup {None},
                         new   : SHA \cup {None},
                         op    : Request \cup {None},
                         plan  : Plans \cup {None},
                         fresh : BOOLEAN]]
  /\ crashes \in 0..MaxCrashes
  /\ committed \in [Request -> SUBSET SHA]
  /\ started \subseteq Applies

\* Whatever handlers, goroutines and crashes do, they use the store the way
\* its specification assumes: no step makes two changes to the store, and no
\* draft ever returns to a SHA it had before.
ImplementsStore == Store!Spec

\* The default branch as module Trunk promises it: it only moves forward, only
\* to drafts with a successful saved plan, and a plan only runs when the very
\* commit it was made of is on the branch at GitHub.
Default == INSTANCE Trunk WITH
  head <- origin.main,
  planned <- {artifacts[p] : p \in {q \in Plans : /\ artifacts[q] # None
                                                  /\ operations[q].status = "succeeded"}},
  ran <- {artifacts[req[a].plan] : a \in started}

PromotesReviewedDrafts == Default!Spec

\* "A repeated Idempotency-Key returns the recorded result without a second
\* commit": one claimed command never commits twice, although a second
\* request with its key may find it queued and run it.
OneCommitPerKey == \A o \in Commands : Cardinality(committed[o]) <= 1

\* "The Git write is durable before the API answers": when a command has
\* succeeded, its commit is on a draft ref at GitHub, and stays there whatever
\* fails later.
AcknowledgedIsDurable ==
  \A o \in Commands :
    operations[o].status = "succeeded" =>
      \E c \in Changeset : /\ origin.draft[c] # None
                           /\ committed[o] # {}
                           /\ committed[o] \subseteq history[origin.draft[c]]

\* Git runs ahead of the database, never behind it: a changeset's draft
\* descends from every draft it had, and its ref in the mirror is that draft
\* or a descendant, also after failed pushes, fetches and crashes.
RecordFollowsRef ==
  \A c \in Changeset : Store!Exists(c) =>
    /\ drafted[c] \subseteq history[changesets[c].draft]
    /\ changesets[c].draft \in history[mirror.draft[c]]

\* "Promotion of the default branch is skipped when the plan is no longer
\* retained": an apply that moves the branch at GitHub still has its plan.
PromotesRetainedOnly ==
  [][\A a \in Applies :
       req[a].pc = "push" /\ req'[a].pc # "push" /\ origin'.main # origin.main =>
         req[a].plan \in retained]_vars

\* "ChangesetApplied has been applied": the draft of an applied changeset was
\* promoted to the default branch.
AppliedWasPromoted ==
  \A c \in Changeset :
    changesets[c].status = "applied" => changesets[c].draft \in history[origin.main]

\* A plan that an apply ran to its end is spent: no later apply starts it
\* again, although the changeset may still be planned when that one looks.
SpentPlanNeverStarts ==
  [][\A a \in started' \ started, b \in started :
       operations[b].status = "succeeded" => req[b].plan # req[a].plan]_vars

\* Every operation that was accepted ends: a client that polls or listens is
\* told succeeded or failed.
OperationsFinish ==
  \A o \in Request :
    Store!Claimed(o) ~> operations[o].status \in {"succeeded", "failed"}

Received(r) == req[r].pc # "idle"

\* The scheduler runs every handler and goroutine once the request is there.
FairSpec ==
  /\ Spec
  /\ \A r \in Commands : WF_vars(Received(r) /\ CommandStep(r))
  /\ \A r \in Plans : WF_vars(Received(r) /\ PlanStep(r))
  /\ \A r \in Applies : WF_vars(Received(r) /\ ApplyStep(r))
  /\ \A r \in Request : WF_vars(Fail(r) \/ Discard(r))
=============================================================================
