----------------------------- MODULE Operations -----------------------------
(***************************************************************************)
(* The durable operations store, src/internal/operations: a SQLite         *)
(* database of changesets, operations, plan artifacts and events.          *)
(*                                                                         *)
(* Every mutating method of Store runs one transaction while it holds      *)
(* mutateMu, so each is one atomic action here: the guard is what the      *)
(* method checks, and a call whose check fails returns an error and leaves *)
(* the tables alone (the action is then not enabled).                      *)
(*                                                                         *)
(* One workspace is modelled.  The idempotency scope of a call is its kind *)
(* ("cmd:<ws>", "plan:<ws>", "apply:<ws>"), so <<kind, key>> is the unique *)
(* index of the operations table.  Row timestamps are abstracted to        *)
(* "created", the position of the claim among all claims: ClaimOperation   *)
(* reads the clock while it holds mutateMu.                                *)
(***************************************************************************)
EXTENDS Naturals, Sequences

CONSTANTS
  Changeset,   \* changeset IDs
  Operation,   \* operation IDs
  SHA,         \* commit SHAs
  Key,         \* idempotency keys
  None         \* the empty column value

ASSUME NoneAssumption == None \notin SHA \cup Key \cup Changeset \cup Operation

VARIABLES
  changesets,  \* table changesets: [Changeset -> ChangesetRow]
  operations,  \* table operations: [Operation -> OperationRow]
  artifacts,   \* table plan_artifacts: the draft_sha stored for an operation
  events,      \* table events, in the order of their IDs
  clock,       \* the number of claims so far, the source of "created"
  drafted      \* auxiliary: every SHA a changeset has had as its draft

vars == <<changesets, operations, artifacts, events, clock, drafted>>

-----------------------------------------------------------------------------
(* Rows and lifecycles (model.go) *)

ChangesetRow ==
  [status   : {"absent", "open", "planned", "applied", "abandoned"},
   base     : SHA \cup {None},
   draft    : SHA \cup {None},
   revision : Nat]

OperationRow ==
  [status    : {"absent", "queued", "running", "succeeded", "failed"},
   changeset : Changeset \cup {None},
   kind      : {"command", "plan", "apply", "none"},
   planSHA   : SHA \cup {None},
   key       : Key \cup {None},
   result    : BOOLEAN,           \* whether result_summary has been written
   created   : Nat]

Event == [changeset : Changeset, operation : Operation \cup {None},
          type : {"created", "running", "succeeded", "failed", "artifact",
                  "planned", "applied", "abandoned", "updated"}]

NoChangeset == [status |-> "absent", base |-> None, draft |-> None, revision |-> 0]

NoOperation == [status |-> "absent", changeset |-> None, kind |-> "none",
                planSHA |-> None, key |-> None, result |-> FALSE, created |-> 0]

\* Mutant: an applied changeset may still be abandoned.
ReopenedTransition ==
  {<<"open", "planned">>, <<"open", "abandoned">>,
   <<"planned", "applied">>, <<"planned", "abandoned">>,
   <<"applied", "abandoned">>}

\* The pairs for which canTransitionChangeset returns true.
ChangesetTransition ==
  {<<"open", "planned">>, <<"open", "abandoned">>,
   <<"planned", "applied">>, <<"planned", "abandoned">>}

\* The pairs for which canTransitionOperation returns true.
OperationTransition ==
  {<<"queued", "running">>, <<"running", "succeeded">>, <<"running", "failed">>}

-----------------------------------------------------------------------------
(* Queries *)

Exists(c) == changesets[c].status # "absent"

Claimed(o) == operations[o].status # "absent"

\* OperationByKey: the operation that owns an idempotency slot, if any.
OperationByKey(kind, key) ==
  {o \in Operation : /\ Claimed(o)
                     /\ operations[o].kind = kind
                     /\ operations[o].key = key}

\* The rows LatestPlan selects from: succeeded plans joined with an artifact.
SucceededPlans(c) ==
  {o \in Operation : /\ operations[o].changeset = c
                     /\ operations[o].kind = "plan"
                     /\ operations[o].status = "succeeded"
                     /\ artifacts[o] # None}

\* LatestPlan: the newest of them (ORDER BY created_at DESC LIMIT 1).
LatestPlan(c) ==
  {o \in SucceededPlans(c) :
     \A p \in SucceededPlans(c) : operations[p].created <= operations[o].created}

\* Mutant: any plan of the changeset will do, whatever draft it planned.
HasSomePlan(c) == SucceededPlans(c) # {}

\* The COUNT(*) of TransitionChangeset: a succeeded plan of the current draft.
HasExactPlan(c) ==
  \E o \in SucceededPlans(c) : /\ operations[o].planSHA = changesets[c].draft
                               /\ artifacts[o] = changesets[c].draft

-----------------------------------------------------------------------------
Init ==
  /\ changesets = [c \in Changeset |-> NoChangeset]
  /\ operations = [o \in Operation |-> NoOperation]
  /\ artifacts = [o \in Operation |-> None]
  /\ events = <<>>
  /\ clock = 0
  /\ drafted = [c \in Changeset |-> {}]

\* appendEvent: one event, in the transaction of the change it reports.
AppendEvent(c, o, type) ==
  events' = Append(events, [changeset |-> c, operation |-> o, type |-> type])

\* CreateChangeset inserts an open changeset whose draft is its base.  It
\* records no event.
CreateChangeset(c, base) ==
  /\ ~Exists(c)
  /\ changesets' = [changesets EXCEPT
       ![c] = [status |-> "open", base |-> base, draft |-> base, revision |-> 0]]
  /\ drafted' = [drafted EXCEPT ![c] = {base}]
  /\ UNCHANGED <<operations, artifacts, events, clock>>

\* The checks of TransitionChangeset.
TransitionAccepted(c, to) ==
  /\ <<changesets[c].status, to>> \in ChangesetTransition
  /\ to = "planned" => HasExactPlan(c)

TransitionChangeset(c, to) ==
  /\ TransitionAccepted(c, to)
  /\ changesets' = [changesets EXCEPT ![c].status = to]
  /\ AppendEvent(c, None, to)
  /\ UNCHANGED <<operations, artifacts, clock, drafted>>

\* Mutant: the row gets a status that is not of the lifecycle.
AdvanceDraftToDraft(c, expected, new) ==
  /\ changesets[c].status \in {"open", "planned"}
  /\ changesets[c].draft = expected
  /\ changesets' = [changesets EXCEPT ![c].draft = new,
                                      ![c].revision = @ + 1,
                                      ![c].status = "draft"]
  /\ drafted' = [drafted EXCEPT ![c] = @ \cup {new}]
  /\ AppendEvent(c, None, "updated")
  /\ UNCHANGED <<operations, artifacts, clock>>

\* Mutant: the draft moves under a plan that stays valid.
AdvanceDraftKeepPlanned(c, expected, new) ==
  /\ changesets[c].status \in {"open", "planned"}
  /\ changesets[c].draft = expected
  /\ changesets' = [changesets EXCEPT ![c].draft = new, ![c].revision = @ + 1]
  /\ drafted' = [drafted EXCEPT ![c] = @ \cup {new}]
  /\ AppendEvent(c, None, "updated")
  /\ UNCHANGED <<operations, artifacts, clock>>

\* AdvanceDraft: a planned changeset returns to open, because its plan no
\* longer matches the draft.
AdvanceDraft(c, expected, new) ==
  /\ changesets[c].status \in {"open", "planned"}
  /\ changesets[c].draft = expected
  /\ changesets' = [changesets EXCEPT ![c].draft = new,
                                      ![c].revision = @ + 1,
                                      ![c].status = "open"]
  /\ drafted' = [drafted EXCEPT ![c] = @ \cup {new}]
  /\ AppendEvent(c, None, "updated")
  /\ UNCHANGED <<operations, artifacts, clock>>

\* The checks ClaimOperation makes before it inserts: the changeset exists,
\* and a plan is bound to the changeset's current draft.
ClaimAccepted(c, kind, sha) ==
  /\ Exists(c)
  /\ kind = "plan" => sha = changesets[c].draft

\* ClaimOperation on a free slot.  On a taken slot the INSERT does nothing
\* and the call returns the operation that owns the slot.
ClaimOperation(o, c, kind, sha, key) ==
  /\ ~Claimed(o)
  /\ ClaimAccepted(c, kind, sha)
  /\ OperationByKey(kind, key) = {}
  /\ clock' = clock + 1
  /\ operations' = [operations EXCEPT
       ![o] = [status |-> "queued", changeset |-> c, kind |-> kind,
               planSHA |-> sha, key |-> key, result |-> FALSE,
               created |-> clock + 1]]
  /\ AppendEvent(c, o, "created")
  /\ UNCHANGED <<changesets, artifacts, drafted>>

TransitionOperation(o, to) ==
  /\ <<operations[o].status, to>> \in OperationTransition
  /\ operations' = [operations EXCEPT ![o].status = to]
  /\ AppendEvent(operations[o].changeset, o, to)
  /\ UNCHANGED <<changesets, artifacts, clock, drafted>>

\* FinishOperation: the final status and the result in one transaction.
FinishOperation(o, to) ==
  /\ <<operations[o].status, to>> \in OperationTransition
  /\ to \in {"succeeded", "failed"}
  /\ operations' = [operations EXCEPT ![o].status = to, ![o].result = TRUE]
  /\ AppendEvent(operations[o].changeset, o, to)
  /\ UNCHANGED <<changesets, artifacts, clock, drafted>>

\* Mutant: an artifact may replace the one already stored, or arrive late.
MayReplaceArtifact(o, sha) ==
  /\ operations[o].kind = "plan"
  /\ operations[o].status \in {"running", "succeeded"}

\* The checks of PutPlanArtifact: a running plan, the exact draft it is bound
\* to, and at most one artifact.
MayStoreArtifact(o, sha) ==
  /\ operations[o].kind = "plan"
  /\ operations[o].status = "running"
  /\ operations[o].planSHA = sha
  /\ artifacts[o] = None

PutPlanArtifact(o, sha) ==
  /\ MayStoreArtifact(o, sha)
  /\ artifacts' = [artifacts EXCEPT ![o] = sha]
  /\ AppendEvent(operations[o].changeset, o, "artifact")
  /\ UNCHANGED <<changesets, operations, clock, drafted>>

-----------------------------------------------------------------------------
(* The store under any caller.  The one thing it relies on is that a draft  *)
(* is never moved back to a SHA it had before: callers pass the SHA of a    *)
(* commit they have just made on top of the draft, and a commit is never    *)
(* its own ancestor.                                                        *)
ChangesetStep(c) ==
  \/ \E base \in SHA : CreateChangeset(c, base)
  \/ \E to \in {"planned", "applied", "abandoned"} : TransitionChangeset(c, to)
  \/ \E expected \in SHA, new \in SHA \ drafted[c] : AdvanceDraft(c, expected, new)

OperationStep(o) ==
  \/ \E c \in Changeset, key \in Key :
       \/ ClaimOperation(o, c, "command", None, key)
       \/ \E kind \in {"plan", "apply"}, sha \in SHA :
            ClaimOperation(o, c, kind, sha, key)
  \/ \E to \in {"running", "succeeded", "failed"} : TransitionOperation(o, to)
  \/ \E to \in {"succeeded", "failed"} : FinishOperation(o, to)
  \/ \E sha \in SHA : PutPlanArtifact(o, sha)

Next ==
  \/ \E c \in Changeset : ChangesetStep(c)
  \/ \E o \in Operation : OperationStep(o)

Spec == Init /\ [][Next]_vars

-----------------------------------------------------------------------------
(* Properties *)

\* Every table holds rows of its schema.
TypeOK ==
  /\ changesets \in [Changeset -> ChangesetRow]
  /\ operations \in [Operation -> OperationRow]
  /\ artifacts \in [Operation -> SHA \cup {None}]
  /\ events \in Seq(Event)
  /\ clock \in Nat
  /\ drafted \in [Changeset -> SUBSET SHA]

\* The plan Apply would pick for a planned changeset is a plan of exactly the
\* draft the changeset has now, however plans and edits interleaved:
\* TransitionChangeset only asks for some exact plan, and Apply takes the
\* newest one (LatestPlan).
PlannedIsExact ==
  \A c \in Changeset :
    changesets[c].status = "planned" =>
      /\ HasExactPlan(c)
      /\ \A o \in LatestPlan(c) : artifacts[o] = changesets[c].draft

\* The events that report a status of operation o (all but the artifact's).
StatusEvents(o) ==
  {i \in DOMAIN events : /\ events[i].operation = o
                         /\ events[i].type # "artifact"}

ChangesetEvents(c) ==
  {i \in DOMAIN events : /\ events[i].changeset = c
                         /\ events[i].operation = None}

Newest(S) == {i \in S : \A j \in S : j <= i}

ReportedOperation == [created |-> "queued", running |-> "running",
                      succeeded |-> "succeeded", failed |-> "failed"]

ReportedChangeset == [updated |-> "open", planned |-> "planned",
                      applied |-> "applied", abandoned |-> "abandoned"]

\* The event log is a faithful history: a reader that keeps only the newest
\* event of each row knows the row's status, and an artifact is announced
\* exactly once, as soon as it can be read.
EventsTellState ==
  /\ \A o \in Operation :
       /\ Claimed(o) <=> StatusEvents(o) # {}
       /\ \A i \in Newest(StatusEvents(o)) :
            ReportedOperation[events[i].type] = operations[o].status
       /\ artifacts[o] # None <=>
            \E i \in DOMAIN events : events[i].operation = o /\ events[i].type = "artifact"
       /\ \A i, j \in DOMAIN events \ StatusEvents(o) :
            events[i].operation = o /\ events[j].operation = o => i = j
  /\ \A c \in Changeset :
       /\ ChangesetEvents(c) = {} => changesets[c].status \in {"absent", "open"}
       /\ \A i \in Newest(ChangesetEvents(c)) :
            ReportedChangeset[events[i].type] = changesets[c].status

\* What a client was told about a finished operation stays true: neither its
\* row nor its artifact ever changes again.
FinishedIsFinal ==
  [][\A o \in Operation :
       operations[o].status \in {"succeeded", "failed"} =>
         operations'[o] = operations[o] /\ artifacts'[o] = artifacts[o]]_vars

\* An applied or abandoned changeset is closed for good: no late plan, edit
\* or transition reopens or alters it.
ClosedIsFinal ==
  [][\A c \in Changeset :
       changesets[c].status \in {"applied", "abandoned"} =>
         changesets'[c] = changesets[c]]_vars
=============================================================================
