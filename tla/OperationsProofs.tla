-------------------------- MODULE OperationsProofs --------------------------
(***************************************************************************)
(* Proofs about the operations store, for every number of changesets,      *)
(* operations, commits and keys.                                           *)
(*                                                                         *)
(* PlannedIsExact is not inductive: it speaks of the newest plan, and      *)
(* nothing in it says why a newer plan cannot be of an older draft.  The   *)
(* strengthening RowsInv says that plans are claimed in the order in which *)
(* the drafts they are bound to were current.                              *)
(***************************************************************************)
EXTENDS Operations, TLAPS

\* A claimed operation belongs to an existing changeset; an unclaimed one has
\* no artifact; "created" grows with every claim.
ClaimsInv ==
  /\ \A o \in Operation :
       /\ Claimed(o) => /\ operations[o].changeset \in Changeset
                        /\ Exists(operations[o].changeset)
                        /\ operations[o].created <= clock
       /\ operations[o].kind = "plan" => Claimed(o)
       /\ artifacts[o] # None => /\ operations[o].kind = "plan"
                                 /\ artifacts[o] = operations[o].planSHA
  /\ \A o, p \in Operation :
       Claimed(o) /\ Claimed(p) /\ operations[o].created = operations[p].created => o = p

\* A changeset's draft is one of the drafts it has had, and so is the SHA a
\* plan is bound to.
DraftsInv ==
  /\ \A c \in Changeset : Exists(c) => /\ changesets[c].draft \in SHA
                                       /\ changesets[c].draft \in drafted[c]
  /\ \A o \in Operation :
       operations[o].kind = "plan" =>
         operations[o].planSHA \in drafted[operations[o].changeset]

\* Once a plan is bound to the current draft, every plan claimed later is too.
PlanOrderInv ==
  \A o, p \in Operation :
    /\ operations[o].kind = "plan"
    /\ operations[p].kind = "plan"
    /\ operations[o].changeset = operations[p].changeset
    /\ operations[o].planSHA = changesets[operations[o].changeset].draft
    /\ operations[o].created <= operations[p].created
    => operations[p].planSHA = operations[o].planSHA

PlannedHasPlan ==
  \A c \in Changeset : changesets[c].status = "planned" => HasExactPlan(c)

RowsInv == TypeOK /\ ClaimsInv /\ DraftsInv /\ PlanOrderInv /\ PlannedHasPlan

-----------------------------------------------------------------------------
\* The tables are empty at first.
LEMMA InitRows == Init => RowsInv
  BY DEF Init, RowsInv, TypeOK, ClaimsInv, DraftsInv, PlanOrderInv,
         PlannedHasPlan, ChangesetRow, OperationRow, NoChangeset, NoOperation,
         Claimed, Exists, Event

\* The events an action appends are events.
LEMMA EventType ==
  ASSUME TypeOK, NEW c \in Changeset, NEW o \in Operation \cup {None},
         NEW type \in {"created", "running", "succeeded", "failed", "artifact",
                       "planned", "applied", "abandoned", "updated"},
         AppendEvent(c, o, type)
  PROVE  events' \in Seq(Event)
<1>1. [changeset |-> c, operation |-> o, type |-> type] \in Event
  BY DEF Event
<1>2. QED
  BY <1>1 DEF TypeOK, AppendEvent

LEMMA CreateChangesetRows ==
  ASSUME RowsInv, NEW c \in Changeset, NEW base \in SHA, CreateChangeset(c, base)
  PROVE  RowsInv'
<1> USE DEF CreateChangeset
<1>1. TypeOK'
  BY DEF RowsInv, TypeOK, ChangesetRow
<1>2. ClaimsInv'
  BY DEF RowsInv, TypeOK, ClaimsInv, Claimed, Exists
<1>3. DraftsInv'
  BY DEF RowsInv, TypeOK, ClaimsInv, DraftsInv, Claimed, Exists
<1>4. PlanOrderInv'
  <2>1. \A o \in Operation : operations[o].kind = "plan" => operations[o].changeset # c
    BY DEF RowsInv, ClaimsInv, Claimed, Exists
  <2>2. QED
    BY <2>1 DEF RowsInv, TypeOK, PlanOrderInv, ClaimsInv
<1>5. PlannedHasPlan'
  BY DEF RowsInv, TypeOK, PlannedHasPlan, HasExactPlan, SucceededPlans
<1>6. QED
  BY <1>1, <1>2, <1>3, <1>4, <1>5 DEF RowsInv

LEMMA TransitionChangesetRows ==
  ASSUME RowsInv, NEW c \in Changeset,
         NEW to \in {"planned", "applied", "abandoned"}, TransitionChangeset(c, to)
  PROVE  RowsInv'
<1> USE DEF TransitionAccepted, TransitionChangeset
<1>0. /\ changesets[c].status \in {"open", "planned"}
      /\ changesets' = [changesets EXCEPT ![c].status = to]
      /\ to = "planned" => HasExactPlan(c)
  BY DEF ChangesetTransition
<1>1. TypeOK'
  <2>1. events' \in Seq(Event)
    BY EventType DEF RowsInv
  <2>2. changesets' \in [Changeset -> ChangesetRow]
    BY <1>0 DEF RowsInv, TypeOK, ChangesetRow
  <2>3. QED
    BY <2>1, <2>2 DEF RowsInv, TypeOK
<1>2. ClaimsInv'
  BY <1>0 DEF RowsInv, TypeOK, ChangesetRow, ClaimsInv, Claimed, Exists
<1>3. DraftsInv'
  BY <1>0 DEF RowsInv, TypeOK, ChangesetRow, DraftsInv, Exists
<1>4. PlanOrderInv'
  <2>1. \A d \in Changeset : changesets'[d].draft = changesets[d].draft
    BY <1>0 DEF RowsInv, TypeOK, ChangesetRow
  <2>2. QED
    BY <2>1 DEF RowsInv, PlanOrderInv, ClaimsInv, Claimed
<1>5. PlannedHasPlan'
  <2> SUFFICES ASSUME NEW d \in Changeset, changesets'[d].status = "planned"
               PROVE  HasExactPlan(d)'
    BY DEF PlannedHasPlan
  <2>1. HasExactPlan(d)
    BY <1>0 DEF RowsInv, TypeOK, ChangesetRow, PlannedHasPlan
  <2>2. changesets'[d].draft = changesets[d].draft
    BY <1>0 DEF RowsInv, TypeOK, ChangesetRow
  <2>3. QED
    BY <2>1, <2>2 DEF HasExactPlan, SucceededPlans
<1>6. QED
  BY <1>1, <1>2, <1>3, <1>4, <1>5 DEF RowsInv

LEMMA AdvanceDraftRows ==
  ASSUME RowsInv, NEW c \in Changeset, NEW expected \in SHA,
         NEW new \in SHA \ drafted[c], AdvanceDraft(c, expected, new)
  PROVE  RowsInv'
<1> USE DEF AdvanceDraft
<1>0. changesets' = [changesets EXCEPT ![c].draft = new,
                                       ![c].revision = @ + 1,
                                       ![c].status = "open"]
  OBVIOUS
<1>1. TypeOK'
  <2>1. events' \in Seq(Event)
    BY EventType DEF RowsInv
  <2> DEFINE next == changesets[c].revision + 1
             row == [changesets[c] EXCEPT !.draft = new, !.revision = next,
                                          !.status = "open"]
  <2>2. row \in ChangesetRow
    <3>1. changesets[c] \in ChangesetRow /\ next \in Nat
      BY DEF RowsInv, TypeOK, ChangesetRow
    <3> HIDE DEF next
    <3>2. QED
      BY <3>1 DEF ChangesetRow
  <2>3. changesets' = [changesets EXCEPT ![c] = row]
    BY <1>0 DEF RowsInv, TypeOK, ChangesetRow
  <2>4. QED
    BY <2>1, <2>2, <2>3 DEF RowsInv, TypeOK
<1>2. ClaimsInv'
  BY <1>0 DEF RowsInv, TypeOK, ChangesetRow, ClaimsInv, Claimed, Exists
<1>3. DraftsInv'
  BY <1>0 DEF RowsInv, TypeOK, ChangesetRow, ClaimsInv, DraftsInv, Claimed, Exists
<1>4. PlanOrderInv'
  <2> SUFFICES ASSUME NEW o \in Operation, NEW p \in Operation,
                      operations[o].kind = "plan",
                      operations[p].kind = "plan",
                      operations[o].changeset = operations[p].changeset,
                      operations[o].planSHA = changesets'[operations[o].changeset].draft,
                      operations[o].created <= operations[p].created
               PROVE  operations[p].planSHA = operations[o].planSHA
    BY DEF PlanOrderInv
  <2>1. operations[o].changeset \in Changeset
    BY DEF RowsInv, ClaimsInv
  <2>2. operations[o].changeset # c
    BY <1>0 DEF RowsInv, TypeOK, ChangesetRow, DraftsInv
  <2>3. QED
    BY <1>0, <2>1, <2>2 DEF RowsInv, TypeOK, ChangesetRow, PlanOrderInv
<1>5. PlannedHasPlan'
  BY <1>0 DEF RowsInv, TypeOK, ChangesetRow, PlannedHasPlan, HasExactPlan, SucceededPlans
<1>6. QED
  BY <1>1, <1>2, <1>3, <1>4, <1>5 DEF RowsInv

LEMMA ClaimOperationRows ==
  ASSUME RowsInv, NEW o \in Operation, NEW c \in Changeset,
         NEW kind \in {"command", "plan", "apply"}, NEW sha \in SHA \cup {None},
         NEW key \in Key, ClaimOperation(o, c, kind, sha, key)
  PROVE  RowsInv'
<1> USE DEF ClaimOperation
<1> DEFINE row == [status |-> "queued", changeset |-> c, kind |-> kind,
                   planSHA |-> sha, key |-> key, result |-> FALSE,
                   created |-> clock + 1]
<1>0. /\ operations' = [operations EXCEPT ![o] = row]
      /\ operations'[o] = row
      /\ \A p \in Operation \ {o} : operations'[p] = operations[p]
      /\ ~Claimed(o)
      /\ Exists(c)
      /\ artifacts[o] = None
      /\ changesets' = changesets
      /\ artifacts' = artifacts
      /\ drafted' = drafted
  BY DEF RowsInv, TypeOK, ClaimsInv, ClaimAccepted, Claimed
<1>1. TypeOK'
  <2>1. row \in OperationRow
    BY DEF RowsInv, TypeOK, OperationRow
  <2>2. QED
    BY <1>0, <2>1, EventType DEF RowsInv, TypeOK
<1>2. ClaimsInv'
  <2>1. \A p \in Operation \ {o} : Claimed(p) => operations[p].created < clock + 1
    BY DEF RowsInv, TypeOK, OperationRow, ClaimsInv
  <2>2. QED
    BY <1>0, <2>1 DEF RowsInv, TypeOK, OperationRow, ClaimsInv, Claimed, Exists
<1>3. DraftsInv'
  <2>1. kind = "plan" => sha \in drafted[c]
    BY <1>0 DEF RowsInv, DraftsInv, ClaimAccepted
  <2>2. QED
    BY <1>0, <2>1 DEF RowsInv, DraftsInv, Exists
<1>4. PlanOrderInv'
  <2> SUFFICES ASSUME NEW p \in Operation, NEW q \in Operation,
                      operations'[p].kind = "plan",
                      operations'[q].kind = "plan",
                      operations'[p].changeset = operations'[q].changeset,
                      operations'[p].planSHA = changesets[operations'[p].changeset].draft,
                      operations'[p].created <= operations'[q].created
               PROVE  operations'[q].planSHA = operations'[p].planSHA
    BY <1>0 DEF PlanOrderInv
  <2>1. CASE q = o
    BY <1>0, <2>1 DEF ClaimAccepted
  <2>2. CASE q # o /\ p # o
    BY <1>0, <2>2 DEF RowsInv, PlanOrderInv
  <2>3. CASE q # o /\ p = o
    <3>1. operations[q].created <= clock
      BY <1>0, <2>3 DEF RowsInv, ClaimsInv
    <3>2. operations[q].created >= clock + 1
      BY <1>0, <2>3
    <3>3. QED
      BY <3>1, <3>2, <2>3 DEF RowsInv, TypeOK, OperationRow
  <2>4. QED
    BY <2>1, <2>2, <2>3
<1>5. PlannedHasPlan'
  <2> SUFFICES ASSUME NEW d \in Changeset, changesets[d].status = "planned"
               PROVE  HasExactPlan(d)'
    BY <1>0 DEF PlannedHasPlan
  <2>1. PICK p \in SucceededPlans(d) : /\ operations[p].planSHA = changesets[d].draft
                                       /\ artifacts[p] = changesets[d].draft
    BY DEF RowsInv, PlannedHasPlan, HasExactPlan
  <2>2. p \in Operation /\ p # o
    BY <1>0, <2>1 DEF SucceededPlans
  <2>3. QED
    BY <1>0, <2>1, <2>2 DEF HasExactPlan, SucceededPlans
<1>6. QED
  BY <1>1, <1>2, <1>3, <1>4, <1>5 DEF RowsInv

\* TransitionOperation and FinishOperation change only status and result.
LEMMA OperationStatusRows ==
  ASSUME RowsInv, NEW o \in Operation,
         NEW to \in {"running", "succeeded", "failed"},
         TransitionOperation(o, to) \/ FinishOperation(o, to)
  PROVE  RowsInv'
<1>0. /\ operations[o].status \in {"queued", "running"}
      /\ to \in {"running", "succeeded", "failed"}
      /\ operations[o].status = "queued" => to = "running"
      /\ AppendEvent(operations[o].changeset, o, to)
      /\ changesets' = changesets
      /\ artifacts' = artifacts
      /\ clock' = clock
      /\ drafted' = drafted
  BY DEF TransitionOperation, FinishOperation, OperationTransition
<1>1. /\ operations' \in [Operation -> OperationRow]
      /\ operations'[o].status = to
      /\ \A p \in Operation :
           /\ operations'[p].changeset = operations[p].changeset
           /\ operations'[p].kind = operations[p].kind
           /\ operations'[p].planSHA = operations[p].planSHA
           /\ operations'[p].created = operations[p].created
           /\ p # o => operations'[p].status = operations[p].status
  <2>1. CASE TransitionOperation(o, to)
    BY <2>1 DEF TransitionOperation, RowsInv, TypeOK, OperationRow
  <2>2. CASE FinishOperation(o, to)
    <3> DEFINE row == [operations[o] EXCEPT !.status = to, !.result = TRUE]
    <3>1. operations' = [operations EXCEPT ![o] = row]
      BY <2>2 DEF FinishOperation, RowsInv, TypeOK, OperationRow
    <3>2. row \in OperationRow
      BY DEF RowsInv, TypeOK, OperationRow
    <3>3. QED
      BY <3>1, <3>2 DEF RowsInv, TypeOK, OperationRow
  <2>3. QED
    BY <2>1, <2>2
<1>2. Claimed(o) /\ operations[o].changeset \in Changeset
  BY <1>0 DEF RowsInv, ClaimsInv, Claimed
<1>3. \A p \in Operation : Claimed(p)' <=> Claimed(p)
  BY <1>0, <1>1, <1>2 DEF Claimed
<1>4. TypeOK'
  BY <1>0, <1>1, <1>2, EventType DEF RowsInv, TypeOK
<1>5. ClaimsInv'
  BY <1>0, <1>1, <1>3 DEF RowsInv, ClaimsInv, Exists
<1>6. DraftsInv'
  BY <1>0, <1>1 DEF RowsInv, DraftsInv, Exists
<1>7. PlanOrderInv'
  BY <1>0, <1>1 DEF RowsInv, PlanOrderInv
<1>8. PlannedHasPlan'
  <2> SUFFICES ASSUME NEW d \in Changeset, changesets[d].status = "planned"
               PROVE  HasExactPlan(d)'
    BY <1>0 DEF PlannedHasPlan
  <2>1. PICK p \in SucceededPlans(d) : /\ operations[p].planSHA = changesets[d].draft
                                       /\ artifacts[p] = changesets[d].draft
    BY DEF RowsInv, PlannedHasPlan, HasExactPlan
  <2>2. p \in Operation /\ p # o
    BY <1>0, <2>1 DEF SucceededPlans
  <2>3. p \in SucceededPlans(d)'
    BY <1>0, <1>1, <2>1, <2>2 DEF SucceededPlans
  <2>4. QED
    BY <1>0, <1>1, <2>1, <2>2, <2>3 DEF HasExactPlan
<1>9. QED
  BY <1>4, <1>5, <1>6, <1>7, <1>8 DEF RowsInv

LEMMA PutPlanArtifactRows ==
  ASSUME RowsInv, NEW o \in Operation, NEW sha \in SHA, PutPlanArtifact(o, sha)
  PROVE  RowsInv'
<1> USE DEF PutPlanArtifact, MayStoreArtifact
<1>0. Claimed(o) /\ operations[o].changeset \in Changeset
  BY DEF RowsInv, ClaimsInv, Claimed
<1>1. TypeOK'
  BY <1>0, EventType DEF RowsInv, TypeOK
<1>2. ClaimsInv'
  BY DEF RowsInv, TypeOK, ClaimsInv, Claimed, Exists
<1>3. DraftsInv'
  BY DEF RowsInv, DraftsInv, Exists
<1>4. PlanOrderInv'
  BY DEF RowsInv, PlanOrderInv
<1>5. PlannedHasPlan'
  <2> SUFFICES ASSUME NEW d \in Changeset, changesets[d].status = "planned"
               PROVE  HasExactPlan(d)'
    BY DEF PlannedHasPlan
  <2>1. PICK p \in SucceededPlans(d) : /\ operations[p].planSHA = changesets[d].draft
                                       /\ artifacts[p] = changesets[d].draft
    BY DEF RowsInv, PlannedHasPlan, HasExactPlan
  <2>2. p \in Operation /\ p # o
    BY <2>1 DEF SucceededPlans
  <2>3. QED
    BY <2>1, <2>2 DEF HasExactPlan, SucceededPlans, RowsInv, TypeOK
<1>6. QED
  BY <1>1, <1>2, <1>3, <1>4, <1>5 DEF RowsInv

\* Every step of the store preserves the invariant.
LEMMA StepRows == RowsInv /\ [Next]_vars => RowsInv'
<1> SUFFICES ASSUME RowsInv, [Next]_vars PROVE RowsInv'
  OBVIOUS
<1>1. CASE UNCHANGED vars
  BY <1>1 DEF vars, RowsInv, TypeOK, ClaimsInv, DraftsInv, PlanOrderInv,
              PlannedHasPlan, HasExactPlan, SucceededPlans, Claimed, Exists
<1>2. ASSUME NEW c \in Changeset, ChangesetStep(c) PROVE RowsInv'
  BY <1>2, CreateChangesetRows, TransitionChangesetRows, AdvanceDraftRows
     DEF ChangesetStep
<1>3. ASSUME NEW o \in Operation, OperationStep(o) PROVE RowsInv'
  BY <1>3, ClaimOperationRows, OperationStatusRows, PutPlanArtifactRows
     DEF OperationStep
<1>4. QED
  BY <1>1, <1>2, <1>3 DEF Next

\* The strengthened invariant holds of every reachable state of the store.
THEOREM RowsInvariant == Spec => []RowsInv
  BY InitRows, StepRows, PTL DEF Spec

\* Every table always holds rows of its schema (the types the columns declare).
THEOREM TypeCorrect == Spec => []TypeOK
<1>1. RowsInv => TypeOK
  BY DEF RowsInv
<1>2. QED
  BY <1>1, RowsInvariant, PTL

\* A planned changeset is planned by exactly its current draft, and the plan
\* Apply selects (LatestPlan) is a plan of that draft.
THEOREM PlannedExactly == Spec => []PlannedIsExact
<1>1. RowsInv => PlannedIsExact
  <2> SUFFICES ASSUME RowsInv, NEW c \in Changeset,
                      changesets[c].status = "planned",
                      NEW p \in LatestPlan(c)
               PROVE  artifacts[p] = changesets[c].draft
    BY DEF PlannedIsExact, RowsInv, PlannedHasPlan
  <2>1. PICK o \in SucceededPlans(c) : operations[o].planSHA = changesets[c].draft
    BY DEF RowsInv, PlannedHasPlan, HasExactPlan
  <2>2. operations[o].created <= operations[p].created
    BY <2>1 DEF LatestPlan
  <2>3. operations[p].planSHA = operations[o].planSHA
    BY <2>1, <2>2 DEF RowsInv, PlanOrderInv, LatestPlan, SucceededPlans
  <2>4. QED
    BY <2>1, <2>3 DEF RowsInv, ClaimsInv, LatestPlan, SucceededPlans
<1>2. QED
  BY <1>1, RowsInvariant, PTL

\* A finished operation and its artifact never change again.
THEOREM FinishedFinal == Spec => FinishedIsFinal
<1>1. RowsInv /\ [Next]_vars =>
        [\A o \in Operation :
           operations[o].status \in {"succeeded", "failed"} =>
             operations'[o] = operations[o] /\ artifacts'[o] = artifacts[o]]_vars
  <2> SUFFICES ASSUME RowsInv, Next, NEW o \in Operation,
                      operations[o].status \in {"succeeded", "failed"}
               PROVE  operations'[o] = operations[o] /\ artifacts'[o] = artifacts[o]
    OBVIOUS
  <2>1. ASSUME NEW c \in Changeset, ChangesetStep(c)
        PROVE  operations'[o] = operations[o] /\ artifacts'[o] = artifacts[o]
    BY <2>1 DEF ChangesetStep, CreateChangeset, TransitionChangeset, AdvanceDraft
  <2>2. ASSUME NEW p \in Operation, OperationStep(p)
        PROVE  operations'[o] = operations[o] /\ artifacts'[o] = artifacts[o]
    <3>1. p # o
      BY <2>2 DEF OperationStep, ClaimOperation, Claimed, TransitionOperation,
                  FinishOperation, OperationTransition, PutPlanArtifact, MayStoreArtifact
    <3>2. QED
      BY <2>2, <3>1 DEF OperationStep, ClaimOperation, TransitionOperation,
                        FinishOperation, PutPlanArtifact, RowsInv, TypeOK
  <2>3. QED
    BY <2>1, <2>2 DEF Next
<1>2. QED
  BY <1>1, RowsInvariant, PTL DEF Spec, FinishedIsFinal

\* A closed changeset never changes again.
THEOREM ClosedFinal == Spec => ClosedIsFinal
<1>1. RowsInv /\ [Next]_vars =>
        [\A c \in Changeset :
           changesets[c].status \in {"applied", "abandoned"} =>
             changesets'[c] = changesets[c]]_vars
  <2> SUFFICES ASSUME RowsInv, Next, NEW c \in Changeset,
                      changesets[c].status \in {"applied", "abandoned"}
               PROVE  changesets'[c] = changesets[c]
    OBVIOUS
  <2>1. ASSUME NEW d \in Changeset, ChangesetStep(d) PROVE changesets'[c] = changesets[c]
    <3>1. d # c
      BY <2>1 DEF ChangesetStep, CreateChangeset, TransitionChangeset,
                  TransitionAccepted, ChangesetTransition, AdvanceDraft, Exists
    <3>2. QED
      BY <2>1, <3>1 DEF ChangesetStep, CreateChangeset, TransitionChangeset,
                        AdvanceDraft, RowsInv, TypeOK
  <2>2. ASSUME NEW o \in Operation, OperationStep(o) PROVE changesets'[c] = changesets[c]
    BY <2>2 DEF OperationStep, ClaimOperation, TransitionOperation, FinishOperation,
                PutPlanArtifact
  <2>3. QED
    BY <2>1, <2>2 DEF Next
<1>2. QED
  BY <1>1, RowsInvariant, PTL DEF Spec, ClosedIsFinal

-----------------------------------------------------------------------------
(* The event log. *)

\* What the events tell of one operation and of one changeset.
OperationTold(o) ==
  /\ Claimed(o) <=> StatusEvents(o) # {}
  /\ \A i \in Newest(StatusEvents(o)) :
       ReportedOperation[events[i].type] = operations[o].status
  /\ artifacts[o] # None <=>
       \E i \in DOMAIN events : events[i].operation = o /\ events[i].type = "artifact"
  /\ \A i, j \in DOMAIN events \ StatusEvents(o) :
       events[i].operation = o /\ events[j].operation = o => i = j

ChangesetTold(c) ==
  /\ ChangesetEvents(c) = {} => changesets[c].status \in {"absent", "open"}
  /\ ChangesetEvents(c) # {} => Exists(c)
  /\ \A i \in Newest(ChangesetEvents(c)) :
       ReportedChangeset[events[i].type] = changesets[c].status

\* EventsTellState alone is not inductive: a changeset that has events could
\* then be created.
ToldInv == (\A o \in Operation : OperationTold(o)) /\ (\A c \in Changeset : ChangesetTold(c))

LEMMA InitTold == Init => ToldInv
<1> SUFFICES ASSUME Init PROVE ToldInv
  OBVIOUS
<1>1. DOMAIN events = {}
  BY DEF Init
<1>2. ASSUME NEW o \in Operation PROVE OperationTold(o)
  <2>1. StatusEvents(o) = {} /\ ~Claimed(o) /\ artifacts[o] = None
    BY <1>1 DEF StatusEvents, Init, NoOperation, Claimed
  <2>2. QED
    BY <1>1, <2>1 DEF OperationTold, Newest
<1>3. ASSUME NEW c \in Changeset PROVE ChangesetTold(c)
  <2>1. ChangesetEvents(c) = {} /\ changesets[c].status = "absent"
    BY <1>1 DEF ChangesetEvents, Init, NoChangeset
  <2>2. QED
    BY <2>1 DEF ChangesetTold, Newest
<1>4. QED
  BY <1>2, <1>3 DEF ToldInv

\* Entry n is new and the last, and is about o of c.
IsAdded(n, c, o, type) ==
  /\ DOMAIN events' = DOMAIN events \cup {n} /\ n \notin DOMAIN events
  /\ events'[n].changeset = c /\ events'[n].operation = o /\ events'[n].type = type
  /\ \A i \in DOMAIN events : events'[i] = events[i] /\ i <= n /\ ~(n <= i)
  /\ n <= n

\* An event that is appended is the last one.
LEMMA Appended ==
  ASSUME TypeOK, NEW c, NEW o, NEW type, AppendEvent(c, o, type)
  PROVE  \E n : IsAdded(n, c, o, type)
<1>1. PICK e : e = [changeset |-> c, operation |-> o, type |-> type]
  OBVIOUS
<1>2. e.changeset = c /\ e.operation = o /\ e.type = type
  BY <1>1
<1>3. events \in Seq(Event) /\ events' = Append(events, e)
  BY <1>1 DEF TypeOK, AppendEvent
<1>4. PICK n \in Nat : n = Len(events) + 1
  BY <1>3
<1>5. /\ DOMAIN events = 1 .. Len(events) /\ DOMAIN events' = 1 .. n
      /\ events'[n] = e /\ \A i \in DOMAIN events : events'[i] = events[i]
  BY <1>3, <1>4
<1>6. QED
  BY <1>2, <1>3, <1>4, <1>5 DEF IsAdded

\* An event about something else tells an operation nothing new.
LEMMA OthersEvent ==
  ASSUME TypeOK, NEW c, NEW p, NEW type, AppendEvent(c, p, type), NEW o \in Operation, p # o,
         OperationTold(o), operations'[o].status = operations[o].status, artifacts'[o] = artifacts[o]
  PROVE  OperationTold(o)'
<1> PICK n : IsAdded(n, c, p, type)
  BY Appended
<1>1. /\ DOMAIN events' = DOMAIN events \cup {n} /\ n \notin DOMAIN events
      /\ events'[n].operation = p
      /\ \A i \in DOMAIN events : events'[i] = events[i]
  BY DEF IsAdded
<1>2. PICK S : S = StatusEvents(o)
  OBVIOUS
<1>3. StatusEvents(o)' = S /\ S \subseteq DOMAIN events
  BY <1>1, <1>2 DEF StatusEvents
<1>4. Newest(StatusEvents(o))' = Newest(S)
  BY <1>3 DEF Newest
<1>5. Claimed(o)' <=> S # {}
  BY <1>2 DEF OperationTold, Claimed
<1>6. \A i \in Newest(S) : ReportedOperation[events'[i].type] = operations'[o].status
  BY <1>1, <1>2, <1>3 DEF OperationTold, Newest
<1>7. artifacts'[o] # None <=> \E i \in DOMAIN events' : events'[i].operation = o /\ events'[i].type = "artifact"
  BY <1>1 DEF OperationTold
<1>8. \A i, j \in DOMAIN events' \ S : events'[i].operation = o /\ events'[j].operation = o => i = j
  BY <1>1, <1>2 DEF OperationTold
<1>9. QED
  BY <1>3, <1>4, <1>5, <1>6, <1>7, <1>8 DEF OperationTold, ReportedOperation

\* The event of a status is the newest about its operation.
LEMMA StatusEvent ==
  ASSUME TypeOK, NEW c, NEW o \in Operation, NEW type \in {"created", "running", "succeeded", "failed"},
         AppendEvent(c, o, type), OperationTold(o),
         operations'[o].status = ReportedOperation[type], artifacts'[o] = artifacts[o]
  PROVE  OperationTold(o)'
<1> PICK n : IsAdded(n, c, o, type)
  BY Appended
<1>1. /\ DOMAIN events' = DOMAIN events \cup {n} /\ n \notin DOMAIN events
      /\ events'[n].operation = o /\ events'[n].type = type
      /\ \A i \in DOMAIN events : events'[i] = events[i] /\ ~(n <= i) /\ i <= n
      /\ n <= n
  BY DEF IsAdded
<1>2. PICK S : S = StatusEvents(o)
  OBVIOUS
<1>3. StatusEvents(o)' = S \cup {n} /\ S \subseteq DOMAIN events
  BY <1>1, <1>2 DEF StatusEvents
<1>4. Newest(S \cup {n}) = {n}
  BY <1>1, <1>3 DEF Newest
<1>5. Claimed(o)'
  BY DEF Claimed, ReportedOperation
<1>6. \A i \in Newest(S \cup {n}) : ReportedOperation[events'[i].type] = operations'[o].status
  BY <1>1, <1>4
<1>7. artifacts'[o] # None <=> \E i \in DOMAIN events' : events'[i].operation = o /\ events'[i].type = "artifact"
  BY <1>1 DEF OperationTold
<1>8. \A i, j \in DOMAIN events' \ (S \cup {n}) : events'[i].operation = o /\ events'[j].operation = o => i = j
  BY <1>1, <1>2 DEF OperationTold
<1>9. QED
  <2>1. Newest(StatusEvents(o))' = Newest(S \cup {n})
    BY <1>3 DEF Newest
  <2>2. QED
    BY <1>3, <1>5, <1>6, <1>7, <1>8, <2>1 DEF OperationTold, ReportedOperation

LEMMA ArtifactEvent ==
  ASSUME TypeOK, NEW c, NEW o \in Operation, AppendEvent(c, o, "artifact"), OperationTold(o),
         operations' = operations, artifacts[o] = None, artifacts'[o] # None
  PROVE  OperationTold(o)'
<1> PICK n : IsAdded(n, c, o, "artifact")
  BY Appended
<1>1. /\ DOMAIN events' = DOMAIN events \cup {n} /\ n \notin DOMAIN events
      /\ events'[n].operation = o /\ events'[n].type = "artifact"
      /\ \A i \in DOMAIN events : events'[i] = events[i]
  BY DEF IsAdded
<1>2. PICK S : S = StatusEvents(o)
  OBVIOUS
<1>3. StatusEvents(o)' = S /\ S \subseteq DOMAIN events
  BY <1>1, <1>2 DEF StatusEvents
<1>4. Newest(StatusEvents(o))' = Newest(S)
  BY <1>3 DEF Newest
<1>5. Claimed(o)' <=> S # {}
  BY <1>2 DEF OperationTold, Claimed
<1>6. \A i \in Newest(S) : ReportedOperation[events'[i].type] = operations'[o].status
  BY <1>1, <1>2, <1>3 DEF OperationTold, Newest
<1>7. \E i \in DOMAIN events' : events'[i].operation = o /\ events'[i].type = "artifact"
  BY <1>1
<1>8. ASSUME NEW i \in DOMAIN events' \ S, events'[i].operation = o PROVE i = n
  <2>1. \A j \in DOMAIN events : ~(events[j].operation = o /\ events[j].type = "artifact")
    BY DEF OperationTold
  <2>2. QED
    BY <1>1, <1>2, <1>8, <2>1 DEF StatusEvents
<1>9. QED
  BY <1>3, <1>4, <1>5, <1>6, <1>7, <1>8 DEF OperationTold, ReportedOperation

\* An event about an operation or another changeset tells a changeset nothing.
LEMMA NotOfChangeset ==
  ASSUME TypeOK, NEW d, NEW p, NEW type, AppendEvent(d, p, type), NEW c \in Changeset, p # None \/ d # c,
         ChangesetTold(c), changesets'[c] = changesets[c]
  PROVE  ChangesetTold(c)'
<1> PICK n : IsAdded(n, d, p, type)
  BY Appended
<1>1. /\ DOMAIN events' = DOMAIN events \cup {n} /\ n \notin DOMAIN events
      /\ events'[n].operation = p /\ events'[n].changeset = d
      /\ \A i \in DOMAIN events : events'[i] = events[i]
  BY DEF IsAdded
<1>2. PICK S : S = ChangesetEvents(c)
  OBVIOUS
<1>3. ChangesetEvents(c)' = S /\ S \subseteq DOMAIN events
  BY <1>1, <1>2 DEF ChangesetEvents
<1>4. Newest(ChangesetEvents(c))' = Newest(S)
  BY <1>3 DEF Newest
<1>5. \A i \in Newest(S) : ReportedChangeset[events'[i].type] = changesets'[c].status
  BY <1>1, <1>2, <1>3 DEF ChangesetTold, Newest
<1>6. /\ S = {} => changesets'[c].status \in {"absent", "open"}
      /\ S # {} => Exists(c)'
  BY <1>2 DEF ChangesetTold, Exists
<1>7. QED
  BY <1>3, <1>4, <1>5, <1>6 DEF ChangesetTold, ReportedChangeset

\* The event of a changeset's status is the newest about it.
LEMMA ChangesetEvent ==
  ASSUME TypeOK, NEW c \in Changeset, NEW type \in {"updated", "planned", "applied", "abandoned"},
         AppendEvent(c, None, type), ChangesetTold(c),
         changesets'[c].status = ReportedChangeset[type]
  PROVE  ChangesetTold(c)'
<1> PICK n : IsAdded(n, c, None, type)
  BY Appended
<1>1. /\ DOMAIN events' = DOMAIN events \cup {n} /\ n \notin DOMAIN events
      /\ events'[n].operation = None /\ events'[n].changeset = c /\ events'[n].type = type
      /\ \A i \in DOMAIN events : events'[i] = events[i] /\ ~(n <= i) /\ i <= n
      /\ n <= n
  BY DEF IsAdded
<1>2. PICK S : S = ChangesetEvents(c)
  OBVIOUS
<1>3. ChangesetEvents(c)' = S \cup {n} /\ S \subseteq DOMAIN events
  BY <1>1, <1>2 DEF ChangesetEvents
<1>4. Newest(S \cup {n}) = {n}
  BY <1>1, <1>3 DEF Newest
<1>5. Exists(c)'
  BY DEF Exists, ReportedChangeset
<1>6. \A i \in Newest(S \cup {n}) : ReportedChangeset[events'[i].type] = changesets'[c].status
  BY <1>1, <1>4
<1>7. Newest(ChangesetEvents(c))' = Newest(S \cup {n})
  BY <1>3 DEF Newest
<1>8. QED
  BY <1>3, <1>5, <1>6, <1>7 DEF ChangesetTold, ReportedChangeset

LEMMA StepTold == RowsInv /\ ToldInv /\ [Next]_vars => ToldInv'
<1> SUFFICES ASSUME RowsInv, ToldInv, [Next]_vars PROVE ToldInv'
  OBVIOUS
<1> TypeOK
  BY DEF RowsInv
<1>0. \A o \in Operation : o # None
  BY NoneAssumption
<1>1. CASE UNCHANGED vars
  <2>1. /\ \A o \in Operation : OperationTold(o) => OperationTold(o)'
        /\ \A c \in Changeset : ChangesetTold(c) => ChangesetTold(c)'
    BY <1>1 DEF vars, OperationTold, ChangesetTold, Claimed, Exists, StatusEvents, ChangesetEvents, Newest,
       ReportedOperation, ReportedChangeset
  <2>2. QED
    BY <2>1 DEF ToldInv
<1>2. ASSUME NEW c \in Changeset, NEW base \in SHA, CreateChangeset(c, base) PROVE ToldInv'
  <2>1. /\ events' = events /\ operations' = operations /\ artifacts' = artifacts
        /\ ~Exists(c) /\ changesets'[c].status = "open"
        /\ \A d \in Changeset : d # c => changesets'[d] = changesets[d]
    BY <1>2 DEF CreateChangeset, TypeOK
  <2>2. \A o \in Operation : OperationTold(o) => OperationTold(o)'
    BY <2>1 DEF OperationTold, Claimed, StatusEvents, Newest, ReportedOperation
  <2>3. \A d \in Changeset : d # c /\ ChangesetTold(d) => ChangesetTold(d)'
    BY <2>1 DEF ChangesetTold, Exists, ChangesetEvents, Newest, ReportedChangeset
  <2>4. ChangesetTold(c)'
    <3>1. ChangesetEvents(c) = {}
      BY <2>1 DEF ToldInv, ChangesetTold
    <3>2. ChangesetEvents(c)' = {}
      BY <2>1, <3>1 DEF ChangesetEvents
    <3>3. QED
      BY <2>1, <3>2 DEF ChangesetTold, Newest
  <2>5. QED
    BY <2>2, <2>3, <2>4 DEF ToldInv
<1>3. ASSUME NEW c \in Changeset, NEW type \in {"updated", "planned", "applied", "abandoned"},
             AppendEvent(c, None, type), changesets'[c].status = ReportedChangeset[type],
             \A d \in Changeset : d # c => changesets'[d] = changesets[d],
             operations' = operations, artifacts' = artifacts
      PROVE  ToldInv'
  <2>1. ASSUME NEW o \in Operation PROVE OperationTold(o)'
    BY <1>0, <1>3, OthersEvent DEF ToldInv
  <2>2. ASSUME NEW d \in Changeset, d # c PROVE ChangesetTold(d)'
    BY <1>3, <2>2, NotOfChangeset DEF ToldInv
  <2>3. ChangesetTold(c)'
    BY <1>3, ChangesetEvent DEF ToldInv
  <2>4. QED
    BY <2>1, <2>2, <2>3 DEF ToldInv
<1>4. ASSUME NEW c \in Changeset, NEW to \in {"planned", "applied", "abandoned"}, TransitionChangeset(c, to)
      PROVE  ToldInv'
  <2>1. /\ AppendEvent(c, None, to) /\ changesets'[c].status = ReportedChangeset[to]
        /\ \A d \in Changeset : d # c => changesets'[d] = changesets[d]
        /\ operations' = operations /\ artifacts' = artifacts
    BY <1>4 DEF TransitionChangeset, TypeOK, ChangesetRow, ReportedChangeset
  <2>2. QED
    BY <1>3, <2>1
<1>5. ASSUME NEW c \in Changeset, NEW expected \in SHA, NEW new \in SHA, AdvanceDraft(c, expected, new)
      PROVE  ToldInv'
  <2>1. /\ AppendEvent(c, None, "updated") /\ changesets'[c].status = ReportedChangeset["updated"]
        /\ \A d \in Changeset : d # c => changesets'[d] = changesets[d]
        /\ operations' = operations /\ artifacts' = artifacts
    BY <1>5 DEF AdvanceDraft, TypeOK, ChangesetRow, ReportedChangeset
  <2>2. QED
    BY <1>3, <2>1
<1>6. ASSUME NEW o \in Operation, NEW c, NEW type \in {"created", "running", "succeeded", "failed"},
             AppendEvent(c, o, type), operations'[o].status = ReportedOperation[type],
             \A p \in Operation : p # o => operations'[p].status = operations[p].status,
             changesets' = changesets, artifacts' = artifacts
      PROVE  ToldInv'
  <2>1. ASSUME NEW p \in Operation, p # o PROVE OperationTold(p)'
    BY <1>6, <2>1, OthersEvent DEF ToldInv
  <2>2. OperationTold(o)'
    BY <1>6, StatusEvent DEF ToldInv
  <2>3. ASSUME NEW d \in Changeset PROVE ChangesetTold(d)'
    BY <1>0, <1>6, NotOfChangeset DEF ToldInv
  <2>4. QED
    BY <2>1, <2>2, <2>3 DEF ToldInv
<1>7. ASSUME NEW o \in Operation, NEW c, NEW kind, NEW sha, NEW key, ClaimOperation(o, c, kind, sha, key)
      PROVE  ToldInv'
  <2>1. /\ AppendEvent(c, o, "created") /\ operations'[o].status = ReportedOperation["created"]
        /\ \A p \in Operation : p # o => operations'[p].status = operations[p].status
        /\ changesets' = changesets /\ artifacts' = artifacts
    BY <1>7 DEF ClaimOperation, TypeOK, ReportedOperation
  <2>2. QED
    BY <1>6, <2>1
<1>8. ASSUME NEW o \in Operation, NEW to \in {"running", "succeeded", "failed"},
             TransitionOperation(o, to) \/ FinishOperation(o, to)
      PROVE  ToldInv'
  <2>1. /\ AppendEvent(operations[o].changeset, o, to) /\ operations'[o].status = ReportedOperation[to]
        /\ \A p \in Operation : p # o => operations'[p].status = operations[p].status
        /\ changesets' = changesets /\ artifacts' = artifacts
    BY <1>8 DEF TransitionOperation, FinishOperation, TypeOK, OperationRow, ReportedOperation
  <2>2. QED
    BY <1>6, <2>1
<1>9. ASSUME NEW o \in Operation, NEW sha \in SHA, PutPlanArtifact(o, sha) PROVE ToldInv'
  <2>1. /\ AppendEvent(operations[o].changeset, o, "artifact") /\ operations' = operations
        /\ changesets' = changesets /\ artifacts[o] = None /\ artifacts'[o] # None
        /\ \A p \in Operation : p # o => artifacts'[p] = artifacts[p]
    BY <1>9, NoneAssumption DEF PutPlanArtifact, MayStoreArtifact, TypeOK
  <2>2. ASSUME NEW p \in Operation, p # o PROVE OperationTold(p)'
    BY <2>1, <2>2, OthersEvent DEF ToldInv
  <2>3. OperationTold(o)'
    BY <2>1, ArtifactEvent DEF ToldInv
  <2>4. ASSUME NEW d \in Changeset PROVE ChangesetTold(d)'
    BY <1>0, <2>1, NotOfChangeset DEF ToldInv
  <2>5. QED
    BY <2>2, <2>3, <2>4 DEF ToldInv
<1>10. QED
  BY <1>1, <1>2, <1>4, <1>5, <1>7, <1>8, <1>9 DEF Next, ChangesetStep, OperationStep

\* Whoever keeps the newest event of each row knows the row's status, and an
\* artifact is announced exactly once, as soon as it can be read.
THEOREM EventsAreHistory == Spec => []EventsTellState
<1>1. ToldInv => EventsTellState
  BY DEF ToldInv, OperationTold, ChangesetTold, EventsTellState
<1>2. Spec => []ToldInv
  BY InitTold, StepTold, RowsInvariant, PTL DEF Spec
<1>3. QED
  BY <1>1, <1>2, PTL
=============================================================================
