--------------------------- MODULE WebhookProofs ---------------------------
(***************************************************************************)
(* Proofs about push webhooks, for any number of attempts, deliveries,     *)
(* pushes and faults.                                                      *)
(*                                                                         *)
(* The properties are about commits that were processed and deliveries     *)
(* that were seen.  HandlerInv says the same of the commit a handler       *)
(* compares its own with, which it read before other handlers ran, and of  *)
(* the commit it is about to record; ChangesetInv says what the changeset  *)
(* of an attempt is at each of its steps.                                  *)
(***************************************************************************)
EXTENDS Webhook, TLAPS

\* What is proved about the store for every caller.
Rows == INSTANCE OperationsProofs WITH Changeset <- Attempt, Operation <- {}, Key <- {}

Pc == {"idle", "lookup", "fetch", "sync", "commit", "advance", "processed", "record", "abandon",
       "done", "failed", "cut"}

TypeInv ==
  /\ Rows!RowsInv
  /\ pushed \in 0..MaxPush /\ mirrored \in 0..pushed
  /\ seen \subseteq {DeliveryOf[a] : a \in Attempt}
  /\ lastProcessed \in 0..MaxPush
  /\ req \in [Attempt -> [pc : Pc, last : 0..MaxPush, errors : 0..2]]

\* The commits that still need a sync.
Unsynced == {s \in Dirty : SyncsOf(s) = {}}

\* A draft is processed without a sync; a commit that a handler is past the
\* sync of, or found processed, has been synchronized.
HandlerInv ==
  \A a \in Attempt :
    /\ req[a].last \notin Unsynced
    /\ req[a].pc \in {"sync", "commit", "advance", "abandon", "processed"} => Target[a] # Draft
    /\ req[a].pc \in {"processed", "record"} => Target[a] \notin Unsynced

\* An attempt whose commit and whose abandoning failed.
Left(r) == r.pc = "failed" /\ r.errors = 2

\* An attempt opens one changeset, at the commit that was pushed, and adds one
\* commit to it.
ChangesetInv ==
  \A a \in Attempt :
    /\ req[a].pc \in {"idle", "lookup", "fetch", "sync"} => ~Store!Exists(a) /\ drafted[a] = {}
    /\ req[a].pc \in {"commit", "advance", "abandon"} => drafted[a] = {Target[a]}
    /\ changesets[a].status = "open" /\ SyncOf[a] \notin drafted[a]
         => req[a].pc \in {"commit", "advance", "abandon", "cut"} \/ Left(req[a])
    /\ changesets[a].status = "abandoned" => SyncOf[a] \notin drafted[a] /\ req[a].pc = "failed"

WebhookInv == TypeInv /\ SeenWasSynced /\ ProcessedWasSynced /\ HandlerInv /\ ChangesetInv
-----------------------------------------------------------------------------
(* The store of this module is the one of OperationsProofs. *)

LEMMA StoreIsRows ==
  /\ Store!Init => Rows!Init
  /\ Rows!TypeOK => Store!TypeOK
  /\ store' = store => Rows!vars' = Rows!vars
  /\ \A a \in Attempt, s, n \in SHA :
       /\ Store!CreateChangeset(a, s) => Rows!CreateChangeset(a, s)
       /\ Store!AdvanceDraft(a, s, n) => Rows!AdvanceDraft(a, s, n)
       /\ Store!TransitionChangeset(a, "abandoned") => Rows!TransitionChangeset(a, "abandoned")
<1>1. Store!Init => Rows!Init
  BY DEF Store!Init, Rows!Init, Store!NoChangeset, Rows!NoChangeset
<1>2. Rows!TypeOK => Store!TypeOK
  BY DEF Store!TypeOK, Rows!TypeOK, Store!ChangesetRow, Rows!ChangesetRow, Store!OperationRow,
     Rows!OperationRow, Store!Event, Rows!Event
<1>3. store' = store => Rows!vars' = Rows!vars
  BY DEF store, Rows!vars
<1>4. \A a \in Attempt, s, n \in SHA :
        /\ Store!CreateChangeset(a, s) => Rows!CreateChangeset(a, s)
        /\ Store!AdvanceDraft(a, s, n) => Rows!AdvanceDraft(a, s, n)
        /\ Store!TransitionChangeset(a, "abandoned") => Rows!TransitionChangeset(a, "abandoned")
  BY DEF Store!CreateChangeset, Rows!CreateChangeset, Store!Exists, Rows!Exists,
     Store!AdvanceDraft, Rows!AdvanceDraft, Store!AppendEvent, Rows!AppendEvent,
     Store!TransitionChangeset, Rows!TransitionChangeset, Store!TransitionAccepted, Rows!TransitionAccepted,
     Store!ChangesetTransition, Rows!ChangesetTransition
<1>5. QED
  BY <1>1, <1>2, <1>3, <1>4

-----------------------------------------------------------------------------
(* The store. *)

LEMMA InitWebhook == Init => WebhookInv
<1> SUFFICES ASSUME Init PROVE WebhookInv
  OBVIOUS
<1>1. Rows!RowsInv
  BY StoreIsRows, Rows!InitRows, WebhookAssumption DEF Init
<1>2. 0 \notin Dirty
  BY WebhookAssumption
<1>3. TypeInv
  BY <1>1, WebhookAssumption DEF Init, TypeInv, Pc
<1>4. SeenWasSynced /\ ProcessedWasSynced /\ HandlerInv
  BY <1>2 DEF Init, SeenWasSynced, ProcessedWasSynced, HandlerInv, NeedsSync, Unsynced
<1>5. ChangesetInv
  BY DEF Init, ChangesetInv, Store!Init, Store!NoChangeset, Store!Exists
<1>6. QED
  BY <1>3, <1>4, <1>5 DEF WebhookInv

\* One attempt makes one step of the store at most: the one its step says.
StoreStep(a) ==
  \/ UNCHANGED store
  \/ OpenSync(a) /\ Store!CreateChangeset(a, Target[a])
  \/ AdvanceSync(a) /\ Store!AdvanceDraft(a, Target[a], SyncOf[a])
  \/ AbandonSync(a) /\ Store!TransitionChangeset(a, "abandoned")

LEMMA EachStoreStep ==
  ASSUME [Next]_vars
  PROVE  UNCHANGED store \/ \E a \in Attempt : StoreStep(a)
<1>1. ASSUME NEW a \in Attempt, Receive(a) \/ HandlePush(a) \/ FailStep(a) PROVE StoreStep(a)
  BY <1>1 DEF StoreStep, Receive, HandlePush, FailStep, CheckSeen, Fetch, SyncClean, OpenSync, CommitSync,
     AdvanceSync, SetLastProcessed, RecordDelivery, AbandonSync
<1>2. QED
  BY <1>1 DEF Next, Push, Crash, vars

\* The store stays consistent: a sync commit is never one that the draft had.
LEMMA StepStore ==
  ASSUME WebhookInv, [Next]_vars
  PROVE  Rows!RowsInv'
<1>1. Rows!RowsInv
  BY DEF WebhookInv, TypeInv
<1>2. CASE UNCHANGED store
  BY <1>1, <1>2, StoreIsRows, Rows!StepRows, WebhookAssumption
<1>3. ASSUME NEW a \in Attempt, StoreStep(a) PROVE Rows!RowsInv'
  <2>1. ASSUME OpenSync(a) \/ AdvanceSync(a) PROVE Target[a] \in SHA /\ SyncOf[a] \in SHA
    <3>1. Target[a] \in 1..MaxPush
      BY <2>1, WebhookAssumption DEF OpenSync, AdvanceSync, WebhookInv, HandlerInv
    <3>2. QED
      BY <3>1, WebhookAssumption DEF SHA
  <2>2. CASE OpenSync(a) /\ Store!CreateChangeset(a, Target[a])
    <3>1. Rows!Next
      BY <2>1, <2>2, StoreIsRows DEF Rows!Next, Rows!ChangesetStep
    <3>2. QED
      BY <1>1, <3>1, Rows!StepRows, WebhookAssumption
  <2>3. CASE AdvanceSync(a) /\ Store!AdvanceDraft(a, Target[a], SyncOf[a])
    <3>1. SyncOf[a] \notin drafted[a]
      BY <2>3, WebhookAssumption DEF AdvanceSync, WebhookInv, ChangesetInv, HandlerInv
    <3>2. Rows!Next
      BY <2>1, <2>3, <3>1, StoreIsRows DEF Rows!Next, Rows!ChangesetStep
    <3>3. QED
      BY <1>1, <3>2, Rows!StepRows, WebhookAssumption
  <2>4. CASE AbandonSync(a) /\ Store!TransitionChangeset(a, "abandoned")
    <3>1. Target[a] \in SHA /\ SyncOf[a] \in SHA
      BY <2>4, WebhookAssumption DEF AbandonSync, WebhookInv, HandlerInv, SHA
    <3>2. Rows!Next
      BY <2>4, <3>1, StoreIsRows DEF Rows!Next, Rows!ChangesetStep
    <3>3. QED
      BY <1>1, <3>2, Rows!StepRows, WebhookAssumption
  <2>5. QED
    BY <1>2, <1>3, <2>2, <2>3, <2>4 DEF StoreStep
<1>4. QED
  BY <1>2, <1>3, EachStoreStep

\* What was synchronized stays so.
LEMMA SyncedStays ==
  ASSUME WebhookInv, [Next]_vars
  PROVE  /\ \A a \in Attempt : drafted[a] \subseteq drafted'[a]
         /\ Unsynced' \subseteq Unsynced
<1>1. /\ DOMAIN drafted = Attempt
      /\ \A a \in Attempt : drafted[a] \subseteq drafted'[a]
  <2>1. drafted \in [Attempt -> SUBSET SHA] /\ changesets \in [Attempt -> Rows!ChangesetRow]
    BY DEF WebhookInv, TypeInv, Rows!RowsInv, Rows!TypeOK
  <2>2. CASE UNCHANGED store
    BY <2>1, <2>2 DEF store
  <2>3. ASSUME NEW a \in Attempt, StoreStep(a), NEW b \in Attempt PROVE drafted[b] \subseteq drafted'[b]
    <3>1. CASE OpenSync(a) /\ Store!CreateChangeset(a, Target[a])
      <4>1. drafted[a] = {}
        BY <3>1 DEF OpenSync, WebhookInv, ChangesetInv
      <4>2. QED
        BY <2>1, <3>1, <4>1 DEF Store!CreateChangeset
    <3>2. QED
      BY <2>1, <2>2, <2>3, <3>1 DEF StoreStep, Store!AdvanceDraft, Store!TransitionChangeset
  <2>4. QED
    BY <2>1, <2>2, <2>3, EachStoreStep
<1>2. QED
  BY <1>1 DEF Unsynced, SyncsOf
-----------------------------------------------------------------------------
(* The steps of the handlers. *)

LEMMA StepTypes ==
  ASSUME WebhookInv, [Next]_vars
  PROVE  TypeInv'
<1>1. TypeInv /\ Rows!RowsInv'
  BY StepStore DEF WebhookInv
<1>2. MaxPush \in Nat /\ pushed \in 0..MaxPush /\ mirrored \in 0..pushed /\ lastProcessed \in 0..MaxPush
      /\ req \in [Attempt -> [pc : Pc, last : 0..MaxPush, errors : 0..2]]
  BY <1>1, WebhookAssumption DEF TypeInv
<1>3. pushed' \in 0..MaxPush /\ mirrored' \in 0..pushed'
  <2>1. CASE Push
    BY <1>2, <2>1 DEF Push
  <2>2. CASE \E a \in Attempt : Fetch(a)
    BY <1>2, <2>2 DEF Fetch
  <2>3. CASE UNCHANGED git
    BY <1>2, <2>3 DEF git
  <2>4. QED
    BY <2>1, <2>2, <2>3 DEF Next, Receive, HandlePush, FailStep, Crash, CheckSeen, SyncClean, OpenSync, CommitSync,
       AdvanceSync, SetLastProcessed, RecordDelivery, AbandonSync, vars, git
<1>4. seen' \subseteq {DeliveryOf[a] : a \in Attempt}
  BY <1>1 DEF Next, Push, Receive, HandlePush, FailStep, Crash, CheckSeen, Fetch, SyncClean, OpenSync, CommitSync,
     AdvanceSync, SetLastProcessed, RecordDelivery, AbandonSync, vars, meta, TypeInv
<1>5. ASSUME NEW a \in Attempt, SetLastProcessed(a) PROVE Target[a] \in 0..MaxPush
  BY <1>5, WebhookAssumption DEF SetLastProcessed, WebhookInv, HandlerInv
<1>6. lastProcessed' \in 0..MaxPush
  BY <1>2, <1>5 DEF Next, Push, Receive, HandlePush, FailStep, Crash, CheckSeen, Fetch, SyncClean, OpenSync,
     CommitSync, AdvanceSync, SetLastProcessed, RecordDelivery, AbandonSync, vars, meta
<1>7. ASSUME NEW a \in Attempt, NEW label \in Pc, Goto(a, label)
      PROVE  req' \in [Attempt -> [pc : Pc, last : 0..MaxPush, errors : 0..2]]
  BY <1>2, <1>7 DEF Goto
<1>8. req' \in [Attempt -> [pc : Pc, last : 0..MaxPush, errors : 0..2]]
  <2>1. ASSUME NEW a \in Attempt, HandlePush(a), ~AbandonSync(a) PROVE \E label \in Pc : Goto(a, label)
    BY <2>1 DEF Pc, HandlePush, CheckSeen, Fetch, SyncClean, OpenSync, CommitSync, AdvanceSync,
       SetLastProcessed, RecordDelivery
  <2>2. ASSUME NEW a \in Attempt, FailStep(a) \/ AbandonSync(a)
        PROVE  req' \in [Attempt -> [pc : Pc, last : 0..MaxPush, errors : 0..2]]
    BY <1>2, <2>2 DEF Pc, FailStep, AbandonSync, Goto
  <2>3. ASSUME NEW a \in Attempt, Receive(a) PROVE req' \in [Attempt -> [pc : Pc, last : 0..MaxPush, errors : 0..2]]
    BY <1>2, <2>3 DEF Receive, Pc
  <2>4. CASE Crash
    BY <1>2, <2>4 DEF Crash, Pc
  <2>5. QED
    BY <1>2, <1>7, <2>1, <2>2, <2>3, <2>4 DEF Next, HandlePush, Push, vars
<1>9. QED
  BY <1>1, <1>3, <1>4, <1>6, <1>8 DEF TypeInv

\* What a handler knows of its commit is still so when others have run.
LEMMA StepHandlers ==
  ASSUME WebhookInv, [Next]_vars
  PROVE  HandlerInv'
<1> DEFINE Handled(r, a) ==
      /\ r.last \notin Unsynced
      /\ r.pc \in {"sync", "commit", "advance", "abandon", "processed"} => Target[a] # Draft
      /\ r.pc \in {"processed", "record"} => Target[a] \notin Unsynced
<1> SUFFICES ASSUME NEW a \in Attempt
             PROVE  /\ req'[a].last \notin Unsynced'
                    /\ req'[a].pc \in {"sync", "commit", "advance", "abandon", "processed"} => Target[a] # Draft
                    /\ req'[a].pc \in {"processed", "record"} => Target[a] \notin Unsynced'
  BY DEF HandlerInv
<1>1. /\ Handled(req[a], a) /\ lastProcessed \notin Unsynced
      /\ req \in [Attempt -> [pc : Pc, last : 0..MaxPush, errors : 0..2]]
  BY DEF WebhookInv, HandlerInv, ProcessedWasSynced, TypeInv, NeedsSync, Unsynced
<1>2. Unsynced' \subseteq Unsynced
  BY SyncedStays
<1>3. CASE Handled(req'[a], a)
  BY <1>2, <1>3
<1>4. ASSUME NEW label, Goto(a, label) PROVE req'[a].last = req[a].last /\ req'[a].pc = label
  BY <1>1, <1>4 DEF Goto
<1>5. CASE Receive(a)
  <2>1. req'[a].last = lastProcessed /\ req'[a].pc = "lookup"
    BY <1>1, <1>5 DEF Receive
  <2>2. QED
    BY <1>1, <1>3, <2>1
<1>6. CASE Fetch(a)
  <2>1. Draft \notin Unsynced
    <3>1. Draft \notin Dirty
      BY WebhookAssumption
    <3>2. QED
      BY <3>1 DEF Unsynced
  <2>2. QED
    BY <1>1, <1>3, <1>4, <1>6, <2>1 DEF Fetch
<1>7. CASE SyncClean(a)
  <2>1. Target[a] \notin Unsynced
    BY <1>7 DEF SyncClean, Unsynced
  <2>2. QED
    BY <1>1, <1>3, <1>4, <1>7, <2>1 DEF SyncClean
<1>8. CASE AdvanceSync(a)
  <2>1. SyncOf[a] \in drafted'[a]
    BY <1>8 DEF AdvanceSync, Store!AdvanceDraft, WebhookInv, TypeInv, Rows!RowsInv, Rows!TypeOK
  <2>2. Target[a] \notin Unsynced'
    BY <2>1 DEF Unsynced, SyncsOf
  <2>3. req'[a].last = req[a].last /\ req'[a].pc = "processed" /\ req[a].pc = "advance"
    BY <1>4, <1>8 DEF AdvanceSync
  <2>4. QED
    BY <1>1, <1>2, <2>2, <2>3
<1>9. CASE CheckSeen(a) \/ OpenSync(a) \/ CommitSync(a) \/ SetLastProcessed(a) \/ RecordDelivery(a)
           \/ AbandonSync(a) \/ FailStep(a)
  <2>1. CASE AbandonSync(a) \/ FailStep(a)
    <3>1. req'[a].last = req[a].last /\ req'[a].pc \in {"abandon", "failed"}
      BY <1>1, <2>1 DEF AbandonSync, FailStep, Goto
    <3>2. req'[a].pc = "abandon" => req[a].pc \in {"commit", "advance"}
      BY <1>1, <2>1 DEF AbandonSync, FailStep, Goto
    <3>3. QED
      BY <1>1, <1>3, <3>1, <3>2
  <2>2. QED
    BY <1>1, <1>3, <1>4, <1>9, <2>1 DEF CheckSeen, OpenSync, CommitSync, SetLastProcessed, RecordDelivery
<1>10. CASE Crash
  <2>1. req'[a] = req[a] \/ (req'[a].last = req[a].last /\ req'[a].pc = "cut")
    BY <1>1, <1>10 DEF Crash
  <2>2. QED
    BY <1>1, <1>3, <2>1
<1>11. ASSUME NEW b \in Attempt, b # a, Receive(b) \/ HandlePush(b) \/ FailStep(b) PROVE req'[a] = req[a]
  BY <1>1, <1>11 DEF Receive, HandlePush, FailStep, CheckSeen, Fetch, SyncClean, OpenSync, CommitSync, AdvanceSync,
     SetLastProcessed, RecordDelivery, AbandonSync, Goto
<1>12. CASE req'[a] = req[a]
  BY <1>1, <1>3, <1>12
<1>13. QED
  BY <1>5, <1>6, <1>7, <1>8, <1>9, <1>10, <1>11, <1>12 DEF Next, Push, HandlePush, vars

\* The delivery and the commit that a handler records have been synchronized.
LEMMA StepSynced ==
  ASSUME WebhookInv, [Next]_vars
  PROVE  SeenWasSynced' /\ ProcessedWasSynced'
<1>1. Unsynced' \subseteq Unsynced
  BY SyncedStays
<1>2. /\ lastProcessed \notin Unsynced
      /\ \A a \in Attempt : DeliveryOf[a] \in seen => Target[a] \notin Unsynced
  BY DEF WebhookInv, SeenWasSynced, ProcessedWasSynced, NeedsSync, Unsynced
<1>3. lastProcessed' \notin Unsynced'
  <2>1. ASSUME NEW a \in Attempt, SetLastProcessed(a) PROVE lastProcessed' \notin Unsynced
    BY <2>1 DEF SetLastProcessed, WebhookInv, HandlerInv
  <2>2. QED
    BY <1>1, <1>2, <2>1 DEF Next, Push, Receive, HandlePush, FailStep, Crash, CheckSeen, Fetch, SyncClean, OpenSync,
       CommitSync, AdvanceSync, RecordDelivery, AbandonSync, vars, meta
<1>4. \A a \in Attempt : DeliveryOf[a] \in seen' => Target[a] \notin Unsynced'
  <2>1. ASSUME NEW b \in Attempt, RecordDelivery(b), NEW a \in Attempt, DeliveryOf[a] \in seen'
        PROVE  Target[a] \notin Unsynced
    <3>1. CASE DeliveryOf[a] \in seen
      BY <1>2, <3>1
    <3>2. CASE DeliveryOf[a] = DeliveryOf[b]
      BY <2>1, <3>2, WebhookAssumption DEF RecordDelivery, WebhookInv, HandlerInv
    <3>3. QED
      BY <2>1, <3>1, <3>2 DEF RecordDelivery
  <2>2. CASE \E b \in Attempt : RecordDelivery(b)
    BY <1>1, <2>1, <2>2
  <2>3. CASE seen' = seen
    BY <1>1, <1>2, <2>3
  <2>4. QED
    BY <2>2, <2>3 DEF Next, Push, Receive, HandlePush, FailStep, Crash, CheckSeen, Fetch, SyncClean, OpenSync,
       CommitSync, AdvanceSync, SetLastProcessed, AbandonSync, vars, meta
<1>5. QED
  BY <1>3, <1>4 DEF SeenWasSynced, ProcessedWasSynced, NeedsSync, Unsynced

\* The changeset of an attempt follows the steps of its handler.
LEMMA StepChangesets ==
  ASSUME WebhookInv, [Next]_vars
  PROVE  ChangesetInv'
<1> SUFFICES ASSUME NEW a \in Attempt
             PROVE  /\ req'[a].pc \in {"idle", "lookup", "fetch", "sync"}
                         => changesets'[a].status = "absent" /\ drafted'[a] = {}
                    /\ req'[a].pc \in {"commit", "advance", "abandon"} => drafted'[a] = {Target[a]}
                    /\ changesets'[a].status = "open" /\ SyncOf[a] \notin drafted'[a]
                         => req'[a].pc \in {"commit", "advance", "abandon", "cut"} \/ Left(req'[a])
                    /\ changesets'[a].status = "abandoned" => SyncOf[a] \notin drafted'[a] /\ req'[a].pc = "failed"
  BY DEF ChangesetInv, Store!Exists
<1>1. /\ req[a].pc \in {"idle", "lookup", "fetch", "sync"} => changesets[a].status = "absent" /\ drafted[a] = {}
      /\ req[a].pc \in {"commit", "advance", "abandon"} => drafted[a] = {Target[a]}
      /\ changesets[a].status = "open" /\ SyncOf[a] \notin drafted[a]
           => req[a].pc \in {"commit", "advance", "abandon", "cut"} \/ Left(req[a])
      /\ changesets[a].status = "abandoned" => SyncOf[a] \notin drafted[a] /\ req[a].pc = "failed"
  BY DEF WebhookInv, ChangesetInv, Store!Exists
<1>2. /\ req \in [Attempt -> [pc : Pc, last : 0..MaxPush, errors : 0..2]]
      /\ drafted \in [Attempt -> SUBSET SHA] /\ changesets \in [Attempt -> Rows!ChangesetRow]
  BY DEF WebhookInv, TypeInv, Rows!RowsInv, Rows!TypeOK
<1>3. ASSUME NEW label, Goto(a, label) PROVE req'[a].pc = label
  BY <1>2, <1>3 DEF Goto
<1>4. CASE OpenSync(a)
  <2>1. req'[a].pc = "commit" /\ drafted'[a] = {Target[a]} /\ changesets'[a].status = "open"
    BY <1>2, <1>3, <1>4 DEF OpenSync, Store!CreateChangeset
  <2>2. QED
    BY <2>1
<1>5. CASE AdvanceSync(a)
  <2>1. req'[a].pc = "processed" /\ SyncOf[a] \in drafted'[a] /\ changesets'[a].status = "open"
    BY <1>2, <1>3, <1>5 DEF AdvanceSync, Store!AdvanceDraft, Rows!ChangesetRow
  <2>2. QED
    BY <2>1
<1>6. CASE AbandonSync(a) /\ Store!TransitionChangeset(a, "abandoned")
  <2>1. req[a].pc = "abandon" /\ drafted' = drafted /\ changesets'[a].status = "abandoned"
    BY <1>2, <1>6 DEF AbandonSync, Store!TransitionChangeset, Rows!ChangesetRow
  <2>2. req'[a].pc = "failed" /\ SyncOf[a] \notin drafted[a]
    BY <1>1, <1>2, <1>6, WebhookAssumption DEF AbandonSync, Goto, WebhookInv, HandlerInv
  <2>3. QED
    BY <2>1, <2>2
<1>7. CASE \/ Receive(a) \/ CheckSeen(a) \/ Fetch(a) \/ SyncClean(a) \/ CommitSync(a) \/ SetLastProcessed(a)
           \/ RecordDelivery(a)
  <2>1. changesets'[a] = changesets[a] /\ drafted'[a] = drafted[a]
    BY <1>7 DEF Receive, CheckSeen, Fetch, SyncClean, CommitSync, SetLastProcessed, RecordDelivery, store
  <2>2. CASE Receive(a)
    <3>1. req[a].pc = "idle" /\ req'[a].pc = "lookup"
      BY <1>2, <2>2 DEF Receive
    <3>2. QED
      BY <1>1, <2>1, <3>1
  <2>3. QED
    BY <1>1, <1>3, <1>7, <2>1, <2>2 DEF CheckSeen, Fetch, SyncClean, CommitSync, SetLastProcessed,
       RecordDelivery, Left
<1>8. CASE FailStep(a) \/ (AbandonSync(a) /\ UNCHANGED store)
  <2>1. changesets'[a] = changesets[a] /\ drafted'[a] = drafted[a]
    BY <1>8 DEF FailStep, store
  <2>2. CASE FailStep(a)
    <3>1. req[a].pc \notin {"abandon", "failed", "cut"}
      BY <2>2 DEF FailStep, Ended
    <3>2. req'[a].pc = IF req[a].pc \in {"commit", "advance"} THEN "abandon" ELSE "failed"
      BY <1>2, <2>2 DEF FailStep
    <3>3. QED
      BY <1>1, <2>1, <3>1, <3>2 DEF Left
  <2>3. CASE AbandonSync(a) /\ UNCHANGED store
    <3>1. req[a].pc = "abandon" /\ drafted[a] = {Target[a]}
      BY <1>1, <2>3 DEF AbandonSync
    <3>2. req'[a].pc = "failed"
      BY <1>2, <2>3 DEF AbandonSync, Goto
    <3>3. changesets[a].status = "open" => req'[a].errors = 2
      <4>1. CASE Store!TransitionChangeset(a, "abandoned")
        BY <1>2, <2>3, <4>1 DEF Store!TransitionChangeset, Rows!ChangesetRow, store
      <4>2. QED
        BY <1>2, <2>3, <4>1 DEF AbandonSync
    <3>4. QED
      BY <1>1, <2>1, <3>1, <3>2, <3>3 DEF Left
  <2>4. QED
    BY <1>8, <2>2, <2>3
<1>9. CASE req'[a] = req[a] /\ changesets'[a] = changesets[a] /\ drafted'[a] = drafted[a]
  BY <1>1, <1>9
<1>10. CASE Crash
  <2>1. req'[a] = req[a] \/ (req'[a].pc = "cut" /\ req[a].pc \notin {"idle", "done", "failed", "cut"})
    BY <1>2, <1>10 DEF Crash, Ended
  <2>2. changesets'[a] = changesets[a] /\ drafted'[a] = drafted[a]
    BY <1>10 DEF Crash, store
  <2>3. QED
    BY <1>1, <2>1, <2>2
<1>11. ASSUME NEW b \in Attempt, b # a, Receive(b) \/ HandlePush(b) \/ FailStep(b)
       PROVE  req'[a] = req[a] /\ changesets'[a] = changesets[a] /\ drafted'[a] = drafted[a]
  <2>1. req'[a] = req[a]
    BY <1>2, <1>11 DEF Receive, HandlePush, FailStep, CheckSeen, Fetch, SyncClean, OpenSync, CommitSync, AdvanceSync,
       SetLastProcessed, RecordDelivery, AbandonSync, Goto
  <2>2. changesets'[a] = changesets[a] /\ drafted'[a] = drafted[a]
    BY <1>2, <1>11 DEF Receive, HandlePush, FailStep, CheckSeen, Fetch, SyncClean, OpenSync, CommitSync, AdvanceSync,
       SetLastProcessed, RecordDelivery, AbandonSync, store, Store!CreateChangeset, Store!AdvanceDraft,
       Store!TransitionChangeset
  <2>3. QED
    BY <2>1, <2>2
<1>12. QED
  <2>1. ASSUME AbandonSync(a)
        PROVE  Store!TransitionChangeset(a, "abandoned") \/ UNCHANGED store
    BY <2>1 DEF AbandonSync
  <2>2. UNCHANGED vars \/ Push => req'[a] = req[a] /\ changesets'[a] = changesets[a] /\ drafted'[a] = drafted[a]
    BY DEF Push, vars, store
  <2>3. QED
    BY <1>4, <1>5, <1>6, <1>7, <1>8, <1>9, <1>10, <1>11, <2>1, <2>2 DEF Next, HandlePush
-----------------------------------------------------------------------------
(* The specification. *)

LEMMA StepWebhook == WebhookInv /\ [Next]_vars => WebhookInv'
  BY StepTypes, StepHandlers, StepSynced, StepChangesets DEF WebhookInv

\* Every reachable state satisfies the inductive invariant.
THEOREM WebhookInvariant == Spec => []WebhookInv
  BY InitWebhook, StepWebhook, PTL DEF Spec

\* The tables of the store and the variables of the handlers have their types.
THEOREM WebhookTypes == Spec => []TypeOK
<1>1. WebhookInv => TypeOK
  BY StoreIsRows DEF WebhookInv, TypeInv, Rows!RowsInv, TypeOK, Pc
<1>2. QED
  BY <1>1, WebhookInvariant, PTL

\* A delivery that is ignored from now on has been synchronized, whatever
\* failed, crashed or ran beside it.
THEOREM IgnoredWasSynced == Spec => []SeenWasSynced
<1>1. WebhookInv => SeenWasSynced
  BY DEF WebhookInv
<1>2. QED
  BY <1>1, WebhookInvariant, PTL

\* The commit that the next delivery is compared with has been synchronized.
THEOREM ComparedWasSynced == Spec => []ProcessedWasSynced
<1>1. WebhookInv => ProcessedWasSynced
  BY DEF WebhookInv
<1>2. QED
  BY <1>1, WebhookInvariant, PTL

\* A sync that was made is never taken back; an attempt that has answered leaves
\* an empty changeset open only when its commit and its abandoning both failed.
THEOREM SyncsStayWhole == Spec => []SyncsAreWhole
<1>1. WebhookInv => SyncsAreWhole
  BY DEF WebhookInv, ChangesetInv, SyncsAreWhole, Left
<1>2. QED
  BY <1>1, WebhookInvariant, PTL
=============================================================================
