------------------------------ MODULE Webhook ------------------------------
(***************************************************************************)
(* GitHub push webhooks, src/internal/ledger/webhook.go: HandlePush fetches *)
(* the mirror and, for a default-branch commit whose generated code does   *)
(* not match its intent, opens a server-owned sync changeset; then it      *)
(* records the commit as processed and the delivery as seen.               *)
(*                                                                         *)
(* GitHub delivers a push at any time after it, may deliver it again with  *)
(* the same delivery ID (an attempt), and attempts run concurrently.  The  *)
(* default branch is the sequence of its commits 0..MaxPush; a push adds   *)
(* the next one.  CreateDraft, CreateChangeset and the commit that follows *)
(* run under Service.mu.                                                   *)
(***************************************************************************)
EXTENDS Naturals, FiniteSets

CONSTANTS
  Attempt,     \* the HTTP requests GitHub sends
  DeliveryOf,  \* the delivery ID of each
  Target,      \* what each announces: a commit of the default branch, or Draft
  MaxPush,     \* bound on the pushes to the default branch
  Dirty,       \* the commits that compile would change
  SyncSHA,     \* the SHAs of sync commits
  SyncOf,      \* the one that each attempt would make
  Draft, None,
  Faults       \* {"error"}: a call fails, of itself or because the request was
               \* cancelled; "crash": the process stops

SHA == 0..MaxPush \cup SyncSHA

ASSUME WebhookAssumption ==
  /\ MaxPush \in Nat
  /\ SyncSHA \cap 0..MaxPush = {} /\ None \notin SHA \cup Attempt
  /\ SyncOf \in [Attempt -> SyncSHA]
  /\ \A a, b \in Attempt : SyncOf[a] = SyncOf[b] => a = b
  /\ Target \in [Attempt -> 1..MaxPush \cup {Draft}]
  /\ DOMAIN DeliveryOf = Attempt
  /\ \A a, b \in Attempt : DeliveryOf[a] = DeliveryOf[b] => Target[a] = Target[b]
  /\ Dirty \subseteq 1..MaxPush /\ Draft \notin 1..MaxPush
  /\ Faults \subseteq {"error", "crash"}

VARIABLES
  changesets, operations, artifacts, events, clock, drafted,  \* the store
  pushed,         \* the default branch at origin
  mirrored,       \* the default branch in the mirror
  seen,           \* table webhook_deliveries
  lastProcessed,  \* workspace_metadata.last_processed_sha; 0 when connected
  req             \* the local state of each attempt; errors: its calls that failed

store == <<changesets, operations, artifacts, events, clock, drafted>>
meta == <<seen, lastProcessed>>
git == <<pushed, mirrored>>
vars == <<store, git, meta, req>>

\* The changeset ID is random: each attempt carries the one it would open.
Store == INSTANCE Operations WITH Changeset <- Attempt, Operation <- {}, Key <- {}

Init ==
  /\ Store!Init
  /\ pushed = 0
  /\ mirrored = 0
  /\ seen = {}
  /\ lastProcessed = 0
  /\ req = [a \in Attempt |-> [pc |-> "idle", last |-> 0, errors |-> 0]]

Goto(a, label) == req' = [req EXCEPT ![a].pc = label]

\* Answered, answered with an error, or stopped with the process.
Ended(a) == req[a].pc \in {"done", "failed", "cut"}

\* Service.mu.
Unlocked == \A a \in Attempt : req[a].pc \notin {"commit", "advance", "abandon"}

-----------------------------------------------------------------------------
(* Somebody pushes a commit to the default branch. *)
Push ==
  /\ pushed < MaxPush
  /\ pushed' = pushed + 1
  /\ UNCHANGED <<store, mirrored, meta, req>>

\* pushTarget: the row of the workspace, with the SHA last processed.
Receive(a) ==
  /\ req[a].pc = "idle"
  /\ Target[a] # Draft => Target[a] <= pushed
  /\ req' = [req EXCEPT ![a].pc = "lookup", ![a].last = lastProcessed]
  /\ UNCHANGED <<store, git, meta>>

\* Mutant: the delivery is recorded first.
RecordFirst(a) ==
  /\ req[a].pc = "lookup"
  /\ Goto(a, IF DeliveryOf[a] \in seen THEN "done" ELSE "fetch")
  /\ seen' = seen \cup {DeliveryOf[a]}
  /\ UNCHANGED <<store, git, lastProcessed>>

\* DeliverySeen.
CheckSeen(a) ==
  /\ req[a].pc = "lookup"
  /\ Goto(a, IF DeliveryOf[a] \in seen THEN "done" ELSE "fetch")
  /\ UNCHANGED <<store, git, meta>>

\* Mutant: the commit counts as processed as soon as it is fetched.
FetchProcesses(a) ==
  /\ req[a].pc = "fetch"
  /\ mirrored' = pushed
  /\ Goto(a, IF Target[a] \in {Draft, req[a].last} THEN "record" ELSE "sync")
  /\ lastProcessed' = IF Target[a] = Draft THEN lastProcessed ELSE Target[a]
  /\ UNCHANGED <<store, pushed, seen>>

\* Fetch.  A draft ref needs no more; nor does the commit processed last.
Fetch(a) ==
  /\ req[a].pc = "fetch"
  /\ mirrored' = pushed
  /\ Goto(a, IF Target[a] \in {Draft, req[a].last} THEN "record" ELSE "sync")
  /\ UNCHANGED <<store, pushed, meta>>

\* Mutant: only the head of the branch is worth a sync.
SyncHeadOnly(a) ==
  /\ req[a].pc = "sync"
  /\ Unlocked
  /\ Target[a] \notin Dirty \/ Target[a] # mirrored
  /\ Goto(a, "processed")
  /\ UNCHANGED <<store, git, meta>>

\* createSyncDraft: compile would change nothing.
SyncClean(a) ==
  /\ req[a].pc = "sync"
  /\ Unlocked
  /\ Target[a] \notin Dirty
  /\ Goto(a, "processed")
  /\ UNCHANGED <<store, git, meta>>

\* createSyncDraft: a draft ref and an open changeset at the pushed commit.
OpenSync(a) ==
  /\ req[a].pc = "sync"
  /\ Unlocked
  /\ Target[a] \in Dirty
  /\ Target[a] <= mirrored
  /\ Store!CreateChangeset(a, Target[a])
  /\ Goto(a, "commit")
  /\ UNCHANGED <<git, meta>>

\* commitSync: the compiled files are committed and the draft ref is moved;
\* then the changeset records the new draft.
CommitSync(a) ==
  /\ req[a].pc = "commit"
  /\ Goto(a, "advance")
  /\ UNCHANGED <<store, git, meta>>

AdvanceSync(a) ==
  /\ req[a].pc = "advance"
  /\ Store!AdvanceDraft(a, Target[a], SyncOf[a])
  /\ Goto(a, "processed")
  /\ UNCHANGED <<git, meta>>

SetLastProcessed(a) ==
  /\ req[a].pc = "processed"
  /\ lastProcessed' = Target[a]
  /\ Goto(a, "record")
  /\ UNCHANGED <<store, git, seen>>

RecordDelivery(a) ==
  /\ req[a].pc = "record"
  /\ seen' = seen \cup {DeliveryOf[a]}
  /\ Goto(a, "done")
  /\ UNCHANGED <<store, git, lastProcessed>>

\* Mutant: a failed commit leaves the changeset it opened.
FailWithoutAbandon(a) ==
  /\ "error" \in Faults
  /\ ~Ended(a) /\ req[a].pc \notin {"idle", "abandon"}
  /\ req' = [req EXCEPT ![a].pc = "failed", ![a].errors = 1]
  /\ UNCHANGED <<store, git, meta>>

\* A call fails: the handler returns the error.  When the commit of a changeset
\* that was opened fails, the changeset is first abandoned.
FailStep(a) ==
  /\ "error" \in Faults
  /\ ~Ended(a) /\ req[a].pc \notin {"idle", "abandon"}
  /\ req' = [req EXCEPT
       ![a].pc = IF req[a].pc \in {"commit", "advance"} THEN "abandon" ELSE "failed",
       ![a].errors = 1]
  /\ UNCHANGED <<store, git, meta>>

\* The transition may fail as well; its error is dropped and the request answers
\* the first one.
AbandonSync(a) ==
  /\ req[a].pc = "abandon"
  /\ \/ Store!TransitionChangeset(a, "abandoned") /\ Goto(a, "failed")
     \/ /\ "error" \in Faults
        /\ req' = [req EXCEPT ![a].pc = "failed", ![a].errors = 2]
        /\ UNCHANGED store
  /\ UNCHANGED <<git, meta>>

\* Attempts under way end with the process.
Crash ==
  /\ "crash" \in Faults
  /\ req' = [a \in Attempt |-> IF req[a].pc = "idle" \/ Ended(a) THEN req[a]
                               ELSE [req[a] EXCEPT !.pc = "cut"]]
  /\ UNCHANGED <<store, git, meta>>

HandlePush(a) ==
  \/ CheckSeen(a)
  \/ Fetch(a)
  \/ SyncClean(a)
  \/ OpenSync(a)
  \/ CommitSync(a)
  \/ AdvanceSync(a)
  \/ SetLastProcessed(a)
  \/ RecordDelivery(a)
  \/ AbandonSync(a)

Next ==
  \/ Push
  \/ \E a \in Attempt : Receive(a) \/ HandlePush(a) \/ FailStep(a)
  \/ Crash

Spec == Init /\ [][Next]_vars

\* Handlers keep running; GitHub and whoever pushes may stop at any time.
FairSpec == Spec /\ \A a \in Attempt : WF_vars(HandlePush(a))

-----------------------------------------------------------------------------
(* Properties *)

TypeOK ==
  /\ Store!TypeOK
  /\ pushed \in 0..MaxPush /\ mirrored \in 0..pushed
  /\ seen \subseteq {DeliveryOf[a] : a \in Attempt}
  /\ lastProcessed \in 0..MaxPush
  /\ req \in [Attempt -> [pc : {"idle", "lookup", "fetch", "sync", "commit", "advance",
                                "processed", "record", "abandon", "done", "failed",
                                "cut"},
                          last : 0..MaxPush, errors : 0..2]]

\* The attempts whose changeset carries the compiled changes of commit s.
SyncsOf(s) == {a \in Attempt : Target[a] = s /\ SyncOf[a] \in drafted[a]}

NeedsSync(s) == s \in Dirty /\ SyncsOf(s) = {}

\* "The delivery is recorded last so a failed push can be retried": a delivery
\* that will be ignored from now on has been synchronized, whatever failed,
\* crashed or ran beside it.
SeenWasSynced ==
  \A a \in Attempt : DeliveryOf[a] \in seen => ~NeedsSync(Target[a])

\* The processed SHA is updated only after sync: the commit that the next
\* delivery is compared with has been synchronized.
ProcessedWasSynced == ~NeedsSync(lastProcessed)

\* A sync that fails takes its empty changeset back and a sync that was made is
\* never taken back, whatever fails after it.  An attempt that has answered leaves
\* an open changeset without its commit only if two of its calls failed, that of
\* the commit and that of the abandoning, and then it answered an error.
SyncsAreWhole ==
  \A a \in Attempt :
    /\ changesets[a].status = "open" /\ req[a].pc \in {"done", "failed"}
         => SyncOf[a] \in drafted[a] \/ (req[a].pc = "failed" /\ req[a].errors = 2)
    /\ changesets[a].status = "abandoned" => SyncOf[a] \notin drafted[a]

\* A push that reaches a handler is synchronized in the end, or GitHub gets an
\* error for it and may deliver it again; also when later pushes overtake it
\* and deliveries arrive out of order.
DeliveredIsSynced ==
  \A a \in Attempt :
    req[a].pc # "idle" ~> ~NeedsSync(Target[a]) \/ req[a].pc \in {"failed", "cut"}
=============================================================================
