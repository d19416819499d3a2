# nodr: TLA+ models, checks and proofs

nodr keeps a homelab's intent in a Git repository on GitHub. A change is a *command* on a *draft*
(a changeset and a branch `nodr/<id>`), a draft is *planned*, the reviewed plan is *applied*: the
draft is promoted to the default branch and the saved plan is run. On a workspace that is a local
directory, the same server and the `nodr` command write intent, admit it, compile it into managed blocks of
OpenTofu code, and plan and apply its state units without a ledger. This directory models the ledger's cycle,
the local server, and the algorithms both rest on (admission, synchronization of intent and code). It
model-checks them with TLC on small instances and proves with TLAPS, for all instances, every safety property
and refinement that TLC checks.

Paths below are relative to the repository root. `PROJECT.json` lists the runs, the mutants, the map
from definitions to source lines, the findings, the hazards and the theorems.

## 1. Inventory

| Component | State it keeps | Operations | Hard behaviour | What makes it correct |
|---|---|---|---|---|
| Operations store, `internal/operations` | SQLite tables `changesets`, `operations`, `artifacts`, `events` | CreateChangeset, TransitionChangeset, AdvanceDraft, ClaimOperation, TransitionOperation, FinishOperation, PutPlanArtifact, queries | many callers between two calls of one handler; plans of old drafts finishing late | a planned changeset's newest plan is exact; finished rows are final; the event log tells every status |
| Event stream, `operations/events.go`, `api/ledger_events.go` | subscribers, one bounded channel each; the client's `Last-Event-ID` | commit, publish, Subscribe, EventsAfter, SSE handler | publication after commit, outside the transaction; replay overlapping live events; overflow; reconnection | no gap, no repetition, everything arrives |
| Ledger, `internal/ledger` (`commands.go`, `plan.go`, `service.go`) | handlers' and goroutines' locals, `Service.mu`, `pending` | RunCommand, Plan, Apply, Diff | requests racing for a key, a draft, a plan; two stores (SQLite, Git) written one after the other; restarts; clients that leave | one commit per key; a success is durable; only reviewed drafts are promoted; operations end |
| Runner, `ledger/runner.go` | plans retained in memory | Plan, Has, Apply, Discard | plans lost by a restart or spent by another apply | promotes and runs retained plans only |
| Repository, `internal/repository/store.go` | bare mirror, refs; origin at GitHub | CreateDraft, Commit, CompareAndSwap, Promote, Fetch | pushes that fail, or arrive and report an error; Fetch overwriting refs | mirror and origin agree with the record |
| Webhooks, `ledger/webhook.go`, `repository/metadata.go` | `webhook_deliveries`, `last_processed_sha` | HandlePush | repeated, late and concurrent deliveries; any step failing | nothing is recorded as done before it is; every delivery is synchronized |
| Workspace connection, `ledger/connect.go` | workspace metadata | Connect, Repositories, Workspace | GitHub I/O | one workspace is connected |
| First-run bootstrap, `internal/bootstrap`, `cli/server.go` | workspace directories, `bootstrap.json`, `kek`; the handler that serves | start, Setup, rollback, switch of handlers | any step failing or the process stopping; requests queued behind a success; retries | the record names a complete workspace and never changes; nothing incomplete is adopted; the key is kept |
| Authentication, `internal/authn` | accounts, sessions, setup token, rate limits | Setup, Login, ValidateSession, Logout | single-use token under concurrency; expiry | one administrator is created; an expired session is refused |
| Admission, `internal/admission`, `nodr admit` | an allocator for the time of a run; the intent files | AssignUID, node, guest ID, addresses, MACs; Apply | exhausted ranges, allocations of the same batch, files written one by one | nothing is allocated twice, refusals are justified, set values stay |
| Resource model, `internal/nrm` | none | Validate | uniqueness and references across documents | what is on disk is valid |
| Local server, `internal/api/api.go` | `createMu`, `planMu`, stored plans | create, start, stop, delete; plan, apply | commands and plans under different locks; a plan that is old when it is applied; restarts | commands are atomic; only what a plan showed is destroyed |
| Commands, `internal/commands` | the intent files | CreateVM, SetVMPowerState, DeleteVM | several writes and a rollback; writes in place that fail; files that machines share | done, or refused without a trace |
| Compile, resolve, `internal/compile`, `internal/resolve` | the `.tf` files | Compile, Write | blocks that people edit, remove or take over | writes its own blocks and no others |
| Units, `internal/planapply`, `internal/engine/opentofu`, `cli/plan.go` | a work directory per plan, the state of each unit | plan and apply unit by unit | a failure after some units, or in one; a state that moved on | in order; the units applied are those that were planned |
| Lenses, `internal/lens` | none: functions of text | Lift, Put, Render | code-owned attributes beside synced ones, blocks matched by position | what people took over stays; written is what is read back |
| File synchronization, `internal/sync` | render lock | Synchronize | edits on both sides | nobody's edit is overwritten; the files settle |
| Secrets, GitHub App, Proxmox clients | an encrypted table; tokens | REST calls, envelope encryption | | |
| HTTP API, CLI, web UI | none of their own | decoding, flags, views | | preconditions reach the ledger |

How they interact. The API handler calls the ledger with the request's context. The ledger reads and
writes the operations store and the workspace metadata (SQLite, synchronous calls), the repository
store (Git processes under `LocalStore.mu`) and the runner. Plan and Apply answer 202 and continue in
a goroutine on the service's context. Every write of the store commits first and then publishes the
event to subscribers. GitHub calls the webhook, which fetches the mirror. A local workspace has no ledger: the
API handler takes `createMu` and calls a command, which writes an intent file, or takes `planMu` and calls
`planapply`, which loads intent, compiles it through the lens and runs OpenTofu in each unit. `nodr apply` does
the same in its own process. A create calls admission on the document it has written.

## 2. Modules

| Module | Models | EXTENDS / INSTANCE |
|---|---|---|
| `Operations` | the store: one action per mutating method, the queries as operators | |
| `MCOperations` | its instance for TLC | EXTENDS `Operations` |
| `OperationsProofs` | its theorems | EXTENDS `Operations`, `TLAPS` |
| `Trunk` | abstract: what the ledger promises about the default branch | |
| `Ledger` | commands, plans, applies, their goroutines, mirror, origin, runner, faults | INSTANCE `Operations`, `Trunk` |
| `MCLedger` | its instances | EXTENDS `Ledger` |
| `LedgerProofs` | its theorems: commands, refs and the store; plans, applies and the default branch | EXTENDS `Ledger`, `TLAPS`; INSTANCE `OperationsProofs` |
| `EventStream` | log, one subscriber's channel, the SSE handler, the client | |
| `EventStreamProofs` | its theorems | EXTENDS `EventStream`, `TLAPS` |
| `Webhook` | deliveries of pushes, synchronization, what is recorded | INSTANCE `Operations` |
| `MCWebhook` | its instances | EXTENDS `Webhook` |
| `WebhookProofs` | its theorems | EXTENDS `Webhook`, `TLAPS`; INSTANCE `OperationsProofs` |
| `Bootstrap` | the first run on a data directory: starts, setup requests, failures, crashes | |
| `Intent` | documents, what their authors wrote and what nodr allocates, and when they are valid | |
| `Admission` | `nodr admit`: the author's edits, the allocator value by value, the writing of files | EXTENDS `Intent` |
| `MCAdmission` | its instance | EXTENDS `Admission` |
| `AdmissionProofs` | its theorems | EXTENDS `Admission`, `TLAPS` |
| `Fleet` | abstract: what the intent commands promise their clients | |
| `LocalServer` | a server on a local workspace and the command line beside it: commands, compilation, units, OpenTofu, crashes | INSTANCE `Fleet` |
| `MCLocalServer` | its instance | EXTENDS `LocalServer` |
| `LocalServerProofs` | its theorems | EXTENDS `LocalServer`, `TLAPS` |
| `FileSync` | one machine and its managed block: Lift, Put, Render, Embed, Synchronize, compileVM, and people's edits | |
| `MCFileSync` | its instances | EXTENDS `FileSync` |
| `FileSyncProofs` | its theorems | EXTENDS `FileSync`, `TLAPS` |
| `MCBootstrap` | its instance | EXTENDS `Bootstrap` |
| `BootstrapProofs` | its theorems | EXTENDS `Bootstrap`, `TLAPS` |

**Operations.** `changesets`, `operations` and `artifacts` are functions from IDs to rows; an ID that
has no row has status `"absent"`. `events` is the events table without the payload. `clock` counts claims and stands for `created_at`, which
`LatestPlan` sorts by: the claim reads the time while it holds the store's mutex. `drafted` is auxiliary: the SHAs a changeset's draft has had. An
action is enabled exactly when the method returns no error; a refusal changes nothing. A commit has a
SHA of its own, so a draft never returns to an earlier one: `AdvanceDraft` assumes it, and
`ImplementsStore` shows that the ledger, on Git, provides it.

**Ledger.** A request is received in state `idle` and then takes one step per call on the store, the
repository or the runner; `req[r].pc` names the next one. Requests carry the operation ID they would
claim. A CompareAndSwap and a Promote are two steps (the mirror's ref, then the push) with both mutexes
held in between: `MirrorFree` says that nobody is there. The faults a run allows are a constant:
`cancel` (the client of a command disconnects, so that its context fails in the next call), `crash`,
`network` (a push fails), `lost` (a push arrives and reports an error), `external` (somebody else pushes
to the default branch). `Fetch` is what any webhook does to the mirror, at any time. `history` is the
set of ancestors of each commit and is Git's commit graph as the code asks about it (`merge-base
--is-ancestor`, fast-forward). `committed` and `started` are auxiliary.

**Trunk** knows only commits, the branch, which commits have a succeeded plan and which were run. The
refinement maps `head` to `origin.main`, `planned` to the base of every artifact whose plan operation
succeeded, `ran` to the drafts whose plan the runner began to apply.

**EventStream.** The log grows in one transaction at a time and publication follows it; the
handler subscribes, snapshots, replays in pages and then forwards live events with an ID filter. The
channel has `Buffer` places; on overflow the store drops the subscriber, the response ends and the
client reconnects with the last ID it handled.

**Webhook.** An attempt is one HTTP request of GitHub; attempts may share a delivery ID. The default
branch is a counter of commits. Faults: `error` (a call fails, of itself or because the
request's context ended; the abandoning of a changeset, whose error the code drops, may fail as well), `crash`.
`errors` counts the calls of an attempt that failed.

**Bootstrap.** A workspace directory is a record of what has been put in it: who made it, the initial
commit, the key its secrets are opened with, the state of the setup token, the administrator's account.
An attempt is a browser's request or the unattended setup of a start; its `req` entry names the next step
of `Service.Setup`. `server` is the process: its mode, what it serves, the workspace name of its
environment, `completed`. A request is received while the setup handler is current and may wait for the
mutex until after another one succeeded. Every step after the directory was made can fail; rollback
removes the directory (its own failure, which the code ignores, is left out). A person may remove a
directory that no record names while the server is down, as the design asks them to.

**Intent and Admission.** A document is split into `Declared[d]`, which its author wrote and does not
change, and the values that admission fills in, 0 or `""` while unset. Between admissions the author adds
and removes documents (`AddDocument`, `RemoveDocument`), so that a document may come back with the values its
author gave it, beside values that were allocated meanwhile. `Admit` is the call of PlanAll; each step of an allocator method is
an action (`at` names it), and `used` is the allocator, which `InUse` computes from the workspace as
`newAllocator` does. The targets go in the order of `Rank`. `errors` collects what cannot be had, and the run goes on as the code does.
The two ties the code breaks by name (the node with the least memory, the file written first) are left open. A write that fails
leaves its file as it was. MAC candidates are an operator `Hashed`, and the 65536 attempts are `Attempts`.

**LocalServer** implements **Fleet**. A request takes one step per file it opens, writes or removes and per lock it
takes, and `req[c].at` names the next one. A file of intent may hold several machines, which people wrote there. It is
written in place, as `os.WriteFile` does: opening it makes it empty (`Opens`), and a write that fails leaves the front of
what was to be written (`Tears`), with the last document cut off before its guest ID or power state, or so that the file
does not load (`broken`, which also stands for what people break). Every open, write and remove may fail. While
`createMu` is held the refinement maps `fleet` to `before`, the intent as it was when the lock was taken: that is what
a command that fails must restore. `Fleet` knows what each client has asked for (`asked`): a command either does that
and answers "ok", or changes nothing and answers "error"; "ok" without effect is for plans and applies alone. A
delete takes the whole file, with the machines that share it, as the code does. Where the disk keeps a command from
undoing what it did (a write to a file that was there fails, `vm.go:210`; the write or the remove that takes a change
back fails, `vm.go:123`, `:214`, `:241`), the answer is an error and `Fleet` allows damage (`Fail`, counted in
`failures`), and so does `Crash`: only to the file of the machine the command is about, whose machines may be gone or
cut off, and a new machine has a guest ID that was free or none.
The state units are numbered in path
order; `todo` has those that a request has still to plan or to apply, and it takes the lowest. `intent`, `code` and
`infra` are the machines in the documents, in the managed blocks and at Proxmox. OpenTofu is modelled by
what the code relies on: a plan remembers the `serial` of its state and is refused once the state has another
one, an apply that fails has done any part of its changes (`Halfway`). Documents
may be broken and blocks removed or taken over by people at any time (`EditIntent`, `EditCode`). Requests
refused before they change anything leave no trace and are left out.

**FileSync.** The schema of the block has one attribute or block of every kind that `hclmap` tells apart:
required and optional, value and pointer, an attribute with a default, one that intent cannot always express
(`bios`), a required block, an optional block, a list, and an optional attribute in either of these two
(`node_name`, `ssd`). The report has one row for all of the clone (`SameField`). An attribute is a `Cell`: absent, literal, invalid literal,
null, pinned or an expression. `Lift` reads a block as the code does, `Rows` and `Owned` are the report, `Put`
writes, `Embed` carries values back into the document. `Synchronized` is the set of results of `Synchronize`,
empty on an error. `fresh` says what ran last.

## 3. Runs

| Run | Instance | Question |
|---|---|---|
| `operations` | 1 changeset, 2 operations, 2 keys | do the store's rows and its event log stay consistent under any sequence of calls? |
| `requests` | 3 commands, 2 with one key; 2 changesets; 3 commits; cancel, crash, network, lost | one commit per key, durable successes, record behind or at the ref |
| `plans` | 1 command, 2 plans (one destructive), 1 apply; crash, lost, external | refinement of `Trunk`; promotes retained plans only |
| `finish` | 1 command, 1 plan, 2 applies; network, lost, external; fair | refinement of `Operations`; a spent plan never starts; operations end |
| `stream` | 5 events, channel of 2, 2 disconnections; fair | no gap, no repetition, everything arrives |
| `webhook` | 4 attempts of 3 deliveries, 2 pushes; every fault; fair | seen and processed mean synchronized; a delivery is synchronized or refused |
| `first_run` | 3 requests, 2 with one name; 2 names, 2 keys, 3 starts; every step may fail | what is recorded or served is complete, setup completes once, success lasts, failures leave nothing, the key is kept |
| `admission` | 4 machines, a template, 2 clusters; 3 guest IDs, 3 free addresses for 4 interfaces, 2 nodes, colliding MACs | does admission allocate what is free, once, and leave the disk valid wherever it stops? |
| `local` | 2 clients, 3 requests, 3 machines in 2 units, 2 of them in one file, 1 guest ID; any write may fail; 1 edit by hand, crash or failure to undo | does a command do what it was asked to do or leave no trace, and are plans applied in order and as shown? |
| `sync` | 1 machine, 2 disks, 2 templates; 2 edits | do synchronizing and compiling leave alone what people took over, and settle? |
| `find_*` | small instances | a sentence of the documentation that the code does not keep (section 6) |

Bounds. Two requests of a kind make every pairwise race, a third command makes a key change hands while
another changeset is edited; two plans are needed for a stale plan that finishes late, two applies for a
plan that is spent. Two commits beside the root allow one draft to be edited after it was planned, or a
foreign push beside a draft. One crash at any step reaches every state a restart can leave behind; a
second one only adds the same losses again, as nothing resumes work at startup. The channel of two overflows on the third pending
event as the channel of eight does on the ninth. `MCLedger` and `MCWebhook` use a `VIEW` without the
event log, which no handler reads. Commits other than the root are interchangeable and are a symmetry
set in the runs without liveness. In every module the system may come to rest,
when all requests have been answered and nobody sends another, so deadlock is not checked. Three starts
of the server are a first attempt, its retry and a start on what the retry recorded.

Fairness. `Ledger!FairSpec` has weak fairness of every handler and goroutine once its request has been
received: they are goroutines of the Go scheduler, and every wait is a mutex that its holder releases.
Clients, foreign pushes and faults have none. `EventStream!FairSpec` is fair to the publisher, the handler
and the client's reconnection (the browser's EventSource reconnects by itself), and `Webhook!FairSpec`
to the handlers only: GitHub may stop delivering.

`admission` has fewer guest IDs, addresses, MAC candidates and separable nodes than the documents ask for, so
every range is exhausted in some order. The documents are in two files, so that a write can fail between them. In `local` two machines share a cluster and its only guest ID, so a create is refused while the other
one is there. One guest was made before the workspace was written, as after an edit by hand, so a first plan
replaces it. The two machines of the cluster share a file, and the document of the third one names one of them, so that a
delete takes another machine with it, or must restore both. `MaxMishaps` bounds edits by hand, crashes and failures to
undo together: one of them meets every step of every command, and a second one does to a second command what the first
one did. Three requests are needed for a plan, its apply and a command between or beside them. In `sync`
two edits make any two of intent, code and a caller's change meet, or two changes of one side; a third
only repeats a pair on another attribute of a kind that is there already. A disk may be written at the next interface
but one, so that the code has a disk intent cannot say, or two disks at one interface. `Admission` has no deadlock and is
checked for it.

Every property has a mutant: a definition as a plausible bug would have it, under which the property's
own run must fail. They stand in the modules before the definition they replace.

## 4. Proofs

What is proved holds for all values of the constants that meet the assumption named in each paragraph. TLC
evaluates every assumption in a run, and has checked the inductive invariants below on the instances of the runs (of
`LocalInv` all but the types, whose sets it cannot enumerate).

| Module | Theorems that state a property of a run | Inductive invariant |
|---|---|---|
| `OperationsProofs` | `TypeCorrect`, `PlannedExactly`, `EventsAreHistory`, `FinishedFinal`, `ClosedFinal` | `RowsInv`, `ToldInv` |
| `LedgerProofs` | `LedgerTypes`, `CommitsAtMostOnce`, `AcknowledgedStays`, `RecordNeverAhead`, `LedgerUsesStore` (refines `Operations`); `TrunkIsImplemented` (refines `Trunk`), `RetainedWhenPromoted`, `SpentStaysSpent` | `LedgerInv`, `TrunkInv` |
| `EventStreamProofs` | `NeverAGap`, `QuietMeansCurrent` | `StreamInv` |
| `WebhookProofs` | `WebhookTypes`, `IgnoredWasSynced`, `ComparedWasSynced`, `SyncsStayWhole` | `WebhookInv` |
| `BootstrapProofs` | `BootstrapTypes`, `AlwaysComplete`, `NeverAdopted`, `FailuresAreUndone`, `SuccessLasts`, `KeyLasts`, `CompletedOnce` | `IInv` |
| `AdmissionProofs` | `AllocatorMissesNothing`, `ValidOnDisk`, `PlacedApart`, `HonestRefusal`, `AllOrNothing` | `AdmissionInv` |
| `FileSyncProofs` | `TakenOverStays`, `FilesSettle` | `FilesInv` |
| `LocalServerProofs` | `LocksAreUsed`, `UnitsInOrder`, `DestroyedAsShown`, `CommandsAreAtomic` (refines `Fleet`) | `LocalInv` |

**Operations** (`NoneAssumption`: no ID is `None`). `PlannedIsExact` is not inductive. `RowsInv` adds: claims hold
together (`ClaimsInv`: an operation's changeset exists, the artifact of a plan was made for the draft the
plan claimed); a changeset's draft is among those it has had and no plan names a later one (`DraftsInv`);
once a plan is bound to the current draft, every plan claimed later is too (`PlanOrderInv`); a planned
changeset has an exact plan (`PlannedHasPlan`). The point is `PlanOrderInv`: a plan claims only the current draft
and a draft never returns to an earlier SHA, so the newest plan cannot be of an older draft than a plan
that fits. `EventsTellState` needs besides that a changeset with events exists and that an operation has one
artifact event exactly when it has an artifact (`ToldInv`): a row is written and its event appended in one
transaction, so the last event about a row is that of its last write.

**Ledger** (`LedgerAssumption`: the kinds of requests are disjoint, IDs are not `None`). `LedgerInv` says: commits are
partially ordered by ancestry and every ref is at one that was made (`HistoryInv`); an operation that runs is run by
one request, also when its key was taken over by a retry (`OperationInv`); what a request holds at each step
(`TargetInv`); one request at most is between the mirror and origin (`LockInv`); the commit a request makes extends
the draft it read and is the only one of its operation (`CommitInv`); and how the recorded draft, the mirror's ref and
origin's ref of a changeset relate while commits are under way (`RefInv`). The last is what took most: the
mirror may be ahead of the record after a crash or a client that left, and after a push that arrived but
reported an error, followed by a new commit and a crash, mirror and origin may both be ahead of the record and in
different ways. What holds is that the record is behind the mirror, and that whatever is acknowledged is behind
origin. With `LedgerUsesStore`, what is proved of `Operations` holds of the rows the ledger writes.

`TrunkInv` adds what an apply knows of its plan from the step that selects it (`PlanInv`): the plan succeeded and is of the
draft that was read; before the push, the runner has the plan or the branch is there already, because another
apply of the plan moved it; while the plan runs its commit is on the branch at GitHub; the plan of an apply that ran
to its end is gone. `TrunkIsImplemented` then maps one step of each handler to a step of `Trunk` or to a stutter.

**EventStream** (`StreamAssumption`). `StreamInv`: what the client has and what is on the wire to it tell
the exposed events in order and without a gap up to the handler's filter; the replay counts on from
there; and the channel counts on from some number that is not behind the end of the replay
(`ChannelInv`). That number exists because the handler subscribes before it reads the log: an event is in the
snapshot, or in the channel, or in both, and then the filter drops it.

**Webhook** (`WebhookAssumption`: an attempt's sync commit is its own, attempts of one delivery have one target, and
`None` and `Draft` are no commits). `WebhookInv` adds that what a handler compares with, and what it is about to record, has been
synchronized (`HandlerInv`), and which commits the changeset of an attempt has had at each step (`ChangesetInv`).
The order of the code carries the proof: the sync's commit is recorded in its changeset before the branch is recorded as
processed, and that before the delivery.

**Bootstrap** (`BootstrapAssumption`). All that `first_run` checks. `IInv` adds who can be at work in each mode of
the process (`ModeInv`), that one attempt works at a time (`AloneInv`), whose
each directory is (`EmptyInv`, `HolderInv`, `MakerInv`), what a directory holds at each step (`StepInv`) and
that an attempt which can still fail works only while there is no record (`RecordInv`). The last one is why
rollback cannot remove the recorded workspace; it needs to know that a request which waits for the mutex
after a success finds `completed` set.

**Intent and Admission** (`IntentAssumption`, what the schemas and the checks of clusters, networks and environments
guarantee: finitely many documents, interfaces numbered from 1, references that resolve; `AdmissionAssumption`: ranks tell
documents apart, a MAC candidate is never 0). `AdmissionInv`: the documents as planned are valid and keep every value that is
on disk, which keeps every value that was there (`ValidInv`, `KeepInv`); the allocator holds exactly what is in use in them,
at every step (`AllocatorIsCurrent`); targets that are done, and of the current one the values that come first, are set
or have an error (`DoneInv`). Two arguments stand out. `DiskStaysValid` follows because each file on disk is as planned or
as it was, and a workspace that is valid stays so when values that admission filled in are left out again. `RefusalIsHonest`
is inductive because later assignments only use more: what could not be had then cannot be had now. The allocator keeps
the memory of each node as a running sum: `LoadAdds` proves that summing over a set with one guest more adds its memory,
by taking the least size of set for which it fails (there is no induction over data here; that a set of numbers has a
least one is proved from finite injections, `Least`).

**LocalServer** (`LocalServerAssumption`). `LocalInv`: `createMu` and `planMu` are held by the requests that are between
taking and returning them and by nobody else (`LockInv`); while a command holds the lock, intent differs from
what it was when the lock was taken by damage to the file of its machine at most, and at the steps that decide the answer it is
exactly what it was, or exactly what was asked for (`IntentInv`, by `Done`); a plan whose unit has not changed since lists every guest that
applying it destroys (`PlanInv`); an apply has applied the units it no longer has to do, and was allowed to destroy if its
plan does (`ApplyInv`). `CommandsAreAtomic` maps the answer of each command to its atomic step in `Fleet`, and the steps before
it to stuttering: the refinement mapping shows `before` while the lock is held, so a command that fails must have restored it.
The argument is about files: each operation keeps the other files (`FilesDamage`), whatever is written, or any front of
it, is about the machines of its own file (`NewFits`, `DocFits`, `FrontFits`), and what was read and is written back in
full makes intent what it was (`OverBack`). A guest ID is chosen while all other machines are there, so it is free.

**FileSync** (`FileSyncAssumption`: the first document is one, templates have different guest IDs, every attribute has a literal).
`FilesInv` says what a document and a block are; the rest is about functions. What people took over is what the report
calls code-owned, and what is not in the schema. `TakenStays` says that a synchronization keeps all of it, and a compilation all but
items that intent does not have, in which people took over no more than optional attributes with literals of the wrong type (`Misread`;
section 6). That a synchronization keeps those too is the hard part: what it writes has just been read, and a surplus item is then one
that reading leaves to the code as a whole (`FinalFits`, `SurplusFree`). `TakenOverStays` goes up
from the function that writes an attribute to those that write an item, a block and the managed block: each keeps what people took over, and
leaves the items it is in in their order (`InOrder` enumerates a set of positions, `Enumeration`). `FilesSettle` rests on one notion,
a document and a block being *in step* (`InStep`): the block says what the document does unless intent cannot say it or
people took it over, nothing nodr would fill in is null, and an item behind those of the document is one that reading leaves to the code. In step,
writing changes nothing and reading gives the document back (`InStepStays`). A compilation leaves the files in step (`CompiledInStep`,
`RenderedInStep`), and so does a synchronization, because it refuses a write that it cannot read back (`RoundTrips`;
`WrittenInStep`). The harder half is that intent then takes over only some of what was written: what is read with that intent is
in step with the block as well (`ReadInStep`) and says nothing new (`ReadSilent`), since where a value gets lost is decided by
the block alone (`LostIs`). The hypothesis `OwnInterfaces` of the part about compiling is needed; section 6 shows why.
TLC has also checked `InStep` after every compilation and synchronization of the run `sync`.

Only model-checked:

- Liveness, `OperationsFinish`, `EverythingArrives` and `DeliveredIsSynced`: fairness is about ENABLED, which is
  out of the prover's reach.
- `AppliedWasPromoted` and `CodeOwnedStays`, which do not hold (section 6).

## 5. Not modelled, and why

- Text: the editing of YAML and HCL as such, schemas, comments and layout, quantities (parsers and printers; a
  model would repeat them).
- External programs and services: OpenTofu beyond what section 2 says, GitHub's and Proxmox's REST interfaces.
- Thin layers: flags, output, web views, problem documents, decoding, configuration. Temporary checkouts.
- Secrets: envelope encryption, sequential.
- In `Admission`: errors that validation excludes before (a cluster that is missing); documents that change
  during a run.
- In `LocalServer`: intent documents other than machines, but for whether they load; a process that stops inside one
  write, which leaves what a failing write leaves; two processes have no lock between them, so that compilation and its
  writing is one step here; `provider.tf` and variables; parameters that are refused.
- In `FileSync`: tags, network interfaces and their names, cloud-init with its keys, a second level of
  nesting. Their attributes are of kinds that are modelled, but the conversions are their own.

What `PROJECT.json` marks as partly modelled has what is missing in its note; section 7 says what comes next.

## 6. Where code and documents disagree

Each is a run that TLC must find violated.

- `find_applied`: `runApply` marks the changeset applied by its ID (`internal/ledger/plan.go:216`). Edited
  and planned again while the apply runs, a draft that nobody promoted becomes applied.
- `find_null`: the report calls a required attribute that is `null` code-owned (`lens/hclmap/lift.go:156`, `:172`),
  and Put replaces it by the value of intent (`lens/hclmap/put.go:256`), where `put.go:40` says that code-owned
  attributes stay exactly as they are. Two edits suffice.

Seen while modelling and not kept as runs.

In the ledger: `AdvanceDraft` after the push runs on the request's context (`ledger/commands.go:104`), so a
client that has gone leaves the draft ref ahead of the record, and neither value of If-Match is accepted any
more (`docs/design/02-architecture.md:49`, `:72`). After a restart an apply is accepted and its operation fails
later, where the documents say `409 PLAN_CHANGED` (`docs/design/02-architecture.md:31-33`,
`docs/guides/production.md:351`). Two concurrent attempts of one delivery both synchronize and open a changeset each
(`docs/design/11-api-and-cli.md:40`). When the commit of a sync fails and so does the call that abandons its
changeset, its error is dropped (`ledger/webhook.go:160`): the request answers the first error and an open changeset
without a commit stays, which nothing closes, as after a restart in between (`SyncsAreWhole` says that it takes both
failures). Two applies with different keys may run the same plan if they
overlap (`SpentPlanNeverStarts` is the part that holds); a request that finds its key claimed but still queued
runs the other's operation (`commands.go:88`; `OneCommitPerKey` holds all the same); a client that leaves
between claim and start leaves the operation queued and its key in flight (`commands.go:93`; under the
constant `Faults = {"cancel"}` the run `finish` shows it); the checkout of a successful command is never closed
(`commands.go:169`). `docs/proposals/2026-10-02-first-run-bootstrap-design.md` calls any directory without a
completion record a startup error; an unattended start (`cli/server.go:103`) does not look, and with another
name sets up a second workspace beside the incomplete one (`RecordedIsComplete` and `NeverAdopts` hold).

On a local workspace: a write that fails leaves the files before it written, where the help of `nodr admit` says
that "admit changes no file" (`cli/commands.go:86`; `DiskStaysValid` and the last part of `AdmitOutcome` hold). A
machine that is deleted keeps its block until a person removes it, but its guest ID counts as free, so the next
machine can be given the ID of a guest that is running (`docs/design/03-resource-model.md:264` says unused in the
cluster inventory). `SetVMPowerState` writes the file in place (`commands/vm.go:210`): a write that fails leaves it empty or
cut off, with every machine in it, and the answer is an error; its comment speaks only of a workspace that fails to load
afterwards. `DeleteVM` removes the file of the machine (`vm.go:237`) and answers that this one was deleted, although other
documents in the file are gone too, unless something still refers to them. When the write or the remove that takes a change
back fails, its error is dropped (`vm.go:123`, `:214`, `:241`). `ImplementsFleet` says that it is these and no others. A plan
loads intent without `createMu` (`api/api.go:545`): it may see a machine that is not admitted yet
or a file that is open for writing, and fail or leave its machines out, or one that is rolled back afterwards, whose block stays. A stored plan that failed after its
first unit stays stored and can never complete: the state of that unit has moved on.

In synchronization, which nothing but tests calls yet: a change by the caller of a pointer that one side has not
set is passed over in silence (`sync/sync.go:132`); the removal of a clone or of a disk in the code is not mirrored
(`sync/sync.go:177`); a disk that was added in the code cannot be written into intent, nor a template be removed, nor a
machine be renamed by a caller: each of these ends in an error. `Settled` is stated of what does come out. When the code gives two
disks one interface, of which intent has one, compiling removes the surplus one (`lens/hclmap/put.go:221`); if an item
that it left alone stands behind it, that moves into its place, and the next compilation removes it too, where the test of
`lens/proxmoxvm/laws_test.go:245` says that Put is idempotent. nodr itself never writes such a block. A disk (or a clone) of
the code that intent does not have is removed although people took over an optional attribute of it with a literal of the wrong type, `ssd` or
`iothread`: `Lift` reports it as code-owned (`lens/hclmap/lift.go:159`) and `Put` would not write it (`put.go:262`), but `removable`
looks only for expressions and pins (`put.go:315`). `put.go:17-19` and `:307-308` promise a conflict instead. A required
attribute with such a literal does keep its item, because reading gives it no value. `TakenStays` names the exception.

## 7. What could come next

Models of sessions (`internal/authn`), the rest of the repository and metadata stores, network interfaces in
`FileSync`, endpoint failover (`internal/proxmox/endpoints.go`). A module that is to be proved about has its parameters
as constants with named assumptions and reaches no RECURSIVE operator.
