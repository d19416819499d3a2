------------------------------ MODULE Bootstrap ------------------------------
(***************************************************************************)
(* The first run of a server on a data directory: src/internal/bootstrap   *)
(* and the mode selection of src/internal/cli/server.go.                   *)
(*                                                                         *)
(* Until bootstrap.json exists, the server either sets a workspace up from *)
(* its environment before it serves, or serves the setup page and takes    *)
(* setup requests, one at a time under bootstrapSetup.mu.  An attempt is   *)
(* one of both.  It makes a workspace directory of its own and removes it  *)
(* when a later step fails; a crash leaves the directory, and a person may *)
(* then remove it.  Requests that carry a wrong token or an invalid field  *)
(* are refused before they do anything and are left out, and so is a key that  *)
(* the operator configures.                                                *)
(***************************************************************************)
EXTENDS Naturals

CONSTANTS
  Request,    \* the setup requests of the browser
  Unattended, \* the attempt a server makes with its environment
  Name,       \* workspace names
  NameOf,     \* the name each request carries
  KEK,        \* key-encryption keys
  None,
  MaxStarts   \* bound on the number of times the server is started

Attempt == Request \cup {Unattended}

ASSUME BootstrapAssumption ==
  /\ NameOf \in [Request -> Name]
  /\ Unattended \notin Request
  /\ None \notin Name \cup KEK \cup Attempt
  /\ MaxStarts \in Nat

VARIABLES
  workspaces,  \* the directories below <data-dir>/workspaces
  record,      \* the workspace that bootstrap.json names
  kek,         \* <data-dir>/kek
  server,      \* the running process: its mode, what it serves, its environment
  req,         \* where each attempt stands
  starts       \* the number of starts so far

disk == <<workspaces, record, kek>>
vars == <<workspaces, record, kek, server, req, starts>>

Workspace == [maker   : Attempt \cup {None},   \* None: there is no directory
              repo    : BOOLEAN,               \* the initial commit is made
              sealed  : KEK \cup {None},       \* the key secrets.db is opened with
              token   : {"none", "pending", "consumed"},
              account : Attempt \cup {None}]   \* the administrator, by creator

Absent == [maker |-> None, repo |-> FALSE, sealed |-> None, token |-> "none",
           account |-> None]

Down == [mode |-> "down", serves |-> None, env |-> None, completed |-> FALSE]

Made(n) == workspaces[n].maker # None

\* The name an attempt uses.
Target(r) == IF r = Unattended THEN server.env ELSE NameOf[r]

\* Steps of Service.Setup; a browser's request takes them under bootstrapSetup.mu.
Working == {"create", "commit", "open", "admin", "record", "switch", "finish",
            "rollback"}

Ended == {"ok", "failed", "refused", "cut"}

Init ==
  /\ workspaces = [n \in Name |-> Absent]
  /\ record = None
  /\ kek = None
  /\ server = Down
  /\ req = [r \in Attempt |-> "idle"]
  /\ starts = 0

Goto(r, label) == req' = [req EXCEPT ![r] = label]

\* Mutant: a key is generated whether or not there is one.
GenerateKEK(k) == kek' = k

\* The key on disk, or a new one, by rename under a file lock.
ResolveKEK(k) == kek' = IF kek = None THEN k ELSE kek

-----------------------------------------------------------------------------
(* Start (runBootstrapServer) *)

\* Setup was completed: the recorded workspace is served, whatever the
\* environment says.
StartRecorded(k) ==
  /\ record # None
  /\ ResolveKEK(k)
  /\ server' = [Down EXCEPT !.mode = "serving", !.serves = record]
  /\ UNCHANGED <<workspaces, record, req>>

\* The environment group is complete.
StartUnattended(n, k) ==
  /\ record = None
  /\ ResolveKEK(k)
  /\ server' = [Down EXCEPT !.mode = "starting", !.env = n]
  /\ Goto(Unattended, "create")
  /\ UNCHANGED <<workspaces, record>>

\* There is no environment group and no directory: the setup page, with a new
\* token.  With a directory and no record the server refuses to start.
StartSetupPage(k) ==
  /\ record = None
  /\ \A n \in Name : ~Made(n)
  /\ ResolveKEK(k)
  /\ server' = [Down EXCEPT !.mode = "setup"]
  /\ UNCHANGED <<workspaces, record, req>>

Start ==
  /\ server.mode = "down"
  /\ starts < MaxStarts
  /\ starts' = starts + 1
  /\ \E k \in KEK : \/ StartRecorded(k)
                    \/ \E n \in Name : StartUnattended(n, k)
                    \/ StartSetupPage(k)

-----------------------------------------------------------------------------
(* Setup (bootstrapHandler, Service.Setup) *)

\* The switching handler still is the setup page's when the request reads it.
Receive(r) ==
  /\ r \in Request
  /\ req[r] = "idle"
  /\ server.mode = "setup"
  /\ Goto(r, "wait")
  /\ UNCHANGED <<disk, server, starts>>

Unlocked == \A r \in Request : req[r] \notin Working

\* Mutant: what happened while the request waited for the mutex is ignored.
EnterUnchecked(r) ==
  /\ req[r] = "wait"
  /\ Unlocked
  /\ Goto(r, "create")
  /\ UNCHANGED <<disk, server, starts>>

Enter(r) ==
  /\ req[r] = "wait"
  /\ Unlocked
  /\ Goto(r, IF server.completed THEN "refused" ELSE "create")
  /\ UNCHANGED <<disk, server, starts>>

\* Mutant: a directory that is already there is used.
AdoptDirectory(r) ==
  /\ req[r] = "create"
  /\ workspaces' = [workspaces EXCEPT ![Target(r)].maker = IF @ = None THEN r ELSE @]
  /\ Goto(r, "commit")
  /\ UNCHANGED <<record, kek, server, starts>>

\* WorkspaceTarget and Mkdir.
MakeDirectory(r) ==
  /\ req[r] = "create"
  /\ ~Made(Target(r))
  /\ workspaces' = [workspaces EXCEPT ![Target(r)].maker = r]
  /\ Goto(r, "commit")
  /\ UNCHANGED <<record, kek, server, starts>>

\* An attempt without success: a server that was starting exits.
AnswerFailed(r) ==
  /\ Goto(r, "failed")
  /\ server' = IF r = Unattended THEN Down ELSE server

\* The target exists, or cannot be made: there is nothing to take back.
RefuseDirectory(r) ==
  /\ req[r] = "create"
  /\ AnswerFailed(r)
  /\ UNCHANGED <<disk, starts>>

\* The rest of CreateWorkspace: manifest, intent directory, git init, add and
\* commit.
CommitWorkspace(r) ==
  /\ req[r] = "commit"
  /\ workspaces' = [workspaces EXCEPT ![Target(r)].repo = TRUE]
  /\ Goto(r, "open")
  /\ UNCHANGED <<record, kek, server, starts>>

\* ResolveKEK again, secrets.Open, authn.Open and InitializeBootstrap, which
\* leaves the token alone once there is an account.
OpenStores(r, k) ==
  LET n == Target(r) IN
  /\ req[r] = "open"
  /\ ResolveKEK(k)
  /\ workspaces' = [workspaces EXCEPT
       ![n].sealed = kek',
       ![n].token = IF workspaces[n].account = None THEN "pending" ELSE @]
  /\ Goto(r, "admin")
  /\ UNCHANGED <<record, server, starts>>

\* authn.Store.Setup: one transaction consumes the token and creates the
\* account and a session.
CreateAdmin(r) ==
  LET n == Target(r) IN
  /\ req[r] = "admin"
  /\ workspaces[n].token = "pending"
  /\ workspaces' = [workspaces EXCEPT ![n].token = "consumed", ![n].account = r]
  /\ Goto(r, "record")
  /\ UNCHANGED <<record, kek, server, starts>>

\* Mutant: the record is written before the administrator is created.
WriteStateFirst(r) ==
  /\ req[r] \in {"admin", "record"}
  /\ record' = Target(r)
  /\ Goto(r, IF req[r] = "admin" THEN "admin" ELSE "switch")
  /\ UNCHANGED <<workspaces, kek, server, starts>>

\* Mutant: a failed write of the record is only logged.
WriteStateBestEffort(r) ==
  /\ req[r] = "record"
  /\ record' \in {record, Target(r)}
  /\ Goto(r, "switch")
  /\ UNCHANGED <<workspaces, kek, server, starts>>

\* Mutant: the path that is recorded is not relative to the data directory.
WriteAbsolutePath(r) ==
  /\ req[r] = "record"
  /\ record' = <<Target(r)>>
  /\ Goto(r, "switch")
  /\ UNCHANGED <<workspaces, kek, server, starts>>

\* Prepare opens the normal handler's stores; WriteState renames the record
\* into place.
WriteState(r) ==
  /\ req[r] = "record"
  /\ record' = Target(r)
  /\ Goto(r, "switch")
  /\ UNCHANGED <<workspaces, kek, server, starts>>

\* The normal handler takes over: the one that was prepared for a request, the
\* one for the record that is loaded again for a server that was starting.
SwitchHandler(r) ==
  /\ req[r] = "switch"
  /\ server' = [server EXCEPT !.mode = "serving",
                              !.serves = IF r = Unattended THEN record ELSE Target(r)]
  /\ Goto(r, "finish")
  /\ UNCHANGED <<disk, starts>>

\* The handler notes the completion, releases the mutex and answers.
Complete(r) ==
  /\ req[r] = "finish"
  /\ server' = [server EXCEPT !.completed = r \in Request]
  /\ Goto(r, "ok")
  /\ UNCHANGED <<disk, starts>>

\* Mutant: the attempt's directory is left when a later step fails.
FailInPlace(r) ==
  /\ req[r] \in {"commit", "open", "admin", "record"}
  /\ AnswerFailed(r)
  /\ UNCHANGED <<disk, starts>>

\* A step fails: Git, the disk, or the request's context.
FailStep(r) ==
  /\ req[r] \in {"commit", "open", "admin", "record"}
  /\ Goto(r, "rollback")
  /\ UNCHANGED <<disk, server, starts>>

\* The stores are closed and the directory is removed with all it holds,
\* which is taken to succeed; the key stays.
Rollback(r) ==
  /\ req[r] = "rollback"
  /\ workspaces' = [workspaces EXCEPT ![Target(r)] = Absent]
  /\ AnswerFailed(r)
  /\ UNCHANGED <<record, kek, starts>>

-----------------------------------------------------------------------------
\* The process stops, at any time; requests under way are cut short.
Crash ==
  /\ server.mode # "down"
  /\ server' = Down
  /\ req' = [r \in Attempt |-> IF req[r] = "idle" \/ req[r] \in Ended THEN req[r]
                               ELSE "cut"]
  /\ UNCHANGED <<disk, starts>>

\* While the server is down, a person removes a directory that no record names.
RemoveIncomplete(n) ==
  /\ server.mode = "down"
  /\ Made(n)
  /\ record # n
  /\ workspaces' = [workspaces EXCEPT ![n] = Absent]
  /\ UNCHANGED <<record, kek, server, req, starts>>

Setup(r) ==
  \/ Receive(r)
  \/ Enter(r)
  \/ MakeDirectory(r)
  \/ RefuseDirectory(r)
  \/ CommitWorkspace(r)
  \/ \E k \in KEK : OpenStores(r, k)
  \/ CreateAdmin(r)
  \/ WriteState(r)
  \/ SwitchHandler(r)
  \/ Complete(r)
  \/ FailStep(r)
  \/ Rollback(r)

Next ==
  \/ Start
  \/ \E r \in Attempt : Setup(r)
  \/ Crash
  \/ \E n \in Name : RemoveIncomplete(n)

Spec == Init /\ [][Next]_vars

-----------------------------------------------------------------------------
(* Properties *)

TypeOK ==
  /\ workspaces \in [Name -> Workspace]
  /\ record \in Name \cup {None}
  /\ kek \in KEK \cup {None}
  /\ server \in [mode : {"down", "starting", "setup", "serving"},
                 serves : Name \cup {None},
                 env : Name \cup {None},
                 completed : BOOLEAN]
  /\ req \in [Attempt -> {"idle", "wait"} \cup Working \cup Ended]
  /\ starts \in 0..MaxStarts

\* "Completion state is atomically renamed only after all preceding operations
\* succeed": wherever the process stops, the workspace that is recorded, and
\* the one that is served, has its commit, its administrator and secrets that
\* the key on disk opens.
RecordedIsComplete ==
  \A n \in Name :
    n = record \/ n = server.serves =>
      /\ workspaces[n].repo
      /\ workspaces[n].account # None
      /\ workspaces[n].sealed = kek

\* "Browser bootstrap is a one-time operation": the record never changes, also
\* when requests that were received before wait for the mutex.
CompletesOnce == [][record # None => record' = record]_vars

\* "nodr never silently adopts an incomplete directory": an administrator is
\* only created in the directory that the same attempt made.
NeverAdopts ==
  \A n \in Name :
    workspaces[n].account # None => workspaces[n].account = workspaces[n].maker

\* An attempt that was answered with an error has taken its directory back.
FailedLeavesNothing ==
  \A r \in Request : req[r] \in {"failed", "refused"} =>
    \A n \in Name : workspaces[n].maker # r

\* The answer to a successful setup holds for ever: the record names the
\* request's workspace and its administrator is the one the request created.
SuccessIsDurable ==
  \A r \in Request : req[r] = "ok" =>
    record = NameOf[r] /\ workspaces[record].account = r

\* "Reused on every retry and restart; bootstrap never replaces it": secrets
\* that any attempt left behind stay readable with the key on disk.
KeyIsKept ==
  \A n \in Name : workspaces[n].sealed # None => workspaces[n].sealed = kek
=============================================================================
