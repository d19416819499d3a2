-------------------------- MODULE BootstrapProofs --------------------------
(***************************************************************************)
(* Proofs about the first run of a server: what Bootstrap's properties say *)
(* holds for any set of requests, names and keys and any number of starts. *)
(***************************************************************************)
EXTENDS Bootstrap, TLAPS

(* The inductive invariant.  The record is written by an attempt that works *)
(* alone and in the directory it made, so the heart of it is that nobody     *)
(* works while there is a record (RecordInv), which needs to know who can    *)
(* still come to work in each mode (ModeInv).                                *)

\* An attempt that can still fail.
Uncertain == {"create", "commit", "open", "admin", "record", "rollback"}

\* An attempt that has made its directory and works.
Holding == Working \ {"create"}

ModeInv ==
  /\ req[Unattended] # "wait"
  /\ server.mode # "serving" => server.serves = None
  /\ \A r \in Request : req[r] \in {"wait"} \cup Working =>
       /\ server.mode \in {"setup", "serving"}
       /\ req[Unattended] \notin Working
  /\ req[Unattended] \in Working =>
       /\ server.env \in Name
       /\ \/ server.mode = "starting"
          \/ server.mode = "serving" /\ req[Unattended] = "finish"

AloneInv == \A r, s \in Attempt : req[r] \in Working /\ req[s] \in Working => r = s

EmptyInv == \A n \in Name : workspaces[n].maker = None => workspaces[n] = Absent

HolderInv == \A r \in Attempt : req[r] \in Holding => workspaces[Target(r)].maker = r

MakerInv ==
  \A r \in Request : \A n \in Name :
    workspaces[n].maker = r =>
      n = NameOf[r] /\ req[r] \notin {"idle", "wait", "create", "failed", "refused"}

\* What n holds once its setup has passed a step.
Committed(n) == workspaces[n].repo
Sealed(n) == Committed(n) /\ kek # None /\ workspaces[n].sealed = kek
Full(n) == Sealed(n) /\ workspaces[n].account # None

StepInv ==
  \A r \in Attempt :
    /\ req[r] = "open" => Committed(Target(r))
    /\ req[r] = "admin" => Sealed(Target(r))
    /\ req[r] = "record" => Full(Target(r))
    /\ req[r] \in {"switch", "finish"} => record = Target(r)

RecordInv ==
  /\ record # None => Full(record)
  /\ server.serves # None => server.serves = record
  /\ server.completed => record # None
  /\ \A r \in Attempt : req[r] \in Uncertain => record = None
  /\ /\ record # None
     /\ ~server.completed
     /\ server.mode = "setup" \/ \E r \in Request : req[r] = "wait"
     => \E s \in Request : req[s] \in {"switch", "finish"}

IInv ==
  /\ TypeOK
  /\ ModeInv
  /\ AloneInv
  /\ EmptyInv
  /\ HolderInv
  /\ MakerInv
  /\ StepInv
  /\ RecordInv
  /\ NeverAdopts
  /\ KeyIsKept
  /\ SuccessIsDurable

-----------------------------------------------------------------------------
\* At first there is nothing on the disk and nobody works.
LEMMA InitInv == Init => IInv
  BY BootstrapAssumption
  DEF Init, IInv, TypeOK, ModeInv, AloneInv, EmptyInv, HolderInv, MakerInv,
      StepInv, RecordInv, NeverAdopts, KeyIsKept, SuccessIsDurable, Attempt, Absent, Down, Working,
      Holding, Uncertain, Workspace

\* The attempt that works has a name, and works alone.
LEMMA Worker ==
  ASSUME IInv, NEW r \in Attempt, req[r] \in Working
  PROVE  /\ Target(r) \in Name
         /\ \A s \in Attempt : s # r => req[s] \notin Working
  BY BootstrapAssumption DEF IInv, TypeOK, ModeInv, AloneInv, Attempt, Target

\* A start on a recorded workspace serves what the record names, and the
\* record is complete (app.runRecordedServer).
LEMMA StartRecordedInv ==
  ASSUME IInv, NEW k \in KEK, server.mode = "down",
         starts < MaxStarts, starts' = starts + 1, StartRecorded(k)
  PROVE  IInv'
<1>. USE BootstrapAssumption DEF IInv, Attempt, Target, Goto, StartRecorded,
   ResolveKEK
<1>1. TypeOK'
  <2>1. starts' \in 0..MaxStarts
    BY DEF TypeOK
  <2>2. server' \in [mode : {"down", "starting", "setup", "serving"},
                      serves : Name \cup {None},
                      env : Name \cup {None},
                      completed : BOOLEAN]
    BY DEF TypeOK, Down
  <2>. QED BY <2>1, <2>2 DEF TypeOK
<1>2. HolderInv'
  BY DEF HolderInv, ModeInv, Holding
<1>3. StepInv'
  BY DEF StepInv, ModeInv, Working
<1>4. RecordInv'
  BY DEF RecordInv, ModeInv, Committed, Sealed, Full
<1>5. (ModeInv /\ AloneInv /\ EmptyInv /\ MakerInv /\ NeverAdopts /\
   KeyIsKept /\ SuccessIsDurable)'
  BY DEF ModeInv, AloneInv, EmptyInv, MakerInv, NeverAdopts, KeyIsKept,
     SuccessIsDurable
<1>. QED BY <1>1, <1>2, <1>3, <1>4, <1>5

\* An unattended setup begins only where there is no record, and while the
\* server takes no requests.
LEMMA StartUnattendedInv ==
  ASSUME IInv, NEW n \in Name, NEW k \in KEK, server.mode = "down",
         starts < MaxStarts, starts' = starts + 1, StartUnattended(n, k)
  PROVE  IInv'
<1>. USE BootstrapAssumption DEF IInv, Attempt, Target, Goto,
   StartUnattended, ResolveKEK
<1>1. TypeOK'
  <2>1. starts' \in 0..MaxStarts
    BY DEF TypeOK
  <2>2. server' \in [mode : {"down", "starting", "setup", "serving"},
                      serves : Name \cup {None},
                      env : Name \cup {None},
                      completed : BOOLEAN]
    BY DEF TypeOK, Down
  <2>. QED BY <2>1, <2>2 DEF TypeOK, Working
<1>2. ModeInv'
  BY DEF ModeInv, Down
<1>3. AloneInv'
  BY DEF AloneInv, ModeInv
<1>4. HolderInv'
  BY DEF HolderInv, TypeOK, Holding
<1>5. StepInv'
  BY DEF StepInv, TypeOK, Committed, Sealed, Full
<1>6. RecordInv'
  BY DEF RecordInv, Down
<1>7. (EmptyInv /\ MakerInv /\ NeverAdopts /\ KeyIsKept /\
   SuccessIsDurable)'
  BY DEF EmptyInv, MakerInv, NeverAdopts, KeyIsKept, SuccessIsDurable
<1>. QED BY <1>1, <1>2, <1>3, <1>4, <1>5, <1>6, <1>7

\* The setup page is only served where there is no record.
LEMMA StartSetupPageInv ==
  ASSUME IInv, NEW k \in KEK, server.mode = "down",
         starts < MaxStarts, starts' = starts + 1, StartSetupPage(k)
  PROVE  IInv'
<1>. USE BootstrapAssumption DEF IInv, Attempt, Target, Goto,
   StartSetupPage, ResolveKEK
<1>1. TypeOK'
  <2>1. starts' \in 0..MaxStarts
    BY DEF TypeOK
  <2>2. server' \in [mode : {"down", "starting", "setup", "serving"},
                      serves : Name \cup {None},
                      env : Name \cup {None},
                      completed : BOOLEAN]
    BY DEF TypeOK, Down
  <2>. QED BY <2>1, <2>2 DEF TypeOK
<1>2. ModeInv'
  BY DEF ModeInv, Down
<1>3. HolderInv'
  BY DEF HolderInv, TypeOK, Made, Down
<1>4. StepInv'
  BY DEF StepInv, TypeOK, EmptyInv, Committed, Sealed, Full, Made, Absent,
     Down
<1>5. RecordInv'
  BY DEF RecordInv, Down
<1>6. (AloneInv /\ EmptyInv /\ MakerInv /\ NeverAdopts /\ KeyIsKept /\
   SuccessIsDurable)'
  BY DEF AloneInv, EmptyInv, MakerInv, NeverAdopts, KeyIsKept,
     SuccessIsDurable
<1>. QED BY <1>1, <1>2, <1>3, <1>4, <1>5, <1>6

\* A request that is received while the setup page is served either finds no
\* record or somebody about to switch the handlers.
LEMMA ReceiveInv ==
  ASSUME IInv, NEW r \in Attempt, Receive(r)
  PROVE  IInv'
<1>. USE BootstrapAssumption DEF IInv, Attempt, Target, Goto, Receive, disk
<1>1. AloneInv'
  BY DEF AloneInv, Working
<1>2. HolderInv'
  BY DEF HolderInv, Working, Holding
<1>3. StepInv'
  BY DEF StepInv, Committed, Sealed, Full
<1>4. RecordInv'
  BY DEF RecordInv, Committed, Sealed, Full, Uncertain
<1>5. (TypeOK /\ ModeInv /\ EmptyInv /\ MakerInv /\ NeverAdopts /\ KeyIsKept
   /\ SuccessIsDurable)'
  BY DEF TypeOK, ModeInv, EmptyInv, MakerInv, NeverAdopts, KeyIsKept,
     SuccessIsDurable
<1>. QED BY <1>1, <1>2, <1>3, <1>4, <1>5

\* A request comes to work when nobody else does and setup is not completed,
\* so there is no record.
LEMMA EnterInv ==
  ASSUME IInv, NEW r \in Attempt, Enter(r)
  PROVE  IInv'
<1>. USE BootstrapAssumption DEF IInv, Attempt, Target, Goto, Enter,
   Unlocked, disk
<1>1. TypeOK'
  BY DEF TypeOK, Working, Ended
<1>2. AloneInv'
  BY DEF AloneInv, ModeInv
<1>3. HolderInv'
  BY DEF HolderInv, ModeInv, Working, Holding
<1>4. StepInv'
  BY DEF StepInv, ModeInv, Working
<1>5. RecordInv'
  BY DEF RecordInv, ModeInv, Committed, Sealed, Full, Working, Uncertain
<1>6. (ModeInv /\ EmptyInv /\ MakerInv /\ NeverAdopts /\ KeyIsKept /\
   SuccessIsDurable)'
  BY DEF ModeInv, EmptyInv, MakerInv, NeverAdopts, KeyIsKept,
     SuccessIsDurable
<1>. QED BY <1>1, <1>2, <1>3, <1>4, <1>5, <1>6

\* The directory an attempt makes is empty and its own.
LEMMA MakeDirectoryInv ==
  ASSUME IInv, NEW r \in Attempt, MakeDirectory(r)
  PROVE  IInv'
<1>. USE BootstrapAssumption DEF IInv, Attempt, Target, Goto, MakeDirectory,
   Made
<1>1. /\ Target(r) \in Name
      /\ req[r] \in Working
      /\ \A s \in Attempt : s # r => req[s] \notin Working
  BY Worker DEF Working
<1>2. TypeOK'
  BY <1>1 DEF TypeOK, RecordInv, Full, Workspace, Working
<1>3. ModeInv'
  BY <1>1 DEF ModeInv
<1>4. AloneInv'
  BY <1>1 DEF AloneInv
<1>5. EmptyInv'
  <2>1. ASSUME NEW m \in Name, m # Target(r)
        PROVE  workspaces'[m] = workspaces[m]
    BY <2>1 DEF TypeOK
  <2>2. workspaces'[Target(r)].maker # None
    BY <1>1 DEF TypeOK, Holding, HolderInv, Absent
  <2>. QED BY <2>1, <2>2 DEF EmptyInv
<1>6. HolderInv'
  BY <1>1 DEF HolderInv, TypeOK
<1>7. MakerInv'
  BY DEF MakerInv, TypeOK
<1>8. StepInv'
  <2>1. ASSUME NEW s \in Attempt, s # r
        PROVE  req'[s] \notin {"open", "admin", "record", "switch", "finish"}
    BY <1>1, <2>1 DEF TypeOK, Working
  <2>2. Target(r)' = Target(r)
    BY DEF TypeOK
  <2>. QED BY <2>1, <2>2 DEF StepInv
<1>9. RecordInv'
  BY DEF RecordInv, Uncertain
<1>10. (NeverAdopts /\ KeyIsKept /\ SuccessIsDurable)'
  BY DEF NeverAdopts, KeyIsKept, SuccessIsDurable
<1>. QED BY <1>2, <1>3, <1>4, <1>5, <1>6, <1>7, <1>8, <1>9, <1>10

\* An attempt that cannot make its directory owns none.
LEMMA RefuseDirectoryInv ==
  ASSUME IInv, NEW r \in Attempt, RefuseDirectory(r)
  PROVE  IInv'
<1>. USE BootstrapAssumption DEF IInv, Attempt, Target, Goto,
   RefuseDirectory, AnswerFailed, disk
<1>1. /\ Target(r) \in Name
      /\ req[r] \in Working
      /\ \A s \in Attempt : s # r => req[s] \notin Working
  BY Worker DEF Working
<1>2. TypeOK'
  BY DEF TypeOK, Down, Ended
<1>3. ModeInv'
  BY DEF ModeInv, TypeOK, Down, Working
<1>4. AloneInv'
  BY <1>1 DEF AloneInv
<1>5. HolderInv'
  BY <1>1 DEF HolderInv, Working, Holding
<1>6. StepInv'
  <2>1. ASSUME NEW s \in Attempt, s # r
        PROVE  req'[s] \notin {"open", "admin", "record", "switch", "finish"}
    BY <1>1, <2>1 DEF TypeOK, Working
  <2>. QED BY <2>1 DEF StepInv
<1>7. RecordInv'
  BY DEF RecordInv, Down, Uncertain
<1>8. SuccessIsDurable'
  BY DEF SuccessIsDurable, RecordInv, Uncertain
<1>9. (EmptyInv /\ MakerInv /\ NeverAdopts /\ KeyIsKept)'
  BY DEF EmptyInv, MakerInv, NeverAdopts, KeyIsKept
<1>. QED BY <1>2, <1>3, <1>4, <1>5, <1>6, <1>7, <1>8, <1>9

\* The commit goes to the directory the attempt made.
LEMMA CommitWorkspaceInv ==
  ASSUME IInv, NEW r \in Attempt, CommitWorkspace(r)
  PROVE  IInv'
<1>. USE BootstrapAssumption DEF IInv, Attempt, Target, Goto,
   CommitWorkspace
<1>1. /\ Target(r) \in Name
      /\ req[r] \in Working
      /\ \A s \in Attempt : s # r => req[s] \notin Working
  BY Worker DEF Working
<1>2. TypeOK'
  <2>1. workspaces[Target(r)] \in Workspace
    BY <1>1 DEF TypeOK
  <2>2. [workspaces[Target(r)] EXCEPT !.repo = TRUE] \in Workspace
    BY <2>1 DEF TypeOK, Workspace
  <2>3. workspaces' =
          [workspaces EXCEPT ![Target(r)] = [workspaces[Target(r)] EXCEPT !.repo = TRUE]]
    BY DEF TypeOK
  <2>. QED BY <1>1, <2>2, <2>3 DEF TypeOK, Working
<1>3. ModeInv'
  BY <1>1 DEF ModeInv
<1>4. AloneInv'
  BY <1>1 DEF AloneInv
<1>5. EmptyInv'
  <2>1. ASSUME NEW m \in Name, m # Target(r)
        PROVE  workspaces'[m] = workspaces[m]
    BY <2>1 DEF TypeOK
  <2>2. workspaces'[Target(r)].maker # None
    BY <1>1 DEF TypeOK, Holding, HolderInv, Absent
  <2>. QED BY <2>1, <2>2 DEF EmptyInv
<1>6. HolderInv'
  BY <1>1 DEF HolderInv, Holding
<1>7. StepInv'
  <2>1. ASSUME NEW s \in Attempt, s # r
        PROVE  req'[s] \notin {"open", "admin", "record", "switch", "finish"}
    BY <1>1, <2>1 DEF TypeOK, Working
  <2>2. Target(r)' = Target(r)
    BY DEF TypeOK
  <2>. QED BY <1>1, <2>1, <2>2 DEF StepInv, TypeOK, Committed
<1>8. RecordInv'
  BY DEF RecordInv, Uncertain
<1>9. (MakerInv /\ NeverAdopts /\ KeyIsKept /\ SuccessIsDurable)'
  BY DEF MakerInv, NeverAdopts, KeyIsKept, SuccessIsDurable
<1>. QED BY <1>2, <1>3, <1>4, <1>5, <1>6, <1>7, <1>8, <1>9

\* There is no record yet, and a key that sealed anything is used again.
LEMMA OpenStoresInv ==
  ASSUME IInv, NEW r \in Attempt, NEW k \in KEK, OpenStores(r, k)
  PROVE  IInv'
<1>. USE BootstrapAssumption DEF IInv, Attempt, Target, Goto, OpenStores,
   ResolveKEK
<1>1. /\ Target(r) \in Name
      /\ req[r] \in Working
      /\ \A s \in Attempt : s # r => req[s] \notin Working
  BY Worker DEF Working
<1>2. TypeOK'
  <2>1. workspaces[Target(r)] \in Workspace
    BY <1>1 DEF TypeOK
  <2>2. [workspaces[Target(r)] EXCEPT !.sealed = kek',
         !.token = IF workspaces[Target(r)].account = None THEN "pending" ELSE @] \in Workspace
    <3>1. kek' \in KEK
      BY DEF TypeOK
    <3>2. CASE workspaces[Target(r)].account = None
      BY <2>1, <3>1, <3>2 DEF Workspace
    <3>3. CASE workspaces[Target(r)].account # None
      BY <2>1, <3>1, <3>3 DEF Workspace
    <3>. QED BY <3>2, <3>3
  <2>3. workspaces' =
          [workspaces EXCEPT ![Target(r)] = [workspaces[Target(r)] EXCEPT !.sealed = kek',
         !.token = IF workspaces[Target(r)].account = None THEN "pending" ELSE @]]
    BY DEF TypeOK
  <2>. QED BY <1>1, <2>2, <2>3 DEF TypeOK, Working
<1>3. ModeInv'
  BY <1>1 DEF ModeInv
<1>4. AloneInv'
  BY <1>1 DEF AloneInv
<1>5. EmptyInv'
  <2>1. ASSUME NEW m \in Name, m # Target(r)
        PROVE  workspaces'[m] = workspaces[m]
    BY <2>1 DEF TypeOK
  <2>2. workspaces'[Target(r)].maker # None
    BY <1>1 DEF TypeOK, Holding, HolderInv, Absent
  <2>. QED BY <2>1, <2>2 DEF EmptyInv
<1>6. HolderInv'
  BY <1>1 DEF HolderInv, TypeOK, Holding
<1>7. MakerInv'
  BY DEF MakerInv, TypeOK
<1>8. StepInv'
  <2>1. ASSUME NEW s \in Attempt, s # r
        PROVE  req'[s] \notin {"open", "admin", "record", "switch", "finish"}
    BY <1>1, <2>1 DEF TypeOK, Working
  <2>2. Target(r)' = Target(r)
    BY DEF TypeOK
  <2>. QED BY <1>1, <2>1, <2>2 DEF StepInv, Committed, Sealed, TypeOK
<1>9. RecordInv'
  BY DEF RecordInv, Uncertain
<1>10. NeverAdopts'
  BY DEF NeverAdopts, TypeOK
<1>11. KeyIsKept'
  BY DEF KeyIsKept, TypeOK
<1>12. SuccessIsDurable'
  BY DEF SuccessIsDurable, TypeOK
<1>. QED BY <1>2, <1>3, <1>4, <1>5, <1>6, <1>7, <1>8, <1>9, <1>10, <1>11,
   <1>12

\* The administrator is created in the directory of the same attempt.
LEMMA CreateAdminInv ==
  ASSUME IInv, NEW r \in Attempt, CreateAdmin(r)
  PROVE  IInv'
<1>. USE BootstrapAssumption DEF IInv, Attempt, Target, Goto, CreateAdmin
<1>1. /\ Target(r) \in Name
      /\ req[r] \in Working
      /\ \A s \in Attempt : s # r => req[s] \notin Working
  BY Worker DEF Working
<1>2. TypeOK'
  <2>1. workspaces[Target(r)] \in Workspace
    BY <1>1 DEF TypeOK
  <2>2. [workspaces[Target(r)] EXCEPT !.token = "consumed", !.account = r] \in Workspace
    BY <2>1 DEF TypeOK, Workspace
  <2>3. workspaces' =
          [workspaces EXCEPT ![Target(r)] = [workspaces[Target(r)] EXCEPT !.token = "consumed", !.account = r]]
    BY DEF TypeOK
  <2>. QED BY <1>1, <2>2, <2>3 DEF TypeOK, Working
<1>3. ModeInv'
  BY <1>1 DEF ModeInv
<1>4. AloneInv'
  BY <1>1 DEF AloneInv
<1>5. EmptyInv'
  <2>1. ASSUME NEW m \in Name, m # Target(r)
        PROVE  workspaces'[m] = workspaces[m]
    BY <2>1 DEF TypeOK
  <2>2. workspaces'[Target(r)].maker # None
    BY <1>1 DEF TypeOK, Holding, HolderInv, Absent
  <2>. QED BY <2>1, <2>2 DEF EmptyInv
<1>6. HolderInv'
  BY <1>1 DEF HolderInv, TypeOK, Holding
<1>7. MakerInv'
  BY DEF MakerInv, TypeOK
<1>8. StepInv'
  <2>1. ASSUME NEW s \in Attempt, s # r
        PROVE  req'[s] \notin {"open", "admin", "record", "switch", "finish"}
    BY <1>1, <2>1 DEF TypeOK, Working
  <2>2. Target(r)' = Target(r)
    BY DEF TypeOK
  <2>. QED BY <1>1, <2>1, <2>2 DEF StepInv, TypeOK, Committed, Sealed, Full
<1>9. RecordInv'
  BY DEF RecordInv, Uncertain
<1>10. NeverAdopts'
  BY DEF NeverAdopts, TypeOK, Workspace
<1>11. KeyIsKept'
  BY DEF KeyIsKept, TypeOK
<1>12. SuccessIsDurable'
  BY DEF SuccessIsDurable, TypeOK, Workspace
<1>. QED BY <1>2, <1>3, <1>4, <1>5, <1>6, <1>7, <1>8, <1>9, <1>10, <1>11,
   <1>12

\* What is recorded has passed every step before.
LEMMA WriteStateInv ==
  ASSUME IInv, NEW r \in Attempt, WriteState(r)
  PROVE  IInv'
<1>. USE BootstrapAssumption DEF IInv, Attempt, Target, Goto, WriteState
<1>1. /\ Target(r) \in Name
      /\ req[r] \in Working
      /\ \A s \in Attempt : s # r => req[s] \notin Working
  BY Worker DEF Working
<1>2. TypeOK'
  BY DEF TypeOK, Working
<1>3. ModeInv'
  BY <1>1 DEF ModeInv
<1>4. AloneInv'
  BY <1>1 DEF AloneInv
<1>5. HolderInv'
  BY <1>1 DEF HolderInv, Holding
<1>6. StepInv'
  <2>1. ASSUME NEW s \in Attempt, s # r
        PROVE  req'[s] \notin {"open", "admin", "record", "switch", "finish"}
    BY <1>1, <2>1 DEF TypeOK, Working
  <2>2. Target(r)' = Target(r)
    BY DEF TypeOK
  <2>. QED BY <2>1, <2>2 DEF StepInv, TypeOK
<1>7. RecordInv'
  BY <1>1 DEF RecordInv, TypeOK, ModeInv, StepInv, Committed, Sealed, Full,
     Working, Uncertain
<1>8. SuccessIsDurable'
  BY DEF SuccessIsDurable, RecordInv, Uncertain
<1>9. (EmptyInv /\ MakerInv /\ NeverAdopts /\ KeyIsKept)'
  BY DEF EmptyInv, MakerInv, NeverAdopts, KeyIsKept
<1>. QED BY <1>2, <1>3, <1>4, <1>5, <1>6, <1>7, <1>8, <1>9

\* What the new handler serves is what is recorded.
LEMMA SwitchHandlerInv ==
  ASSUME IInv, NEW r \in Attempt, SwitchHandler(r)
  PROVE  IInv'
<1>. USE BootstrapAssumption DEF IInv, Attempt, Target, Goto, SwitchHandler,
   disk
<1>1. /\ Target(r) \in Name
      /\ req[r] \in Working
      /\ \A s \in Attempt : s # r => req[s] \notin Working
  BY Worker DEF Working
<1>2. TypeOK'
  BY DEF TypeOK, Working
<1>3. ModeInv'
  BY <1>1 DEF ModeInv, TypeOK
<1>4. AloneInv'
  BY <1>1 DEF AloneInv
<1>5. HolderInv'
  BY <1>1 DEF HolderInv, Holding
<1>6. StepInv'
  <2>1. ASSUME NEW s \in Attempt, s # r
        PROVE  req'[s] \notin {"open", "admin", "record", "switch", "finish"}
    BY <1>1, <2>1 DEF TypeOK, Working
  <2>2. Target(r)' = Target(r)
    BY DEF TypeOK
  <2>. QED BY <2>1, <2>2 DEF StepInv
<1>7. RecordInv'
  BY DEF RecordInv, StepInv, Committed, Sealed, Full, Uncertain
<1>8. SuccessIsDurable'
  BY <1>1 DEF SuccessIsDurable, HolderInv, StepInv, NeverAdopts, Holding
<1>9. (EmptyInv /\ MakerInv /\ NeverAdopts /\ KeyIsKept)'
  BY DEF EmptyInv, MakerInv, NeverAdopts, KeyIsKept
<1>. QED BY <1>2, <1>3, <1>4, <1>5, <1>6, <1>7, <1>8, <1>9

\* The success that is answered is recorded.
LEMMA CompleteInv ==
  ASSUME IInv, NEW r \in Attempt, Complete(r)
  PROVE  IInv'
<1>. USE BootstrapAssumption DEF IInv, Attempt, Target, Goto, Complete, disk
<1>1. /\ Target(r) \in Name
      /\ req[r] \in Working
      /\ \A s \in Attempt : s # r => req[s] \notin Working
  BY Worker DEF Working
<1>2. TypeOK'
  <2>1. server'.completed \in BOOLEAN
    BY DEF TypeOK
  <2>. QED BY <2>1 DEF TypeOK, Working, Ended
<1>3. ModeInv'
  BY DEF ModeInv, Working
<1>4. AloneInv'
  BY <1>1 DEF AloneInv
<1>5. HolderInv'
  BY <1>1 DEF HolderInv, TypeOK, Working, Holding
<1>6. StepInv'
  <2>1. ASSUME NEW s \in Attempt, s # r
        PROVE  req'[s] \notin {"open", "admin", "record", "switch", "finish"}
    BY <1>1, <2>1 DEF TypeOK, Working
  <2>2. Target(r)' = Target(r)
    BY DEF TypeOK
  <2>. QED BY <2>1, <2>2 DEF StepInv, TypeOK
<1>7. RecordInv'
  BY <1>1 DEF RecordInv, TypeOK, ModeInv, StepInv, Committed, Sealed, Full,
     Uncertain
<1>8. SuccessIsDurable'
  <2>1. r \in Request => record = NameOf[r] /\ workspaces[record].account = r
    BY DEF StepInv, RecordInv, NeverAdopts, HolderInv, Holding, Working,
       Full
  <2>. QED BY <2>1 DEF SuccessIsDurable, TypeOK
<1>9. (EmptyInv /\ MakerInv /\ NeverAdopts /\ KeyIsKept)'
  BY DEF EmptyInv, MakerInv, NeverAdopts, KeyIsKept
<1>. QED BY <1>2, <1>3, <1>4, <1>5, <1>6, <1>7, <1>8, <1>9

\* An attempt that fails still holds its directory.
LEMMA FailStepInv ==
  ASSUME IInv, NEW r \in Attempt, FailStep(r)
  PROVE  IInv'
<1>. USE BootstrapAssumption DEF IInv, Attempt, Target, Goto, FailStep, disk
<1>1. /\ Target(r) \in Name
      /\ req[r] \in Working
      /\ \A s \in Attempt : s # r => req[s] \notin Working
  BY Worker DEF Working
<1>2. TypeOK'
  BY DEF TypeOK, Working
<1>3. ModeInv'
  BY <1>1 DEF ModeInv
<1>4. AloneInv'
  BY <1>1 DEF AloneInv
<1>5. HolderInv'
  BY <1>1 DEF HolderInv, Holding
<1>6. StepInv'
  <2>1. ASSUME NEW s \in Attempt, s # r
        PROVE  req'[s] \notin {"open", "admin", "record", "switch", "finish"}
    BY <1>1, <2>1 DEF TypeOK, Working
  <2>2. Target(r)' = Target(r)
    BY DEF TypeOK
  <2>. QED BY <2>1, <2>2 DEF StepInv, TypeOK
<1>7. RecordInv'
  BY DEF RecordInv, Uncertain
<1>8. SuccessIsDurable'
  BY DEF SuccessIsDurable, RecordInv, Uncertain
<1>9. (EmptyInv /\ MakerInv /\ NeverAdopts /\ KeyIsKept)'
  BY DEF EmptyInv, MakerInv, NeverAdopts, KeyIsKept
<1>. QED BY <1>2, <1>3, <1>4, <1>5, <1>6, <1>7, <1>8, <1>9

\* What is removed is the attempt's own directory, and it is not recorded.
LEMMA RollbackInv ==
  ASSUME IInv, NEW r \in Attempt, Rollback(r)
  PROVE  IInv'
<1>. USE BootstrapAssumption DEF IInv, Attempt, Target, Goto, Rollback,
   AnswerFailed
<1>1. /\ Target(r) \in Name
      /\ req[r] \in Working
      /\ \A s \in Attempt : s # r => req[s] \notin Working
  BY Worker DEF Working
<1>2. TypeOK'
  BY DEF TypeOK, Absent, Down, Workspace, Ended
<1>3. ModeInv'
  BY DEF ModeInv, TypeOK, Down, Working
<1>4. AloneInv'
  BY <1>1 DEF AloneInv
<1>5. EmptyInv'
  <2>1. ASSUME NEW m \in Name, m # Target(r)
        PROVE  workspaces'[m] = workspaces[m]
    BY <2>1 DEF TypeOK
  <2>2. workspaces'[Target(r)] = Absent
    BY <1>1 DEF TypeOK, Holding, HolderInv, Absent
  <2>. QED BY <2>1, <2>2 DEF EmptyInv
<1>6. HolderInv'
  BY DEF HolderInv, TypeOK, Working, Holding
<1>7. MakerInv'
  BY DEF MakerInv, TypeOK, Absent
<1>8. StepInv'
  <2>1. ASSUME NEW s \in Attempt, s # r
        PROVE  req'[s] \notin {"open", "admin", "record", "switch", "finish"}
    BY <1>1, <2>1 DEF TypeOK, Working
  <2>. QED BY <2>1 DEF StepInv
<1>9. RecordInv'
  BY DEF RecordInv, Down, Uncertain
<1>10. NeverAdopts'
  BY DEF NeverAdopts, Absent
<1>11. KeyIsKept'
  BY DEF KeyIsKept, Absent
<1>12. SuccessIsDurable'
  BY <1>1 DEF SuccessIsDurable, HolderInv, NeverAdopts, Holding
<1>. QED BY <1>2, <1>3, <1>4, <1>5, <1>6, <1>7, <1>8, <1>9, <1>10, <1>11,
   <1>12

\* A process that stops leaves nobody at work and takes nothing from disk.
LEMMA CrashInv ==
  ASSUME IInv, Crash
  PROVE  IInv'
<1>. USE BootstrapAssumption DEF IInv, Attempt, Target, Goto, Crash, disk
<1>1. TypeOK'
  BY DEF TypeOK, Down, Ended
<1>2. ModeInv'
  BY DEF ModeInv, Down, Working, Ended
<1>3. AloneInv'
  BY DEF AloneInv, Working
<1>4. HolderInv'
  BY DEF HolderInv, Working, Holding, Ended
<1>5. StepInv'
  BY DEF StepInv, Ended
<1>6. RecordInv'
  BY DEF RecordInv, Committed, Sealed, Full, Down, Uncertain, Ended
<1>7. (EmptyInv /\ MakerInv /\ NeverAdopts /\ KeyIsKept /\
   SuccessIsDurable)'
  BY DEF EmptyInv, MakerInv, NeverAdopts, KeyIsKept, SuccessIsDurable
<1>. QED BY <1>1, <1>2, <1>3, <1>4, <1>5, <1>6, <1>7

\* A person removes only what is not recorded.
LEMMA RemoveIncompleteInv ==
  ASSUME IInv, NEW n \in Name, RemoveIncomplete(n)
  PROVE  IInv'
<1>. USE BootstrapAssumption DEF IInv, Attempt, Target, Goto,
   RemoveIncomplete
<1>1. TypeOK'
  BY DEF TypeOK, Absent, Workspace
<1>2. EmptyInv'
  <2>1. ASSUME NEW m \in Name, m # n
        PROVE  workspaces'[m] = workspaces[m]
    BY <2>1 DEF TypeOK
  <2>2. workspaces'[n] = Absent
    BY DEF TypeOK, Holding, HolderInv, Absent
  <2>. QED BY <2>1, <2>2 DEF EmptyInv
<1>3. HolderInv'
  BY DEF HolderInv, ModeInv, Holding
<1>4. MakerInv'
  BY DEF MakerInv, Absent
<1>5. StepInv'
  BY DEF StepInv, ModeInv, Working
<1>6. RecordInv'
  BY DEF RecordInv, Committed, Sealed, Full
<1>7. NeverAdopts'
  BY DEF NeverAdopts, Absent
<1>8. KeyIsKept'
  BY DEF KeyIsKept, Absent
<1>9. (ModeInv /\ AloneInv /\ SuccessIsDurable)'
  BY DEF ModeInv, AloneInv, SuccessIsDurable
<1>. QED BY <1>1, <1>2, <1>3, <1>4, <1>5, <1>6, <1>7, <1>8, <1>9

-----------------------------------------------------------------------------
\* Every step keeps the invariant.
LEMMA NextInv == IInv /\ [Next]_vars => IInv'
<1>. SUFFICES ASSUME IInv, [Next]_vars PROVE IInv'
  OBVIOUS
<1>1. CASE Start
  BY <1>1, StartRecordedInv, StartUnattendedInv, StartSetupPageInv DEF Start
<1>2. ASSUME NEW r \in Attempt, Setup(r) PROVE IInv'
  BY <1>2, ReceiveInv, EnterInv, MakeDirectoryInv, RefuseDirectoryInv,
     CommitWorkspaceInv, OpenStoresInv, CreateAdminInv, WriteStateInv,
     SwitchHandlerInv, CompleteInv, FailStepInv, RollbackInv DEF Setup
<1>3. CASE Crash
  BY <1>3, CrashInv
<1>4. ASSUME NEW n \in Name, RemoveIncomplete(n) PROVE IInv'
  BY <1>4, RemoveIncompleteInv
<1>5. CASE UNCHANGED vars
  BY <1>5 DEF IInv, TypeOK, ModeInv, AloneInv, EmptyInv, HolderInv, MakerInv,
     StepInv, RecordInv, NeverAdopts, KeyIsKept, SuccessIsDurable, Committed,
     Sealed, Full, Target, vars
<1>. QED BY <1>1, <1>2, <1>3, <1>4, <1>5 DEF Next

\* The inductive invariant holds in every behavior of the server and its data
\* directory.
THEOREM Invariant == Spec => []IInv
  BY InitInv, NextInv, PTL DEF Spec

\* The directories, the record, the key, the process and the attempts are
\* always of their types (Service.Setup, runBootstrapServer).
THEOREM BootstrapTypes == Spec => []TypeOK
<1>1. IInv => TypeOK
  BY DEF IInv
<1>. QED BY <1>1, Invariant, PTL

\* Wherever the process stops or a step fails, what bootstrap.json names and
\* what is served is a complete workspace (WriteState, prepareNormal).
THEOREM AlwaysComplete == Spec => []RecordedIsComplete
<1>1. IInv => RecordedIsComplete
  BY BootstrapAssumption
  DEF IInv, TypeOK, RecordInv, Full, Sealed, Committed, RecordedIsComplete
<1>. QED BY <1>1, Invariant, PTL

\* No attempt creates its administrator in a directory another one made
\* (WorkspaceTarget).
THEOREM NeverAdopted == Spec => []NeverAdopts
<1>1. IInv => NeverAdopts
  BY DEF IInv
<1>. QED BY <1>1, Invariant, PTL

\* A request that was answered with an error has left no directory
\* (Service.Setup's rollback).
THEOREM FailuresAreUndone == Spec => []FailedLeavesNothing
<1>1. IInv => FailedLeavesNothing
  BY DEF IInv, MakerInv, FailedLeavesNothing
<1>. QED BY <1>1, Invariant, PTL

\* What a successful answer said stays true across restarts and other
\* requests (bootstrapHandler).
THEOREM SuccessLasts == Spec => []SuccessIsDurable
<1>1. IInv => SuccessIsDurable
  BY DEF IInv
<1>. QED BY <1>1, Invariant, PTL

\* Whatever was sealed by any attempt opens with the key on disk (ResolveKEK).
THEOREM KeyLasts == Spec => []KeyIsKept
<1>1. IInv => KeyIsKept
  BY DEF IInv
<1>. QED BY <1>1, Invariant, PTL

\* Once setup is completed no request and no start changes the record
\* (bootstrapHandler, runBootstrapServer).
THEOREM CompletedOnce == Spec => CompletesOnce
<1>1. IInv /\ [Next]_vars => [record # None => record' = record]_vars
  <2>. SUFFICES ASSUME IInv, Next, record # None PROVE record' = record
    BY DEF vars
  <2>1. CASE Start
    BY <2>1 DEF Start, StartRecorded, StartUnattended, StartSetupPage
  <2>2. ASSUME NEW r \in Attempt, Setup(r) PROVE record' = record
    <3>1. ~WriteState(r)
      BY DEF IInv, RecordInv, Uncertain, WriteState
    <3>. QED BY <2>2, <3>1
         DEF Setup, Receive, Enter, MakeDirectory, RefuseDirectory,
             CommitWorkspace, OpenStores, CreateAdmin, SwitchHandler, Complete,
             FailStep, Rollback, disk
  <2>3. CASE Crash
    BY <2>3 DEF Crash, disk
  <2>4. ASSUME NEW n \in Name, RemoveIncomplete(n) PROVE record' = record
    BY <2>4 DEF RemoveIncomplete
  <2>. QED BY <2>1, <2>2, <2>3, <2>4 DEF Next
<1>. QED BY <1>1, Invariant, PTL DEF Spec, CompletesOnce
=============================================================================
