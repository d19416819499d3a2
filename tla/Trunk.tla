------------------------------- MODULE Trunk -------------------------------
(***************************************************************************)
(* What the ledger promises about the default branch, whatever drafts,     *)
(* plans, retries and failures lie behind it: the branch only moves        *)
(* forward; apart from pushes made outside nodr it only moves to a commit  *)
(* that was planned; and a plan only runs once its commit is on the        *)
(* branch ("promotes the reviewed draft to the default branch ... and then *)
(* runs it", README).                                                      *)
(***************************************************************************)
CONSTANTS
  SHA,    \* commit SHAs
  Root    \* the head of the default branch when the workspace is connected

VARIABLES
  history,  \* [SHA -> SUBSET SHA]: a commit and its ancestors; {} if not made yet
  head,     \* the default branch at origin
  planned,  \* commits with a successful saved plan
  ran       \* commits whose saved plan the runner has started to apply

vars == <<history, head, planned, ran>>

Made(s) == history[s] # {}

\* A commit n on top of parent p.
NewCommit(n, p) ==
  /\ ~Made(n)
  /\ Made(p)
  /\ history' = [history EXCEPT ![n] = history[p] \cup {n}]

Init ==
  /\ history = [s \in SHA |-> IF s = Root THEN {Root} ELSE {}]
  /\ head = Root
  /\ planned = {}
  /\ ran = {}

\* Somebody writes a draft commit.
Write(n, p) == NewCommit(n, p) /\ UNCHANGED <<head, planned, ran>>

Plan(s) ==
  /\ Made(s)
  /\ planned' = planned \cup {s}
  /\ UNCHANGED <<history, head, ran>>

Promote(s) ==
  /\ s \in planned
  /\ head \in history[s]
  /\ head' = s
  /\ UNCHANGED <<history, planned, ran>>

Run(s) ==
  /\ s \in planned
  /\ s \in history[head]
  /\ ran' = ran \cup {s}
  /\ UNCHANGED <<history, head, planned>>

\* Somebody else pushes a commit of their own on top of the branch.
Push(n) ==
  /\ NewCommit(n, head)
  /\ head' = n
  /\ UNCHANGED <<planned, ran>>

Next ==
  \/ \E n, p \in SHA : Write(n, p)
  \/ \E s \in SHA : Plan(s) \/ Promote(s) \/ Run(s) \/ Push(s)

Spec == Init /\ [][Next]_vars
=============================================================================
