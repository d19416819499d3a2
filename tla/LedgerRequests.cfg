CONSTANTS
  r1 = r1
  r2 = r2
  r3 = r3
  p1 = p1
  p2 = p2
  a1 = a1
  a2 = a2
  k1 = k1
  k2 = k2
  None = None
  Commands = {r1, r2, r3}
  Plans = {}
  Applies = {}
  Changeset = {c1, c2}
  SHA = {s0, s1, s2}
  Root = s0
  Key = {k1, k2}
  KeyOf <- SharedKeys
  Destructive <- SomeDestructive
  Approved <- SomeApproved
  Faults = {"cancel", "crash", "lost", "network"}
  MaxCrashes = 1
SPECIFICATION Spec
SYMMETRY Symmetry
VIEW View
CHECK_DEADLOCK FALSE
INVARIANTS
  TypeOK
  OneCommitPerKey
  AcknowledgedIsDurable
  RecordFollowsRef
