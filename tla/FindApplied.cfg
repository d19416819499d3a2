CONSTANTS
  r1 = r1
  r2 = r2
  r3 = r3
  p1 = p1
  p2 = p2
  a1 = a1
  a2 = a2
  k1 = k1
  k2 = k2
  None = None
  Commands = {r1}
  Plans = {p1, p2}
  Applies = {a1}
  Changeset = {c1}
  SHA = {s0, s1}
  Root = s0
  Key = {k1, k2}
  KeyOf <- SharedKeys
  Destructive <- SomeDestructive
  Approved <- SomeApproved
  Faults = {}
  MaxCrashes = 0
SPECIFICATION Spec
SYMMETRY Symmetry
VIEW View
CHECK_DEADLOCK FALSE
INVARIANTS
  AppliedWasPromoted
