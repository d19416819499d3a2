CONSTANTS
  Changeset = {c1}
  Operation = {o1, o2}
  SHA = {s1, s2}
  Key = {k1, k2}
  None = None
SPECIFICATION Spec
SYMMETRY Symmetry
CHECK_DEADLOCK FALSE
INVARIANTS
  TypeOK
  PlannedIsExact
  EventsTellState
PROPERTIES
  FinishedIsFinal
  ClosedIsFinal
