CONSTANTS
  r1 = r1
  r2 = r2
  r3 = r3
  home = home
  lab = lab
  Request = {r1, r2, r3}
  Unattended = Unattended
  Name = {home, lab}
  NameOf <- Names
  KEK = {k1, k2}
  None = None
  MaxStarts = 3
SPECIFICATION Spec
SYMMETRY Symmetry
CHECK_DEADLOCK FALSE
INVARIANTS
  TypeOK
  RecordedIsComplete
  NeverAdopts
  FailedLeavesNothing
  SuccessIsDurable
  KeyIsKept
PROPERTIES
  CompletesOnce
