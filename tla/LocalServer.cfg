CONSTANTS
  a = a
  b = b
  c = c
  None = None
  Client = {p1, p2}
  Name = {a, b, c}
  UnitOf <- MCUnitOf
  Units = {1, 2}
  Ids = {1}
  Written <- MCWritten
  Made <- MCMade
  Mentions <- MCMentions
  MaxRequests = 3
  MaxMishaps = 1
SPECIFICATION Spec
SYMMETRY Symmetry
CHECK_DEADLOCK FALSE
INVARIANTS
  TypeOK
  AppliedInOrder
PROPERTIES
  ImplementsFleet
  DestroysOnlyListed
