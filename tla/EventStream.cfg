CONSTANTS
  Buffer = 2
  MaxLog = 5
  MaxDrops = 2
SPECIFICATION FairSpec
CHECK_DEADLOCK FALSE
INVARIANTS
  NoGapNoRepeat
  QuietIsCurrent
PROPERTIES
  EverythingArrives
