CONSTANTS
  w1 = w1
  w1again = w1again
  w2 = w2
  w3 = w3
  d1 = d1
  d2 = d2
  d3 = d3
  n1 = n1
  n1again = n1again
  n2 = n2
  n3 = n3
  None = None
  Draft = Draft
  Attempt = {w1, w1again, w2, w3}
  DeliveryOf <- AllDeliveries
  Target <- AllTargets
  MaxPush = 2
  Dirty = {1}
  SyncSHA = {n1, n1again, n2, n3}
  SyncOf <- AllSyncs
  Faults = {"error", "crash"}
SPECIFICATION FairSpec
CHECK_DEADLOCK FALSE
INVARIANTS
  TypeOK
  SeenWasSynced
  ProcessedWasSynced
  SyncsAreWhole
PROPERTIES
  DeliveredIsSynced
