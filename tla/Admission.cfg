CONSTANTS
  v1 = v1
  v2 = v2
  v3 = v3
  v4 = v4
  t1 = t1
  lan = lan
  main = main
  edge = edge
  Document = {v1, v2, v3, v4, t1}
  Declared <- MCDeclared
  Clusters <- MCClusters
  Networks <- MCNetworks
  Environments <- MCEnvironments
  Rank <- MCRank
  File <- MCFile
  UID = {2}
  Hashed <- MCHashed
  Attempts = 2
SPECIFICATION Spec
INVARIANTS
  TypeOK
  
  SeparatedApart
  RefusalIsHonest
  
