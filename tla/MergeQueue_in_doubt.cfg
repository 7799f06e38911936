CONSTANTS
  b1 = b1
  b2 = b2
  i1 = i1
  i2 = i2
  j1 = j1
  Item = {i1}
  Batch = {b1}
  Worker = {}
  Unallocated = {}
  BatchOf <- MCBatchOf
  Pos <- MCPos
  DependsOn <- MCDependsOn
  OffBatch = {}
  ByHand = {}
  MaxRev = 1
  MaxToken = 1
  MaxExternal = 0
  MaxPending = 1
SPECIFICATION FairSpec
CHECK_DEADLOCK FALSE
PROPERTIES
  InDoubtResolves
