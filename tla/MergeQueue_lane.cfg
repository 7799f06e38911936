CONSTANTS
  b1 = b1
  b2 = b2
  i1 = i1
  i2 = i2
  j1 = j1
  Item = {i1}
  Batch = {b1}
  Worker = {i1}
  Unallocated = {}
  BatchOf <- MCBatchOf
  Pos <- MCPos
  DependsOn <- MCDependsOn
  OffBatch = {i1}
  ByHand = {i1}
  MaxRev = 2
  MaxToken = 2
  MaxExternal = 1
  MaxPending = 1
SPECIFICATION FairSpec
CHECK_DEADLOCK FALSE
INVARIANTS
  CreditIsLanded
  LandingNeverForgotten
PROPERTIES
  DoubtSettles
  ReconcileCloses
