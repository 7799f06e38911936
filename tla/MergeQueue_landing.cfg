CONSTANTS
  b1 = b1
  b2 = b2
  i1 = i1
  i2 = i2
  j1 = j1
  Item = {i1, i2, j1}
  Batch = {b1, b2}
  Worker = {}
  Unallocated = {i2}
  BatchOf <- MCBatchOf
  Pos <- MCPos
  DependsOn <- MCDependsOn
  OffBatch = {j1}
  ByHand = {i2}
  MaxRev = 1
  MaxToken = 1
  MaxExternal = 1
  MaxPending = 1
SPECIFICATION Spec
CHECK_DEADLOCK FALSE
INVARIANTS
  TypeOK
  OneActiveEpoch
  CursorSound
PROPERTIES
  FrozenTarget
  TerminalStays
  LandsBatches
