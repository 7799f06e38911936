CONSTANTS
  t1 = t1
  t2 = t2
  Observer = observer
  System = system
  Priority <- MCPriority
  Task = {t1}
  Worker = {w1}
  Slot = {s1}
  ChatTask = {t1}
  MaxAttempts = 2
  MaxClaims = 2
  MaxCrashes = 1
SPECIFICATION FairSpec
PROPERTIES
  StuckTaskRecovered
