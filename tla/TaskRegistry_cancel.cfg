CONSTANTS
  t1 = t1
  t2 = t2
  Observer = observer
  System = system
  Priority <- MCPriority
  Task = {t1}
  Worker = {w1}
  Slot = {s1}
  ChatTask = {}
  MaxAttempts = 1
  MaxClaims = 1
  MaxCrashes = 0
SPECIFICATION Spec
PROPERTIES
  CancelIsFinal
