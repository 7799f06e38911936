CONSTANTS
  t1 = t1
  t2 = t2
  Observer = observer
  System = system
  Priority <- MCPriority
  Task = {t1}
  Worker = {w1, w2}
  Slot = {s1}
  ChatTask = {}
  MaxAttempts = 2
  MaxClaims = 2
  MaxCrashes = 1
SPECIFICATION Spec
SYMMETRY MCSymmetry
INVARIANTS
  TypeOK
  OneRunningAttempt
  ActiveTaskIsHeld
  ClaimsTracked
  CompletionByClaimant
  FencedCompletion
  FinishedRowsAgree
PROPERTIES
  ClosedAttemptsFrozen
