CONSTANTS
  Ticket = {t1}
  MaxAttempts = 1
  Profile = {p1}
  Client = {d1, d2}
  Reconciler = {d1, d2}
  SignalTarget = {}
  MaxSignals = 0
  Slots = 1
  Overlap = TRUE
  ProbeFaults = FALSE
  MaxCrashes = 1
  Run <- MCRun
  MaxConcurrency <- MCMaxConcurrency
SPECIFICATION Spec
SYMMETRY MCSymmetry
CHECK_DEADLOCK FALSE
INVARIANTS
  OneProcessPerTicket
  OverIsDead
PROPERTIES
  AttemptsInTurn
