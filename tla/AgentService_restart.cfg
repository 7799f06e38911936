CONSTANTS
  Ticket = {t1}
  MaxAttempts = 1
  Profile = {p1}
  Client = {d1, d2, d3}
  Reconciler = {d1, d2, d3}
  SignalTarget = {}
  MaxSignals = 0
  Slots = 1
  Overlap = FALSE
  ProbeFaults = FALSE
  MaxCrashes = 2
  Run <- MCRun
  MaxConcurrency <- MCMaxConcurrency
SPECIFICATION Spec
SYMMETRY MCSymmetry
CHECK_DEADLOCK FALSE
INVARIANTS
  TypeOK
  CompletedClosesTicket
  RunsAttended
PROPERTIES
  ResultRetained
