CONSTANTS
  Ticket = {t1, t2}
  MaxAttempts = 0
  Profile = {p1}
  Client = {d1, d2}
  Reconciler = {d1, d2}
  SignalTarget = {}
  MaxSignals = 0
  Slots = 1
  Overlap = FALSE
  ProbeFaults = FALSE
  MaxCrashes = 0
  Run <- MCRun
  MaxConcurrency <- MCMaxConcurrency
SPECIFICATION FairSpec
CHECK_DEADLOCK FALSE
PROPERTIES
  ExitNoticed
  AdmissionSettles
