CONSTANTS
  Run = {r1, r2}
  Profile = {p1}
  Client = {c1, c2}
  Reconciler = {}
  SignalTarget = {"ready", "unhealthy", "quota_exhausted", "disabled"}
  Slots = 1
  MaxSignals = 1
  MaxConcurrency <- MCMaxConcurrency
SPECIFICATION RegistrySpec
SYMMETRY MCSymmetry
PROPERTIES
  LeaseOnlyWhenSchedulable
