CONSTANTS
  Run = {r1, r2}
  Profile = {p1}
  Client = {c1, c2}
  Reconciler = {c1}
  SignalTarget = {}
  Slots = 1
  MaxSignals = 0
  MaxConcurrency <- MCMaxConcurrency
SPECIFICATION RegistrySpec
SYMMETRY MCRunSymmetry
INVARIANTS
  RegistryTypeOK
  CapacityRespected
  LeaseBelongsToOpenRun
