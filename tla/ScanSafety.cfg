\* Reused names, every kind of failure, a restart.
SPECIFICATION Spec
CONSTANTS
  s1 = s1
  s2 = s2
  Scans <- OneScan
  MaxIncarnations = 2
  MaxFaults = 2
  MaxRestarts = 1
  FaultKinds <- AllFaults
  MaxConcurrentReconciles = 5
INVARIANTS
  TypeOK
  ConditionsMatchPhase
  CompletedWasConfigured
  InductiveInvariant
  ConfigMapsBounded
CHECK_DEADLOCK FALSE
