\* The operator restarts in the middle of a scan.
SPECIFICATION Spec
CONSTANTS
  s1 = s1
  s2 = s2
  Scans <- OneScan
  MaxIncarnations = 1
  MaxFaults = 0
  MaxRestarts = 1
  FaultKinds <- AllFaults
  MaxConcurrentReconciles = 5
INVARIANT
  RunningIsRunning
CHECK_DEADLOCK FALSE
