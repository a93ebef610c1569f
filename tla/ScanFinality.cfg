\* Two scans and one worker, names used once, no lost answers.
SPECIFICATION FairSpec
CONSTANTS
  s1 = s1
  s2 = s2
  Scans <- TwoScans
  MaxIncarnations = 1
  MaxFaults = 2
  MaxRestarts = 1
  FaultKinds <- KnownFaults
  MaxConcurrentReconciles = 1
PROPERTIES
  LifecycleSpec
  EventuallyStarted
CHECK_DEADLOCK FALSE
