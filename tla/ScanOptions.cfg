\* One failing call or one changed or broken ConfigMap, a reused name.
SPECIFICATION OptionsFairSpec
CONSTANTS
  s1 = s1
  m1 = m1
  Scans <- OneScan
  ConfigMaps <- OneConfigMap
  Contents <- SomeContents
  Specs <- TwoSpecs
  MaxIncarnations = 2
  MaxFaults = 1
  MaxOptionFailures = 3
  MaxRestarts = 0
  FaultKinds <- CallFaults
  MaxConcurrentReconciles = 5
INVARIANTS
  OptionsTypeOK
  
  RunningIsRunning
PROPERTIES
  
  EventuallyFinished
  ControllerSpec
CHECK_DEADLOCK FALSE
