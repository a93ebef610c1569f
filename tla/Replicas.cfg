\* Processes that start, take over from one another, stop and die.
SPECIFICATION FairSpec
CONSTANTS
  Nil = Nil
  p1 = p1
  p2 = p2
  p3 = p3
  s1 = s1
  Processes <- MCProcesses
  Former = p1
  Texts <- MCTexts
  Files <- MCFiles
  Scans <- MCScans
  MaxIncarnations = 1
  MaxFaults = 1
  FaultKinds <- MCFaults
  MaxExits = 1
INVARIANTS
  ReplicasTypeOK
  OneLeader
  ConfigIsComplete
PROPERTIES
  ControllerSpec
  EventuallyStarted
CHECK_DEADLOCK FALSE
