\* Two scan workers and the worker of the scheduled controller in one process.
SPECIFICATION Spec
CONSTANTS
  s1 = s1
  s2 = s2
  Parent = Parent
  Config = Config
  None = None
  Scans <- MCScans
  MaxBusy = 2
  MaxTime = 3
  MaxFaults = 2
SYMMETRY ScanSymmetry
INVARIANTS
  MemoryTypeOK
  NothingShared
  StatusConsistent
  ConfigMapNamesItsScan
PROPERTIES
  TransitionsAreDated
CHECK_DEADLOCK FALSE
