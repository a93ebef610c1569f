\* Two runs that may overlap, two outputs, failures and deaths.
SPECIFICATION FairSpec
CONSTANTS
  r1 = r1
  r2 = r2
  a = a
  b = b
  Runs <- TwoRuns
  Configs <- MCConfigs
  Reports <- MCReports
  MaxFaults = 1
  MaxIncarnations = 1
INVARIANTS
  TypeOK
  OutputsComplete
  CompletedOutputsExist
  SummariesAgree
  SendsNeverBlock
PROPERTY
  ExportReturns
CHECK_DEADLOCK FALSE
