\* Edited schedules, deletions, a failed call, a restart; fresh caches.
SPECIFICATION Spec
CONSTANTS
  MaxTime = 2
  Schedules <- EditedSchedules
  Slots <- MCSlots
  Unparsable <- MCUnparsable
  SuccessfulLimit = 0
  FailedLimit = 0
  RequeueDelay = 1
  MaxFaults = 1
  MaxRestarts = 1
  MaxEdits = 1
  FaultKinds <- CallFaults
  MaxLag = 0
  UserDeletes = TRUE
  Prompt = FALSE
INVARIANTS
  TypeOK
  AlwaysArmed
  
PROPERTIES
  
  RunsOnSchedule
CHECK_DEADLOCK FALSE
