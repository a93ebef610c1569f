\* No failures, fresh caches.
SPECIFICATION FairSpec
CONSTANTS
  MaxTime = 4
  Schedules <- EvenSchedule
  Slots <- MCSlots
  Unparsable <- MCUnparsable
  SuccessfulLimit = 1
  FailedLimit = 0
  RequeueDelay = 1
  MaxFaults = 0
  MaxRestarts = 0
  MaxEdits = 0
  FaultKinds <- NoFaults
  MaxLag = 0
  UserDeletes = FALSE
  Prompt = TRUE
PROPERTIES
  OneRunPerSlot
  DueRuns
CHECK_DEADLOCK FALSE
