\* A stale list, distinct timestamps: which children are deleted.
SPECIFICATION Spec
CONSTANTS
  MaxTime = 3
  Schedules <- EvenSchedule
  Slots <- MCSlots
  Unparsable <- MCUnparsable
  SuccessfulLimit = 1
  FailedLimit = 0
  RequeueDelay = 1
  MaxFaults = 0
  MaxRestarts = 0
  MaxEdits = 0
  FaultKinds <- NoFaults
  MaxLag = 1
  UserDeletes = FALSE
  Prompt = TRUE
PROPERTY
  KeepsNewest
CHECK_DEADLOCK FALSE
