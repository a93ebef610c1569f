\* The status patch after a creation fails.
SPECIFICATION Spec
CONSTANTS
  MaxTime = 3
  Schedules <- EvenSchedule
  Slots <- MCSlots
  Unparsable <- MCUnparsable
  SuccessfulLimit = 1
  FailedLimit = 1
  RequeueDelay = 1
  MaxFaults = 1
  MaxRestarts = 0
  MaxEdits = 0
  FaultKinds <- Rejections
  MaxLag = 0
  UserDeletes = FALSE
  Prompt = TRUE
PROPERTY
  OneRunPerSlot
CHECK_DEADLOCK FALSE
