\* A cron expression that matches no time.
SPECIFICATION Spec
CONSTANTS
  MaxTime = 3
  Schedules <- NeverSchedule
  Slots <- MCSlots
  Unparsable <- MCUnparsable
  SuccessfulLimit = 1
  FailedLimit = 1
  RequeueDelay = 1
  MaxFaults = 0
  MaxRestarts = 0
  MaxEdits = 0
  FaultKinds <- NoFaults
  MaxLag = 0
  UserDeletes = FALSE
  Prompt = TRUE
PROPERTY
  RunsOnSchedule
CHECK_DEADLOCK FALSE
