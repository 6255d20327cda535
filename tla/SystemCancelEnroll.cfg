CONSTANTS
  Records = {r1, r2}
  QueueLen = 4
  MaxFails = 0
  EarlyCapture = FALSE
  DiscardFails = FALSE
  MaxId = 1
  MaxCancels = 1
  MaxSleeps = 0
  Events = {}
SPECIFICATION Spec
PROPERTIES
  EnrolledIsStored
CHECK_DEADLOCK FALSE
