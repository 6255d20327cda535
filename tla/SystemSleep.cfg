CONSTANTS
  Records = {r1}
  QueueLen = 2
  MaxFails = 0
  EarlyCapture = FALSE
  DiscardFails = FALSE
  MaxId = 1
  MaxCancels = 0
  MaxSleeps = 2
  Events = {"slow"}
SPECIFICATION Spec
INVARIANTS
  KnowsItsHost
  InhibitsSleep
CHECK_DEADLOCK FALSE
