CONSTANTS
  Records = {r1}
  QueueLen = 2
  MaxFails = 0
  EarlyCapture = FALSE
  DiscardFails = FALSE
  MaxId = 2
  MaxCancels = 0
  MaxSleeps = 0
  Events = {"crash", "exit", "no_fd"}
SPECIFICATION FairSpec
INVARIANTS
  QuietBetweenActions
  ProtocolKept
PROPERTIES
  StrandsNoHost
  DeathEndsAction
  CloseEnds
CHECK_DEADLOCK FALSE
