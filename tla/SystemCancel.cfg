CONSTANTS
  Records = {r1}
  QueueLen = 3
  MaxFails = 1
  EarlyCapture = FALSE
  DiscardFails = TRUE
  MaxId = 1
  MaxCancels = 1
  MaxSleeps = 0
  Events = {"crash"}
SPECIFICATION FairSpec
PROPERTIES
  SentCancelEnds
CHECK_DEADLOCK FALSE
