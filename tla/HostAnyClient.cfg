CONSTANTS
  Records = {r1}
  QueueLen = 2
  MaxFails = 0
  EarlyCapture = TRUE
  DiscardFails = FALSE
SPECIFICATION FairSpec
INVARIANTS
  HostTypeOK
  EnrollingInAction
  ClosesIdle
PROPERTIES
  DoneIsStored
  CancelEndsAction
