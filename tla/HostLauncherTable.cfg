CONSTANTS
  Paths = {hidraw0, hidraw1}
  Pids = {p1, p2, p3}
  MaxId = 3
  PidReuse = FALSE
SPECIFICATION FairSpec
INVARIANTS
  TypeOK
  UniquePath
  OrphansAlive
  NoLeakedHost
  DeathAnnounced
  AssertionsHold
PROPERTIES
  KillsOnlyItsHost
  DeathNoticed
  ImplementsSlots
