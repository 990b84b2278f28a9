\* Programs that keep the contract; the timers and devices are fair.
CONSTANTS
  Pcbs = {p1, p2, p3}
  UserSems = {s1}
  Devices = {d1, d2}
  Terminals = {d1}
  PseudoClock = clock
  None = None
  Prios = {0}
  MaxValue = 1
  MaxSoftBlock = 3
  IoKills = FALSE
  ExclusiveIo = TRUE
SPECIFICATION FairSpec
CHECK_DEADLOCK FALSE
INVARIANTS
  NobodyLost
  SoftBlockExact
  WaitHasWakeup
PROPERTIES
  ReadyEventuallyRuns
  SoftBlockEnds
