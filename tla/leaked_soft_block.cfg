\* A process that waits for a device is terminated; then the rest deadlocks.
CONSTANTS
  Pcbs = {p1, p2, p3}
  UserSems = {s1}
  Devices = {d1}
  Terminals = {d1}
  PseudoClock = clock
  None = None
  Prios = {0}
  MaxValue = 1
  MaxSoftBlock = 3
  IoKills = TRUE
  ExclusiveIo = TRUE
SPECIFICATION Spec
SYMMETRY Symmetry
CHECK_DEADLOCK FALSE
INVARIANTS
  DeadlockDetected
