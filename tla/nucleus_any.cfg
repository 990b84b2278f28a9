\* Any programs: devices are shared, and their waiters may be killed.
CONSTANTS
  Pcbs = {p1, p2, p3}
  UserSems = {s1}
  Devices = {d1}
  Terminals = {d1}
  PseudoClock = clock
  None = None
  Prios = {0, 1}
  MaxValue = 1
  MaxSoftBlock = 4
  IoKills = TRUE
  ExclusiveIo = FALSE
SPECIFICATION Spec
SYMMETRY Symmetry
CHECK_DEADLOCK FALSE
INVARIANTS
  TypeOK
  IInv
  SemdAvailable
  OneTree
  HaltWhenAllDead
  PanicOnlyInDeadlock
PROPERTIES
  NoOvertaking
  KeepsPromise
