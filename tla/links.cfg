CONSTANTS
  MaxProc = 3
  UserSems = {s1}
  PseudoClock = clock
  None = None
  Prios = {0, 1}
  MaxValue = 1
  MaxSoftBlock = 3
SPECIFICATION Spec
CHECK_DEADLOCK FALSE
INVARIANTS
  WellLinked
  OneListEach
  ChildrenAgree
PROPERTIES
  ImplementsNucleus
