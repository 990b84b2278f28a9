CONSTANTS
  test = test
  shell = shell
  p1 = p1
  p2 = p2
  Test = test
  ShellProc = shell
  Programs <- OneProgram
  UProcMax = 2
  Pages <- OnePage
  PoolSize = 1
  Versions = 2
  IoErrors = FALSE
  Rerun = TRUE
SPECIFICATION Spec
CHECK_DEADLOCK FALSE
INVARIANTS
  TlbAgrees
