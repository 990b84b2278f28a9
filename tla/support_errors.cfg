\* Flash operations may fail; processes and devices are fair.
CONSTANTS
  test = test
  shell = shell
  p1 = p1
  p2 = p2
  Test = test
  ShellProc = shell
  Programs <- OneProgram
  UProcMax = 2
  Pages <- OnePage
  PoolSize = 1
  Versions = 1
  IoErrors = TRUE
  Rerun = FALSE
SPECIFICATION FairSpec
CHECK_DEADLOCK FALSE
INVARIANTS
  SwapPoolExact
  ShellWaits
  DevicesExclusive
PROPERTIES
  NoIoKilled
  UsesPromisedSemaphores
  FaultServed
  ExecuteReturns
  SystemEnds
