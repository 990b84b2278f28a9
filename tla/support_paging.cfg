CONSTANTS
  test = test
  shell = shell
  p1 = p1
  p2 = p2
  Test = test
  ShellProc = shell
  Programs <- OneProgram
  UProcMax = 2
  Pages <- TwoPages
  PoolSize = 2
  Versions = 2
  IoErrors = FALSE
  Rerun = FALSE
SPECIFICATION Spec
CONSTRAINT NoTerminalCalls
INVARIANTS
  PageTableAgrees
  TlbAgrees
  NoLostStore
PROPERTIES
  ImplementsPrivateMemory
