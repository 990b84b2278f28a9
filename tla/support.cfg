CONSTANTS
  test = test
  shell = shell
  p1 = p1
  p2 = p2
  Test = test
  ShellProc = shell
  Programs <- SomePrograms
  UProcMax = 3
  Pages <- OnePage
  PoolSize = 1
  Versions = 2
  IoErrors = FALSE
  Rerun = FALSE
SPECIFICATION Spec
SYMMETRY ProgramSymmetry
INVARIANTS
  TypeOK
  TerminalExact
  NoLostStore
  FramesOwned
  SupportAccounted
  ShellWaits
