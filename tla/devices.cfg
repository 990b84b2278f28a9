CONSTANTS
  Procs = {p1, p2, p3}
  None = None
  Devs <- InstalledDevs
SPECIFICATION FairSpec
INVARIANTS
  TypeOK
  OneWaiterPerOperation
  SoftBlockCounted
PROPERTIES
  OwnStatus
  OperationReturns
