CONSTANTS
  Req = {r1, r2, r3}
  Flush = Flush
  None = None
  CancelAny = TRUE
  MayRefuse = FALSE
  MaxSubmits = 4
  NbClusters = 26
  L2Size = 2
  ClusterSectors = 3
  VmStateSize = {1}
  Name = {"a", "b"}
  ReopenAllowed = TRUE
  MaxOps = 5
SPECIFICATION DiskSpec
INVARIANTS
  
  NoLostWakeup
  RefcountsExact
  CopiedIsExact
PROPERTIES
  WaitEnds
  
