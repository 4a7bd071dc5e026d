SPECIFICATION CommitSpec
CONSTANTS
  TotalClusters = 7
  Fat32 = FALSE
  MaxFileClusters = 2
  Root = Root
  Dirs = {d1}
  Files = {f1, f2}
  MaxOps = 2
  DiesUpTo = 2
  KillDuring = {"remove"}
PROPERTIES
  NoDoubleHandout
CHECK_DEADLOCK FALSE
