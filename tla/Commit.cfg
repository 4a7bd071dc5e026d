SPECIFICATION CommitSpec
CONSTANTS
  TotalClusters = 7
  Fat32 = FALSE
  MaxFileClusters = 2
  Root = Root
  Dirs = {d1}
  Files = {f1, f2}
  MaxOps = 2
  DiesUpTo = 1
  KillDuring = {"add"}
INVARIANTS
  FilesIntact
  HandsOn
PROPERTIES
  NoDoubleHandout
SYMMETRY FilesAlike
CHECK_DEADLOCK FALSE
