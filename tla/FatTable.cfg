SPECIFICATION FairSpec
CONSTANTS
  TotalClusters = 7
  Fat32 = TRUE
  MaxFileClusters = 3
  Root = Root
  Dirs = {d1}
  Files = {f1, f2}
INVARIANTS
  TypeOK
  NoCrossLink
  NoDangling
  NoOrphan
  ChainMatchesSize
PROPERTIES
  DieOnlyWhenFull
  CommandEnds
  ImplementsStore
CHECK_DEADLOCK FALSE
