CONSTANTS
  TotalClusters = 7
  Fat32 = TRUE
  SectorsPerCluster = 2
  MaxLen = 7
SPECIFICATION FairSpec
INVARIANTS WrittenOnce ComesOutAsItWentIn SizeRespected OnlyDamagedFilesFail
PROPERTY CommandEnds
CHECK_DEADLOCK FALSE
