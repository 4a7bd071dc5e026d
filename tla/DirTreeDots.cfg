SPECIFICATION Spec
CONSTANTS
  TotalClusters = 13
  Fat32 = TRUE
  Dirs = {3, 5, 7}
  Files = {9, 11}
  Patterns = {"nested", "star"}
INVARIANTS
  RmSparesOthers
CHECK_DEADLOCK FALSE
