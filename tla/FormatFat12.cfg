SPECIFICATION Spec
CONSTANTS
  SectorSize = 512
  Word = 16777216
  Big = 268435456
  Low = 4085
  High = 65525
  NPart = 1
  Asks <- Fat12Asks
  Totals <- Fat12Totals
  Pads = {0}
  Chunk = 1024
  Jump = 20
  Slack = 1024
  MinLoader = 63
  Reserved = 32
  RootSectors = 32
  RootZero = 1024
  Spc <- Fat12Spc
  Steps <- MCSteps
INVARIANT ClustersFitType
CHECK_DEADLOCK FALSE
