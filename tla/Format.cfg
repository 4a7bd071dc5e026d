SPECIFICATION Spec
CONSTANTS
  SectorSize = 16
  Word = 1024
  Big = 65536
  Low = 8
  High = 20
  NPart = 3
  Asks <- MCAsks
  Totals <- MCTotals
  Pads = {0, 2}
  Chunk = 4
  Jump = 2
  Slack = 4
  MinLoader = 2
  Reserved = 1
  RootSectors = 1
  RootZero = 4
  Spc <- MCSpc
  Steps <- MCSteps
INVARIANT PartitionsApart
INVARIANT InsideDisk
INVARIANT ZeroCovers
INVARIANT VolumesKept
INVARIANT RootEmpty
PROPERTY FormatEnds
CHECK_DEADLOCK FALSE
