SPECIFICATION Spec
CONSTANTS
  LastSector = 2
  Data = {a, b}
INVARIANTS
  NothingSkipped
  ReadsLatest
