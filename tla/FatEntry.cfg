CONSTANTS
  SectorSize = 16
  SectorsPerCluster = 1
  Reserved = 1
  RootDirSectors = 1
  SectorCounts = {10, 11, 12, 13, 15, 16}
  MaxUsed = 4
SPECIFICATION FairSpec
INVARIANTS TypeOK EveryEntryFits
PROPERTIES WhatIsSetIsRead ImplementsCells FormatEnds
