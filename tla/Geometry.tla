------------------------------ MODULE Geometry ------------------------------
(***************************************************************************)
(* The layout of a FAT volume as fat.c and disk.c compute it from its boot *)
(* record: reserved sectors, the copies of the FAT, the root directory of  *)
(* FAT12/16, and the clusters.  A boot record b is                         *)
(*                                                                         *)
(*   [spc, reserved, fats, rootSectors, total, fat16, fat32]               *)
(*                                                                         *)
(* where fat16 and fat32 are the two fields that hold the size of a FAT    *)
(* and rootSectors is number_of_dirents, in sectors.  Volumes that the     *)
(* program formats and its arithmetic on them: Format.  The entries inside *)
(* a FAT: FatEntry.                                                        *)
(***************************************************************************)
EXTENDS Integers

CONSTANTS
  SectorSize,   \* bytes in a sector
  Word,         \* a uint32_t counts modulo Word (2^32)
  Big,          \* a uint64_t counts modulo Big (2^64)
  Low, High     \* 4085 and 65525: fewer clusters than Low are FAT12, than
                \* High FAT16

ASSUME GeometryAssumption ==
  /\ {SectorSize, Word, Big, Low, High} \subseteq Nat \ {0}
  /\ Word % SectorSize = 0
  /\ Big % Word = 0

NotFat == 0     \* the type of a partition that holds no FAT volume

U32(n) == n % Word

FatSizeSectors(b) == IF b.fat16 # 0 THEN b.fat16 ELSE b.fat32

SectorRootDir(b) == b.reserved + b.fats * FatSizeSectors(b)

SectorCountData(b) ==
  (b.total - (SectorRootDir(b) + b.rootSectors)) % Big

TotalClusters(b) ==
  IF b.spc = 0 THEN 0 ELSE U32(SectorCountData(b) \div b.spc)

ByClusters(b) ==
  IF TotalClusters(b) < Low THEN 12
  ELSE IF b.fat16 # 0 \/ TotalClusters(b) < High THEN 16 ELSE 32

\* The type of a volume in a partition of type os: the partition table
\* decides, except that a FAT32 with the FAT size of a FAT12/16 is not one.
\* os is NotFat if no partition has been chosen.
FatType(b, os) ==
  IF os \in {12, 16} THEN os
  ELSE IF os = 32 /\ b.fat16 = 0 THEN 32
  ELSE ByClusters(b)

SectorFirstData(b, os) ==
  SectorRootDir(b) + IF FatType(b, os) = 32 THEN 0 ELSE b.rootSectors

ClusterToSector(b, os, cluster) ==
  U32(SectorFirstData(b, os) + U32(cluster) * b.spc)

\* The byte at which a sector is found from the start of its volume, and so
\* the sector that is really read or written: the product of the two 32-bit
\* numbers is taken in 32 bits.
Far(sector) == U32(U32(sector) * SectorSize) \div SectorSize

\* Bytes of FAT needed for a number of entries.
FatBytes(type, entries) ==
  IF type = 12 THEN U32(entries + entries \div 2)
  ELSE IF type = 16 THEN U32(2 * entries) ELSE U32(4 * entries)

WithFat(b, type, sectors) ==
  IF type = 32 THEN [b EXCEPT !.fat32 = sectors]
               ELSE [b EXCEPT !.fat16 = sectors]

\* Whether the FAT holds an entry for every cluster; each sector it has
\* leaves less for them.
FatHolds(b, type) ==
  FatBytes(type, TotalClusters(b)) <= FatSizeSectors(b) * SectorSize
=============================================================================
