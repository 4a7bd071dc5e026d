------------------------------ MODULE FatEntry ------------------------------
(***************************************************************************)
(* The FAT as bytes: how large fat_format makes it, and how cluster_next   *)
(* and cluster_next_set find an entry of 12, 16 or 32 bits in it.  Two     *)
(* entries of FAT12 share a byte.                                          *)
(***************************************************************************)
EXTENDS Integers

CONSTANTS
  SectorSize,          \* opt_sector_size
  SectorsPerCluster,   \* mbr->sectors_per_cluster
  Reserved,            \* mbr->reserved_sector_count
  RootDirSectors,      \* root_dir_size_sectors of FAT12 and FAT16
  SectorCounts,        \* the sizes of volumes that are formatted, in sectors
  MaxUsed              \* bound: how many entries are used after formatting

ASSUME SectorSizeAssumption == SectorSize \in Nat \ {0}
ASSUME SectorsPerClusterAssumption == SectorsPerCluster \in Nat \ {0}
ASSUME ReservedAssumption == Reserved \in Nat /\ RootDirSectors \in Nat
ASSUME SectorCountsAssumption == SectorCounts \subseteq Nat
ASSUME MaxUsedAssumption == MaxUsed \in Nat

VARIABLES
  type,         \* fat_type(disk): 12, 16 or 32
  sectorCount,  \* sector_count_total(disk)
  fatSectors,   \* fat_size_sectors(disk)
  fat,          \* the bytes of disk->fat
  cluster,      \* the loop variable of fat_format
  pc            \* "size" the FAT, "format" it, "ready" for use

volume == <<type, sectorCount>>
vars == <<volume, fatSectors, fat, cluster, pc>>

----------------------------------------------------------------------------
(* Geometry.                                                               *)

FatBytes == fatSectors * SectorSize

\* There are two copies of the FAT; FAT32 has no region for the root.
TotalClusters ==
  (sectorCount
     - (Reserved + 2 * fatSectors + (IF type = 32 THEN 0 ELSE RootDirSectors)))
  \div SectorsPerCluster

\* disk_command_format's first guess, for volume sizes below the reserves, too.
FirstFatBytes(t, count) ==
  LET clusters == count \div SectorsPerCluster
  IN  CASE t = 12 -> (3 * clusters) \div 2
        [] t = 16 -> 2 * clusters
        [] t = 32 -> 4 * clusters

\* Where entry c starts.
Offset(c) ==
  IF type = 12 THEN c + (c \div 2) ELSE IF type = 16 THEN 2 * c ELSE 4 * c

EntryBytes == IF type = 32 THEN 4 ELSE 2

\* All of entry c is in the FAT.
Fits(c) == Offset(c) + EntryBytes <= FatBytes

----------------------------------------------------------------------------
(* Entries.                                                                *)

EndMark ==
  CASE type = 12 -> 4088           \* 0xFF8
    [] type = 16 -> 65528          \* 0xFFF8
    [] type = 32 -> 268435448      \* 0x0FFFFFF8

\* The largest number an entry can hold.
MaxValue == IF type = 12 THEN 4095 ELSE IF type = 16 THEN 65535 ELSE 268435455

\* What is after the FAT in memory does not matter: here it is 0.
Byte(i) == IF i \in DOMAIN fat THEN fat[i] ELSE 0

Word(i) == Byte(i) + 256 * Byte(i + 1)

\* The offset wraps around at the end of the FAT.
Place(c) == Offset(c) % FatBytes

\* A slip: an odd entry is taken for an even one.
ClusterNext12Even(c) == Word(Place(c)) % 4096

ClusterNext12(c) ==
  IF c % 2 = 1 THEN Word(Place(c)) \div 16 ELSE Word(Place(c)) % 4096

ClusterNext(c) ==
  IF type = 12 THEN ClusterNext12(c)
  ELSE IF type = 16 THEN Word(Place(c))
  ELSE Word(Place(c)) + 65536 * (Word(Place(c) + 2) % 4096)

\* A slip: the bits of the next entry are not kept.
PackedAlone(c, v) ==
  IF type # 12 THEN v
  ELSE IF c % 2 = 1 THEN 16 * v + (Word(Place(c)) % 16)
  ELSE v % 4096

\* The word that is stored: on FAT12 it keeps the four bits that are not c's.
Packed(c, v) ==
  IF type # 12 THEN v
  ELSE IF c % 2 = 1 THEN 16 * v + (Word(Place(c)) % 16)
  ELSE (v % 4096) + 4096 * (Word(Place(c)) \div 4096)

\* A slip: the upper bytes take all that is left.
ByteOfLong(w, k) ==
  IF k = 0 THEN w % 256 ELSE IF k = 1 THEN w \div 256 ELSE w \div 65536

\* Byte k of w, the lowest first.
ByteOf(w, k) ==
  IF k = 0 THEN w % 256
  ELSE IF k = 1 THEN (w \div 256) % 256
  ELSE IF k = 2 THEN (w \div 65536) % 256
  ELSE (w \div 16777216) % 256

ClusterNextSet(c, v) ==
  LET place == Place(c)
  IN  fat' = [i \in DOMAIN fat |->
                IF i \in place .. (place + EntryBytes - 1)
                THEN ByteOf(Packed(c, v), i - place) ELSE fat[i]]

----------------------------------------------------------------------------
Init ==
  /\ type \in {12, 16, 32}
  /\ sectorCount \in SectorCounts
  /\ fatSectors = FirstFatBytes(type, sectorCount) \div SectorSize
  /\ fatSectors > 0                    \* else DIE("disk is too small any FAT")
  /\ TotalClusters >= 0    \* with fewer sectors it would wrap around; none has
  /\ fat = <<>> /\ cluster = 0 /\ pc = "size"

\* A slip: the end of the FAT is taken to be where its last entry starts.
FatTooSmallByOne == Offset(TotalClusters - 1) > FatBytes

FatTooSmall == Offset(TotalClusters) > FatBytes

\* A slip: the wrong one of the two sizes in the boot record.
GrowFatNot ==
  /\ pc = "size"
  /\ FatTooSmall
  /\ UNCHANGED vars

\* "Ensure that our FAT can address the full disk."
GrowFat ==
  /\ pc = "size"
  /\ FatTooSmall
  /\ fatSectors' = fatSectors + 1
  /\ UNCHANGED <<volume, fat, cluster, pc>>

\* fat_read: whatever was on the disk before.
ReadFat ==
  /\ pc = "size"
  /\ ~FatTooSmall
  /\ \E stale \in {0, 255} : fat' = [i \in 0 .. (FatBytes - 1) |-> stale]
  /\ pc' = "format"
  /\ UNCHANGED <<volume, fatSectors, cluster>>

\* Its "Attempt to write to FAT beyond end of disk" is not reached: the first
\* data sector is at least four clusters into the volume, and the last entry is
\* that of a cluster of the volume.
FormatEntry ==
  /\ pc = "format"
  /\ cluster < TotalClusters
  /\ ClusterNextSet(cluster, IF cluster <= 2 THEN EndMark ELSE 0)
  /\ cluster' = cluster + 1
  /\ UNCHANGED <<volume, fatSectors, pc>>

FormatDone ==
  /\ pc = "format"
  /\ cluster >= TotalClusters
  /\ pc' = "ready"
  /\ UNCHANGED <<volume, fatSectors, fat, cluster>>

\* FatTable's steps; dirents_grow uses entry 0 for the root of FAT12 and FAT16.
Use(c, v) ==
  /\ pc = "ready"
  /\ ClusterNextSet(c, v)
  /\ UNCHANGED <<volume, fatSectors, cluster, pc>>

\* The last of them, where the FAT may end within an entry.
Used == {0} \cup {c \in 2 .. (TotalClusters - 1) : c >= TotalClusters - MaxUsed}

Values == {0, EndMark, TotalClusters - 1}

Next ==
  \/ GrowFat \/ ReadFat \/ FormatEntry \/ FormatDone
  \/ \E c \in Used, v \in Values : Use(c, v)

Spec == Init /\ [][Next]_vars

FairSpec ==
  Spec /\ WF_vars(GrowFat \/ ReadFat \/ FormatEntry \/ FormatDone)

----------------------------------------------------------------------------
(* Properties.                                                             *)

TypeOK ==
  /\ type \in {12, 16, 32}
  /\ sectorCount \in Nat
  /\ fatSectors \in Nat \ {0}
  /\ pc \in {"size", "format", "ready"}
  /\ cluster \in Nat
  /\ pc # "size" => fat \in [0 .. (FatBytes - 1) -> 0 .. 255]

\* The loop of fat_format that "ensures that our FAT can address the full disk"
\* leaves room for all of each entry, except for the last entry of a FAT12 with
\* an odd number of clusters that ends on the last byte of the FAT.
EveryEntryFits ==
  pc # "size" =>
    \A c \in 0 .. (TotalClusters - 1) :
      Fits(c) \/ (type = 12 /\ c % 2 = 0 /\ c = TotalClusters - 1
                  /\ FatBytes = Offset(TotalClusters))

\* What cluster_next_set stores in an entry is what cluster_next finds there, if
\* the entry has the bits for it.
WhatIsSetIsRead ==
  [][\A c \in Used, v \in Values :
       Use(c, v) /\ Fits(c) /\ v \in 0 .. MaxValue => ClusterNext(c)' = v]_vars

\* Each entry is a cell of its own: cluster_next_set changes what cluster_next
\* finds in the entry it is given, and in no other.
Cells == INSTANCE FatCells WITH
  cells <- IF pc = "size" THEN <<>>
           ELSE [c \in {d \in 0 .. (TotalClusters - 1) : Fits(d)} |-> ClusterNext(c)]

ImplementsCells == Cells!Spec

\* The FAT stops growing.
FormatEnds == <>(pc = "ready")
=============================================================================
