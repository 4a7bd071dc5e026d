------------------------------- MODULE Format -------------------------------
(***************************************************************************)
(* The command format: command_format in main.c lays partitions out on a   *)
(* disk, disk_command_format in command.c zeroes each one, writes its boot *)
(* loader, its boot record, its FAT and its entry in the partition table,  *)
(* and main then opens every partition for the summary.                    *)
(*                                                                         *)
(* The disk is a file of sectors (img); the partition table, which is part *)
(* of sector 0, is kept beside it (table), and a write to sector 0 clears  *)
(* it.  Sizes of partitions and of the disk are bytes, as in the code;     *)
(* everything on the disk is sectors.  Every state between two writes is a *)
(* state of the model, so an invariant also says what the disk holds if    *)
(* the program is killed there.                                            *)
(***************************************************************************)
EXTENDS Geometry, FiniteSets, FiniteSetsExt

CONSTANTS
  NPart,        \* MAX_PARTITON: partitions in the table
  Asks,         \* what may be asked of a partition (see Ask)
  Totals,       \* sizes of the disk, in bytes
  Pads,         \* values of --offset, in sectors; 0: not given
  Chunk,        \* sectors zeroed in one write (1024)
  Jump,         \* chunks after which the zeroing may jump to the end (20)
  Slack,        \* sectors a large partition is shortened by (1024)
  MinLoader,    \* least sectors kept for a boot loader (63)
  Reserved,     \* reserved_sector_count of a new volume (32)
  RootSectors,  \* sectors of the root directory of FAT12/16 (32)
  RootZero,     \* sectors zeroed from the root directory on (ONE_K)
  Steps,        \* type -> the sizes at which clusters get larger
  Spc           \* type -> sectors per cluster, by the Steps a volume has reached

Parts == 0 .. NPart - 1
Types == {NotFat, 12, 16, 32}

\* What the arguments ask of a partition: used (part), its size in bytes (0:
\* none given), its type, the length of its boot loader in sectors (0: none),
\* and zero.
Ask == [used : BOOLEAN, size : Nat, os : Types, loader : Nat, zero : BOOLEAN]

ASSUME FormatAssumption ==
  /\ NPart \in 1 .. 4
  /\ Asks \subseteq Ask
  /\ Totals \subseteq Nat \ {0} /\ Pads \subseteq Nat
  /\ {Chunk, Jump, MinLoader, Reserved, RootSectors, RootZero}
       \subseteq Nat \ {0}
  /\ Slack \in Nat
  /\ \A os \in Types :
       /\ IsFiniteSet(Steps[os]) /\ Steps[os] \subseteq Nat
       /\ Spc[os] \in [0 .. Cardinality(Steps[os]) -> Nat \ {0}]

\* What fat_format's arithmetic rests on: sizes of clusters are powers of two,
\* small beside a word of 32 bits, as are the sectors that belong to no cluster;
\* and so much is zeroed behind the first FATs that each can grow by a sector.
ASSUME VolumeAssumption ==
  /\ 16 <= SectorSize
  /\ 8 * (Reserved + RootSectors) <= Word
  /\ RootSectors + 2 <= RootZero
  /\ \A os \in Types : \A n \in {Spc[os][k] : k \in 0 .. Cardinality(Steps[os])} :
       (Big \div Word) % n = 0 /\ 64 * n <= Word /\ n + 2 <= RootZero

VARIABLES
  ask, total, pad,      \* the arguments
  used, size,           \* opt_disk_partition_used, _size
  first, last, next,    \* opt_disk_sector_start, _end; sector_start
  pc, cur,              \* where command_format is, and at which partition
  disk,                 \* the disk_t being formatted
  zap,                  \* the loop that zeroes it
  img, table,           \* the disk
  made                  \* history: the volumes formatted so far

args   == <<ask, total, pad>>
layout == <<used, size, first, last, next>>
vars   == <<args, layout, pc, cur, disk, zap, img, table, made>>

-----------------------------------------------------------------------------
(* What a sector holds.                                                    *)

Old  == [kind |-> "old"]       \* what the device held before
Zero == [kind |-> "zero"]
Loader(p)   == [kind |-> "loader", of |-> p]
BootRec(b)  == [kind |-> "boot", of |-> b]
FatOf(p, t) == [kind |-> "fat", of |-> p, type |-> t]

Empty == [os |-> NotFat, lba |-> 0, count |-> 0]
NoTable == [p \in Parts |-> Empty]

Span(from, n) == from .. from + n - 1

\* A write of content c to the sectors S, through file_write_at.
Write(S, c) ==
  /\ img' = [s \in DOMAIN img \cup S |-> IF s \in S THEN c ELSE img[s]]
  /\ table' = IF 0 \in S THEN NoTable ELSE table

Sectors(p) == U32(size[p] \div SectorSize)

\* A sum over some of the entries of the table, which are never more than four.
Sum4(f, S) ==
  LET Of(p) == IF p \in S THEN f[p] ELSE 0 IN Of(0) + Of(1) + Of(2) + Of(3)

Total(S) == Sum4(size, S)
Count(S) == Sum4([p \in Parts |-> 1], S)
-----------------------------------------------------------------------------
(* Layout: main.c.                                                         *)

NoDisk == [offset |-> 0, first |-> 0, last |-> 0, mbr |-> 0,
           parts |-> NoTable, boot |-> Zero]

Init ==
  /\ ask \in [Parts -> Asks] /\ total \in Totals /\ pad \in Pads
  /\ used = [p \in Parts |-> ask[p].used]
  /\ size = [p \in Parts |-> ask[p].size]
  /\ first = [p \in Parts |-> 0] /\ last = first /\ next = 0
  /\ pc = "default" /\ cur = 0
  /\ disk = NoDisk /\ zap = [sector |-> 0, chunk |-> 0, jumped |-> FALSE]
  /\ img \in {[s \in 0 .. (total - 1) \div SectorSize |-> c] : c \in {Old, Zero}}
  /\ table = NoTable /\ made = <<>>

\* With no partition asked for, partition 0 is the whole disk.
Default ==
  /\ pc = "default" /\ pc' = "share"
  /\ IF \E p \in Parts : used[p]
     THEN UNCHANGED <<used, size>>
     ELSE used' = [used EXCEPT ![0] = TRUE] /\ size' = [size EXCEPT ![0] = total]
  /\ UNCHANGED <<args, first, last, next, cur, disk, zap, img, table, made>>

Unsized == {p \in Parts : used[p] /\ size[p] = 0}
Left == (total - Total({p \in Parts : used[p]})) % Big

\* Partitions without a size share what is left, if anything is.
Share ==
  /\ pc = "share" /\ pc' = "fit"
  /\ size' = IF Left # 0 /\ Unsized # {}
             THEN [p \in Parts |-> IF p \in Unsized
                                   THEN Left \div Count(Unsized)
                                   ELSE size[p]]
             ELSE size
  /\ UNCHANGED <<args, used, first, last, next, cur, disk, zap, img, table, made>>

Needed == Total(Parts) % Big

\* A mutant of Excess: it stops a sector too early.
ExcessDown == (Needed - total) \div SectorSize

\* The sectors by which they do not fit.
Excess == (Needed - total + SectorSize - 1) \div SectorSize

\* Partition last_partition, which is always 0, loses sectors until all fit.
Fit ==
  /\ pc = "fit" /\ pc' = "place" /\ cur' = 0
  /\ size' = IF Needed > total
             THEN [size EXCEPT ![0] = (@ - Excess * SectorSize) % Big]
             ELSE size
  /\ UNCHANGED <<args, used, first, last, next, disk, zap, img, table, made>>

\* A mutant of After: from the end of p, which is its last sector.
AfterEnd(p) == U32(next + Sectors(p) - 1)

\* Where the partition after p starts.
After(p) == U32(next + Sectors(p))

\* Partitions follow each other in the order of their numbers.
Place ==
  /\ pc = "place"
  /\ IF cur \in Parts
     THEN /\ cur' = cur + 1 /\ pc' = pc
          /\ IF size[cur] # 0
             THEN /\ first' = [first EXCEPT ![cur] = next]
                  /\ last' = [last EXCEPT ![cur] = U32(next + Sectors(cur) - 1)]
                  /\ next' = After(cur)
             ELSE UNCHANGED <<first, last, next>>
     ELSE cur' = 0 /\ pc' = "begin" /\ UNCHANGED <<first, last, next>>
  /\ UNCHANGED <<args, used, size, disk, zap, img, table, made>>
-----------------------------------------------------------------------------
(* One partition: disk_command_format, then disk_command_close.            *)

LoaderSectors(n) ==
  IF n = 0 THEN 0 ELSE IF n < MinLoader THEN MinLoader ELSE n

\* The sectors before the volume: those of the boot loader, or, in partition
\* 0 without one, those of --offset.
Mbr(p) == IF p = 0 /\ ask[p].loader = 0 THEN pad ELSE LoaderSectors(ask[p].loader)

Begin ==
  LET p == cur
      end == IF U32(last[p] - first[p]) > Slack THEN U32(last[p] - Slack)
             ELSE last[p]
  IN  /\ pc = "begin" /\ cur \in Parts
      /\ IF size[p] = 0
         THEN cur' = cur + 1 /\ UNCHANGED <<pc, disk, zap>>
         ELSE /\ disk' = [NoDisk EXCEPT !.offset = Mbr(p) + Far(first[p]), !.mbr = Mbr(p),
                                        !.first = first[p], !.last = end]
              /\ zap' = [sector |-> first[p], chunk |-> Chunk, jumped |-> FALSE]
              /\ pc' = "zero" /\ cur' = cur
      /\ UNCHANGED <<args, layout, img, table, made>>

\* A mutant of ChunkNow: the last chunk is left out.
ChunkWhole == IF U32(zap.sector + zap.chunk) > disk.last THEN 0 ELSE zap.chunk

\* The chunk the zeroing writes next: the last one is shortened.
ChunkNow ==
  IF U32(zap.sector + zap.chunk) > disk.last
  THEN U32(disk.last - zap.sector) ELSE zap.chunk

ZeroDone == zap.sector > disk.last \/ ChunkNow = 0

\* The sectors the next write of the zeroing reaches.
Zeroed == Span(disk.offset + Far(zap.sector - disk.first), ChunkNow)

\* Unless all is to be zeroed, the zeroing jumps ahead where the number of a
\* sector is a multiple of Jump chunks: first to the end, then out.
MayJump ==
  zap.sector # 0 /\ zap.sector % (ChunkNow * Jump) = 0 /\ ~ask[cur].zero

\* A mutant of MustStop: nothing remembers the jump.
NeverStop == FALSE

MustStop == MayJump /\ zap.jumped

ZeroChunk ==
  /\ pc = "zero" /\ ~ZeroDone
  /\ Write(Zeroed, Zero)
  /\ IF MustStop
     THEN pc' = "entry" /\ UNCHANGED zap
     ELSE /\ pc' = pc
          /\ zap' = [chunk  |-> ChunkNow,
                     jumped |-> zap.jumped \/ MayJump,
                     sector |-> IF MayJump THEN U32(disk.last - 1)
                                ELSE U32(zap.sector + ChunkNow)]
  /\ UNCHANGED <<args, layout, cur, disk, made>>

ZeroEnd ==
  /\ pc = "zero" /\ ZeroDone /\ pc' = "entry"
  /\ UNCHANGED <<args, layout, cur, disk, zap, img, table, made>>

SectorCount == U32(disk.last - disk.first + 1)

NewEntry == [os    |-> ask[cur].os,
             lba   |-> U32(disk.first + disk.mbr),
             count |-> U32(SectorCount - disk.mbr)]

\* A mutant of NewTable: the table is not read first.
FreshTable == [NoTable EXCEPT ![cur] = NewEntry]

\* The table as it is on the disk, with a new entry for this partition.
NewTable == [table EXCEPT ![cur] = NewEntry]

Entry ==
  /\ pc = "entry" /\ pc' = "loader"
  /\ disk' = [disk EXCEPT !.parts = NewTable]
  /\ UNCHANGED <<args, layout, cur, zap, img, table, made>>

\* The boot loader, or the empty MBR that --offset asks for, goes to the
\* first sectors of the partition.
WriteLoader ==
  LET len == IF ask[cur].loader # 0 THEN ask[cur].loader
             ELSE IF disk.mbr # 0 THEN 1 ELSE 0
  IN  /\ pc = "loader" /\ pc' = "record"
      /\ Write(Span(Far(disk.first), len), Loader(cur))
      /\ UNCHANGED <<args, layout, cur, disk, zap, made>>

\* The boot record, with a FAT that counts every sector of the partition.  What
\* it says of a FAT matters to nobody if the partition is of another type.
NewBoot ==
  LET os  == ask[cur].os
      spc == Spc[os][Cardinality({n \in Steps[os] : SectorCount * SectorSize >= n})]
      fat == FatBytes(os, SectorCount \div spc) \div SectorSize
      b   == [spc |-> spc, reserved |-> Reserved, fats |-> 2,
              rootSectors |-> IF os \in {12, 16} THEN RootSectors ELSE 0,
              total |-> U32(SectorCount - disk.mbr), fat16 |-> 0, fat32 |-> 0]
  IN  IF os = NotFat THEN b ELSE WithFat(b, os, fat)

FatSectors(off, b) == {off + Far(b.reserved + k) : k \in 0 .. FatSizeSectors(b) - 1}
RootFrom(off, b, n) == {off + Far(SectorRootDir(b) + k) : k \in 0 .. n - 1}

Die == pc' = "died" /\ UNCHANGED <<args, layout, cur, disk, zap, img, table, made>>

\* "disk is too small any FAT".
MakeBoot ==
  /\ pc = "record"
  /\ IF ask[cur].os # NotFat /\ FatSizeSectors(NewBoot) = 0
     THEN Die
     ELSE /\ disk' = [disk EXCEPT !.boot = BootRec(NewBoot)]
          /\ pc' = IF ask[cur].os = NotFat THEN "boot" ELSE "root"
          /\ UNCHANGED <<args, layout, cur, zap, img, table, made>>

\* A mutant of RootZeroed: nothing after the root directory is zeroed.
RootOnly == RootFrom(disk.offset, disk.boot.of, RootSectors)

\* The root directory is zeroed with what comes after it.
RootZeroed == RootFrom(disk.offset, disk.boot.of, RootZero)

\* fat_format refuses a type that is not the one of the partition, which is
\* where fat_type takes it from; it zeroes the root directory, where the FAT
\* leaves it before it is grown.
ZeroRoot ==
  /\ pc = "root"
  /\ IF FatType(disk.boot.of, disk.parts[cur].os) # ask[cur].os
     THEN Die
     ELSE /\ Write(RootZeroed, Zero)
          /\ pc' = "grow"
          /\ UNCHANGED <<args, layout, cur, disk, zap, made>>

\* "Ensure that our FAT can address the full disk": a sector at a time.
GrowFat ==
  LET b == disk.boot.of
      type == FatType(b, disk.parts[cur].os)
  IN  /\ pc = "grow"
      /\ IF FatHolds(b, type)
         THEN pc' = "mark" /\ disk' = disk
         ELSE /\ pc' = pc
              /\ disk' = [disk EXCEPT !.boot =
                            BootRec(WithFat(b, type, FatSizeSectors(b) + 1))]
      /\ UNCHANGED <<args, layout, cur, zap, img, table, made>>

\* The FAT is made up in memory; a cluster past the end of the partition is
\* an "Attempt to write to FAT beyond end of disk".
MarkFat ==
  /\ pc = "mark"
  /\ IF \E c \in 0 .. TotalClusters(disk.boot.of) - 1 :
          ClusterToSector(disk.boot.of, ask[cur].os, c - 2)
            >= U32(disk.parts[cur].lba + disk.parts[cur].count)
     THEN Die
     ELSE pc' = "boot" /\ UNCHANGED <<args, layout, cur, disk, zap, img, table, made>>

\* The boot record, and behind it the sector with the signatures.
WriteBoot ==
  /\ pc = "boot" /\ pc' = "table"
  /\ Write({disk.offset, disk.offset + 1}, disk.boot)
  /\ UNCHANGED <<args, layout, cur, disk, zap, made>>

WriteTable ==
  /\ pc = "table" /\ pc' = "close"
  /\ table' = disk.parts
  /\ UNCHANGED <<args, layout, cur, disk, zap, img, made>>

\* fat_write: the first copy of the FAT.
Close ==
  LET b == disk.boot.of
  IN  /\ pc = "close" /\ pc' = "begin" /\ cur' = cur + 1
      /\ Write(IF ask[cur].os = NotFat THEN {} ELSE FatSectors(disk.offset, b),
               FatOf(cur, ask[cur].os))
      /\ made' = [p \in DOMAIN made \cup {cur} |->
                    IF p = cur THEN [offset |-> disk.offset, boot |-> b,
                                     entry |-> disk.parts[cur], first |-> disk.first,
                                     last |-> disk.last]
                    ELSE made[p]]
      /\ UNCHANGED <<args, layout, disk, zap>>
-----------------------------------------------------------------------------
(* Opening a volume: disk_command_query, disk_command_open.                *)

Signed(off) == off \in DOMAIN img /\ img[off].kind \in {"boot", "loader"}

\* disk_command_query_at_offset: a boot record that makes sense.
Viable(off) == off \in DOMAIN img /\ img[off].kind = "boot" /\ img[off].of.spc # 0

\* Where the first of the partitions S that holds a volume has it; 0 if none
\* does, as main never asks for the hunt.
Query(S) ==
  LET found == {p \in S : table[p] # Empty /\ Viable(Far(table[p].lba))}
  IN  IF found = {} THEN 0 ELSE Far(table[Min(found)].lba)

\* Where main looks for the volume of partition 0 after format.
MainOffset == IF pad # 0 THEN pad ELSE Query(Parts)

\* main opens the disk, and each partition again for the summary; what is
\* not a DOS disk ends the program.
Summary ==
  /\ pc = "begin" /\ cur = NPart
  /\ pc' = IF Signed(MainOffset) /\ \A p \in Parts : Signed(Query({p}))
           THEN "done" ELSE "died"
  /\ UNCHANGED <<args, layout, cur, disk, zap, img, table, made>>

Next ==
  \/ Default \/ Share \/ Fit \/ Place
  \/ Begin \/ ZeroChunk \/ ZeroEnd \/ Entry \/ WriteLoader
  \/ MakeBoot \/ ZeroRoot \/ GrowFat \/ MarkFat \/ WriteBoot \/ WriteTable \/ Close
  \/ Summary

Spec == Init /\ [][Next]_vars /\ WF_vars(Next)
-----------------------------------------------------------------------------
(* Properties.                                                             *)

Stages == {"default", "share", "fit", "place", "begin", "zero", "entry",
           "loader", "record", "root", "grow", "mark", "boot", "table", "close", "done", "died"}

\* The variables of the layout; the 32-bit ones stay 32 bits wide.
TypeOK ==
  /\ ask \in [Parts -> Ask] /\ total \in Nat
  /\ pc \in Stages /\ cur \in 0 .. NPart
  /\ used \in [Parts -> BOOLEAN] /\ size \in [Parts -> Nat]
  /\ first \in [Parts -> 0 .. Word - 1] /\ last \in [Parts -> 0 .. Word - 1]
  /\ next \in 0 .. Word - 1

Placed == {p \in Parts : size[p] # 0 /\ (pc = "place" => p < cur)}
IsLaidOut == pc \notin {"default", "share", "fit"}

\* The partitions that have been laid out follow each other: none shares a
\* sector with an earlier one (main.c:616-633), as long as the sectors can
\* be counted in 32 bits.
PartitionsApart ==
  (IsLaidOut /\ \A p \in Placed : first[p] + Sectors(p) < Word)
    => \A p, q \in Placed : (p < q /\ Sectors(p) > 0) => last[p] < first[q]

\* What the arguments ask for can be had: every size is a sector at least (they
\* are rounded up to whole ones: main.c:446), and they fit on the disk and leave
\* a sector to each partition without one, or partition 0 can give up the rest
\* and keep two.
Fits ==
  LET asked == Sum4([p \in Parts |-> ask[p].size], Parts)
      bare  == {p \in Parts : ask[p].used /\ ask[p].size = 0}
  IN  /\ \A p \in Parts : ask[p].size # 0 => ask[p].used /\ SectorSize <= ask[p].size
      /\ SectorSize <= total /\ asked < Big
      /\ IF bare = {} THEN asked <= total \/ asked + 2 * SectorSize <= total + ask[0].size
         ELSE asked = total \/ asked + SectorSize * Count(bare) <= total

\* Each partition has room for what comes before its volume and for its boot
\* record.
Roomy == \A p \in Parts : size[p] # 0 => Mbr(p) + 2 <= Sectors(p)

\* Every byte that formatting reaches has a 32-bit number (4 GB).
InReach == total + SectorSize * RootZero <= Word

Sane == Fits /\ Roomy /\ InReach

\* Partitions are not empty and none reaches past the end of the disk
\* ("Check the needed size is not beyond the disk size", main.c:602).
InsideDisk ==
  (IsLaidOut /\ Fits /\ total < Word)
    => \A p \in Placed : first[p] <= last[p] /\ (last[p] + 1) * SectorSize <= total

\* With zero, the zeroing reaches every sector of the partition but its last
\* one (command.c:812 makes the last chunk a sector short); without it, the
\* first chunk.  (Both from the volume's offset on: command.c:767.)
ZeroCovers ==
  (pc = "entry" /\ Sane)
    => LET all == disk.last - disk.first
           n   == IF ask[cur].zero \/ all < Chunk THEN all ELSE Chunk
       IN  \A s \in Span(disk.offset, n) : img[s] = Zero

\* A volume that was formatted is there, now and while the next ones are
\* formatted: its entry leads to it, it is opened as what it was formatted
\* as, and its boot record and FAT are whole (command.c:767-1160).
VolumesKept ==
  Sane
    => \A p \in DOMAIN made :
         LET m == made[p] IN
         /\ Query({p}) = m.offset
         /\ img[m.offset] = BootRec(m.boot)
         /\ ask[p].os # NotFat
              => /\ FatType(img[m.offset].of, table[p].os) = ask[p].os
                 /\ \A s \in FatSectors(m.offset, m.boot) : img[s] = FatOf(p, ask[p].os)

\* The root directory of a new volume is blank, whatever was on the disk,
\* though its FAT grows after it has been zeroed (fat.c:3372, fat.c:3422).
RootEmpty ==
  Sane
    => \A p \in DOMAIN made :
         LET b == made[p].boot IN
         ask[p].os # NotFat /\ TotalClusters(b) > 0
           => \A s \in RootFrom(made[p].offset, b,
                                IF ask[p].os = 32 THEN b.spc ELSE b.rootSectors) :
                img[s] = Zero

\* format comes to an end, if what it is asked for can be had: the zeroing does
\* not jump to the end of the partition for ever (zeroed_end_of_disk,
\* command.c:807-838).
FormatEnds == Fits => <>(pc \in {"done", "died"})

\* A volume has as many clusters as its type allows (fat.c:3332-3354: "too
\* many clusters ... must be < 4085").
ClustersFitType ==
  \A p \in DOMAIN made :
    LET n == TotalClusters(made[p].boot) IN
    /\ ask[p].os = 12 => n < Low
    /\ ask[p].os = 16 => n < High
    /\ ask[p].os = 32 => n >= High
=============================================================================
