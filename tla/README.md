# fatdisk: specifications, checks and proofs

fatdisk reads and changes FAT12, FAT16 and FAT32 disk images without mounting
them. This directory holds TLA+ modules that model its core, the TLC
configurations that check them, and proofs checked by TLAPS. Line numbers are
those of the C files in the repository.

## 1. The system

fatdisk is a single-threaded program. One process runs one command: it opens the
image (`disk_command_open`, which reads the boot record and the first copy of the
FAT), runs the command, and closes the image (`disk_command_close`, which writes
the FAT). Two things cut this short: `DIE`, a macro that prints and calls
`exit(1)`, and SIGINT, whose handler closes the image wherever the program is.
What makes the program hard is the order in which its parts reach the table and
the disk, and what a process that stops half way leaves to the next one.

| component | state | operations | correct when |
|---|---|---|---|
| FAT chains (`fat.c` 205-713) | `disk->fat`, the static `last_cluster` | `cluster_alloc`, `cluster_next`, `cluster_next_set`, `cluster_endchain` | a cluster has one owner; every chain ends; no space is lost; a search finds what is free |
| adding and removing (`fat.c` 942-1522, 1831-1885, 2542-2650) | the entries of a directory, its chain | `file_import`, `dirents_grow`, `dirent_remove` | a file has as many clusters as its length needs; every command ends |
| directory walk (`fat.c` 2657-3280) | a recursion over directories | `disk_walk_` with find, add, remove, extract, print | rm removes what matches and what is inside it, and nothing else |
| persistence (`fat.c` 571-636, 1785-1824, `command.c` 24-74, 397-423, `main.c` 235-252) | image on disk against copies in memory | `fat_read`, `fat_write`, `dirents_write`, `killed`, `DIE` | the next process finds whole files, whatever became of the last one |
| sector cache (`disk.c` 826-1278) | `tree_sector_cache` | `sector_read`, `sector_write`, `sector_write_no_cache` | reads return what was last written; no needed write is skipped |
| directory slots, VFAT names (`fat.c` 837-1179, 1608-2012) | 32-byte entries | `dirent_find_free_space`, `dirent_in_use`, name copying | fragments fit in unused slots and describe the name |
| FAT entry encoding (`fat.c` 209-377) | bytes of the FAT | 12, 16 and 32 bit entries | a write is what the next read returns and touches no neighbour |
| file data (`fat.c` 1402-1493, 2128-2493) | data clusters | the run writer, extract, cat, hexdump | each cluster is written once; a file comes out as it went in |
| formatting and geometry (`fat.c` 56-202, 3299-3472, `command.c` 645-1164, `disk.c` 560-824) | boot record, FAT | `fat_format`, `disk_command_format` | a volume is found again and is what it was formatted as; later ones spare it; its root is empty; the FAT is large enough; it ends |
| partition table and layout (`disk.c` 700-738, `main.c` 259-726) | four entries | read, write, layout | partitions are apart and on the disk |
| discovery (`command.c` 24-74, 1408-1609, `main.c` 1568-1638) | - | `disk_command_query`, `disk_command_open` | every formatted volume is found by its entry |
| red-black tree (`tree.c`) | the map used by the cache | insert, remove, find, next | order and black height are kept |
| listing, host files, strings, logging, pointer checking | - | - | - |

The components meet in few places. The walk calls `file_import`, `dirents_grow`
and `dirent_remove`; these change the table in memory and the entries in a
directory's buffer; the buffer goes to the disk through the cache when the walk
leaves the directory (`dirents_free`), the table when the process closes the
image. File data goes to the disk past the cache. `format` is a command of its own:
it writes most of the image past the cache too, one partition after another, and
`main` then opens what it has made like any other image.

PROJECT.json lists all components, with what is left out and why, and the
hazards of the code line by line.

## 2. The modules

    FatOps          the table without state: clusters, end marks, cluster_alloc
      FatTable      add, grow, remove: one step per change of the table
        ClusterStore    what the table promises (FatTable implements it)
        Commit          FatTable, the disk, and one process after another; MCCommit
                        says that its files are alike
        FatTableProofs  theorems about FatTable and Commit, and that FatTable implements
                        ClusterStore
      DirTree       the recursive removal over a tree of directories
        DirTreeProofs   theorems about DirTree
      FileData      the data of a file: written on import, read back
        FileDataProofs  theorems about FileData
    Dirents         the slots of one directory; MCDirents gives it names
      DirentsProofs theorems about Dirents
    FatEntry        the table in bytes: how large, and where an entry is
      FatCells        what it promises (FatEntry implements it)
      FatEntryProofs  theorems about FatEntry
    SectorCache     the cache, and the uses made of it
      SectorCacheProofs theorems about SectorCache
    RBTree          the tree that the cache keeps its sectors in
      RBTreeProofs  theorems about RBTree
    Geometry        the layout of a volume, as its boot record gives it
      Format          the command format; MCFormat gives it disks and requests
        FormatProofs    theorems about Format

**FatOps.** A table entry is a number: 0 is free, `EOC` is what `cluster_max`
writes (above every cluster number, as the real marks are), anything else is the
next cluster. `EndChain` is `cluster_endchain`: cluster 2 ends a chain on FAT32,
where it is the root, and not on FAT12/16. `ClusterAlloc` is the two passes of
`cluster_alloc`; it yields a set of one cluster, or none. `FormattedFat` is the
table `fat_format` leaves. `Along`, `Chain` and `Terminated` are for stating
properties. `RootCluster` is 2 on FAT32 and 0 on FAT12/16, where `dirents_alloc`
and `dirents_grow` use entry 0 of the table for the root.

**FatTable.** Variables `fat` and `last` are `disk->fat` and `last_cluster`;
`entries`, `parent`, `first` and `size` are what the directory entries say; `pc`
and the locals are where the program is. An addition is
`AddStart` (the walk reaches the directory), then either `FindSlot`
(`dirent_find_free_space` succeeds) or `GrowAlloc`, `GrowWalk`..., `GrowLink`,
`GrowMark` (`dirents_grow`) and again; then for each cluster `ImportAlloc`,
`ImportLink`, `ImportMark` (`file_import`'s loop; a directory takes one cluster);
then `DirentsWrite`. A removal is `RemoveStart`, `FreeNext` for each cluster,
`FreeDone`. For a directory the walk goes in first: `FreeNext` by way of its "."
until `DotDone`, `SweepFile` for each file in it, `SweepDone` back to the
directory's own entry. `OutOfClusters` is DIE. Whether a directory has room is a
free choice: slots are Dirents's. Directories are in the root here;
deeper trees are DirTree's.

**ClusterStore.** The abstract specification: free clusters, and one set of
clusters per owner; a step takes one free cluster for an owner or gives one back.

**Commit.** Extends FatTable with `disk`, the table and entries as they are on
the disk. `LeaveDirectory` writes entries, `Close` the table; `Killed` is SIGINT;
`Died` follows a DIE, for want of clusters or because a host file cannot be opened
(`FileReadDies`); `Open` is the next process. `MaxOps` bounds how many entries
one process adds or removes (`fatdisk image add a b`, `rm a b`, intermediate
directories, replacing a file are all several). `KillDuring` says during what
SIGINT may come, `DiesUpTo` in which operation of a process a DIE is followed up
to the next process. `FileReadFails` is a host file that opens and cannot be read:
`file_import` gives up without a cluster, and the entry goes to the disk all the same.
`killed` is a history variable: a volume on which a process was killed may have lost
clusters, and is excused from `HandsOn` and from nothing else. `unread` is another: the entries
without a chain that such a failure has left, which are excused from having one.

**DirTree.** A step per directory entry of `disk_walk_` with `args->remove`, over
any tree. The frames on `stack` are the activations: `all` is a null filter, which
is what the walk passes down from a directory that matched. `VisitDot` is "." and
"..", which are removed, and their chains freed, but not entered. An entry is
removed after the walk comes back from it (`Ready`). A pattern is the set of
entries it matches, and whether it also matches the dots (`star`).

**SectorCache.** `WriteSector` is one turn of `sector_write`'s loop: skip if the
cache holds the same, else update the cache and write, and the write may fail; its
callers DIE if one did. `TakeForFile` is `cluster_write_no_cache` in `file_import`,
whose result is ignored. `use` says what a sector belongs to, since coherence
depends on it: add reads and caches directories only, and frees files only.
`latest` is a history variable: the last thing that was written.

**FileData.** The unit of data is a sector; a blank sector is 0, because hexdump
treats it so. `InitImport` is where `file_import` stands after its allocation loop
(which is FatTable's): a file, and clusters in any order `cluster_alloc` can give.
`ExtendRun`, `WriteRun` and `PassAlone` are the three ways through a turn of the
first loop, `WriteSingle` and `PassWritten` those of the second. Then any of
the three readers reads the file: `ReadCluster` is a turn of the reader's loop,
`ChainTooLong`, `ReadFails`, `ChainEnds` the ways out of it; extract checks less than
the other two (`Broken`, `TooLong`). `InitForeign` starts with the readers, on any
table, first cluster and size. A sector that is not blank is taken to end with
something that `hex_dump` prints.

**Dirents.** `slots` is the buffer of one directory. A name is a number of fragments
(`Fragments`, 0 for one that DOS wrote), written in front of its short entry, the last
first. `AddStart`, `Grow` and `Import` are an addition: `FreeRuns` is the search,
`Written` the slots `file_import` fills. `RmStart` ... `RmDone` are the walk with
`args->remove`, a step per slot, since `vfat` is carried from one to the next;
`Zapped` is what `dirent_remove` gives back. A pattern is the set of names it matches.
The directories to start with are all that other systems can leave in one cluster:
whole names, with free and deleted slots anywhere. `present` is a history variable,
the names that were asked for.

**FatEntry.** `fat` is `disk->fat` byte by byte, lowest byte first. `GrowFat` is a turn
of the loop in `fat_format` that sizes the FAT, `FormatEntry` one of the loop that
writes it, `Use` any later `cluster_next_set`. `Packed` is the word that is stored:
for FAT12 it keeps the half byte that belongs to the neighbour. `FatCells` is an
array in which one cell can change at a time; the refinement reads each entry that
`Fits` with `cluster_next`. It is what FatOps takes the table to be. That the FAT's
size is a field of 16 bits on FAT12 and FAT16 is left out: it is reached by FAT16
volumes of tens of gigabytes only.

**RBTree.** The nodes of `tree.c` with their pointers and colors; a node is its key.
`InsertStart`, `Descend`, `Attach` are `tree_insert_internal`; `Balanced`, `Recolor`,
`RotateUp` an activation of `tree_balance` each; `RemoveStart`, `RemoveFound`,
`Replace` `tree_remove`, and the actions `Rebalance...` an activation of
`tree_black_node_removed`. What the code writes twice, for left and right, has a side.
`SweepStart` and `SweepNext` are the two loops that remove all nodes: `tree_empty`
takes the first each time, `sector_cache_destroy` asks for the one after a key that
has just gone. `present` is a history variable. SectorCache takes this tree to be a map.

**Geometry.** The functions of `fat.c` and `disk.c` that say where things are, of a boot
record and the type in the partition entry, with the widths of the code: `U32` is
where a result is stored in 32 bits. `Far` is the sector a 32-bit offset in bytes
really leads to. The sizes of words and sectors and the limits of 4085 and 65525
clusters are constants.

**Format.** The layout of `command_format` is `Default`, `Share`, `Fit` and a `Place`
for each partition, in bytes, as in the code. Then, for each partition that has a size:
`Begin` (the `disk_t` and its offset), `ZeroChunk` for each turn of the loop that zeroes
and `ZeroEnd`, `Entry` (the table is read and this partition's entry made), `WriteLoader`,
`MakeBoot`, and for FAT partitions `fat_format`: `ZeroRoot`, `GrowFat` for each
sector the FAT has to grow, `MarkFat`; then `WriteBoot`, `WriteTable`, and `Close`, which
writes the FAT. `Summary` is `main` opening each volume again. `img` is what each sector
of the disk holds: what was there before, zeroes, a part of a boot loader, a boot record
with its fields, or a sector of a FAT. The partition table is a part of sector 0, which
the boot record of partition 0 also writes: it is kept beside (`table`), and `Write`
clears it when sector 0 is written. There is a state between any two writes. `Ask` is
what the arguments can say of one partition; `Steps` are the sizes at which clusters get
larger, and `Spc` the sectors per cluster by how many of them a volume has reached. `made` is a history variable: the volumes that have been formatted, as they were
made. A DIE in the middle of format ends in "died".

Operators described as slips or mutants (`ImportMarkUnmarked`, `FreeNextZapped`, ...) are not
part of any specification. Each is a definition with a plausible mistake in it;
PROJECT.json pairs each checked property with one that it catches.

## 3. The runs

| run | shows | bounds |
|---|---|---|
| fat_table | `NoCrossLink`, `NoDangling`, `NoOrphan`, `ChainMatchesSize`, `DieOnlyWhenFull`, `CommandEnds`, `ImplementsStore` on FAT32 | 4 free clusters, 2 files of up to 3 clusters, 1 directory |
| commit | on FAT12/16, with processes that may die in their first operation or fail to read a file in any, and SIGINT at any moment of an addition: `FilesIntact` and `NoDoubleHandout` always; `HandsOn`, the inductive invariant of the proofs, as long as no signal came | 4 free clusters, files of up to 2, 2 operations per process, any number of processes |
| commit_faults | violation, see 5 | 2 operations per process, which may die in either; SIGINT in removals |
| dir_tree | rm removes exactly what matches and what is inside it, for files anywhere and entries of the root | every tree of 3 directories and 2 files, chains of 2 clusters |
| dir_tree_dots | violation, see 5 | the same |
| sector_cache | `NothingSkipped`, `ReadsLatest` | 3 sectors, 2 contents |
| rb_tree | `FindsWhatIsThere`, `RedBlack`, `AssertionsHold`, `SweepRemovesAll`, `OperationEnds` | 10 nodes |
| fat_entry | `EveryEntryFits`, `WhatIsSetIsRead`, `ImplementsCells`, `FormatEnds` | FAT12, 16 and 32; volumes of 10, 11, 12, 13, 15 and 16 sectors of 16 bytes, one per cluster; 4 entries in use |
| file_data | `WrittenOnce`, `ComesOutAsItWentIn`, `SizeRespected`, `OnlyDamagedFilesFail`, `CommandEnds` | 4 clusters of 2 sectors, files of up to 7 sectors with any of them blank; every table and entry for foreign files |
| dirents | `ListsWhatIsThere`, `SlotsComeBack`, `NothingElseLost`, `AddEnds` | clusters of 5 slots, growing up to twice; names of one fragment, of two, of two with a blank one, and of DOS |
| format | `PartitionsApart`, `InsideDisk`, `ZeroCovers`, `VolumesKept`, `RootEmpty`, `FormatEnds` | 3 partitions, 9 requests for each, with and without `--offset`; disks of 26 sectors and 8 bytes and of 40 sectors, of 16 bytes; 10-bit and 16-bit words; blank and used devices |
| format_fat12 | violation, see 5 | the numbers of the code, one partition of 3 MB |

Why the bounds are enough for the cases to happen: with four free clusters and
files of up to three the volume fills and empties, so that the second pass of the
allocator, clusters freed behind `last`, directories longer than one cluster and
running out of clusters in the middle of a file or of a grow all occur. Two files
and a directory are the fewest with which a chain can be cut, crossed, lost, or
freed from inside a directory. Two operations per process are the fewest with
which one is on the disk when the other fails. Three directories give nesting to
the depth at which ".." of one removed directory is another removed directory.

Four clusters give two runs, a run and a
single, and a run that starts over at the bottom; seven sectors in clusters of two
end within a cluster and at its end. The volumes of FatEntry have odd and even
numbers of clusters, a FAT12 (15 sectors: 11 clusters, 16 bytes) whose last entry is
the one that sticks out, and FATs that must grow and that need not.

Ten nodes, inserted and removed in every order, give
every case of insertion and removal, rebalancing that goes up twice (which takes ten), and
swaps of a node with its child and with one further down.

The disks of format are small in sectors, and the numbers of the code are small with
them: chunks of 4 sectors, the jump after 2 of them, 4 sectors of slack, 8 and 20
clusters as limits of the types. The requests are such that partitions have to be cut
down, shared out and left out, that a size is not whole sectors, that the zeroing jumps,
is told not to, and ends in a shortened chunk; that volumes of every type, of no FAT type
and too small for a FAT are made; that boot loaders are shorter and longer than the
least; that the FAT has to grow and the root directory with it moves.

Deadlock is checked in the other runs and not in these: fat_table (a process
that died has stopped), commit and commit_faults (a DIE beyond `DiesUpTo`), dir_tree (the
walk is over), file_data (the command is over), format and format_fat12 (the same).

**Fairness.** Only `CommandEnds`, `FormatEnds`, `AddEnds` and `OperationEnds` need it. `FairSpec` asks weak fairness
of what the program does by itself once a command has started (`Step` in FatTable,
all of FileData and Format, the formatting in FatEntry, `Add` and
`Remove` in Dirents, `Step` in RBTree, where weak fairness is written out without
`ENABLED`, which TLC evaluates slowly): it is one thread that never waits for
anything. Nothing obliges anyone to start a command, or to use an entry.

## 4. The proofs

**FatTableProofs**, for every `TotalClusters` above 3, both FAT types and any sets
of files and directories (the assumptions are `TotalClustersAssumption`,
`Fat32Assumption`, `ObjectsAssumption`, `MaxFileClustersAssumption`): `TypeOK`,
`NoCrossLink`, `NoDangling` and `NoOrphan` hold always, and `DieOnlyWhenFull` of every
step.

The three properties are not inductive alone. That a new cluster can be linked
without crossing a chain needs that nobody points to a free cluster; but while
`dirent_remove` frees a chain its entry still points to a freed cluster
(`Freeing`), and between a link and its mark the table points to a free one
(`HalfLinked`). `IInv` adds what holds in those windows: `GrowInv` and `ImportInv`
say that the new cluster is free and unreferenced until it is linked, and where
the link is before the mark; `RemoveInv` that nobody but the entry being removed
points to where the removal stands, which is why freeing a directory's chain a
second time by way of its entry does no harm; `HeadsKnown` that deleted entries
have no first cluster, that the root's is never free and that a directory has one but
for the step after it was named (`JustNamed`). `FilesHeaded` says the same of files; it is
apart from `IInv` (`FilesHaveHeads`) because Commit has files that could not be read, and
`IInv` holds there too. There is one lemma per action
(`GrowLinkIInv`, ...). `FreeIsUnreferenced` is the heart: when `cluster_alloc` is
called, a free cluster is in no chain. `AllocFindsFree` takes the least free
cluster (well-foundedness of `<`) to show that the second pass misses none.

Its second part, from the same assumptions: `ChainMatchesSize` holds always and FatTable
implements ClusterStore (`ImplementsStore`). Both are about whole chains, which are `Along`, a
recursive function of the table. No step is argued about with it. The invariant `ChainInv` says
that there are lists of clusters, one for each entry and one for the root directory, which
the table links one after the other, which have no cluster in common, and whose lengths are
what the sizes call for (`ListsExist`). A step appends a cluster to one list (`ImportLinkLists`,
`GrowMarkLists`, ...) or takes the first one from it (`FreeNextLists`). That such a list is what
`Along` finds is proved once (`AlongList`): a function that satisfies the equation `Along` is
defined by is the only one (`AlongIs`; where two differ there is a least place where they do),
and the prefixes of the list satisfy it. That the list is short enough for `Along` to get to
its end is a count of clusters (`ListsAreShort`). For the refinement, `Owned` are the clusters in
the lists, and `StepsMoveOneCluster` goes through the actions: each `Takes` one for one owner,
`Gives` one back or `Stays`. `ChainInv` says nothing of clusters in no list, and so it outlives
a process that was killed.

Its third part is about Commit, for any number of processes, operations and entries: `FilesIntact`, `HandsOn`
and `NoDoubleHandout`, provided that a process dies only up to the end of its first operation and
is killed only while it adds, not between the link to a directory's new cluster and the mark
there (`FaultsSpared`). Neither half can be dropped: they are the two faults of
`commit_faults`. `CInv` is `ChainInv` of what is in memory, and of what is on the disk: the table
there with the entries there have lists of their own (`DiskSound`) as long as the process has
finished nothing; the entries there are those in memory without the one being added
(`Written`), which is why the table in memory, written by `Close` or by SIGINT, fits
them; files without a chain are those that could not be read (`BareKnown`). The steps of an operation are
the lemmas of the first parts; what is added is `Close`, `Killed`, `Died`, `Open` and the entries that go
to the disk. `HandsOn` is `IInv` and needs in addition that the disk's table has no cluster in no
list, which is carried along in `HInv` as long as nobody was killed.

**SectorCacheProofs**, for any number of sectors and any contents: `NothingSkipped`
and `ReadsLatest`. `Coherent` says that the cache differs from the disk only in
sectors whose write has failed, which `sector_write` has gone past and the process
does not live to read; `OnlyDirsCached` that an add has nothing in the cache that
it could write past it.

**FatEntryProofs**, for every sector size, cluster size, reserve and volume: `ReadBack`
(what is stored in an entry that fits is read back, for each width and whatever the
FAT held), `NeighboursUntouched` (no other entry that fits changes), `TypeOK`,
`EveryEntryFits` and `WhatIsSetIsRead`. `ByteOf` and `Word` are shown to be inverse
(`FourBytes`, `TwoBytes`); `EvenEntry` and `OddEntry` are the two ways in which entries of
FAT12 share a byte, and `OffsetsApart` says that no others overlap. The invariant adds
to `TypeOK` that the loop which sizes the FAT has ended as it says
(`~FatTooSmall`), from which `RoomForEntries` gives `EveryEntryFits`. `BytesImplementCells` is
the refinement (`ImplementsCells`): a step sets one entry, and `NeighboursUntouched`, for any value
that may be stored, says that the array of entries as they are read has changed in one place.

**FileDataProofs**, for every file, cluster size, volume and every order of clusters that
`cluster_alloc` can give: `WrittenOnce`, `ComesOutAsItWentIn`, and `SizeRespected` also of foreign
files, whose chain may be anything. `FileInv` has three parts. `ImportInv`: a cluster
whose place in the array is not yet 0 or, in the second loop, is still to come (`Pending`) was
never written; any other was written once and holds its part; the run that is
being collected is of neighbours, counted from its start (`InRun`), since what
`WriteBlock` writes is one block (`BlockWritten`; `SectorOfBlock` is its arithmetic).
`Counted`: what has been delivered is what the size has lost, but not below 0. `ReadInv`: after k
clusters the reader stands at the k-th and has delivered their parts; `LinkedNext` says
that the table leads it to the next.

`OnlyDamagedFilesFail` is about `Along` on any table whatever: a foreign chain may end, break off, run
into another or into itself. Of the ways that follow the table from the head there is a
shortest to any cluster `Along` finds (`ShortestIsChain`), and it repeats nothing; so in a
chain that ends and has as many clusters as the size calls for, the reader's k-th cluster
is the k-th of a list without repetitions that ends with the count (`UndamagedPath`),
and by `DamageInv` the reader neither comes to the end too early nor has a cluster too many.

**DirentsProofs**, for any names, numbers of fragments and sizes of directories, with
clusters that have room for every name (`ClusterSlotsAssumption`): `ListsWhatIsThere`,
`SlotsComeBack`, `NothingElseLost`. The invariant `DirInv`: each fragment has those after it
before it (`Whole`), each short entry all of its name's, and none of another's (`DosAlone`); then
what dirent_read_name has when it comes to a slot is known without reading (`ReadBefore`), and
`VfatBefore`, a recursive function, is that again (`ReadFromStart`, in the manner of `AlongIs`).
`Walk` says that the walk of a removal has read just this. `RemovedSlots` and `ImportSlots` say
what slots those two actions change: one name's. That the fragments other
systems leave have their short entry behind them is an induction from slot to slot, by the
last that had not (`FragsHaveShorts`).

**FormatProofs**, for up to four partitions, sectors of any size, any requests and a disk
of any size: `PartitionsApart`, `InsideDisk` and `TypeOK`. That partitions are apart is an
induction over `Place`: those that are placed end before `next` (`ApartInv`); it needs only
that no sum of sectors has wrapped. That they are on the disk has to be carried from the
requests to the end: `InsideInv` says what is known of the sizes when they have been asked
for (`Asked`), when what is left has been found (`Shareable`), when they have been shared
out (`Fittable`) and cut down (`Fitting`), and then that `next` sectors are no more bytes
than the sizes up to there. `Fits` is the assumption: without it sizes wrap around, as the
code lets them. `ShareInside` is the division of what is left, `FitInside` the one partition
that gives up the excess, `Quotient` and `Scaled` the arithmetic of whole sectors. Sums
over the table have four terms, written out (`Sum4`), so that no induction is needed.
`ZeroCovers`: `CoverInv` says which sectors of the partition hold zeroes after each turn of
the loop, up to `Zeroing` (`ZeroChunkCovers`), that the jump does not pass over what is due
(`ZeroDue`), and that `Sane` keeps the offsets below the width at which they wrap (`SaneIsSmall`,
`FarIsNear`), without which the zeroes would go elsewhere.

`VolumesKept` and `RootEmpty` rest on `KeepInv`. Of the volumes that have been made (`Kept`) it
says that their sectors hold what was written, and that all of them lie in their partition (`Whole`,
`Keeps`). Of the partition that is being formatted it says where it is (`AtWork`, `Extents`), that its
entry stands beside the entries read before (`EntryMade`), and what its boot record and its FAT are at
each step (`VolumeMade`). A step only writes from `first[cur]` on, behind every volume that is kept
(`WriteSpares`), hence never sector 0 with the table once there is one; the table that is written has
the entries that were read (`WriteTableKeeps`). The rest is arithmetic. A FAT that has room for itself grows by one sector at most
(`LongFatHolds`), so that the root directory moves by two, and what was zeroed behind the first FATs
still reaches over it. A partition that is too small for its FATs has a number of clusters that has
wrapped around (`WrappedCount`); some of them are then beyond the partition
(`BeyondCluster`), and `MarkFat` dies before it writes (`NoRoomDies`). `VolumeAssumption` is what
this needs of the constants, and the code's satisfy it: sectors of at least 16 bytes, clusters
of a power of two of sectors, and these, the reserved sectors and the root directory small beside
2^32 and beside the 1024 sectors that are zeroed.

**DirTreeProofs**, for every tree of directories and files, of any depth, and every `rm` of files
or of entries of the root directory (`FilesOrTop`; what else may be asked for is finding
`dir_tree_dots`): `RmSparesOthers` and `RmComplete`. The walk frees the chain of a directory by
way of its "." before it is through with the directory, and that of the one above by way of "..",
when it comes out of the next one. `RmInv` says why this is safe. The frames on the stack are
one path down the tree (`StackOK`), so that ".." leads to the directory of the next frame; a filter
is dropped exactly in the directories that are to go (`FrameOK`), and since what is asked for
is in the root, the directory above one that is to go is the root or is to go too (`DoomedInside`).
What lies inside an entry not entered yet is untouched, hence its directory is read
to its end when it is entered; what is to go is gone, is listed in a frame, or lies inside
such an entry (`Progress`). That a directory being walked is inside none of those is
`WalkedAreEntered`. `PathFromRoot`, `PathBelow` and `PathGoesOn` are about paths in the tree, each by the
least directory for which it would fail: a directory has a lower number than those in it, which
is only how `Init` avoids naming every tree more than once. `TopChanges`, `TopPushed` and
`TopPopped` say what a step does to the stack.

**RBTreeProofs**, for every set of keys, from `NodesAssumption` alone: `FindsWhatIsThere`, `RedBlack`,
`AssertionsHold` and `SweepRemovesAll`. The model has no variable for what a subtree holds or how many
black nodes are on its paths, and the functions that count them are recursive. The invariant says
that there are such things: a set `below[n]` and a number `black[n]` for every node. `Shaped` ties
the sets to the pointers, `Ordered` to the order of the keys, `Even` the numbers to
the colors; none of the three is recursive, since each speaks of a node and its children only. `IInv`
has one predicate per stage of an operation. Between operations the tree is `Quiet`. An insertion is
`Descending` towards where its key belongs (`OnItsWay`), then `Balancing`: the node `up` may be red under a
red parent, nobody else. A removal is `Climbing` with a black missing below `up`, then `Closing`. From the
moment it has changed places with its predecessor until it is unlinked, the node that goes is out of
order, and counts for nothing on its path, as its child is about to take its place (`gone`, `OneChild`).

A rotation is described once, for both sides, by what it does to pointers (`Turned`), to the
sets (`TurnedShaped`, `TurnedOrdered`) and to the numbers of each case (`RedTurnEven`,
`FarTurnEven`, ...). `tree_swap_nodes` is an exchange of two names (`Exchanged`): the tree after it is the
tree before it with two keys renamed, so that its shape and its numbers carry over
(`ExchangedShaped`), and only the order has to be looked at (`ExchangedOrdered`): just the node that
goes is out of place, because the other was the last one before it.
What the recursive functions find (`FindIs`, `OutermostIs`, `GetNextIs`, `BlackPathIs`) is shown as in
FatTableProofs: a function of nodes that satisfies the same equation is the same, since otherwise there
would be a lowest node where they differ, one with nothing in its subtree where they do. That a
sweep removes everything is `Sweeping`: it is always at the least key there is, or at a key that is
gone and less than all that are left (`NextIsLeast`).

Only model-checked: `CommandEnds`, `AddEnds`, `FormatEnds` and `OperationEnds`, that
something happens at last, since the prover has no rule for fairness here. Type invariants are stated where proofs rest on them.

## 5. Findings

* **commit_faults.** Entries are on the disk before the FAT is. If a process adds two
  things and dies on the second, the first is listed and its clusters are free. SIGINT
  during a removal, the other way round, writes the FAT and not the entries. The next
  process hands the clusters of a listed file out again. Each fault alone is enough:
  `KillDuring` empty, or `DiesUpTo` 1, gives either.
* **dir_tree_dots.** `rm a/b`, of a directory, frees the chain of `a` by way of "..";
  `rm a/*` frees it by way of ".". In both cases `a` stays. The run stops at the first
  it finds; `Patterns` with only "nested" or only "star" gives either.
* **format_fat12.** The check that a volume has as many clusters as its type allows
  compares the type with itself.

SIGINT between `GrowLink` and `GrowMark` writes a directory chain that leads to a
free cluster; `KillDuring` with "growLink" shows it, no run does.

## 6. What the models leave out

* The root's cluster is 2 on FAT32, as `fat_format` makes it; the branch of
  `dirent_remove` that spares the root cluster cannot be reached, because
  `cluster_endchain` stops at it. On FAT12 `cluster_alloc` also passes over the
  number that happens to be where FAT32 has its root cluster; this only hides one
  cluster and is left out.
* `MAX_DIRENT_BLOCK`, 1024 clusters of one directory, is not reached.
* A pattern is what it matches. `strisregexp` and `file_match` are not modelled,
  nor is a name with pattern characters in add.
* A directory of one cluster of fewer than 21 slots, where `dirent_find_free_space`
  can wrap around (`ClusterSlotsAssumption`); the letters of short names, which need
  not differ; fragments without a short entry behind them on a foreign volume.
* hexdump leaves out clusters by their first sector (`fat.c` 2196); the comments at 2144 and
  2191 speak of blocks. `ComesOutAsItWentIn` asks that what is left out starts with a blank
  sector, and no more.
* Formatting beyond 4 GB. Offsets are products of two 32-bit numbers (`disk.c` 968, 1202):
  they wrap, and zeroing one partition writes over another. `Far` models it; the properties
  of what is on the disk are stated for smaller disks (`InReach`). They also ask that what is
  requested can be had (`Fits`) and that a partition is larger than its boot loader (`Roomy`).
* That the zeroing of a partition never writes its last sector, and starts behind its boot
  loader or `--offset`, is what `ZeroCovers` says, not what one might wish.
* The hunt for a volume (`disk_command_query_hunt`), which no caller enables; the option for
  sectors per cluster, volume names, CHS numbers; a boot loader that cannot be read; DIE for a
  failing write in format.
* The second copy of the FAT, which fatdisk never writes; dates, attributes, all output.

## 7. Plan

Models of what is listed as a hazard and has no property: names with pattern characters in
add (`fat.c` 3574), small directory clusters (1899).

Proofs: every safety property of a passing run is proved; liveness stays with TLC.
