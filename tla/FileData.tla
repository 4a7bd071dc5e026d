------------------------------ MODULE FileData ------------------------------
(***************************************************************************)
(* The data of a file: how file_import puts it into the clusters it has    *)
(* allocated, runs of neighbouring clusters first and the rest one by one, *)
(* and how file_extract, file_cat and file_hexdump read it back along the  *)
(* chain.  The readers also meet files that other systems have written,    *)
(* whose chains may be too long, too short, broken or closed.              *)
(*                                                                         *)
(* The unit of data is a sector.  Sector number i of a file holds i + 1,   *)
(* or 0 if it is blank.                                                    *)
(***************************************************************************)
EXTENDS FatOps, Sequences

CONSTANTS
  SectorsPerCluster,   \* cluster_size(disk), in sectors
  MaxLen               \* bound: the longest file, in sectors

ASSUME SectorsPerClusterAssumption == SectorsPerCluster \in Nat \ {0}
ASSUME MaxLenAssumption == MaxLen \in Nat

VARIABLES
  file,      \* what file_read has read: sector i is file[i]
  chain,     \* history: the clusters cluster_alloc gave, in order
  array,     \* cluster_array: an entry is 0 once its cluster is written
  c,         \* the loop variable
  run,       \* cluster_start and cluster_end; frag_count is its length
  disk,      \* the data clusters
  writes,    \* history: how often each cluster was written
  fat,       \* the table
  first,     \* dirent: the first cluster
  size,      \* dirent: the size of the file
  imported,  \* whether fatdisk itself wrote the file
  pc,        \* where the program is
  reader,    \* the command that reads the file
  cur,       \* cluster
  left,      \* size, which the reader counts down
  out,       \* what the reader has delivered
  blank      \* empty_block

importing == <<array, c, run, disk, writes>>
stored == <<file, chain, fat, first, size, imported>>
reading == <<reader, cur, left, out, blank>>
vars == <<importing, stored, reading, pc>>

Offsets == 0 .. (SectorsPerCluster - 1)
DataClusters == 3 .. (TotalClusters - 1)
Readers == {"extract", "cat", "hexdump"}
Stale == MaxLen + 1    \* what a free cluster still holds
None == [start |-> -1, count |-> 0]

\* How many clusters a file of n sectors takes; an empty one takes one, too.
ClusterCount(n) ==
  LET count == (n + SectorsPerCluster - 1) \div SectorsPerCluster
  IN  IF count = 0 THEN 1 ELSE count

\* How much of the file is in `count` of its clusters from the k-th on: the sum
\* of their cluster_len.
DataLen(k, count) ==
  IF size < (k + count) * SectorsPerCluster THEN size - k * SectorsPerCluster
                                            ELSE count * SectorsPerCluster

----------------------------------------------------------------------------
(* The volume before an import, and volumes other systems have written.    *)

Files(n) ==
  {[i \in 0 .. (n - 1) |-> IF i \in blanks THEN 0 ELSE i + 1] :
     blanks \in SUBSET (0 .. (n - 1))}

\* cluster_alloc goes up from the last cluster it gave, and starts over at the
\* bottom once.
Allocations(n) ==
  {a \in [0 .. (n - 1) -> DataClusters] :
     \E from \in DataClusters : \A j \in 0 .. (n - 1), k \in 0 .. (n - 1) :
       j < k => (a[j] - from) % TotalClusters < (a[k] - from) % TotalClusters}

\* The table once file_import has linked a: its loop is FatTable's.
Linked(a) ==
  LET used == {a[k] : k \in DOMAIN a}
      At(cl) == CHOOSE k \in DOMAIN a : a[k] = cl
      After(k) == IF k + 1 \in DOMAIN a THEN a[k + 1] ELSE EOC
  IN  [cl \in Entries |->
         CASE cl <= 2 -> EOC
           [] cl \in used -> After(At(cl))
           [] OTHER -> 0]

InitImport ==
  /\ imported = TRUE
  /\ size \in 0 .. MaxLen
  /\ ClusterCount(size) <= Cardinality(DataClusters)
  /\ file \in Files(size)
  /\ chain \in Allocations(ClusterCount(size))
  /\ array = chain
  /\ fat = Linked(chain)
  /\ first = chain[0]
  /\ disk = [cl \in Clusters |-> [i \in Offsets |-> Stale]]
  /\ pc = "runs"

\* Any entry and any table; the sectors of a cluster tell which it is.
InitForeign ==
  /\ imported = FALSE
  /\ size \in 0 .. MaxLen
  /\ file = <<>> /\ chain = <<>> /\ array = <<>>
  /\ fat \in {[cl \in Entries |-> IF cl <= 2 THEN EOC ELSE f[cl]] :
                f \in [DataClusters -> {0, EOC} \cup DataClusters]}
  /\ first \in {0} \cup DataClusters
  /\ disk = [cl \in Clusters |-> [i \in Offsets |-> cl]]
  /\ pc = "stored"

Init ==
  /\ InitImport \/ InitForeign
  /\ c = 0 /\ run = None
  /\ writes = [cl \in Clusters |-> 0]
  /\ reader \in Readers
  /\ cur = 0 /\ left = 0 /\ out = <<>> /\ blank = FALSE

----------------------------------------------------------------------------
(* file_import: first the runs.                                            *)

\* cluster_write_no_cache of `count` clusters from cluster `head` on: a zeroed
\* block that starts with n sectors of the file, from sector `from` on.
WriteClusters(head, count, from, n) ==
  LET block == head .. (head + count - 1)
      Sector(cl, i) ==
        LET j == (cl - head) * SectorsPerCluster + i
        IN  IF j < n THEN file[from + j] ELSE 0
  IN  /\ disk' = [cl \in Clusters |->
                    IF cl \in block THEN [i \in Offsets |-> Sector(cl, i)]
                    ELSE disk[cl]]
      /\ writes' = [cl \in Clusters |->
                      IF cl \in block THEN writes[cl] + 1 ELSE writes[cl]]

\* The block of data for `count` clusters from the k-th of the file on.
WriteBlock(k, count) ==
  WriteClusters(array[k], count, k * SectorsPerCluster, DataLen(k, count))

\* A slip: they are left in the array.
WrittenKeeping(k, count) == array

\* A slip: one more of them is taken out.
WrittenOneMore(k, count) ==
  [j \in DOMAIN array |-> IF j \in k .. (k + count) THEN 0 ELSE array[j]]

\* They are taken out of the array, so as not to be looked at later.
Written(k, count) ==
  [j \in DOMAIN array |-> IF j \in k .. (k + count - 1) THEN 0 ELSE array[j]]

RunOver == None

Last == ClusterCount(size) - 1

Adjacent == c < Last /\ array[c] + 1 = array[c + 1]

\* The next cluster is contiguous: this one joins the run.
ExtendRun ==
  /\ pc = "runs" /\ c <= Last
  /\ array[c] # 0
  /\ Adjacent
  /\ run' = [start |-> IF run.start = -1 THEN c ELSE run.start,
             count |-> run.count + 1]
  /\ c' = c + 1
  /\ UNCHANGED <<array, disk, writes, stored, reading, pc>>

\* The run ends before this cluster, which is left for the second loop.
WriteRun ==
  /\ pc = "runs" /\ c <= Last
  /\ array[c] # 0
  /\ ~Adjacent
  /\ run.count > 0
  /\ WriteBlock(run.start, run.count)
  /\ array' = Written(run.start, run.count)
  /\ run' = RunOver
  /\ c' = c + 1
  /\ UNCHANGED <<stored, reading, pc>>

PassAlone ==
  /\ pc = "runs" /\ c <= Last
  /\ array[c] # 0
  /\ ~Adjacent
  /\ run.count = 0
  /\ c' = c + 1
  /\ UNCHANGED <<array, run, disk, writes, stored, reading, pc>>

RunsDone ==
  /\ pc = "runs" /\ c > Last
  /\ pc' = "singles"
  /\ c' = 0
  /\ UNCHANGED <<array, run, disk, writes, stored, reading>>

\* Then every cluster that is left.
WriteSingle ==
  /\ pc = "singles" /\ c <= Last
  /\ array[c] # 0
  /\ WriteBlock(c, 1)
  /\ c' = c + 1
  /\ UNCHANGED <<array, run, stored, reading, pc>>

PassWritten ==
  /\ pc = "singles" /\ c <= Last
  /\ array[c] = 0
  /\ c' = c + 1
  /\ UNCHANGED <<array, run, disk, writes, stored, reading, pc>>

SinglesDone ==
  /\ pc = "singles" /\ c > Last
  /\ pc' = "stored"
  /\ c' = 0
  /\ UNCHANGED <<array, run, disk, writes, stored, reading>>

----------------------------------------------------------------------------
(* file_extract, file_cat and file_hexdump.                                *)

\* cat and hexdump return at once if the entry has no cluster.
StartReading ==
  /\ pc = "stored"
  /\ cur' = first
  /\ left' = size
  /\ pc' = IF reader # "extract" /\ first = 0 THEN "nothing" ELSE "read"
  /\ UNCHANGED <<importing, stored, reader, out, blank>>

Smaller(a, b) == IF a < b THEN a ELSE b

\* A slip: the whole of each cluster.
DeliveredWhole == [i \in 1 .. SectorsPerCluster |-> disk[cur][i - 1]]

\* What is delivered of the cluster that has been read.
Delivered == [i \in 1 .. Smaller(left, SectorsPerCluster) |-> disk[cur][i - 1]]

\* A slip: what was delivered is counted, not the cluster.
ConsumedDelivered == Smaller(left, SectorsPerCluster)

Consumed == SectorsPerCluster

\* hexdump leaves out a block that is blank if the last one was, too.  Only
\* the first sector of the cluster is looked at.
Skipped == reader = "hexdump" /\ disk[cur][0] = 0 /\ blank

\* hex_dump returns false if what it has printed ends blank, or is nothing.
EndsBlank == Delivered = <<>> \/ Delivered[Len(Delivered)] = 0

\* A slip: an empty file has a cluster, too.
TooLongAtZero == left <= 0

\* cat and hexdump check this before they read a cluster; extract finds out
\* when it passes a negative count to write.
TooLong == left < 0

\* cat and hexdump check the next cluster, extract takes 0 for an end mark.
Broken == reader # "extract" /\ fat[cur] = 0

ReadCluster ==
  /\ pc = "read"
  /\ ~EndChain(cur)
  /\ ~TooLong
  /\ out' = IF Skipped THEN out ELSE out \o Delivered
  /\ blank' = (disk[cur][0] = 0 \/ (~Skipped /\ EndsBlank))
  /\ left' = left - Consumed
  /\ IF Broken THEN pc' = "error" /\ cur' = cur
               ELSE pc' = "read" /\ cur' = fat[cur]
  /\ UNCHANGED <<importing, stored, reader>>

ChainTooLong ==
  /\ pc = "read"
  /\ ~EndChain(cur)
  /\ TooLong
  /\ pc' = IF reader = "extract" THEN "died" ELSE "error"
  /\ UNCHANGED <<importing, stored, reading>>

\* cluster_read fails.
ReadFails ==
  /\ pc = "read"
  /\ ~EndChain(cur)
  /\ reader = "extract" \/ ~TooLong
  /\ pc' = "io"
  /\ UNCHANGED <<importing, stored, reading>>

\* The end of the chain; DIE("Premature end of file detected") if the size is
\* not used up.
ChainEnds ==
  /\ pc = "read"
  /\ EndChain(cur)
  /\ pc' = IF left > 0 THEN "died" ELSE "ok"
  /\ UNCHANGED <<importing, stored, reading>>

Import ==
  \/ ExtendRun \/ WriteRun \/ PassAlone \/ RunsDone
  \/ WriteSingle \/ PassWritten \/ SinglesDone

Read == StartReading \/ ReadCluster \/ ChainTooLong \/ ReadFails \/ ChainEnds

Next == Import \/ Read

Spec == Init /\ [][Next]_vars

\* One thread that waits for nothing.
FairSpec == Spec /\ WF_vars(Next)

----------------------------------------------------------------------------
(* Properties.                                                             *)

\* Sector i of the k-th cluster of the file, with zeroes after its end.
Part(k) ==
  [i \in Offsets |->
     LET j == k * SectorsPerCluster + i IN IF j < size THEN file[j] ELSE 0]

\* When file_import returns, each cluster of the file has been written exactly
\* once and holds its own part of the file, and no other cluster was written:
\* the loop over runs and the loop over what is left share the work.
WrittenOnce ==
  imported /\ pc \notin {"runs", "singles"} =>
    /\ \A k \in DOMAIN chain :
         disk[chain[k]] = Part(k) /\ writes[chain[k]] = 1
    /\ \A cl \in Clusters :
         (\A k \in DOMAIN chain : chain[k] # cl) => writes[cl] = 0

\* A file that fatdisk has stored comes out as it went in, whatever its size and
\* wherever its clusters are, with extract and with cat.  Of what hexdump leaves
\* out each cluster starts with a blank sector.
ComesOutAsItWentIn ==
  imported /\ pc = "ok" =>
    IF reader # "hexdump"
    THEN Len(out) = size /\ \A i \in 1 .. size : out[i] = file[i - 1]
    ELSE \A k \in DOMAIN chain : Part(k)[0] # 0 =>
           \A i \in Offsets : Part(k)[i] # 0 =>
             \E j \in DOMAIN out : out[j] = Part(k)[i]

\* Of any file at all, extract and cat deliver no more than its size, and say
\* that all is well only if they have delivered all of it.
SizeRespected ==
  /\ Len(out) <= size
  /\ pc = "ok" /\ reader # "hexdump" => Len(out) = size

\* Nobody complains about a file whose chain is as long as its size says.
OnlyDamagedFilesFail ==
  pc \in {"error", "died"} =>
    ~ (/\ Terminated(fat, first)
       /\ Cardinality(Chain(fat, first)) = ClusterCount(size))

\* Every import and every read ends, even of a chain that is closed on itself.
CommandEnds == <>(pc \in {"ok", "nothing", "io", "error", "died"})
=============================================================================
