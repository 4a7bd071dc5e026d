------------------------------- MODULE FatOps -------------------------------
(***************************************************************************)
(* The file allocation table as fat.c sees it, without state: which        *)
(* numbers are clusters, how a chain ends, where cluster_alloc looks for a *)
(* free cluster, and what chain a head cluster starts.                     *)
(*                                                                         *)
(* A FAT entry is a number.  0 is a free cluster, EOC is what cluster_max  *)
(* writes, and anything else is the number of the next cluster.  The real  *)
(* end marks (0xFF8, 0xFFF8, 0x0FFFFFF8) are all above every cluster       *)
(* number, and so is EOC here.                                             *)
(***************************************************************************)
EXTENDS Integers, FiniteSets

CONSTANTS
  TotalClusters,   \* total_clusters(disk): cluster_alloc stops below it
  Fat32            \* TRUE for FAT32, FALSE for FAT12 and FAT16

ASSUME TotalClustersAssumption == TotalClusters \in Nat /\ TotalClusters > 3
ASSUME Fat32Assumption == Fat32 \in BOOLEAN

Entries == 0 .. (TotalClusters - 1)    \* the entries fat_format initialises
Clusters == 2 .. (TotalClusters - 1)   \* the ones cluster_alloc scans
EOC == TotalClusters

\* FAT32 keeps the root directory in cluster 2.  On FAT12/16 it is a fixed
\* region, and dirent_t.cluster is 0 for it.
RootCluster == IF Fat32 THEN 2 ELSE 0

FatValues == {0, EOC} \cup Clusters

\* On FAT32 cluster 2 is the root and never the next cluster of a chain.
EndChain(c) ==
  \/ c < 2
  \/ Fat32 /\ c <= 2
  \/ c >= EOC

\* The first free cluster at or after `from`: a set of one cluster or none.
FirstFree(fat, from) ==
  {c \in from .. (TotalClusters - 1) :
     fat[c] = 0 /\ \A d \in from .. (c - 1) : fat[d] # 0}

\* A slip: giving up after the first pass.
ClusterAllocOnePass(fat, last) == FirstFree(fat, last)

\* One pass from the last cluster handed out and, if that finds none, one
\* more from cluster 2.
ClusterAlloc(fat, last) ==
  IF FirstFree(fat, last) # {} THEN FirstFree(fat, last) ELSE FirstFree(fat, 2)

\* fat_format keeps clusters 0, 1 and 2 out of circulation on every FAT type.
FormattedFat == [c \in Entries |-> IF c <= 2 THEN EOC ELSE 0]

----------------------------------------------------------------------------
(* What a reader of the table finds: used to state properties.             *)

\* What is met along the chain whose head is c, end mark included.
Along(fat, c) ==
  LET Follow(d) == IF EndChain(d) THEN d ELSE fat[d]
      met[n \in 0 .. TotalClusters] ==
        IF n = 0 THEN {c} ELSE UNION {{d, Follow(d)} : d \in met[n - 1]}
  IN  met[TotalClusters]

\* The allocated clusters of that chain.
Chain(fat, c) == {d \in Along(fat, c) : ~EndChain(d) /\ fat[d] # 0}

\* It comes to an end mark, not to a free entry and not back to itself.
Terminated(fat, c) == EOC \in Along(fat, c)
=============================================================================
