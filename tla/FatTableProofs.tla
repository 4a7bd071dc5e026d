--------------------------- MODULE FatTableProofs ---------------------------
(***************************************************************************)
(* Proofs about FatTable, for every number of clusters, every FAT type and *)
(* every set of files and directories.  IInv is inductive: it holds at the *)
(* start, and each action preserves it (one lemma per action).  The safety *)
(* properties are conjuncts of it.  The second part is about whole chains, *)
(* and shows that FatTable implements ClusterStore.  The third is about    *)
(* Commit: what one process hands on to the next, for every number of      *)
(* operations and every sequence of processes.                             *)
(***************************************************************************)
EXTENDS Commit, FiniteSetTheorems, WellFoundedInduction, TLAPS

USE TotalClustersAssumption, Fat32Assumption, ObjectsAssumption,
    MaxFileClustersAssumption

\* What an allocation can return: a cluster, and a free one.
LEMMA AllocIsFree ==
  ASSUME TypeOK, NEW c \in ClusterAlloc(fat, last)
  PROVE  c \in Clusters /\ fat[c] = 0
BY DEF TypeOK, ClusterAlloc, FirstFree, Clusters

\* The search misses no free cluster: it fails only if all are in use.
LEMMA AllocFindsFree ==
  ASSUME ClusterAlloc(fat, last) = {}
  PROVE  \A c \in Clusters : fat[c] # 0
<1> SUFFICES ASSUME NEW c \in Clusters, fat[c] = 0
             PROVE  FALSE
  OBVIOUS
<1> DEFINE Free == {d \in Clusters : fat[d] = 0}
<1>1. Free \subseteq Nat /\ Free # {}
  BY DEF Clusters
<1>2. \E x \in Free : \A y \in Free : ~ (<<y, x>> \in OpToRel(<, Nat))
  <2> HIDE DEF Free
  <2> QED BY <1>1, NatLessThanWellFounded, WFMin
<1>3. PICK x \in Free : \A y \in Free : ~ (<<y, x>> \in OpToRel(<, Nat))
  BY <1>2
<1>4. ASSUME NEW y \in Free, y < x
      PROVE  FALSE
  <2>1. x \in Nat /\ y \in Nat
    BY <1>1
  <2>2. <<y, x>> \in OpToRel(<, Nat)
    BY <2>1, <1>4 DEF OpToRel
  <2> QED BY <2>2, <1>3
<1>5. x \in FirstFree(fat, 2)
  BY <1>4 DEF FirstFree, Clusters
<1> QED BY <1>5 DEF ClusterAlloc

\* A free cluster that is not half linked is nobody's next or first cluster:
\* cluster_alloc can only return a cluster no chain leads to.
LEMMA FreeIsUnreferenced ==
  ASSUME IInv, NEW c \in Clusters, fat[c] = 0,
         pc \in {"idle", "slot", "alloc"}
  PROVE  Unreferenced(c)
<1>1. ASSUME NEW d \in Entries, fat[d] = c PROVE FALSE
  BY <1>1 DEF IInv, NoDangling, HalfLinked
<1>2. ASSUME NEW o \in Objects, first[o] = c PROVE FALSE
  BY <1>2 DEF IInv, NoDangling, Freeing, Clusters
<1> QED BY <1>1, <1>2 DEF Unreferenced

----------------------------------------------------------------------------
\* A volume just formatted by fat_format satisfies the invariant.
LEMMA InitIInv == Init => IInv
<1> SUFFICES ASSUME Init PROVE IInv
  OBVIOUS
<1> USE DEF Init, FormattedFat, Entries, Clusters, EOC, RootCluster, FatValues
<1>1. TypeOK
  BY DEF TypeOK, Phases, Objects
<1>2. NoCrossLink
  BY DEF NoCrossLink
<1>3. NoDangling
  BY DEF NoDangling, HalfLinked, Freeing
<1>4. NoOrphan
  BY DEF NoOrphan
<1>5. HeadsKnown
  BY DEF HeadsKnown, JustNamed
<1>6. GrowInv /\ ImportInv /\ RemoveInv
  BY DEF GrowInv, ImportInv, RemoveInv
<1> QED BY <1>1, <1>2, <1>3, <1>4, <1>5, <1>6 DEF IInv

----------------------------------------------------------------------------
(* Steps that leave the table and the entries alone.                       *)

\* Writing the entries back keeps it.
LEMMA DirentsWriteIInv == IInv /\ DirentsWrite => IInv'
<1> SUFFICES ASSUME IInv, DirentsWrite PROVE IInv'
  OBVIOUS
<1> USE DEF DirentsWrite, dirents, IInv
<1>1. TypeOK'
  BY DEF TypeOK, Phases, Clusters, FatValues
<1>2. NoCrossLink'
  BY DEF NoCrossLink
<1>3. NoDangling'
  BY DEF NoDangling, HalfLinked, Freeing
<1>4. NoOrphan'
  BY DEF NoOrphan
<1>5. HeadsKnown'
  BY DEF HeadsKnown, JustNamed
<1>6. (GrowInv /\ ImportInv /\ RemoveInv)'
  BY DEF GrowInv, ImportInv, RemoveInv
<1> QED BY <1>1, <1>2, <1>3, <1>4, <1>5, <1>6


----------------------------------------------------------------------------
(* Adding an entry.                                                        *)

\* Coming upon the directory to add in keeps it.
LEMMA AddStartIInv ==
  ASSUME IInv, NEW o \in Objects, NEW d \in Dirs \cup {Root}, AddStart(o, d)
  PROVE  IInv'
<1> USE DEF AddStart, dirents, locals, IInv
<1>1. TypeOK'
  BY DEF TypeOK, Phases, Entries, Clusters, EOC, FatValues, RootCluster, Objects
<1>2. NoCrossLink'
  BY DEF NoCrossLink
<1>3. NoDangling'
  BY DEF NoDangling, HalfLinked, Freeing
<1>4. NoOrphan'
  BY DEF NoOrphan
<1>5. HeadsKnown'
  BY DEF HeadsKnown, JustNamed
<1>6. GrowInv'
  BY DEF GrowInv
<1>7. ImportInv'
  BY DEF ImportInv
<1>8. RemoveInv'
  BY DEF RemoveInv
<1> QED BY <1>1, <1>2, <1>3, <1>4, <1>5, <1>6, <1>7, <1>8

\* Naming the new entry, which has no cluster yet, keeps it.
LEMMA FindSlotIInv ==
  ASSUME IInv, NEW n \in 1 .. MaxFileClusters, FindSlot(n)
  PROVE  IInv'
<1> USE DEF FindSlot, dirents, locals, IInv
<1>1. TypeOK'
  <2>1. n \in 0 .. MaxFileClusters
    OBVIOUS
  <2>2. obj \in Objects
    BY DEF GrowInv
  <2> QED BY <2>1, <2>2 DEF TypeOK, Phases, FatValues
<1>2. NoCrossLink'
  BY DEF NoCrossLink
<1>3. NoDangling'
  BY DEF NoDangling, HalfLinked, Freeing
<1>4. NoOrphan'
  BY DEF NoOrphan
<1>5. HeadsKnown'
  BY DEF HeadsKnown, JustNamed
<1>6. GrowInv'
  BY DEF GrowInv
<1>7. ImportInv'
  BY DEF ImportInv, GrowInv, HeadsKnown, TypeOK
<1>8. RemoveInv'
  BY DEF RemoveInv
<1> QED BY <1>1, <1>2, <1>3, <1>4, <1>5, <1>6, <1>7, <1>8

\* dirents_grow's cluster_alloc keeps it: the cluster is unreferenced.
LEMMA GrowAllocIInv ==
  ASSUME IInv, GrowAlloc
  PROVE  IInv'
<1> USE DEF GrowAlloc, dirents, locals, IInv
<1>a. new' \in Clusters /\ fat[new'] = 0 /\ last' \in Clusters
  BY AllocIsFree
<1>b. Unreferenced(new')
  BY <1>a, FreeIsUnreferenced
<1>c. HeadOf(dir) \in Entries /\ fat[HeadOf(dir)] # 0
  BY DEF HeadOf, HeadsKnown, JustNamed, GrowInv, NoDangling, Freeing, TypeOK,
         Objects, Entries, Clusters, EOC, FatValues, RootCluster
<1>1. TypeOK'
  <2>1. HeadOf(dir) \in FatValues
    BY DEF HeadOf, TypeOK, Objects, Entries, Clusters, EOC, FatValues, RootCluster
  <2> QED BY <1>a, <2>1 DEF TypeOK, Phases
<1>2. NoCrossLink'
  BY DEF NoCrossLink
<1>3. NoDangling'
  BY DEF NoDangling, HalfLinked, Freeing
<1>4. NoOrphan'
  BY DEF NoOrphan
<1>5. HeadsKnown'
  BY DEF HeadsKnown, JustNamed
<1>6. GrowInv'
  BY <1>a, <1>b, <1>c DEF GrowInv, Unreferenced
<1>7. ImportInv'
  BY DEF ImportInv
<1>8. RemoveInv'
  BY DEF RemoveInv
<1> QED BY <1>1, <1>2, <1>3, <1>4, <1>5, <1>6, <1>7, <1>8

\* A step of dirents_grow along the directory's chain keeps it.
LEMMA GrowWalkIInv ==
  ASSUME IInv, GrowWalk
  PROVE  IInv'
<1> USE DEF GrowWalk, dirents, locals, IInv
<1>a. fat[cur] \in Clusters /\ fat[fat[cur]] # 0
  BY DEF GrowInv, NoDangling, HalfLinked, EndChain, TypeOK, Entries, Clusters, EOC, FatValues, RootCluster
<1>1. TypeOK'
  BY <1>a DEF TypeOK, FatValues
<1>2. NoCrossLink'
  BY DEF NoCrossLink
<1>3. NoDangling'
  BY DEF NoDangling, HalfLinked, Freeing
<1>4. NoOrphan'
  BY DEF NoOrphan
<1>5. HeadsKnown'
  BY DEF HeadsKnown, JustNamed
<1>6. GrowInv'
  <2>1. cur' \in Entries /\ fat'[cur'] # 0
    BY <1>a DEF Entries, Clusters
  <2> QED BY <2>1 DEF GrowInv, Unreferenced
<1>7. ImportInv'
  BY DEF ImportInv
<1>8. RemoveInv'
  BY DEF RemoveInv
<1> QED BY <1>1, <1>2, <1>3, <1>4, <1>5, <1>6, <1>7, <1>8

\* Linking the new cluster to the end of the directory keeps it.
LEMMA GrowLinkIInv ==
  ASSUME IInv, GrowLink
  PROVE  IInv'
<1> USE DEF GrowLink, dirents, locals, IInv
<1>a. /\ cur \in Entries /\ fat[cur] # 0 /\ cur # new
      /\ new \in Clusters /\ fat[new] = 0 /\ Unreferenced(new)
  BY DEF GrowInv
<1>b. fat[cur] \notin Clusters
  BY <1>a DEF NoCrossLink, EndChain, TypeOK, Entries, Clusters, EOC, FatValues, RootCluster
<1>c. \A c \in Entries : fat'[c] = IF c = cur THEN new ELSE fat[c]
  BY <1>a DEF TypeOK
<1>d. Clusters \subseteq Entries /\ 0 \notin Clusters
  BY DEF Entries, Clusters
<1>1. TypeOK'
  BY <1>a DEF TypeOK, Phases, FatValues
<1>2. NoCrossLink'
  <2>1. Fat32 => new # RootCluster
    BY <1>a DEF HeadsKnown, JustNamed
  <2> QED BY <1>a, <1>b, <1>c, <2>1 DEF NoCrossLink, Unreferenced
<1>3. NoDangling'
  BY <1>a, <1>c, <1>d DEF NoDangling, HalfLinked, Freeing, TypeOK
<1>4. NoOrphan'
  BY <1>a, <1>b, <1>c, <1>d DEF NoOrphan, Entries, Clusters
<1>5. HeadsKnown'
  BY <1>a, <1>c, <1>d DEF HeadsKnown, JustNamed, RootCluster, Entries, Clusters
<1>6. GrowInv'
  BY <1>a, <1>c, <1>d DEF GrowInv
<1>7. ImportInv'
  BY DEF ImportInv
<1>8. RemoveInv'
  BY DEF RemoveInv
<1> QED BY <1>1, <1>2, <1>3, <1>4, <1>5, <1>6, <1>7, <1>8

\* Marking the new cluster as the directory's end keeps it.
LEMMA GrowMarkIInv ==
  ASSUME IInv, GrowMark
  PROVE  IInv'
<1> USE DEF GrowMark, dirents, locals, IInv
<1>a. /\ cur \in Entries /\ fat[cur] = new
      /\ new \in Clusters /\ fat[new] = 0
  BY DEF GrowInv
<1>b. \A c \in Entries : fat'[c] = IF c = new THEN EOC ELSE fat[c]
  BY <1>a DEF TypeOK, Entries, Clusters
<1>c. /\ Clusters \subseteq Entries /\ 0 \notin Clusters
      /\ EOC \notin Clusters /\ EOC # 0 /\ EOC # RootCluster
  BY DEF Entries, Clusters, EOC, RootCluster
<1>1. TypeOK'
  BY DEF TypeOK, Phases, Entries, Clusters, EOC, FatValues, RootCluster, Objects
<1>2. NoCrossLink'
  BY <1>a, <1>b, <1>c DEF NoCrossLink, TypeOK
<1>3. NoDangling'
  BY <1>a, <1>b, <1>c DEF NoDangling, HalfLinked, Freeing, TypeOK
<1>4. NoOrphan'
  BY <1>a, <1>b, <1>c DEF NoOrphan, Entries, Clusters
<1>5. HeadsKnown'
  BY <1>a, <1>b, <1>c DEF HeadsKnown, JustNamed, RootCluster, Entries
<1>6. GrowInv'
  BY DEF GrowInv
<1>7. ImportInv'
  BY DEF ImportInv
<1>8. RemoveInv'
  BY DEF RemoveInv
<1> QED BY <1>1, <1>2, <1>3, <1>4, <1>5, <1>6, <1>7, <1>8

\* file_import's cluster_alloc keeps it: the cluster is unreferenced.
LEMMA ImportAllocIInv ==
  ASSUME IInv, ImportAlloc
  PROVE  IInv'
<1> USE DEF ImportAlloc, dirents, locals, IInv
<1>a. new' \in Clusters /\ fat[new'] = 0 /\ last' \in Clusters
  BY AllocIsFree
<1>b. Unreferenced(new')
  BY <1>a, FreeIsUnreferenced
<1>1. TypeOK'
  BY <1>a DEF TypeOK, Phases
<1>2. NoCrossLink'
  BY DEF NoCrossLink
<1>3. NoDangling'
  BY DEF NoDangling, HalfLinked, Freeing
<1>4. NoOrphan'
  BY DEF NoOrphan
<1>5. HeadsKnown'
  BY DEF HeadsKnown, JustNamed
<1>6. GrowInv'
  BY DEF GrowInv
<1>7. ImportInv'
  BY <1>a, <1>b DEF ImportInv, Unreferenced
<1>8. RemoveInv'
  BY DEF RemoveInv
<1> QED BY <1>1, <1>2, <1>3, <1>4, <1>5, <1>6, <1>7, <1>8

\* Linking the new cluster to the file's last one keeps it.
LEMMA ImportLinkIInv ==
  ASSUME IInv, ImportLink
  PROVE  IInv'
<1> USE DEF ImportLink, dirents, locals, IInv
<1>a. /\ cur \in Clusters /\ fat[cur] = EOC /\ cur # new
      /\ new \in Clusters /\ fat[new] = 0 /\ Unreferenced(new)
  BY DEF ImportInv, EOC
<1>b. \A c \in Entries : fat'[c] = IF c = cur THEN new ELSE fat[c]
  BY <1>a DEF TypeOK
<1>c. /\ Clusters \subseteq Entries /\ 0 \notin Clusters
      /\ EOC \notin Clusters /\ EOC # 0
  BY DEF Entries, Clusters, EOC
<1>1. TypeOK'
  BY <1>a DEF TypeOK, Phases, FatValues
<1>2. NoCrossLink'
  <2>1. Fat32 => new # RootCluster
    BY <1>a DEF HeadsKnown, JustNamed
  <2> QED BY <1>a, <1>b, <1>c, <2>1 DEF NoCrossLink, Unreferenced
<1>3. NoDangling'
  BY <1>a, <1>b, <1>c DEF NoDangling, HalfLinked, Freeing, TypeOK
<1>4. NoOrphan'
  BY <1>a, <1>b, <1>c DEF NoOrphan, Entries, Clusters
<1>5. HeadsKnown'
  BY <1>a, <1>b, <1>c DEF HeadsKnown, JustNamed, RootCluster, Entries, Clusters
<1>6. GrowInv'
  BY DEF GrowInv
<1>7. ImportInv'
  BY <1>a, <1>b, <1>c DEF ImportInv
<1>8. RemoveInv'
  BY DEF RemoveInv
<1> QED BY <1>1, <1>2, <1>3, <1>4, <1>5, <1>6, <1>7, <1>8

\* Marking the new cluster, and pointing the entry at the first, keeps it.
LEMMA ImportMarkIInv ==
  ASSUME IInv, ImportMark
  PROVE  IInv'
<1> USE DEF ImportMark, dirents, locals, IInv
<1>a. /\ new \in Clusters /\ fat[new] = 0 /\ obj \in entries /\ obj \in Objects
      /\ left > 0
      /\ cur = 0 <=> first[obj] = 0
      /\ cur # 0 => cur \in Clusters /\ fat[cur] = new
      /\ cur = 0 => Unreferenced(new)
  BY DEF ImportInv, TypeOK
<1>b. \A c \in Entries : fat'[c] = IF c = new THEN EOC ELSE fat[c]
  BY <1>a DEF TypeOK, Entries, Clusters
<1>c. /\ Clusters \subseteq Entries /\ 0 \notin Clusters
      /\ EOC \notin Clusters /\ EOC # 0 /\ EOC # RootCluster
  BY DEF Entries, Clusters, EOC, RootCluster
<1>d. \A o \in Objects : first'[o] = IF cur = 0 /\ o = obj THEN new ELSE first[o]
  BY <1>a DEF TypeOK
<1>e. Fat32 => new # RootCluster
  BY <1>a DEF HeadsKnown, JustNamed
<1>1. TypeOK'
  <2>1. left' \in 0 .. MaxFileClusters
    BY <1>a DEF TypeOK
  <2>2. fat' \in [Entries -> FatValues]
    BY DEF TypeOK, FatValues
  <2>3. first' \in [Objects -> {0} \cup Clusters]
    BY <1>a DEF TypeOK
  <2> QED BY <1>a, <2>1, <2>2, <2>3 DEF TypeOK, Phases, FatValues
<1>2. NoCrossLink'
  BY <1>a, <1>b, <1>c, <1>d, <1>e DEF NoCrossLink, TypeOK, Unreferenced
<1>3. NoDangling'
  BY <1>a, <1>b, <1>c, <1>d DEF NoDangling, HalfLinked, Freeing, TypeOK
<1>4. NoOrphan'
  BY <1>a, <1>b, <1>c, <1>d DEF NoOrphan, Entries, Clusters, Unreferenced
<1>5. HeadsKnown'
  BY <1>a, <1>b, <1>c, <1>d DEF HeadsKnown, JustNamed, RootCluster, Entries
<1>6. GrowInv'
  BY DEF GrowInv
<1>7. ImportInv'
  BY <1>a, <1>b, <1>c, <1>d DEF ImportInv, TypeOK
<1>8. RemoveInv'
  BY DEF RemoveInv
<1> QED BY <1>1, <1>2, <1>3, <1>4, <1>5, <1>6, <1>7, <1>8

\* Dying changes neither the table nor the entries.
LEMMA OutOfClustersIInv ==
  ASSUME IInv, OutOfClusters
  PROVE  IInv'
<1> USE DEF OutOfClusters, dirents, locals, IInv
<1>1. TypeOK'
  BY DEF TypeOK, Phases, Entries, Clusters, EOC, FatValues, RootCluster, Objects
<1>2. NoCrossLink'
  BY DEF NoCrossLink
<1>3. NoDangling'
  BY DEF NoDangling, HalfLinked, Freeing
<1>4. NoOrphan'
  BY DEF NoOrphan
<1>5. HeadsKnown'
  BY DEF HeadsKnown, JustNamed
<1>6. GrowInv'
  BY DEF GrowInv
<1>7. ImportInv'
  BY DEF ImportInv
<1>8. RemoveInv'
  BY DEF RemoveInv
<1> QED BY <1>1, <1>2, <1>3, <1>4, <1>5, <1>6, <1>7, <1>8

----------------------------------------------------------------------------
(* Removing an entry.                                                      *)

\* Coming upon the entry to remove keeps it.
LEMMA RemoveStartIInv ==
  ASSUME IInv, NEW o \in Objects, RemoveStart(o)
  PROVE  IInv'
<1> USE DEF RemoveStart, dirents, locals, IInv
<1>1. TypeOK'
  BY DEF TypeOK, Phases, Entries, Clusters, EOC, FatValues, RootCluster, Objects
<1>2. NoCrossLink'
  BY DEF NoCrossLink
<1>3. NoDangling'
  BY DEF NoDangling, HalfLinked, Freeing
<1>4. NoOrphan'
  BY DEF NoOrphan
<1>5. HeadsKnown'
  BY DEF HeadsKnown, JustNamed
<1>6. GrowInv'
  BY DEF GrowInv
<1>7. ImportInv'
  BY DEF ImportInv
<1>8. RemoveInv'
  BY DEF RemoveInv, NoCrossLink, EndChain, Objects
<1> QED BY <1>1, <1>2, <1>3, <1>4, <1>5, <1>6, <1>7, <1>8

\* Freeing the cluster at the head of what is left of a chain keeps it.
LEMMA FreeNextIInv ==
  ASSUME IInv, FreeNext
  PROVE  IInv'
<1> USE DEF FreeNext, dirents, locals, IInv
<1>a. /\ cur \in Clusters /\ cur # RootCluster /\ obj \in entries /\ obj \in Objects
      /\ \A d \in Entries : fat[d] # cur
      /\ \A o \in Objects \ {obj} : first[o] # cur
      /\ fat[first[obj]] = 0 \/ cur = first[obj]
  BY DEF RemoveInv, EndChain, TypeOK, Entries, Clusters, EOC, FatValues, RootCluster
<1>b. /\ Clusters \subseteq Entries /\ 0 \notin Clusters
      /\ EOC \notin Clusters /\ EOC # 0
  BY DEF Entries, Clusters, EOC
<1>c. \A c \in Entries : fat'[c] = IF c = cur THEN 0 ELSE fat[c]
  BY <1>a, <1>b DEF TypeOK
<1>d. fat[cur] \in FatValues
  BY <1>a, <1>b DEF TypeOK
<1>1. TypeOK'
  BY <1>d DEF TypeOK, FatValues
<1>2. NoCrossLink'
  BY <1>a, <1>b, <1>c DEF NoCrossLink, RootCluster, Clusters
<1>3. NoDangling'
  BY <1>a, <1>b, <1>c DEF NoDangling, HalfLinked, Freeing, TypeOK
<1>4. NoOrphan'
  BY <1>a, <1>b, <1>c DEF NoOrphan, Entries, Clusters
<1>5. HeadsKnown'
  BY <1>a, <1>b, <1>c DEF HeadsKnown, JustNamed, RootCluster, Entries
<1>6. GrowInv'
  BY DEF GrowInv
<1>7. ImportInv'
  BY DEF ImportInv
<1>8. RemoveInv'
  <2>1. fat'[first[obj]] = 0
    BY <1>a, <1>b, <1>c, HeadsKnown DEF TypeOK, HeadsKnown, JustNamed
  <2>2. ASSUME ~EndChain(cur')
        PROVE  /\ \A d \in Entries : fat'[d] # cur'
               /\ \A o \in Objects \ {obj} : first[o] # cur'
    <3>1. cur' \in Clusters /\ cur' = fat[cur]
      BY <2>2, <1>d DEF EndChain, FatValues, EOC
    <3> QED BY <3>1, <1>a, <1>b, <1>c DEF NoCrossLink
  <2> QED BY <2>1, <2>2 DEF RemoveInv
<1> QED BY <1>1, <1>2, <1>3, <1>4, <1>5, <1>6, <1>7, <1>8

\* The end of the chain reached by way of "." keeps it.
LEMMA DotDoneIInv ==
  ASSUME IInv, DotDone
  PROVE  IInv'
<1> USE DEF DotDone, dirents, locals, IInv
<1>a. obj = dir /\ obj \in entries
  BY DEF RemoveInv
<1>1. TypeOK'
  BY DEF TypeOK, Phases, Entries, Clusters, EOC, FatValues, RootCluster, Objects
<1>2. NoCrossLink'
  BY DEF NoCrossLink
<1>3. NoDangling'
  BY <1>a DEF NoDangling, HalfLinked, Freeing
<1>4. NoOrphan'
  BY <1>a DEF NoOrphan, EndChain, EOC
<1>5. HeadsKnown'
  BY DEF HeadsKnown, JustNamed
<1>6. GrowInv'
  BY DEF GrowInv
<1>7. ImportInv'
  BY DEF ImportInv
<1>8. RemoveInv'
  BY DEF RemoveInv
<1> QED BY <1>1, <1>2, <1>3, <1>4, <1>5, <1>6, <1>7, <1>8

\* Coming upon a file of the directory being removed keeps it.
LEMMA SweepFileIInv ==
  ASSUME IInv, NEW o \in Objects, SweepFile(o)
  PROVE  IInv'
<1> USE DEF SweepFile, dirents, locals, IInv
<1>1. TypeOK'
  BY DEF TypeOK, Phases, Entries, Clusters, EOC, FatValues, RootCluster, Objects
<1>2. NoCrossLink'
  BY DEF NoCrossLink
<1>3. NoDangling'
  BY DEF NoDangling, HalfLinked, Freeing
<1>4. NoOrphan'
  BY DEF NoOrphan
<1>5. HeadsKnown'
  BY DEF HeadsKnown, JustNamed
<1>6. GrowInv'
  BY DEF GrowInv
<1>7. ImportInv'
  BY DEF ImportInv
<1>8. RemoveInv'
  BY DEF RemoveInv, NoCrossLink, EndChain, TypeOK
<1> QED BY <1>1, <1>2, <1>3, <1>4, <1>5, <1>6, <1>7, <1>8

\* Coming back to the directory's own entry keeps it: its chain is free.
LEMMA SweepDoneIInv ==
  ASSUME IInv, SweepDone
  PROVE  IInv'
<1> USE DEF SweepDone, dirents, locals, IInv
<1>a. dir \in entries /\ dir \in Objects
  BY DEF RemoveInv, TypeOK
<1>1. TypeOK'
  BY <1>a DEF TypeOK, Phases, FatValues
<1>2. NoCrossLink'
  BY DEF NoCrossLink
<1>3. NoDangling'
  BY DEF NoDangling, HalfLinked, Freeing
<1>4. NoOrphan'
  BY DEF NoOrphan
<1>5. HeadsKnown'
  BY DEF HeadsKnown, JustNamed
<1>6. GrowInv'
  BY DEF GrowInv
<1>7. ImportInv'
  BY DEF ImportInv
<1>8. RemoveInv'
  BY <1>a DEF RemoveInv, NoCrossLink, EndChain
<1> QED BY <1>1, <1>2, <1>3, <1>4, <1>5, <1>6, <1>7, <1>8

\* Clearing the first cluster of an entry whose chain is free keeps it.
LEMMA FreeDoneIInv ==
  ASSUME IInv, FreeDone
  PROVE  IInv'
<1> USE DEF FreeDone, dirents, locals, IInv
<1>a. /\ obj \in entries /\ obj \in Objects
      /\ fat[first[obj]] = 0 \/ cur = first[obj]
      /\ dir # Root => dir \in entries
  BY DEF RemoveInv, TypeOK
<1>b. \A o \in Objects : first'[o] = IF o = obj THEN 0 ELSE first[o]
  BY DEF TypeOK
<1>c. Clusters \subseteq Entries /\ 0 \notin Clusters
  BY DEF Entries, Clusters
<1>1. TypeOK'
  <2>1. size' \in [Objects -> 0 .. MaxFileClusters]
    <3>1. 0 \in 0 .. MaxFileClusters
      OBVIOUS
    <3> QED BY <3>1 DEF TypeOK
  <2>2. parent' \in [Objects -> Dirs \cup {Root}]
    BY DEF TypeOK
  <2>3. first' \in [Objects -> {0} \cup Clusters]
    BY DEF TypeOK
  <2> QED BY <1>a, <2>1, <2>2, <2>3 DEF TypeOK, Phases
<1>2. NoCrossLink'
  <2>1. RootCluster # 0 \/ ~Fat32
    BY DEF RootCluster
  <2>2. \A o, p \in Objects : first'[o] # 0 /\ first'[o] = first'[p] => o = p
    BY <1>b DEF NoCrossLink
  <2>3. \A o \in Objects, c \in Entries : first'[o] # 0 => fat'[c] # first'[o]
    BY <1>b DEF NoCrossLink
  <2> QED BY <1>b, <2>1, <2>2, <2>3 DEF NoCrossLink
<1>3. NoDangling'
  BY <1>a, <1>b, <1>c DEF NoDangling, HalfLinked, Freeing
<1>4. NoOrphan'
  BY <1>a, <1>b, <1>c DEF NoOrphan, EndChain, EOC, Entries
<1>5. HeadsKnown'
  BY <1>a, <1>b, <1>c DEF HeadsKnown, JustNamed, TypeOK
<1>6. GrowInv'
  BY DEF GrowInv
<1>7. ImportInv'
  BY DEF ImportInv
<1>8. RemoveInv'
  BY <1>a, <1>b, <1>c DEF RemoveInv, TypeOK
<1> QED BY <1>1, <1>2, <1>3, <1>4, <1>5, <1>6, <1>7, <1>8

----------------------------------------------------------------------------
\* A step that changes no variable keeps the invariant.
LEMMA StutterIInv == IInv /\ UNCHANGED vars => IInv'
BY DEF IInv, vars, dirents, locals, TypeOK, NoCrossLink, NoDangling, NoOrphan,
       HeadsKnown, JustNamed, GrowInv, ImportInv, RemoveInv, HalfLinked, Freeing, Unreferenced

\* Every step keeps the invariant.
LEMMA NextIInv == IInv /\ [Next]_vars => IInv'
<1> SUFFICES ASSUME IInv, [Next]_vars PROVE IInv'
  OBVIOUS
<1>1. CASE UNCHANGED vars
  BY <1>1, StutterIInv
<1>2. ASSUME NEW o \in Objects, NEW d \in Dirs \cup {Root}, AddStart(o, d)
      PROVE  IInv'
  BY <1>2, AddStartIInv
<1>3. ASSUME NEW o \in Objects, RemoveStart(o)
      PROVE  IInv'
  BY <1>3, RemoveStartIInv
<1>4. CASE Add
  BY <1>4, FindSlotIInv, GrowAllocIInv, GrowWalkIInv, GrowLinkIInv, GrowMarkIInv,
     ImportAllocIInv, ImportLinkIInv, ImportMarkIInv, OutOfClustersIInv DEF Add
<1>5. CASE Remove
  BY <1>5, FreeNextIInv, DotDoneIInv, FreeDoneIInv, SweepFileIInv, SweepDoneIInv
     DEF Remove
<1>6. CASE DirentsWrite
  BY <1>6, DirentsWriteIInv
<1> QED BY <1>1, <1>2, <1>3, <1>4, <1>5, <1>6 DEF Next, Step

\* The inductive invariant holds in every reachable state.
THEOREM Invariance == Spec => []IInv
<1>1. Init => IInv
  BY InitIInv
<1>2. IInv /\ [Next]_vars => IInv'
  BY NextIInv
<1> QED BY <1>1, <1>2, PTL DEF Spec

\* Every variable keeps its type: the FAT never holds a number that is not
\* free, an end mark or a cluster of the volume.
THEOREM TypeCorrect == Spec => []TypeOK
<1>1. IInv => TypeOK
  BY DEF IInv
<1> QED BY <1>1, Invariance, PTL

\* No two chains meet: file_import and dirents_grow never link a cluster that
\* is in use, and dirent_remove leaves no pointer that could make one so.
THEOREM ChainsNeverCross == Spec => []NoCrossLink
<1>1. IInv => NoCrossLink
  BY DEF IInv
<1> QED BY <1>1, Invariance, PTL

\* No chain and no entry leads to a cluster that could be handed out again.
THEOREM NothingDangles == Spec => []NoDangling
<1>1. IInv => NoDangling
  BY DEF IInv
<1> QED BY <1>1, Invariance, PTL

\* No cluster is lost to the volume.
THEOREM NothingIsLost == Spec => []NoOrphan
<1>1. IInv => NoOrphan
  BY DEF IInv
<1> QED BY <1>1, Invariance, PTL

\* Every file gets its first cluster before the command that adds it ends.
THEOREM FilesHaveHeads == Spec => []FilesHeaded
<1>1. Init => FilesHeaded
  BY DEF Init, FilesHeaded
<1>2. IInv /\ FilesHeaded /\ [Next]_vars => FilesHeaded'
  <2> SUFFICES ASSUME IInv, FilesHeaded, [Next]_vars
               PROVE  FilesHeaded'
    OBVIOUS
  <2> USE DEF FilesHeaded, JustNamed, dirents, locals
  <2>1. CASE UNCHANGED vars
    BY <2>1 DEF vars
  <2>2. ASSUME NEW n \in 1 .. MaxFileClusters, FindSlot(n)
        PROVE  FilesHeaded'
    BY <2>2 DEF FindSlot
  <2>3. CASE ImportMark
    <3>1. /\ first \in [Objects -> {0} \cup Clusters] /\ obj \in Objects
          /\ new # 0 /\ entries \subseteq Objects
      BY <2>3 DEF ImportMark, IInv, ImportInv, TypeOK, Clusters
    <3> QED
      BY <2>3, <3>1 DEF ImportMark
  <2>4. CASE FreeDone
    <3>1. first \in [Objects -> {0} \cup Clusters] /\ entries \subseteq Objects
      BY DEF IInv, TypeOK
    <3> QED
      BY <2>4, <3>1 DEF FreeDone
  <2>5. CASE FreeNext
    BY <2>5 DEF FreeNext
  <2>6. CASE \/ GrowAlloc \/ GrowWalk \/ GrowLink \/ GrowMark
             \/ ImportAlloc \/ ImportLink \/ OutOfClusters
    BY <2>6 DEF GrowAlloc, GrowWalk, GrowLink, GrowMark, ImportAlloc, ImportLink,
                OutOfClusters
  <2>7. ASSUME NEW o \in Objects, SweepFile(o) \/ RemoveStart(o)
        PROVE  FilesHeaded'
    BY <2>7 DEF SweepFile, RemoveStart
  <2>8. ASSUME NEW o \in Objects, NEW d \in Dirs \cup {Root}, AddStart(o, d)
        PROVE  FilesHeaded'
    BY <2>8 DEF AddStart
  <2>9. CASE DotDone \/ SweepDone \/ DirentsWrite
    BY <2>9 DEF DotDone, SweepDone, DirentsWrite
  <2> QED
    BY <2>1, <2>2, <2>3, <2>4, <2>5, <2>6, <2>7, <2>8, <2>9 DEF Next, Step, Add, Remove
<1> QED
  BY <1>1, <1>2, Invariance, PTL DEF Spec

\* fatdisk dies for want of space only when every cluster is in use.
THEOREM DiesOnlyWhenFull == Spec => DieOnlyWhenFull
<1>1. IInv /\ [Next]_vars =>
        [pc' = "dead" /\ pc # "dead" => \A c \in Clusters : fat[c] # 0]_vars
  <2> SUFFICES ASSUME IInv, Next, pc' = "dead", pc # "dead"
               PROVE  \A c \in Clusters : fat[c] # 0
    OBVIOUS
  <2>1. OutOfClusters
    BY DEF Next, Step, Add, Remove, AddStart, RemoveStart, FindSlot, GrowAlloc,
           GrowWalk, GrowLink, GrowMark, ImportAlloc, ImportLink, ImportMark,
           FreeNext, DotDone, SweepFile, SweepDone, FreeDone, DirentsWrite
  <2> QED BY <2>1, AllocFindsFree DEF OutOfClusters
<1> QED BY <1>1, Invariance, PTL DEF Spec, DieOnlyWhenFull

----------------------------------------------------------------------------
(* Whole chains.  Which clusters a head leads to is a recursive function   *)
(* of the table (Along), and no step is argued about with it: the          *)
(* invariant says that there are lists of clusters, one for each entry and *)
(* one for the root directory, that the table links one after the other,   *)
(* and each step of a command adds to one list or takes from it.  That     *)
(* such a list is what Along finds is proved once.                         *)
(*                                                                         *)
(* Unlike IInv, this invariant says nothing of clusters that no entry      *)
(* leads to, and so it also holds after a process was killed.              *)

Owners == Objects \cup {Root}

\* The len[o] clusters ch[o][1], ch[o][2], ... follow each other in the table f.
\* No cluster is in two lists, or twice in one.
Linked(f, len, ch) ==
  /\ len \in [Owners -> Nat]
  /\ ch \in [Owners -> [Nat -> Entries]]
  /\ \A o \in Owners : \A i \in 1 .. len[o] :
       /\ f[ch[o][i]] # 0
       /\ i < len[o] => f[ch[o][i]] = ch[o][i + 1]
       /\ i > 1 \/ o # Root => ch[o][i] \in Clusters /\ ~EndChain(ch[o][i])
  /\ \A o, p \in Owners : \A i \in 1 .. len[o], j \in 1 .. len[p] :
       ch[o][i] = ch[p][j] => o = p /\ i = j

\* The clusters of a list.
Members(s, n) == {s[i] : i \in 1 .. n}

\* A list without its first cluster.
Beheaded(s) == [i \in Nat |-> s[i + 1]]

\* A list with the cluster c at its end.
Appended(s, n, c, t, k) == k = n + 1 /\ t = [s EXCEPT ![k] = c]

LEMMA AppendMembers ==
  ASSUME NEW s \in [Nat -> Entries], NEW n \in Nat, NEW c,
         NEW t, NEW k, Appended(s, n, c, t, k)
  PROVE  Members(t, k) = Members(s, n) \cup {c}
<1> USE DEF Appended
<1>1. t[k] = c /\ k \in 1 .. k
  OBVIOUS
<1>2. \A i \in 1 .. n : i \in 1 .. k /\ t[i] = s[i]
  OBVIOUS
<1>3. \A i \in 1 .. k : i \in 1 .. n \/ i = k
  OBVIOUS
<1> QED
  BY <1>1, <1>2, <1>3 DEF Members

LEMMA BeheadMembers ==
  ASSUME NEW s \in [Nat -> Entries], NEW n \in Nat, n > 0
  PROVE  Members(s, n) = Members(Beheaded(s), n - 1) \cup {s[1]}
<1>1. PICK t, k : t = Beheaded(s) /\ k = n - 1 /\ k \in Nat
  OBVIOUS
<1>2. \A i \in 1 .. k : i + 1 \in 1 .. n /\ t[i] = s[i + 1]
  BY <1>1 DEF Beheaded
<1>3. 1 \in 1 .. n
  OBVIOUS
<1>4. \A i \in 1 .. n : i = 1 \/ (\E j \in 1 .. k : i = j + 1)
  <2> SUFFICES ASSUME NEW i \in 1 .. n, i # 1
               PROVE  \E j \in 1 .. k : i = j + 1
    OBVIOUS
  <2>1. i - 1 \in 1 .. k /\ i = (i - 1) + 1
    BY <1>1
  <2> QED
    BY <2>1
<1>5. Members(s, n) = Members(t, k) \cup {s[1]}
  BY <1>2, <1>3, <1>4 DEF Members
<1> QED
  BY <1>1, <1>5

\* The lists (l, h) are those of (len, ch), but that o has the cluster c as well.
Gained(len, ch, l, h, o, c) ==
  /\ \A p \in Owners \ {o} : l[p] = len[p] /\ h[p] = ch[p]
  /\ Members(h[o], l[o]) = Members(ch[o], len[o]) \cup {c}

----------------------------------------------------------------------------
(* What a change of the table does to the lists.                           *)

\* Linking a cluster to the last one of a list.
LEMMA LinkKeepsLinked ==
  ASSUME NEW f \in [Entries -> FatValues], NEW len, NEW ch, Linked(f, len, ch),
         NEW o \in Owners, len[o] > 0, NEW n \in Clusters
  PROVE  Linked([f EXCEPT ![ch[o][len[o]]] = n], len, ch)
<1> DEFINE c == ch[o][len[o]]  g == [f EXCEPT ![c] = n]
<1>1. /\ len \in [Owners -> Nat] /\ ch \in [Owners -> [Nat -> Entries]]
      /\ len[o] \in 1 .. len[o] /\ c \in Entries
  BY DEF Linked
<1>2. n # 0
  BY DEF Clusters
<1>3. ASSUME NEW p \in Owners, NEW i \in 1 .. len[p]
      PROVE  /\ g[ch[p][i]] # 0
             /\ i < len[p] => g[ch[p][i]] = ch[p][i + 1]
  <2>1. ch[p][i] \in Entries
    BY <1>1, <1>3
  <2>2. CASE ch[p][i] = c
    <3>1. p = o /\ i = len[o]
      BY <1>1, <1>3, <2>2 DEF Linked
    <3> QED
      BY <1>1, <1>2, <2>2, <3>1
  <2>3. CASE ch[p][i] # c
    BY <1>3, <2>1, <2>3 DEF Linked
  <2> QED
    BY <2>2, <2>3
<1> QED
  BY <1>1, <1>3 DEF Linked

\* Marking a free cluster puts it at the end of a list whose last cluster leads
\* to it, or of an empty one.
LEMMA MarkExtendsList ==
  ASSUME NEW f \in [Entries -> FatValues], NEW len, NEW ch, Linked(f, len, ch),
         NEW n \in Clusters, f[n] = 0, ~EndChain(n),
         NEW o \in Owners,
         IF len[o] = 0 THEN o # Root ELSE f[ch[o][len[o]]] = n
  PROVE  Linked([f EXCEPT ![n] = EOC],
                [len EXCEPT ![o] = len[o] + 1],
                [ch EXCEPT ![o] = [ch[o] EXCEPT ![len[o] + 1] = n]])
<1> DEFINE k == len[o] + 1
           g == [f EXCEPT ![n] = EOC]
           l == [len EXCEPT ![o] = k]
           h == [ch EXCEPT ![o] = [ch[o] EXCEPT ![k] = n]]
<1>a. len \in [Owners -> Nat] /\ ch \in [Owners -> [Nat -> Entries]]
  BY DEF Linked
<1>b. n \in Entries /\ EOC # 0
  BY DEF Clusters, Entries, EOC
<1>c. len[o] \in Nat /\ k \in Nat
  BY <1>a
<1>1. /\ len \in [Owners -> Nat] /\ ch \in [Owners -> [Nat -> Entries]]
      /\ len[o] \in Nat /\ k \in Nat
      /\ n \in Entries /\ EOC # 0
  BY <1>a, <1>b, <1>c
<1>2. l \in [Owners -> Nat] /\ h \in [Owners -> [Nat -> Entries]]
  BY <1>1
<1>3. \A p \in Owners : \A i \in 1 .. len[p] : ch[p][i] # n /\ f[ch[p][i]] # 0 /\ ch[p][i] \in Entries
  BY <1>1 DEF Linked
<1>4. \A p \in Owners : \A i \in 1 .. len[p] :
        /\ g[ch[p][i]] = f[ch[p][i]]
        /\ h[p][i] = ch[p][i]
        /\ i \in 1 .. l[p]
  BY <1>1, <1>3
<1>5. \A p \in Owners : \A i \in 1 .. l[p] : i \in 1 .. len[p] \/ (p = o /\ i = k)
  BY <1>1
<1>6. h[o][k] = n /\ l[o] = k /\ g[n] = EOC
  BY <1>1
<1>7. ASSUME NEW p \in Owners, NEW i \in 1 .. l[p]
      PROVE  /\ g[h[p][i]] # 0
             /\ i < l[p] => g[h[p][i]] = h[p][i + 1]
             /\ i > 1 \/ p # Root => h[p][i] \in Clusters /\ ~EndChain(h[p][i])
  <2>1. CASE p = o /\ i = k
    BY <1>1, <1>6, <2>1
  <2>2. CASE i \in 1 .. len[p] /\ ~(p = o /\ i = len[o])
    <3>1. i < len[p] \/ i = len[p]
      BY <1>1, <2>2
    <3>2. CASE i < len[p]
      <4>1. i + 1 \in 1 .. len[p]
        BY <1>1, <2>2, <3>2
      <4>2. h[p][i + 1] = ch[p][i + 1]
        BY <1>4, <4>1
      <4> QED
        BY <1>3, <1>4, <2>2, <3>2, <4>2 DEF Linked
    <3>3. CASE i = len[p]
      <4>1. p # o /\ l[p] = len[p]
        BY <1>1, <2>2, <3>3
      <4> QED
        BY <1>1, <1>3, <1>4, <2>2, <3>3, <4>1 DEF Linked
    <3> QED
      BY <3>1, <3>2, <3>3
  <2>3. CASE p = o /\ i = len[o] /\ i \in 1 .. len[o]
    <3>1. f[ch[o][i]] = n /\ h[o][i + 1] = n
      BY <1>1, <1>6, <2>3
    <3> QED
      BY <1>3, <1>4, <2>3, <3>1 DEF Linked
  <2> QED
    BY <1>5, <2>1, <2>2, <2>3
<1>8. ASSUME NEW p \in Owners, NEW q \in Owners, NEW i \in 1 .. l[p], NEW j \in 1 .. l[q],
             h[p][i] = h[q][j]
      PROVE  p = q /\ i = j
  <2>1. CASE p = o /\ i = k
    <3>1. ~ (j \in 1 .. len[q])
      BY <1>3, <1>4, <1>6, <1>8, <2>1
    <3> QED
      BY <1>5, <2>1, <3>1
  <2>2. CASE q = o /\ j = k
    <3>1. ~ (i \in 1 .. len[p])
      BY <1>3, <1>4, <1>6, <1>8, <2>2
    <3> QED
      BY <1>5, <2>2, <3>1
  <2>3. CASE i \in 1 .. len[p] /\ j \in 1 .. len[q]
    BY <1>4, <1>8, <2>3 DEF Linked
  <2> QED
    BY <1>5, <2>1, <2>2, <2>3
<1> QED
  BY <1>2, <1>7, <1>8 DEF Linked

\* Freeing the first cluster of an entry's list leaves the rest of it.
LEMMA FreeShortensList ==
  ASSUME NEW f \in [Entries -> FatValues], NEW len, NEW ch, Linked(f, len, ch),
         NEW o \in Objects, o # Root, len[o] > 0
  PROVE  Linked([f EXCEPT ![ch[o][1]] = 0],
                [len EXCEPT ![o] = len[o] - 1],
                [ch EXCEPT ![o] = Beheaded(ch[o])])
<1> USE DEF Beheaded
<1> DEFINE c == ch[o][1]
           g == [f EXCEPT ![c] = 0]
           l == [len EXCEPT ![o] = len[o] - 1]
           h == [ch EXCEPT ![o] = Beheaded(ch[o])]
           at(p, i) == IF p = o THEN i + 1 ELSE i
<1>1. /\ len \in [Owners -> Nat] /\ ch \in [Owners -> [Nat -> Entries]]
      /\ len[o] \in Nat /\ len[o] - 1 \in Nat /\ 1 \in 1 .. len[o] /\ c \in Entries
      /\ o \in Owners
  BY DEF Linked, Owners
<1>2. l \in [Owners -> Nat] /\ h \in [Owners -> [Nat -> Entries]]
  <2>1. [i \in Nat |-> ch[o][i + 1]] \in [Nat -> Entries]
    BY <1>1
  <2> QED
    BY <1>1, <2>1
<1>3. \A p \in Owners : \A i \in 1 .. l[p] :
        at(p, i) \in 1 .. len[p] /\ h[p][i] = ch[p][at(p, i)] /\ ~(p = o /\ at(p, i) = 1)
  BY <1>1
<1>4. \A p \in Owners : \A i \in 1 .. len[p] :
        ~(p = o /\ i = 1) => ch[p][i] # c /\ g[ch[p][i]] = f[ch[p][i]]
  BY <1>1 DEF Linked
<1>5. \A p \in Owners : \A i \in 1 .. l[p] :
        i < l[p] => at(p, i) < len[p] /\ h[p][i + 1] = ch[p][at(p, i) + 1]
  BY <1>1
<1>6. \A p \in Owners : \A i \in 1 .. l[p] : i > 1 \/ p # Root => at(p, i) > 1 \/ p # Root
  BY <1>1
<1>7. \A p \in Owners : \A i, j \in 1 .. l[p] : at(p, i) = at(p, j) => i = j
  BY <1>1
<1> HIDE DEF g, l, h, at
<1>8. ASSUME NEW p \in Owners, NEW i \in 1 .. l[p]
      PROVE  /\ g[h[p][i]] # 0
             /\ i < l[p] => g[h[p][i]] = h[p][i + 1]
             /\ i > 1 \/ p # Root => h[p][i] \in Clusters /\ ~EndChain(h[p][i])
  BY <1>3, <1>4, <1>5, <1>6, <1>8 DEF Linked
<1>9. ASSUME NEW p \in Owners, NEW q \in Owners, NEW i \in 1 .. l[p], NEW j \in 1 .. l[q],
             h[p][i] = h[q][j]
      PROVE  p = q /\ i = j
  BY <1>3, <1>7, <1>9 DEF Linked
<1>10. Linked(g, l, h)
  BY <1>2, <1>8, <1>9 DEF Linked
<1> QED
  BY <1>10 DEF g, l, h

\* A list may be left out.
LEMMA DropKeepsLinked ==
  ASSUME NEW f, NEW len, NEW ch, Linked(f, len, ch), NEW o \in Owners
  PROVE  Linked(f, [len EXCEPT ![o] = 0], ch)
<1> DEFINE l == [len EXCEPT ![o] = 0]
<1>1. len \in [Owners -> Nat]
  BY DEF Linked
<1>2. \A p \in Owners : \A i \in 1 .. l[p] : i \in 1 .. len[p] /\ l[p] = len[p]
  BY <1>1
<1> QED
  BY <1>1, <1>2 DEF Linked

----------------------------------------------------------------------------
(* The lists are what Along finds.                                         *)

\* One turn of Along, from the clusters met so far.
Met(f, s) == UNION {{d, IF EndChain(d) THEN d ELSE f[d]} : d \in s}

\* A function that satisfies the equation Along is defined by.
IsMet(f, c, g) ==
  g = [n \in 0 .. TotalClusters |-> IF n = 0 THEN {c} ELSE Met(f, g[n - 1])]

\* There is only one, so whoever knows one knows what Along is.
LEMMA AlongIs ==
  ASSUME NEW f, NEW c, NEW g, IsMet(f, c, g)
  PROVE  Along(f, c) = g[TotalClusters]
<1>1. ASSUME NEW m, IsMet(f, c, m)
      PROVE  m = g
  <2>1. /\ DOMAIN m = 0 .. TotalClusters /\ DOMAIN g = 0 .. TotalClusters
        /\ m[0] = {c} /\ g[0] = {c}
        /\ \A n \in 1 .. TotalClusters : m[n] = Met(f, m[n - 1]) /\ g[n] = Met(f, g[n - 1])
    <3>1. /\ DOMAIN m = 0 .. TotalClusters /\ DOMAIN g = 0 .. TotalClusters
          /\ \A n \in 0 .. TotalClusters :
               /\ m[n] = IF n = 0 THEN {c} ELSE Met(f, m[n - 1])
               /\ g[n] = IF n = 0 THEN {c} ELSE Met(f, g[n - 1])
      BY <1>1, Zenon DEF IsMet
    <3>2. 0 \in 0 .. TotalClusters
      OBVIOUS
    <3>3. \A n \in 1 .. TotalClusters : n \in 0 .. TotalClusters /\ n # 0
      OBVIOUS
    <3> QED
      BY <3>1, <3>2, <3>3
  <2> DEFINE Differ == {n \in 0 .. TotalClusters : m[n] # g[n]}
  <2>2. Differ = {}
    <3> SUFFICES ASSUME Differ # {} PROVE FALSE
      OBVIOUS
    <3>1. Differ \subseteq Nat
      OBVIOUS
    <3>2. PICK n \in Differ : \A k \in Differ : ~ (<<k, n>> \in OpToRel(<, Nat))
      <4> HIDE DEF Differ
      <4> QED
        BY <3>1, NatLessThanWellFounded, WFMin
    <3>3. n # 0 /\ n \in 1 .. TotalClusters /\ n - 1 \in 0 .. TotalClusters
      <4>1. n # 0 /\ n \in 0 .. TotalClusters
        BY <2>1
      <4> QED
        BY <4>1
    <3>4. n - 1 \notin Differ
      <4>1. <<n - 1, n>> \in OpToRel(<, Nat)
        BY <3>3 DEF OpToRel
      <4> QED
        BY <3>2, <4>1
    <3>5. m[n - 1] = g[n - 1]
      BY <3>3, <3>4
    <3> QED
      BY <2>1, <3>3, <3>5
  <2>3. \A n \in 0 .. TotalClusters : m[n] = g[n]
    BY <2>2
  <2>4. m = [n \in 0 .. TotalClusters |-> m[n]] /\ g = [n \in 0 .. TotalClusters |-> g[n]]
    BY <1>1 DEF IsMet
  <2> QED
    BY <2>3, <2>4
<1>2. (CHOOSE m : IsMet(f, c, m)) = g
  BY <1>1
<1>3. Along(f, c) = (CHOOSE m : IsMet(f, c, m))[TotalClusters]
  BY DEF Along, IsMet, Met
<1> QED
  BY <1>2, <1>3

\* A list of clusters that the table f links, with e after the last of them.
List(f, s, n, e) ==
  /\ n \in Nat
  /\ \A i \in 1 .. n :
       /\ s[i] \in Clusters /\ ~EndChain(s[i]) /\ f[s[i]] # 0
       /\ f[s[i]] = IF i < n THEN s[i + 1] ELSE e
  /\ \A i, j \in 1 .. n : s[i] = s[j] => i = j

\* A list is no longer than the volume.
LEMMA ListsAreShort ==
  ASSUME NEW f, NEW s, NEW n, NEW e, List(f, s, n, e)
  PROVE  /\ IsFiniteSet(Members(s, n)) /\ Cardinality(Members(s, n)) = n
         /\ n <= TotalClusters - 2
<1> DEFINE b == [i \in 1 .. n |-> s[i]]
<1>1. n \in Nat
  BY DEF List
<1>2. b \in Bijection(1 .. n, Members(s, n))
  <2>1. b \in [1 .. n -> Members(s, n)]
    BY DEF Members
  <2>2. \A i, j \in 1 .. n : b[i] = b[j] => i = j
    BY DEF List
  <2>3. \A x \in Members(s, n) : \E i \in 1 .. n : b[i] = x
    BY DEF Members
  <2> HIDE DEF b
  <2> QED
    BY <2>1, <2>2, <2>3 DEF Bijection, Injection, Surjection, IsInjective
<1>3. IsFiniteSet(1 .. n) /\ Cardinality(1 .. n) = n
  BY <1>1, FS_Interval
<1>4. IsFiniteSet(Members(s, n)) /\ Cardinality(Members(s, n)) = n
  BY <1>2, <1>3, FS_Bijection DEF ExistsBijection
<1>5. IsFiniteSet(Clusters) /\ Cardinality(Clusters) = TotalClusters - 2
  BY FS_Interval DEF Clusters
<1>6. Members(s, n) \subseteq Clusters
  BY DEF Members, List
<1> QED
  BY <1>4, <1>5, <1>6, FS_Subset

\* What Along has met when it has met m clusters of the list, if there are as
\* many: those, and then the end.
Reached(s, n, e, z, m) ==
  {s[i] : i \in {j \in 1 .. n : j <= m}}
    \cup (IF m > n THEN {e} ELSE {}) \cup (IF m > n + 1 THEN {z} ELSE {})

IsReached(s, n, e, z, m, x) ==
  \/ \E i \in 1 .. n : i <= m /\ x = s[i]
  \/ m > n /\ x = e
  \/ m > n + 1 /\ x = z

LEMMA InReached ==
  ASSUME NEW s, NEW n, NEW e, NEW z, NEW m, NEW x
  PROVE  x \in Reached(s, n, e, z, m) <=> IsReached(s, n, e, z, m, x)
BY DEF Reached, IsReached

\* One more turn of Along.
LEMMA ReachedTurn ==
  ASSUME NEW f, NEW s, NEW n \in Nat, NEW e, List(f, s, n, e),
         NEW z, z = IF EndChain(e) THEN e ELSE f[e], EndChain(z),
         NEW m \in Nat, m # 0
  PROVE  Reached(s, n, e, z, m + 1) = Met(f, Reached(s, n, e, z, m))
<1>1. PICK l \in Nat : l = m + 1
  OBVIOUS
<1> DEFINE Follow(d) == IF EndChain(d) THEN d ELSE f[d]
           R == Reached(s, n, e, z, m)
           Q == Reached(s, n, e, z, l)
<1>2. \A x : x \in Met(f, R) <=> x \in R \/ \E d \in R : x = Follow(d)
  BY DEF Met
<1>3. Follow(e) = z /\ Follow(z) = z
  OBVIOUS
<1>4. \A i \in 1 .. n : Follow(s[i]) = IF i < n THEN s[i + 1] ELSE e
  BY DEF List
<1>5. \A x : x \in Q <=>
          \/ \E i \in 1 .. n : i <= l /\ x = s[i]
          \/ l > n /\ x = e
          \/ l > n + 1 /\ x = z
  <2>1. \A x : x \in Q <=> IsReached(s, n, e, z, l, x)
    BY InReached
  <2> QED
    BY <2>1 DEF IsReached
<1>6. \A x : x \in R <=>
          \/ \E i \in 1 .. n : i <= m /\ x = s[i]
          \/ m > n /\ x = e
          \/ m > n + 1 /\ x = z
  <2>1. \A x : x \in R <=> IsReached(s, n, e, z, m, x)
    BY InReached
  <2> QED
    BY <2>1 DEF IsReached
<1> HIDE DEF R, Q, Follow
<1>7. ASSUME NEW x \in Q
      PROVE  x \in R \/ \E d \in R : x = Follow(d)
  <2>1. ASSUME NEW i \in 1 .. n, i <= l, x = s[i]
        PROVE  x \in R \/ \E d \in R : x = Follow(d)
    <3>1. CASE i <= m
      BY <1>6, <2>1, <3>1
    <3>2. CASE i = l
      <4>1. m \in 1 .. n /\ m <= m /\ m < n /\ m + 1 = i
        BY <1>1, <2>1, <3>2
      <4>2. s[m] \in R
        BY <1>6, <4>1
      <4>3. x = Follow(s[m])
        BY <1>4, <2>1, <4>1
      <4> QED
        BY <4>2, <4>3
    <3> QED
      BY <1>1, <2>1, <3>1, <3>2
  <2>2. ASSUME l > n, x = e
        PROVE  x \in R \/ \E d \in R : x = Follow(d)
    <3>1. CASE m > n
      BY <1>6, <2>2, <3>1
    <3>2. CASE n = m
      <4>1. n \in 1 .. n /\ n <= m /\ ~(n < n)
        BY <1>1, <3>2
      <4>2. s[n] \in R
        BY <1>6, <4>1
      <4>3. x = Follow(s[n])
        BY <1>4, <2>2, <4>1
      <4> QED
        BY <4>2, <4>3
    <3> QED
      BY <1>1, <2>2, <3>1, <3>2
  <2>3. ASSUME l > n + 1, x = z
        PROVE  \E d \in R : x = Follow(d)
    <3>1. m > n
      BY <1>1, <2>3
    <3> QED
      BY <1>3, <1>6, <2>3, <3>1
  <2> QED
    BY <1>5, <2>1, <2>2, <2>3
<1>8. ASSUME NEW d \in R
      PROVE  d \in Q /\ Follow(d) \in Q
  <2>1. ASSUME NEW i \in 1 .. n, i <= m, d = s[i]
        PROVE  d \in Q /\ Follow(d) \in Q
    <3>1. i <= l
      BY <1>1, <2>1
    <3>2. CASE i < n
      <4> DEFINE h == i + 1
      <4>1. h \in 1 .. n /\ h <= l
        BY <1>1, <2>1, <3>2
      <4>2. Follow(d) = s[h]
        BY <1>4, <2>1, <3>2
      <4> HIDE DEF h
      <4> QED
        BY <1>5, <2>1, <3>1, <4>1, <4>2
    <3>3. CASE ~(i < n)
      <4>1. l > n
        BY <1>1, <2>1, <3>3
      <4>2. Follow(d) = e
        BY <1>4, <2>1, <3>3
      <4> QED
        BY <1>5, <2>1, <3>1, <4>1, <4>2
    <3> QED
      BY <3>2, <3>3
  <2>2. m > n => l > n + 1 /\ l > n
    BY <1>1
  <2>3. m > n + 1 => l > n + 1
    BY <1>1
  <2> QED
    BY <1>3, <1>5, <1>6, <2>1, <2>2, <2>3
<1>9. Q = Met(f, R)
  BY <1>2, <1>7, <1>8
<1> QED
  BY <1>1, <1>9 DEF Q, R

\* Along finds the list, and what comes after it.
LEMMA AlongList ==
  ASSUME NEW f, NEW s, NEW n, NEW e, List(f, s, n, e),
         NEW z, z = IF EndChain(e) THEN e ELSE f[e], EndChain(z),
         NEW c, c = IF n = 0 THEN e ELSE s[1]
  PROVE  Along(f, c) = Members(s, n) \cup {e, z}
<1> DEFINE T == TotalClusters
           g == [k \in 0 .. T |-> Reached(s, n, e, z, k + 1)]
<1>1. n \in Nat /\ n + 2 <= T
  <2>1. n <= T - 2
    BY ListsAreShort
  <2>2. n \in Nat
    BY DEF List
  <2> QED
    BY <2>1, <2>2
<1>2. Reached(s, n, e, z, 0 + 1) = {c}
  <2>1. \A x : x \in Reached(s, n, e, z, 1) <=>
            \/ \E i \in 1 .. n : i <= 1 /\ x = s[i]
            \/ 1 > n /\ x = e
            \/ 1 > n + 1 /\ x = z
    <3>1. \A x : x \in Reached(s, n, e, z, 1) <=> IsReached(s, n, e, z, 1, x)
      BY InReached
    <3> QED
      BY <3>1 DEF IsReached
  <2>2. \A i \in 1 .. n : i <= 1 => i = 1
    BY <1>1
  <2>3. n # 0 => 1 \in 1 .. n
    BY <1>1
  <2>4. Reached(s, n, e, z, 1) = {c}
    BY <1>1, <2>1, <2>2, <2>3
  <2>5. 0 + 1 = 1
    OBVIOUS
  <2> QED
    BY <2>4, <2>5
<1>3. \A k \in 0 .. T : Reached(s, n, e, z, k + 1) = IF k = 0 THEN {c} ELSE Met(f, g[k - 1])
  <2> SUFFICES ASSUME NEW k \in 0 .. T, k # 0
               PROVE  Reached(s, n, e, z, k + 1) = Met(f, g[k - 1])
    BY <1>2
  <2>1. k \in Nat \ {0} /\ k - 1 \in 0 .. T /\ (k - 1) + 1 = k
    OBVIOUS
  <2>2. g[k - 1] = Reached(s, n, e, z, k)
    BY <2>1
  <2> HIDE DEF g
  <2>3. Reached(s, n, e, z, k + 1) = Met(f, Reached(s, n, e, z, k))
    BY <1>1, <2>1, ReachedTurn
  <2> QED
    BY <2>2, <2>3
<1>4. IsMet(f, c, g)
  BY <1>3, Zenon DEF IsMet
<1>5. g[T] = Members(s, n) \cup {e, z}
  <2>1. T \in 0 .. T /\ T + 1 > n /\ T + 1 > n + 1
    BY <1>1
  <2>2. {j \in 1 .. n : j <= T + 1} = 1 .. n
    BY <1>1
  <2> QED
    BY <2>1, <2>2 DEF Members, Reached
<1> HIDE DEF g
<1> QED
  BY <1>4, <1>5, AlongIs
----------------------------------------------------------------------------
(* The lists of a state.                                                   *)

\* What follows the last cluster of a list: the new cluster, between the link
\* to it and its mark, or an end mark.
AfterLast(o) ==
  IF (pc = "mark" /\ o = obj) \/ (pc = "growMark" /\ o = dir) THEN new ELSE EOC

\* The entries whose chains are being built, freed, or are free already.
Building(o) == pc \in {"alloc", "link", "mark"} /\ o = obj
Freed(o) == pc \in {"sweep", "free"} /\ o = dir
BeingFreed(o) == pc \in {"dot", "free"} /\ o = obj /\ ~Freed(o)

\* What the entry o says of its list of n clusters from s[1] on, if it is not
\* one of those, and in any case.
Settled(o, n, s) ==
  IF first[o] = 0 THEN n = 0 /\ o \in Files
  ELSE n > 0 /\ first[o] = s[1] /\ (o \in Files => size[o] = n)

Entry(o, n, s) ==
  /\ Building(o) =>
       /\ first[o] = IF cur = 0 THEN 0 ELSE s[1]
       /\ IF cur = 0 THEN n = 0 ELSE n > 0 /\ cur = s[n]
       /\ size[o] = n + left
  /\ Freed(o) => n = 0
  /\ BeingFreed(o) => IF EndChain(cur) THEN n = 0 ELSE n > 0 /\ cur = s[1]
  /\ ~Building(o) /\ ~Freed(o) /\ ~BeingFreed(o) => Settled(o, n, s)

\* The lists of the entries and of the root directory, and where dirents_grow
\* stands on one of them.
Lists(len, ch) ==
  /\ Linked(fat, len, ch)
  /\ len[Root] > 0 /\ ch[Root][1] = RootCluster
  /\ \A o \in Objects : o \notin entries => len[o] = 0 /\ first[o] = 0
  /\ \A o \in entries : Entry(o, len[o], ch[o])
  /\ \A o \in Owners : len[o] > 0 => fat[ch[o][len[o]]] = AfterLast(o)
  /\ pc = "growWalk" => \E i \in 1 .. len[dir] : cur = ch[dir][i]
  /\ pc = "growMark" => len[dir] > 0 /\ cur = ch[dir][len[dir]]

AddControl ==
  /\ pc \in {"slot", "growWalk", "growMark"} =>
       obj \in Objects \ entries /\ dir \in (entries \cap Dirs) \cup {Root}
  /\ pc \in {"growWalk", "growMark", "link", "mark"} =>
       new \in Clusters /\ fat[new] = 0
  /\ pc \in {"alloc", "link", "mark"} => obj \in entries /\ left > 0
  /\ pc = "link" => cur # 0

RemoveControl ==
  /\ pc \in {"dot", "free"} => obj \in entries
  /\ pc = "dot" =>
       /\ obj = dir /\ obj \in Dirs /\ first[obj] # 0
       /\ \/ fat[first[obj]] = 0
          \/ cur = first[obj] /\ ~EndChain(cur)
  /\ pc = "sweep" \/ (pc = "free" /\ dir # Root) =>
       dir \in entries \cap Dirs /\ first[dir] # 0 /\ fat[first[dir]] = 0
  /\ pc = "free" /\ obj = dir => cur \in {first[dir], 0}

\* A process that DIEs leaves what is in memory as it is: only the disk counts.
ChainInv ==
  /\ TypeOK
  /\ pc # "dead" =>
       /\ AddControl
       /\ RemoveControl
       /\ \E len, ch : Lists(len, ch)

\* What is free is on no list, and is not the root's first cluster.
LEMMA FreeIsUnlisted ==
  ASSUME NEW len, NEW ch, Lists(len, ch), NEW n \in Clusters, fat[n] = 0
  PROVE  /\ ~EndChain(n)
         /\ \A o \in Owners : \A i \in 1 .. len[o] : ch[o][i] # n
<1>1. 1 \in 1 .. len[Root] /\ Root \in Owners
  BY DEF Lists, Linked, Owners
<1>2. fat[RootCluster] # 0
  BY <1>1 DEF Lists, Linked
<1>3. ~EndChain(n)
  BY <1>2 DEF EndChain, RootCluster, Clusters, EOC
<1> QED
  BY <1>3 DEF Lists, Linked

\* A freshly formatted volume has only the root directory, of one cluster.
LEMMA InitChain == Init => ChainInv
<1> SUFFICES ASSUME Init
             PROVE  ChainInv
  OBVIOUS
<1>1. TypeOK
  BY InitIInv DEF IInv
<1> DEFINE len == [o \in Owners |-> IF o = Root THEN 1 ELSE 0]
           ch == [o \in Owners |-> [i \in Nat |-> RootCluster]]
<1>2. RootCluster \in Entries /\ fat[RootCluster] = EOC /\ EOC # 0
  BY DEF Init, FormattedFat, Entries, RootCluster, EOC
<1>3. len \in [Owners -> Nat] /\ ch \in [Owners -> [Nat -> Entries]]
  BY <1>2
<1>4. \A o \in Owners : \A i \in 1 .. len[o] :
        o = Root /\ i = 1 /\ ch[o][i] = RootCluster
  BY DEF Owners
<1>5. Root \in Owners /\ len[Root] = 1 /\ ch[Root][1] = RootCluster
  BY DEF Owners
<1>6. \A o \in Objects : len[o] = 0
  BY DEF Owners
<1> HIDE DEF len, ch
<1>7. Linked(fat, len, ch)
  BY <1>2, <1>3, <1>4, <1>5 DEF Linked
<1>8. Lists(len, ch)
  <2>1. \A o \in Owners : len[o] > 0 => o = Root
    BY <1>6 DEF Owners
  <2> QED
    BY <1>2, <1>5, <1>6, <1>7, <2>1 DEF Lists, AfterLast, Init
<1> QED
  BY <1>1, <1>8 DEF ChainInv, AddControl, RemoveControl, Init

----------------------------------------------------------------------------
(* Adding an entry.                                                        *)

LEMMA AddStartChain ==
  ASSUME ChainInv, NEW o \in Objects, NEW d \in Dirs \cup {Root}, AddStart(o, d)
  PROVE  ChainInv'
<1> USE DEF AddStart, dirents, locals
<1>1. PICK len, ch : Lists(len, ch)
  BY DEF ChainInv
<1>2. TypeOK'
  BY DEF ChainInv, TypeOK, Phases
<1>3. Lists(len, ch)'
  BY <1>1 DEF Lists, Entry, Settled, Building, Freed, BeingFreed, AfterLast
<1>4. AddControl' /\ RemoveControl'
  BY DEF AddControl, RemoveControl
<1> QED
  BY <1>2, <1>3, <1>4 DEF ChainInv

\* The new entry has an empty list.
LEMMA FindSlotChain ==
  ASSUME ChainInv, NEW n \in 1 .. MaxFileClusters, FindSlot(n)
  PROVE  ChainInv'
<1> USE DEF FindSlot, dirents, locals
<1>1. PICK len, ch : Lists(len, ch)
  BY DEF ChainInv
<1>2. obj \in Objects /\ obj \notin entries
  BY DEF ChainInv, AddControl
<1>3. TypeOK'
  <2>1. n \in 0 .. MaxFileClusters
    OBVIOUS
  <2> QED
    BY <1>2, <2>1 DEF ChainInv, TypeOK, Phases, FatValues
<1>4. Lists(len, ch)'
  <2>1. \A p \in entries' : Entry(p, len[p], ch[p])'
    <3>1. Entry(obj, len[obj], ch[obj])'
      <4>1. len[obj] = 0 /\ first'[obj] = 0
        BY <1>1, <1>2 DEF Lists
      <4>2. size'[obj] = n /\ left' = n /\ n \in Nat
        BY <1>2 DEF ChainInv, TypeOK
      <4> QED
        BY <4>1, <4>2 DEF Entry, Settled, Building, Freed, BeingFreed
    <3>2. ASSUME NEW p \in entries
          PROVE  Entry(p, len[p], ch[p])'
      <4>1. p # obj /\ p \in Objects
        BY <1>2 DEF ChainInv, TypeOK
      <4>2. size'[p] = size[p]
        BY <4>1 DEF ChainInv, TypeOK
      <4> QED
        BY <1>1, <4>1, <4>2 DEF Lists, Entry, Settled, Building, Freed, BeingFreed
    <3> QED
      BY <3>1, <3>2
  <2> QED
    BY <1>1, <2>1 DEF Lists, AfterLast
<1>5. AddControl' /\ RemoveControl'
  BY DEF AddControl, RemoveControl
<1> QED
  BY <1>3, <1>4, <1>5 DEF ChainInv

LEMMA GrowAllocChain ==
  ASSUME ChainInv, GrowAlloc
  PROVE  ChainInv'
<1> USE DEF GrowAlloc, dirents, locals
<1>1. PICK len, ch : Lists(len, ch)
  BY DEF ChainInv
<1>2. new' \in Clusters /\ fat[new'] = 0 /\ last' \in Clusters
  BY AllocIsFree DEF ChainInv
<1>3. obj \in Objects \ entries /\ dir \in (entries \cap Dirs) \cup {Root}
  BY DEF ChainInv, AddControl
<1>4. dir \in Owners /\ len[dir] \in Nat /\ len[dir] > 0 /\ HeadOf(dir) = ch[dir][1]
  <2>1. len \in [Owners -> Nat]
    BY <1>1 DEF Lists, Linked
  <2>2. CASE dir = Root
    BY <1>1, <2>1, <2>2 DEF Lists, HeadOf, Owners
  <2>3. CASE dir \in entries \cap Dirs /\ dir # Root
    <3>1. Entry(dir, len[dir], ch[dir])
      BY <1>1, <2>3 DEF Lists
    <3>2. dir \notin Files
      BY <2>3
    <3> QED
      BY <2>1, <2>3, <3>1, <3>2
         DEF Entry, Settled, Building, Freed, BeingFreed, HeadOf, Owners, Objects
  <2> QED
    BY <1>3, <2>2, <2>3
<1>5. 1 \in 1 .. len[dir] /\ HeadOf(dir) \in FatValues
  <2>1. RootCluster \in FatValues
    BY DEF RootCluster, FatValues, Clusters
  <2> QED
    BY <1>3, <1>4, <2>1 DEF HeadOf, ChainInv, TypeOK, FatValues, Objects
<1>6. TypeOK'
  BY <1>2, <1>5 DEF ChainInv, TypeOK, Phases
<1>7. Lists(len, ch)'
  BY <1>1, <1>4, <1>5 DEF Lists, Entry, Settled, Building, Freed, BeingFreed, AfterLast
<1>8. AddControl' /\ RemoveControl'
  BY <1>2, <1>3 DEF AddControl, RemoveControl
<1> QED
  BY <1>6, <1>7, <1>8 DEF ChainInv

LEMMA GrowWalkChain ==
  ASSUME ChainInv, GrowWalk
  PROVE  ChainInv'
<1> USE DEF GrowWalk, dirents, locals
<1>1. PICK len, ch : Lists(len, ch)
  BY DEF ChainInv
<1>2. dir \in Owners
  BY DEF ChainInv, AddControl, Owners, Objects
<1>3. PICK i \in 1 .. len[dir] : cur = ch[dir][i]
  BY <1>1 DEF Lists
<1>4. len[dir] \in Nat /\ cur \in Entries
  BY <1>1, <1>2, <1>3 DEF Lists, Linked
<1>5. i # len[dir]
  <2>1. AfterLast(dir) = EOC /\ EndChain(EOC)
    BY DEF AfterLast, EndChain, EOC
  <2> QED
    BY <1>1, <1>2, <1>3, <1>4, <2>1 DEF Lists
<1>6. i + 1 \in 1 .. len[dir] /\ fat[cur] = ch[dir][i + 1]
  BY <1>1, <1>2, <1>3, <1>4, <1>5 DEF Lists, Linked
<1>7. TypeOK'
  BY <1>4 DEF ChainInv, TypeOK
<1>8. Lists(len, ch)'
  BY <1>1, <1>6 DEF Lists, Entry, Settled, Building, Freed, BeingFreed, AfterLast
<1>9. AddControl' /\ RemoveControl'
  BY DEF ChainInv, AddControl, RemoveControl
<1> QED
  BY <1>7, <1>8, <1>9 DEF ChainInv
\* dirents_grow links at the end of the directory's list.
LEMMA GrowLinkLists ==
  ASSUME ChainInv, GrowLink, NEW len, NEW ch, Lists(len, ch)
  PROVE  ChainInv' /\ Lists(len, ch)'
<1> USE DEF GrowLink, dirents, locals
<1>1. Lists(len, ch)
  OBVIOUS
<1>2. /\ fat \in [Entries -> FatValues]
      /\ new \in Clusters /\ fat[new] = 0 /\ dir \in Owners
  BY DEF ChainInv, TypeOK, AddControl, Owners, Objects
<1>3. PICK i \in 1 .. len[dir] : cur = ch[dir][i]
  BY <1>1 DEF Lists
<1>4. len[dir] \in Nat /\ cur \in Entries /\ fat[cur] # 0 /\ cur # new
  BY <1>1, <1>2, <1>3 DEF Lists, Linked
<1>5. i = len[dir] /\ len[dir] > 0 /\ cur = ch[dir][len[dir]]
  <2>1. ASSUME i < len[dir]
        PROVE  FALSE
    <3>1. i + 1 \in 1 .. len[dir] /\ i + 1 > 1 /\ fat[cur] = ch[dir][i + 1]
      BY <1>1, <1>2, <1>3, <1>4, <2>1 DEF Lists, Linked
    <3>2. ~EndChain(ch[dir][i + 1])
      BY <1>1, <1>2, <3>1 DEF Lists, Linked
    <3> QED
      BY <3>1, <3>2
  <2> QED
    BY <1>3, <1>4, <2>1
<1>6. TypeOK'
  BY <1>2, <1>4 DEF ChainInv, TypeOK, Phases, FatValues
<1>7. Lists(len, ch)'
  <2>1. Linked(fat', len, ch)
    <3>1. Linked([fat EXCEPT ![ch[dir][len[dir]]] = new], len, ch)
      BY <1>1, <1>2, <1>5, LinkKeepsLinked DEF Lists
    <3> QED
      BY <1>5, <3>1
  <2>2. ASSUME NEW o \in Owners, len[o] > 0
        PROVE  fat'[ch[o][len[o]]] = AfterLast(o)'
    <3>1. len[o] \in 1 .. len[o] /\ len[dir] \in 1 .. len[dir] /\ ch[o][len[o]] \in Entries
      BY <1>1, <1>2, <1>5, <2>2 DEF Lists, Linked
    <3>2. CASE o = dir
      BY <1>2, <1>4, <1>5, <3>2 DEF AfterLast
    <3>3. CASE o # dir
      <4>1. ch[o][len[o]] # cur
        BY <1>1, <1>2, <1>5, <3>1, <3>3 DEF Lists, Linked
      <4> QED
        BY <1>1, <1>2, <2>2, <3>1, <3>3, <4>1 DEF Lists, AfterLast
    <3> QED
      BY <3>2, <3>3
  <2> QED
    BY <1>1, <1>5, <2>1, <2>2 DEF Lists, Entry, Settled, Building, Freed, BeingFreed
<1>8. AddControl' /\ RemoveControl'
  BY <1>2, <1>4 DEF ChainInv, AddControl, RemoveControl
<1> QED
  BY <1>6, <1>7, <1>8 DEF ChainInv

\* Marking the new cluster puts it at the end of the directory's list.
LEMMA GrowMarkLists ==
  ASSUME ChainInv, GrowMark, NEW len, NEW ch, Lists(len, ch)
  PROVE  /\ ChainInv'
         /\ \E l, h : Lists(l, h)' /\ Gained(len, ch, l, h, dir, new)
<1> USE DEF GrowMark, dirents, locals
<1>1. Lists(len, ch)
  OBVIOUS
<1>2. /\ fat \in [Entries -> FatValues]
      /\ new \in Clusters /\ fat[new] = 0 /\ dir \in Owners
      /\ obj \in Objects \ entries /\ dir \in (entries \cap Dirs) \cup {Root}
  BY DEF ChainInv, TypeOK, AddControl, Owners, Objects
<1>3. /\ len \in [Owners -> Nat] /\ ch \in [Owners -> [Nat -> Entries]]
      /\ len[dir] > 0 /\ fat[ch[dir][len[dir]]] = new
  <2>1. AfterLast(dir) = new
    BY DEF AfterLast
  <2> QED
    BY <1>1, <1>2, <2>1 DEF Lists, Linked
<1>4. PICK k \in Nat : k = len[dir] + 1
  BY <1>2, <1>3
<1>a. PICK l, h : /\ l = [len EXCEPT ![dir] = k]
                  /\ h = [ch EXCEPT ![dir] = [ch[dir] EXCEPT ![k] = new]]
  OBVIOUS
<1>5. Linked(fat', l, h)
  <2>1. ~EndChain(new)
    BY <1>1, <1>2, FreeIsUnlisted
  <2>2. len[dir] # 0
    BY <1>2, <1>3
  <2>3. Linked([fat EXCEPT ![new] = EOC], [len EXCEPT ![dir] = len[dir] + 1],
               [ch EXCEPT ![dir] = [ch[dir] EXCEPT ![len[dir] + 1] = new]])
    BY <1>1, <1>2, <1>3, <2>1, <2>2, MarkExtendsList DEF Lists
  <2> QED
    BY <1>4, <1>a, <2>3
<1>6. TypeOK'
  BY DEF ChainInv, TypeOK, Phases, Entries, Clusters, EOC, FatValues
<1>7. /\ \A o \in Owners \ {dir} : l[o] = len[o] /\ h[o] = ch[o]
      /\ l[dir] = k /\ h[dir][k] = new /\ h[dir][1] = ch[dir][1] /\ k > 1
      /\ new \in Entries
  <2>1. \A o \in Owners \ {dir} : l[o] = len[o] /\ h[o] = ch[o]
    BY <1>3, <1>a
  <2>2. l[dir] = k /\ h[dir] = [ch[dir] EXCEPT ![k] = new]
    BY <1>2, <1>3, <1>a
  <2>3. ch[dir] \in [Nat -> Entries] /\ k > 1 /\ 1 \in Nat
    BY <1>2, <1>3, <1>4
  <2>4. h[dir][k] = new /\ h[dir][1] = ch[dir][1]
    BY <1>4, <2>2, <2>3
  <2>5. new \in Entries
    BY <1>2 DEF Entries, Clusters
  <2> QED
    BY <2>1, <2>2, <2>3, <2>4, <2>5
<1>8. \A o \in Owners : len[o] > 0 => ch[o][len[o]] # new /\ ch[o][len[o]] \in Entries
  <2>1. \A o \in Owners : len[o] > 0 => len[o] \in 1 .. len[o]
    BY <1>3
  <2> QED
    BY <1>1, <1>2, <1>3, <2>1, FreeIsUnlisted
<1>9. Lists(l, h)'
  <2>1. \A o \in Owners : l[o] > 0 => fat'[h[o][l[o]]] = AfterLast(o)'
    <3>1. fat'[new] = EOC
      BY <1>2, <1>7
    <3>2. \A o \in Owners \ {dir} : l[o] > 0 => fat'[h[o][l[o]]] = EOC
      BY <1>1, <1>2, <1>7, <1>8 DEF Lists, AfterLast
    <3> QED
      BY <1>7, <3>1, <3>2 DEF AfterLast
  <2>2. ASSUME NEW o \in entries
        PROVE  Entry(o, l[o], h[o])'
    <3>1. Entry(o, len[o], ch[o]) /\ o \in Owners
      BY <1>1, <2>2 DEF Lists, ChainInv, TypeOK, Owners
    <3>2. CASE o # dir
      BY <1>7, <3>1, <3>2 DEF Entry, Settled, Building, Freed, BeingFreed
    <3>3. CASE o = dir
      <4>1. o \notin Files
        BY <1>2, <2>2, <3>3 DEF ChainInv, TypeOK, Objects
      <4> QED
        BY <1>3, <1>7, <3>1, <3>3, <4>1 DEF Entry, Settled, Building, Freed, BeingFreed
    <3> QED
      BY <3>2, <3>3
  <2>3. \A o \in Objects : o \notin entries => l[o] = 0 /\ first[o] = 0
    BY <1>1, <1>2, <1>7 DEF Lists, Owners
  <2>4. l[Root] > 0 /\ h[Root][1] = RootCluster
    BY <1>1, <1>4, <1>7 DEF Lists, Owners
  <2> QED
    BY <1>5, <2>1, <2>2, <2>3, <2>4 DEF Lists
<1>10. AddControl' /\ RemoveControl'
  BY <1>2 DEF ChainInv, AddControl, RemoveControl
<1>11. Gained(len, ch, l, h, dir, new)
  <2>1. h[dir] = [ch[dir] EXCEPT ![k] = new] /\ l[dir] = k
    BY <1>2, <1>3, <1>a
  <2>2. ch[dir] \in [Nat -> Entries] /\ len[dir] \in Nat
    BY <1>2, <1>3
  <2>3. Members(h[dir], k) = Members(ch[dir], len[dir]) \cup {new}
    <3>1. Appended(ch[dir], len[dir], new, h[dir], k)
      BY <1>4, <2>1 DEF Appended
    <3> QED
      BY <2>2, <3>1, AppendMembers
  <2> QED
    BY <1>7, <2>1, <2>3 DEF Gained
<1> QED
  BY <1>6, <1>9, <1>10, <1>11 DEF ChainInv

LEMMA ImportAllocChain ==
  ASSUME ChainInv, ImportAlloc
  PROVE  ChainInv'
<1> USE DEF ImportAlloc, dirents, locals
<1>1. PICK len, ch : Lists(len, ch)
  BY DEF ChainInv
<1>2. new' \in Clusters /\ fat[new'] = 0 /\ last' \in Clusters
  BY AllocIsFree DEF ChainInv
<1>3. TypeOK'
  BY <1>2 DEF ChainInv, TypeOK, Phases
<1>4. Lists(len, ch)'
  <2>1. Entry(obj, len[obj], ch[obj])
    BY <1>1 DEF Lists, ChainInv, AddControl
  <2>2. cur = 0 => ~(len[obj] > 0)
    BY <2>1 DEF Entry, Building
  <2>3. \A o \in Owners : len[o] > 0 => fat[ch[o][len[o]]] = AfterLast(o)'
    BY <1>1, <2>2 DEF Lists, AfterLast
  <2> QED
    BY <1>1, <2>3 DEF Lists, Entry, Settled, Building, Freed, BeingFreed
<1>5. AddControl' /\ RemoveControl'
  BY <1>2 DEF ChainInv, AddControl, RemoveControl
<1> QED
  BY <1>3, <1>4, <1>5 DEF ChainInv
\* file_import links at the end of the list it builds.
LEMMA ImportLinkLists ==
  ASSUME ChainInv, ImportLink, NEW len, NEW ch, Lists(len, ch)
  PROVE  ChainInv' /\ Lists(len, ch)'
<1> USE DEF ImportLink, dirents, locals
<1>1. Lists(len, ch)
  OBVIOUS
<1>2. /\ fat \in [Entries -> FatValues]
      /\ new \in Clusters /\ fat[new] = 0 /\ obj \in Owners /\ obj \in entries
      /\ cur # 0
  BY DEF ChainInv, TypeOK, AddControl, Owners, Objects
<1>3. len[obj] > 0 /\ cur = ch[obj][len[obj]]
  <2>1. Entry(obj, len[obj], ch[obj])
    BY <1>1, <1>2 DEF Lists
  <2> QED
    BY <1>2, <2>1 DEF Entry, Building
<1>4. len \in [Owners -> Nat] /\ \A o \in Owners : len[o] > 0 => len[o] \in 1 .. len[o]
  BY <1>1 DEF Lists, Linked
<1>5. cur \in Entries /\ fat[cur] # 0 /\ cur # new
  BY <1>1, <1>2, <1>3, <1>4 DEF Lists, Linked
<1>6. TypeOK'
  BY <1>2, <1>5 DEF ChainInv, TypeOK, Phases, FatValues
<1>7. Lists(len, ch)'
  <2>1. Linked(fat', len, ch)
    <3>1. Linked([fat EXCEPT ![ch[obj][len[obj]]] = new], len, ch)
      BY <1>1, <1>2, <1>3, LinkKeepsLinked DEF Lists
    <3> QED
      BY <1>3, <3>1
  <2>2. ASSUME NEW o \in Owners, len[o] > 0
        PROVE  fat'[ch[o][len[o]]] = AfterLast(o)'
    <3>1. len[o] \in 1 .. len[o] /\ len[obj] \in 1 .. len[obj] /\ ch[o][len[o]] \in Entries
      BY <1>1, <1>2, <1>3, <1>4, <2>2 DEF Lists, Linked
    <3>2. CASE o = obj
      BY <1>2, <1>3, <1>5, <3>2 DEF AfterLast
    <3>3. CASE o # obj
      <4>1. ch[o][len[o]] # cur
        BY <1>1, <1>2, <1>3, <3>1, <3>3 DEF Lists, Linked
      <4> QED
        BY <1>1, <1>2, <2>2, <3>1, <3>3, <4>1 DEF Lists, AfterLast
    <3> QED
      BY <3>2, <3>3
  <2> QED
    BY <1>1, <1>5, <2>1, <2>2 DEF Lists, Entry, Settled, Building, Freed, BeingFreed
<1>8. AddControl' /\ RemoveControl'
  BY <1>2, <1>5 DEF ChainInv, AddControl, RemoveControl
<1> QED
  BY <1>6, <1>7, <1>8 DEF ChainInv

\* Marking the new cluster puts it at the end of the list file_import builds.
LEMMA ImportMarkLists ==
  ASSUME ChainInv, ImportMark, NEW len, NEW ch, Lists(len, ch)
  PROVE  /\ ChainInv'
         /\ \E l, h : Lists(l, h)' /\ Gained(len, ch, l, h, obj, new)
<1> USE DEF ImportMark, dirents, locals
<1>1. Lists(len, ch)
  OBVIOUS
<1>2. /\ fat \in [Entries -> FatValues]
      /\ first \in [Objects -> {0} \cup Clusters]
      /\ new \in Clusters /\ fat[new] = 0
      /\ obj \in Owners /\ obj \in entries /\ obj \in Objects /\ obj # Root
      /\ left \in Nat /\ left > 0
  BY DEF ChainInv, TypeOK, AddControl, Owners, Objects
<1>3. /\ len \in [Owners -> Nat] /\ ch \in [Owners -> [Nat -> Entries]]
      /\ Entry(obj, len[obj], ch[obj])
  BY <1>1, <1>2 DEF Lists, Linked
<1>4. /\ first[obj] = IF cur = 0 THEN 0 ELSE ch[obj][1]
      /\ IF cur = 0 THEN len[obj] = 0
         ELSE len[obj] > 0 /\ fat[ch[obj][len[obj]]] = new
      /\ size[obj] = len[obj] + left
  <2>1. AfterLast(obj) = new
    BY DEF AfterLast
  <2> QED
    BY <1>1, <1>2, <1>3, <2>1 DEF Lists, Entry, Building
<1>5. PICK k \in Nat : k = len[obj] + 1
  BY <1>2, <1>3
<1>6. PICK l, h : /\ l = [len EXCEPT ![obj] = k]
                  /\ h = [ch EXCEPT ![obj] = [ch[obj] EXCEPT ![k] = new]]
  OBVIOUS
<1>7. Linked(fat', l, h)
  <2>1. ~EndChain(new)
    BY <1>1, <1>2, FreeIsUnlisted
  <2>2. IF len[obj] = 0 THEN obj # Root ELSE fat[ch[obj][len[obj]]] = new
    BY <1>2, <1>3, <1>4
  <2>3. Linked([fat EXCEPT ![new] = EOC], [len EXCEPT ![obj] = len[obj] + 1],
               [ch EXCEPT ![obj] = [ch[obj] EXCEPT ![len[obj] + 1] = new]])
    BY <1>1, <1>2, <2>1, <2>2, MarkExtendsList DEF Lists
  <2> QED
    BY <1>5, <1>6, <2>3
<1>8. TypeOK'
  <2>1. left' \in 0 .. MaxFileClusters
    BY <1>2 DEF ChainInv, TypeOK
  <2>2. fat' \in [Entries -> FatValues]
    BY DEF ChainInv, TypeOK, FatValues
  <2>3. first' \in [Objects -> {0} \cup Clusters]
    BY <1>2
  <2> QED
    BY <1>2, <2>1, <2>2, <2>3 DEF ChainInv, TypeOK, Phases, FatValues
<1>9. /\ \A o \in Owners \ {obj} : l[o] = len[o] /\ h[o] = ch[o]
      /\ l[obj] = k /\ h[obj][k] = new /\ k > 0
      /\ k # 1 => h[obj][1] = ch[obj][1]
      /\ new \in Entries
  <2>1. \A o \in Owners \ {obj} : l[o] = len[o] /\ h[o] = ch[o]
    BY <1>3, <1>6
  <2>2. l[obj] = k /\ h[obj] = [ch[obj] EXCEPT ![k] = new]
    BY <1>2, <1>3, <1>6
  <2>3. ch[obj] \in [Nat -> Entries] /\ k > 0 /\ 1 \in Nat
    BY <1>2, <1>3, <1>5
  <2>4. h[obj][k] = new /\ (k # 1 => h[obj][1] = ch[obj][1])
    BY <1>5, <2>2, <2>3
  <2>5. new \in Entries
    BY <1>2 DEF Entries, Clusters
  <2> QED
    BY <2>1, <2>2, <2>3, <2>4, <2>5
<1>10. \A o \in Owners : len[o] > 0 => ch[o][len[o]] # new /\ ch[o][len[o]] \in Entries
  <2>1. \A o \in Owners : len[o] > 0 => len[o] \in 1 .. len[o]
    BY <1>3
  <2> QED
    BY <1>1, <1>2, <1>3, <2>1, FreeIsUnlisted
<1>11. Lists(l, h)'
  <2>1. \A o \in Owners : l[o] > 0 => fat'[h[o][l[o]]] = AfterLast(o)'
    <3>1. fat'[new] = EOC
      BY <1>2, <1>9
    <3>2. \A o \in Owners \ {obj} : l[o] > 0 => fat'[h[o][l[o]]] = EOC
      BY <1>1, <1>2, <1>9, <1>10 DEF Lists, AfterLast
    <3> QED
      BY <1>9, <3>1, <3>2 DEF AfterLast
  <2>2. ASSUME NEW o \in entries
        PROVE  Entry(o, l[o], h[o])'
    <3>1. Entry(o, len[o], ch[o]) /\ o \in Owners /\ o \in Objects
      BY <1>1, <2>2 DEF Lists, ChainInv, TypeOK, Owners
    <3>2. CASE o # obj
      <4>1. first'[o] = first[o]
        BY <1>2, <3>1, <3>2
      <4> QED
        BY <1>9, <3>1, <3>2, <4>1 DEF Entry, Settled, Building, Freed, BeingFreed
    <3>3. CASE o = obj
      <4>1. first'[obj] = h[obj][1] /\ first'[obj] # 0
        <5>1. CASE cur = 0
          <6>1. k = 1
            BY <1>4, <1>5, <5>1
          <6> QED
            BY <1>2, <1>9, <5>1, <6>1 DEF Clusters
        <5>2. CASE cur # 0
          <6>1. k # 1 /\ 1 \in 1 .. len[obj]
            BY <1>2, <1>3, <1>4, <1>5, <5>2
          <6>2. ch[obj][1] # 0
            BY <1>1, <1>2, <6>1 DEF Lists, Linked, Clusters
          <6> QED
            BY <1>4, <1>9, <5>2, <6>1, <6>2
        <5> QED
          BY <5>1, <5>2
      <4>2. /\ left' \in Nat /\ size'[obj] = l[obj] + left'
            /\ left' = 0 <=> pc' = "write"
        BY <1>2, <1>3, <1>4, <1>5, <1>9
      <4>3. cur' = h[obj][l[obj]] /\ l[obj] > 0 /\ cur' # 0
        BY <1>2, <1>9 DEF Clusters
      <4>4. l[obj] \in Nat
        BY <1>5, <1>9
      <4> QED
        BY <3>3, <4>1, <4>2, <4>3, <4>4
           DEF Entry, Settled, Building, Freed, BeingFreed
    <3> QED
      BY <3>2, <3>3
  <2>3. \A o \in Objects : o \notin entries => l[o] = 0 /\ first'[o] = 0
    BY <1>1, <1>2, <1>9 DEF Lists, Owners
  <2>4. l[Root] > 0 /\ h[Root][1] = RootCluster
    BY <1>1, <1>2, <1>9 DEF Lists, Owners
  <2> QED
    BY <1>7, <2>1, <2>2, <2>3, <2>4 DEF Lists
<1>12. AddControl' /\ RemoveControl'
  BY <1>2 DEF ChainInv, AddControl, RemoveControl
<1>13. Gained(len, ch, l, h, obj, new)
  <2>1. h[obj] = [ch[obj] EXCEPT ![k] = new] /\ l[obj] = k
    BY <1>2, <1>3, <1>6
  <2>2. ch[obj] \in [Nat -> Entries] /\ len[obj] \in Nat
    BY <1>2, <1>3
  <2>3. Members(h[obj], k) = Members(ch[obj], len[obj]) \cup {new}
    <3>1. Appended(ch[obj], len[obj], new, h[obj], k)
      BY <1>5, <2>1 DEF Appended
    <3> QED
      BY <2>2, <3>1, AppendMembers
  <2> QED
    BY <1>9, <2>1, <2>3 DEF Gained
<1> QED
  BY <1>8, <1>11, <1>12, <1>13 DEF ChainInv

LEMMA OutOfClustersChain ==
  ASSUME ChainInv, OutOfClusters
  PROVE  ChainInv'
BY DEF ChainInv, OutOfClusters, TypeOK, Phases, dirents, locals
----------------------------------------------------------------------------
(* Removing an entry.                                                      *)

LEMMA RemoveStartChain ==
  ASSUME ChainInv, NEW o \in Objects, RemoveStart(o)
  PROVE  ChainInv'
<1> USE DEF RemoveStart, dirents, locals
<1>1. PICK len, ch : Lists(len, ch)
  BY DEF ChainInv
<1>2. o \in Owners /\ o # Root /\ Root \notin entries
  BY DEF Owners, ChainInv, TypeOK
<1>3. Settled(o, len[o], ch[o])
  BY <1>1 DEF Lists, Entry, Building, Freed, BeingFreed
<1>4. len[o] > 0 => ~EndChain(ch[o][1])
  <2>1. len[o] > 0 => 1 \in 1 .. len[o]
    BY <1>1, <1>2 DEF Lists, Linked
  <2> QED
    BY <1>1, <1>2, <2>1 DEF Lists, Linked
<1>5. IF EndChain(first[o]) THEN len[o] = 0 ELSE len[o] > 0 /\ first[o] = ch[o][1]
  BY <1>3, <1>4 DEF Settled, EndChain
<1>6. o \notin Files => first[o] # 0 /\ ~EndChain(first[o])
  BY <1>3, <1>4, <1>5 DEF Settled
<1>7. TypeOK'
  BY DEF ChainInv, TypeOK, Phases, FatValues
<1>8. Lists(len, ch)'
  BY <1>1, <1>2, <1>5 DEF Lists, Entry, Settled, Building, Freed, BeingFreed, AfterLast
<1>9. AddControl' /\ RemoveControl'
  BY <1>2, <1>6 DEF AddControl, RemoveControl
<1> QED
  BY <1>7, <1>8, <1>9 DEF ChainInv

\* dirent_remove takes the first cluster from the list of the entry it removes.
\* A directory's own list is gone by the time the walk is back at its entry.
LEMMA FreeNextLists ==
  ASSUME ChainInv, FreeNext, NEW len, NEW ch, Lists(len, ch)
  PROVE  /\ ChainInv'
         /\ IF Freed(obj) THEN fat' = fat /\ Lists(len, ch)'
            ELSE \E l, h : Lists(l, h)' /\ Gained(l, h, len, ch, obj, cur)
<1> USE DEF FreeNext, dirents, locals
<1>1. Lists(len, ch)
  OBVIOUS
<1>2. /\ fat \in [Entries -> FatValues]
      /\ first \in [Objects -> {0} \cup Clusters]
      /\ cur \in Clusters /\ cur \in Entries
      /\ obj \in entries /\ obj \in Objects /\ obj \in Owners /\ obj # Root
  BY DEF ChainInv, TypeOK, RemoveControl, FatValues, EndChain, EOC, Clusters,
         Entries, Owners, Objects
<1>3. fat' = [fat EXCEPT ![cur] = 0]
  <2>1. ~(Fat32 /\ cur = RootCluster)
    BY DEF EndChain, RootCluster
  <2> QED
    BY <2>1
<1>4. TypeOK'
  BY <1>2, <1>3 DEF ChainInv, TypeOK, FatValues
<1>5. CASE Freed(obj)
  <2>1. cur = first[obj] /\ fat[cur] = 0 /\ dir = obj /\ pc = "free"
    BY <1>2, <1>5 DEF ChainInv, RemoveControl, Freed, Clusters
  <2>2. fat' = fat /\ cur' = 0
    BY <1>2, <1>3, <2>1
  <2>3. EndChain(0)
    BY DEF EndChain
  <2>4. Lists(len, ch)'
    BY <1>1, <2>1, <2>2 DEF Lists, Entry, Settled, Building, Freed, BeingFreed, AfterLast
  <2>5. AddControl' /\ RemoveControl'
    BY <1>2, <2>1, <2>2, <2>3 DEF ChainInv, AddControl, RemoveControl
  <2> QED
    BY <1>4, <1>5, <2>2, <2>4, <2>5 DEF ChainInv
<1>6. CASE ~Freed(obj)
  <2>1. /\ len \in [Owners -> Nat] /\ ch \in [Owners -> [Nat -> Entries]]
        /\ Entry(obj, len[obj], ch[obj])
    BY <1>1, <1>2 DEF Lists, Linked
  <2>2. len[obj] > 0 /\ cur = ch[obj][1]
    BY <1>6, <2>1 DEF Entry, BeingFreed
  <2>3. fat[cur] # 0
    BY <1>1, <1>2, <2>1, <2>2 DEF Lists, Linked
  <2>4. PICK l, h : /\ l = [len EXCEPT ![obj] = len[obj] - 1]
                    /\ h = [ch EXCEPT ![obj] = Beheaded(ch[obj])]
    OBVIOUS
  <2>5. Linked(fat', l, h)
    <3>1. Linked([fat EXCEPT ![ch[obj][1]] = 0], [len EXCEPT ![obj] = len[obj] - 1],
                 [ch EXCEPT ![obj] = Beheaded(ch[obj])])
      BY <1>1, <1>2, <2>2, FreeShortensList DEF Lists
    <3> QED
      BY <1>3, <2>2, <2>4, <3>1
  <2>6. /\ \A o \in Owners \ {obj} : l[o] = len[o] /\ h[o] = ch[o]
        /\ l[obj] = len[obj] - 1 /\ l[obj] \in Nat
        /\ \A i \in Nat : h[obj][i] = ch[obj][i + 1]
    <3>1. \A o \in Owners \ {obj} : l[o] = len[o] /\ h[o] = ch[o]
      BY <2>1, <2>4
    <3>2. l[obj] = len[obj] - 1 /\ l[obj] \in Nat
      BY <1>2, <2>1, <2>2, <2>4
    <3>3. h[obj] = [i \in Nat |-> ch[obj][i + 1]]
      BY <1>2, <2>1, <2>4 DEF Beheaded
    <3> QED
      BY <3>1, <3>2, <3>3
  <2>7. \A o \in Owners : len[o] > 0 =>
          /\ len[o] \in 1 .. len[o] /\ ch[o][len[o]] \in Entries
          /\ ch[o][len[o]] = cur => o = obj /\ len[o] = 1
    <3>1. \A o \in Owners : len[o] > 0 => len[o] \in 1 .. len[o] /\ 1 \in 1 .. len[o]
      BY <2>1
    <3>2. 1 \in 1 .. len[obj]
      BY <1>2, <2>2, <3>1
    <3> QED
      BY <1>1, <1>2, <2>1, <2>2, <3>1, <3>2 DEF Lists, Linked
  <2>8. IF EndChain(cur') THEN l[obj] = 0 ELSE l[obj] > 0 /\ cur' = h[obj][1]
    <3>1. CASE len[obj] = 1
      <4>1. AfterLast(obj) = EOC /\ EndChain(EOC)
        BY DEF AfterLast, EndChain, EOC
      <4>2. fat[cur] = EOC
        BY <1>1, <1>2, <2>2, <3>1, <4>1 DEF Lists
      <4> QED
        BY <2>6, <3>1, <4>1, <4>2
    <3>2. CASE len[obj] > 1
      <4>1. 1 \in 1 .. len[obj] /\ 2 \in 1 .. len[obj] /\ 1 + 1 = 2
        BY <1>2, <2>1, <3>2
      <4>2. fat[cur] = ch[obj][2]
        BY <1>1, <1>2, <2>2, <3>2, <4>1 DEF Lists, Linked
      <4>3. ~EndChain(ch[obj][2])
        BY <1>1, <1>2, <4>1 DEF Lists, Linked
      <4>4. h[obj][1] = ch[obj][2]
        BY <2>6, <4>1
      <4>5. l[obj] > 0
        BY <1>2, <2>1, <2>6, <3>2
      <4> QED
        BY <4>2, <4>3, <4>4, <4>5
    <3> QED
      BY <1>2, <2>1, <2>2, <3>1, <3>2
  <2>9. Lists(l, h)'
    <3>1. ASSUME NEW o \in Owners, l[o] > 0
          PROVE  fat'[h[o][l[o]]] = AfterLast(o)'
      <4>1. AfterLast(o)' = EOC /\ AfterLast(o) = EOC
        BY DEF AfterLast
      <4>2. CASE o = obj
        <5>1. len[obj] > 1 /\ h[obj][l[obj]] = ch[obj][len[obj]]
          BY <1>2, <2>1, <2>6, <3>1, <4>2
        <5>2. fat[ch[obj][len[obj]]] = EOC /\ ch[obj][len[obj]] # cur
              /\ ch[obj][len[obj]] \in Entries
          BY <1>1, <1>2, <2>2, <2>7, <4>1, <4>2, <5>1 DEF Lists
        <5> QED
          BY <1>2, <1>3, <4>1, <4>2, <5>1, <5>2
      <4>3. CASE o # obj
        <5>1. len[o] > 0 /\ h[o][l[o]] = ch[o][len[o]]
          BY <2>6, <3>1, <4>3
        <5>2. fat[ch[o][len[o]]] = EOC /\ ch[o][len[o]] # cur
              /\ ch[o][len[o]] \in Entries
          BY <1>1, <2>7, <4>1, <4>3, <5>1 DEF Lists
        <5> QED
          BY <1>2, <1>3, <4>1, <5>1, <5>2
      <4> QED
        BY <4>2, <4>3
    <3>2. ASSUME NEW o \in entries
          PROVE  Entry(o, l[o], h[o])'
      <4>1. Entry(o, len[o], ch[o]) /\ o \in Owners
        BY <1>1, <3>2 DEF Lists, ChainInv, TypeOK, Owners
      <4>2. CASE o = obj
        BY <1>6, <2>8, <4>2 DEF Entry, Settled, Building, Freed, BeingFreed
      <4>3. CASE o # obj
        BY <2>6, <4>1, <4>3 DEF Entry, Settled, Building, Freed, BeingFreed
      <4> QED
        BY <4>2, <4>3
    <3>3. \A o \in Objects : o \notin entries => l[o] = 0 /\ first[o] = 0
      BY <1>1, <1>2, <2>6 DEF Lists, Owners
    <3>4. l[Root] > 0 /\ h[Root][1] = RootCluster
      BY <1>1, <1>2, <2>6 DEF Lists, Owners
    <3> QED
      BY <2>5, <3>1, <3>2, <3>3, <3>4 DEF Lists
  <2>10. AddControl'
    BY DEF AddControl
  <2>11. RemoveControl'
    <3>1. \A c \in Entries : fat[c] = 0 => fat'[c] = 0
      BY <1>2, <1>3
    <3>2. \A o \in Objects : first[o] \in Entries
      BY <1>2 DEF Entries, Clusters
    <3>3. fat'[cur] = 0
      BY <1>2, <1>3
    <3>4. pc = "free" => obj # dir
      BY <1>6 DEF Freed
    <3>5. pc = "dot" => fat'[first[obj]] = 0
      BY <1>2, <3>1, <3>2, <3>3 DEF ChainInv, RemoveControl
    <3>6. dir \in entries => dir \in Objects
      BY DEF ChainInv, TypeOK
    <3> QED
      BY <3>1, <3>2, <3>4, <3>5, <3>6 DEF ChainInv, RemoveControl
  <2>12. Gained(l, h, len, ch, obj, cur)
    <3>1. h[obj] = Beheaded(ch[obj]) /\ ch[obj] \in [Nat -> Entries] /\ len[obj] \in Nat
      BY <1>2, <2>1, <2>4
    <3> QED
      BY <2>2, <2>6, <3>1, BeheadMembers DEF Gained
  <2> QED
    BY <1>4, <1>6, <2>9, <2>10, <2>11, <2>12 DEF ChainInv
<1> QED
  BY <1>5, <1>6

LEMMA FreeNextChain == ChainInv /\ FreeNext => ChainInv'
<1> SUFFICES ASSUME ChainInv, FreeNext
             PROVE  ChainInv'
  OBVIOUS
<1>1. PICK len, ch : Lists(len, ch)
  BY DEF ChainInv, FreeNext
<1> QED
  BY <1>1, FreeNextLists

LEMMA DotDoneChain ==
  ASSUME ChainInv, DotDone
  PROVE  ChainInv'
<1> USE DEF DotDone, dirents, locals
<1>1. PICK len, ch : Lists(len, ch)
  BY DEF ChainInv
<1>2. /\ obj \in entries /\ obj = dir /\ obj \in Dirs /\ first[obj] # 0
      /\ fat[first[obj]] = 0
  BY DEF ChainInv, RemoveControl
<1>3. len[obj] = 0
  BY <1>1, <1>2 DEF Lists, Entry, BeingFreed, Freed
<1>4. TypeOK'
  BY DEF ChainInv, TypeOK, Phases
<1>5. Lists(len, ch)'
  BY <1>1, <1>2, <1>3 DEF Lists, Entry, Settled, Building, Freed, BeingFreed, AfterLast
<1>6. AddControl' /\ RemoveControl'
  BY <1>2 DEF AddControl, RemoveControl
<1> QED
  BY <1>4, <1>5, <1>6 DEF ChainInv

LEMMA SweepFileChain ==
  ASSUME ChainInv, NEW o \in Objects, SweepFile(o)
  PROVE  ChainInv'
<1> USE DEF SweepFile, dirents, locals
<1>1. PICK len, ch : Lists(len, ch)
  BY DEF ChainInv
<1>2. o \in Owners /\ o # Root
  BY DEF Owners
<1>3. len[o] > 0 => ~EndChain(ch[o][1])
  <2>1. len[o] > 0 => 1 \in 1 .. len[o]
    BY <1>1, <1>2 DEF Lists, Linked
  <2> QED
    BY <1>1, <1>2, <2>1 DEF Lists, Linked
<1>4. o # dir =>
        IF EndChain(first[o]) THEN len[o] = 0 ELSE len[o] > 0 /\ first[o] = ch[o][1]
  <2>1. o # dir => Settled(o, len[o], ch[o])
    BY <1>1 DEF Lists, Entry, Building, Freed, BeingFreed
  <2> QED
    BY <1>3, <2>1 DEF Settled, EndChain
<1>5. TypeOK'
  BY DEF ChainInv, TypeOK, Phases, FatValues
<1>6. Lists(len, ch)'
  BY <1>1, <1>4 DEF Lists, Entry, Settled, Building, Freed, BeingFreed, AfterLast
<1>7. AddControl' /\ RemoveControl'
  BY DEF ChainInv, AddControl, RemoveControl
<1> QED
  BY <1>5, <1>6, <1>7 DEF ChainInv

LEMMA SweepDoneChain ==
  ASSUME ChainInv, SweepDone
  PROVE  ChainInv'
<1> USE DEF SweepDone, dirents, locals
<1>1. PICK len, ch : Lists(len, ch)
  BY DEF ChainInv
<1>2. dir \in entries \cap Dirs /\ dir \in Objects /\ first[dir] # 0 /\ fat[first[dir]] = 0
  BY DEF ChainInv, RemoveControl, Objects
<1>3. TypeOK'
  BY <1>2 DEF ChainInv, TypeOK, Phases, FatValues
<1>4. Lists(len, ch)'
  BY <1>1 DEF Lists, Entry, Settled, Building, Freed, BeingFreed, AfterLast
<1>5. AddControl' /\ RemoveControl'
  BY <1>2 DEF AddControl, RemoveControl
<1> QED
  BY <1>3, <1>4, <1>5 DEF ChainInv

\* Clearing the first cluster of an entry whose list is empty.
LEMMA FreeDoneChain ==
  ASSUME ChainInv, FreeDone
  PROVE  ChainInv'
<1> USE DEF FreeDone, dirents, locals
<1>1. PICK len, ch : Lists(len, ch)
  BY DEF ChainInv
<1>2. obj \in entries /\ obj \in Objects
  BY DEF ChainInv, RemoveControl, TypeOK
<1>3. len[obj] = 0
  <2>1. Entry(obj, len[obj], ch[obj])
    BY <1>1, <1>2 DEF Lists
  <2> QED
    BY <2>1 DEF Entry, BeingFreed
<1>4. \A o \in Objects : /\ first'[o] = IF o = obj THEN 0 ELSE first[o]
                         /\ o # obj => size'[o] = size[o]
  BY DEF ChainInv, TypeOK
<1>5. TypeOK'
  <2>1. size' \in [Objects -> 0 .. MaxFileClusters]
    <3>1. 0 \in 0 .. MaxFileClusters
      OBVIOUS
    <3> QED
      BY <3>1 DEF ChainInv, TypeOK
  <2>2. parent' \in [Objects -> Dirs \cup {Root}]
    BY DEF ChainInv, TypeOK
  <2>3. first' \in [Objects -> {0} \cup Clusters]
    BY DEF ChainInv, TypeOK
  <2> QED
    BY <1>2, <2>1, <2>2, <2>3 DEF ChainInv, TypeOK, Phases
<1>6. Lists(len, ch)'
  <2>1. ASSUME NEW o \in entries, o # obj
        PROVE  Entry(o, len[o], ch[o])'
    <3>1. Entry(o, len[o], ch[o]) /\ o \in Objects
      BY <1>1, <2>1 DEF Lists, ChainInv, TypeOK
    <3>2. first'[o] = first[o] /\ size'[o] = size[o]
      BY <1>4, <2>1, <3>1
    <3> QED
      BY <2>1, <3>1, <3>2 DEF Entry, Settled, Building, Freed, BeingFreed
  <2>2. \A o \in Objects : o \notin entries' => len[o] = 0 /\ first'[o] = 0
    BY <1>1, <1>2, <1>3, <1>4 DEF Lists
  <2> QED
    BY <1>1, <2>1, <2>2 DEF Lists, AfterLast
<1>7. AddControl' /\ RemoveControl'
  BY <1>4 DEF ChainInv, AddControl, RemoveControl, Objects
<1> QED
  BY <1>5, <1>6, <1>7 DEF ChainInv

LEMMA DirentsWriteChain ==
  ASSUME ChainInv, DirentsWrite
  PROVE  ChainInv'
<1> USE DEF DirentsWrite, dirents
<1>1. PICK len, ch : Lists(len, ch)
  BY DEF ChainInv
<1>2. TypeOK'
  BY DEF ChainInv, TypeOK, Phases, FatValues
<1>3. Lists(len, ch)'
  BY <1>1 DEF Lists, Entry, Settled, Building, Freed, BeingFreed, AfterLast
<1>4. AddControl' /\ RemoveControl'
  BY DEF AddControl, RemoveControl
<1> QED
  BY <1>2, <1>3, <1>4 DEF ChainInv
----------------------------------------------------------------------------
LEMMA StutterChain == ChainInv /\ UNCHANGED vars => ChainInv'
<1> SUFFICES ASSUME ChainInv, UNCHANGED vars
             PROVE  ChainInv'
  OBVIOUS
<1> USE DEF vars, dirents, locals
<1>1. CASE pc = "dead"
  BY <1>1 DEF ChainInv, TypeOK
<1>2. CASE pc # "dead"
  <2>1. PICK len, ch : Lists(len, ch)
    BY <1>2 DEF ChainInv
  <2>2. Lists(len, ch)'
    BY <2>1 DEF Lists, Entry, Settled, Building, Freed, BeingFreed, AfterLast
  <2>3. (TypeOK /\ AddControl /\ RemoveControl)'
    BY <1>2 DEF ChainInv, TypeOK, AddControl, RemoveControl
  <2> QED
    BY <2>2, <2>3 DEF ChainInv
<1> QED
  BY <1>1, <1>2

LEMMA AddChain == ChainInv /\ Add => ChainInv'
<1> SUFFICES ASSUME ChainInv, Add
             PROVE  ChainInv'
  OBVIOUS
<1>1. CASE GrowLink \/ GrowMark \/ ImportLink \/ ImportMark
  <2>1. PICK len, ch : Lists(len, ch)
    BY <1>1 DEF ChainInv, GrowLink, GrowMark, ImportLink, ImportMark
  <2> QED
    BY <1>1, <2>1, GrowLinkLists, GrowMarkLists, ImportLinkLists, ImportMarkLists
<1> QED
  BY <1>1, FindSlotChain, GrowAllocChain, GrowWalkChain, ImportAllocChain,
     OutOfClustersChain DEF Add

LEMMA RemoveChain == ChainInv /\ Remove => ChainInv'
BY FreeNextChain, DotDoneChain, FreeDoneChain, SweepFileChain, SweepDoneChain
   DEF Remove

LEMMA NextChain == ChainInv /\ [Next]_vars => ChainInv'
<1> SUFFICES ASSUME ChainInv, [Next]_vars
             PROVE  ChainInv'
  OBVIOUS
<1>1. CASE UNCHANGED vars
  BY <1>1, StutterChain
<1>2. ASSUME NEW o \in Objects, NEW d \in Dirs \cup {Root}, AddStart(o, d)
      PROVE  ChainInv'
  BY <1>2, AddStartChain
<1>3. ASSUME NEW o \in Objects, RemoveStart(o)
      PROVE  ChainInv'
  BY <1>3, RemoveStartChain
<1>4. CASE Step
  BY <1>4, AddChain, RemoveChain, DirentsWriteChain DEF Step
<1> QED
  BY <1>1, <1>2, <1>3, <1>4 DEF Next

\* The chains of the entries and of the root directory are lists that do not meet,
\* whatever fatdisk adds, grows and removes.
THEOREM ListsExist == Spec => []ChainInv
BY InitChain, NextChain, PTL DEF Spec

----------------------------------------------------------------------------
(* From lists to the chains the properties speak of.                       *)

\* The chain of a list's first cluster has the clusters of the list, if what
\* follows the last of them is an end mark or is free.
LEMMA ChainOfList ==
  ASSUME NEW f, NEW s, NEW n, NEW e, List(f, s, n, e),
         EndChain(e) \/ f[e] = 0,
         NEW c, c = IF n = 0 THEN e ELSE s[1]
  PROVE  /\ Chain(f, c) = Members(s, n)
         /\ Along(f, c) = Members(s, n) \cup {e, IF EndChain(e) THEN e ELSE f[e]}
<1> DEFINE z == IF EndChain(e) THEN e ELSE f[e]
<1>1. EndChain(0)
  BY DEF EndChain
<1>2. EndChain(z)
  BY <1>1
<1>3. Along(f, c) = Members(s, n) \cup {e, z}
  <2> HIDE DEF z
  <2>1. z = IF EndChain(e) THEN e ELSE f[e]
    BY DEF z
  <2> QED
    BY <1>2, <2>1, AlongList
<1>4. \A d \in Members(s, n) : ~EndChain(d) /\ f[d] # 0
  BY DEF Members, List
<1> QED
  BY <1>2, <1>3, <1>4 DEF Chain

\* The list of an entry is one.
LEMMA ListOfEntry ==
  ASSUME NEW len, NEW ch, Lists(len, ch), NEW o \in Objects
  PROVE  List(fat, ch[o], len[o], AfterLast(o))
<1>1. o \in Owners /\ o # Root
  BY DEF Owners
<1>2. len[o] \in Nat
  BY <1>1 DEF Lists, Linked
<1>3. ASSUME NEW i \in 1 .. len[o]
      PROVE  /\ ch[o][i] \in Clusters /\ ~EndChain(ch[o][i]) /\ fat[ch[o][i]] # 0
             /\ fat[ch[o][i]] = IF i < len[o] THEN ch[o][i + 1] ELSE AfterLast(o)
  <2>1. i < len[o] \/ i = len[o]
    BY <1>2
  <2>2. len[o] > 0
    BY <1>2
  <2> QED
    BY <1>1, <2>1, <2>2 DEF Lists, Linked
<1>4. \A i, j \in 1 .. len[o] : ch[o][i] = ch[o][j] => i = j
  BY <1>1 DEF Lists, Linked
<1> QED
  BY <1>2, <1>3, <1>4 DEF List

\* What follows the root directory's first cluster is one.
LEMMA ListOfRoot ==
  ASSUME NEW len, NEW ch, Lists(len, ch)
  PROVE  /\ len[Root] - 1 \in Nat
         /\ List(fat, Beheaded(ch[Root]), len[Root] - 1, AfterLast(Root))
         /\ fat[RootCluster] = IF len[Root] - 1 = 0 THEN AfterLast(Root)
                               ELSE Beheaded(ch[Root])[1]
<1>1. Root \in Owners
  BY DEF Owners
<1>2. /\ len[Root] \in Nat /\ len[Root] > 0 /\ ch[Root] \in [Nat -> Entries]
      /\ ch[Root][1] = RootCluster
  BY <1>1 DEF Lists, Linked
<1>3. PICK n \in Nat : n = len[Root] - 1
  BY <1>2
<1>4. PICK s : s = Beheaded(ch[Root])
  OBVIOUS
<1>5. \A i \in Nat : s[i] = ch[Root][i + 1]
  BY <1>4 DEF Beheaded
<1>6. ASSUME NEW i \in 1 .. n
      PROVE  /\ s[i] \in Clusters /\ ~EndChain(s[i]) /\ fat[s[i]] # 0
             /\ fat[s[i]] = IF i < n THEN s[i + 1] ELSE AfterLast(Root)
  <2>1. i + 1 \in 1 .. len[Root] /\ i + 1 > 1
    BY <1>2, <1>3
  <2>2. i < n => i + 1 < len[Root] /\ s[i + 1] = ch[Root][(i + 1) + 1]
    BY <1>2, <1>3, <1>5
  <2>3. ~(i < n) => i + 1 = len[Root]
    BY <1>2, <1>3
  <2>4. s[i] = ch[Root][i + 1]
    BY <1>5
  <2> QED
    BY <1>1, <1>2, <2>1, <2>2, <2>3, <2>4 DEF Lists, Linked
<1>7. ASSUME NEW i \in 1 .. n, NEW j \in 1 .. n, s[i] = s[j]
      PROVE  i = j
  <2>1. i + 1 \in 1 .. len[Root] /\ j + 1 \in 1 .. len[Root]
    BY <1>2, <1>3
  <2>2. ch[Root][i + 1] = ch[Root][j + 1]
    BY <1>5, <1>7
  <2>3. i + 1 = j + 1
    BY <1>1, <2>1, <2>2 DEF Lists, Linked
  <2> QED
    BY <2>3
<1>8. List(fat, s, n, AfterLast(Root))
  BY <1>6, <1>7 DEF List
<1>9. fat[RootCluster] = IF n = 0 THEN AfterLast(Root) ELSE s[1]
  <2>1. CASE n = 0
    BY <1>1, <1>2, <1>3, <2>1 DEF Lists
  <2>2. CASE n # 0
    <3>1. 1 \in 1 .. len[Root] /\ 1 < len[Root] /\ s[1] = ch[Root][1 + 1]
      BY <1>2, <1>3, <1>5, <2>2
    <3> QED
      BY <1>1, <1>2, <2>2, <3>1 DEF Lists, Linked
  <2> QED
    BY <2>1, <2>2
<1> QED
  BY <1>3, <1>4, <1>8, <1>9

\* An entry whose chain is complete has it, and has as many clusters as its
\* length calls for.
LEMMA SettledHasChain ==
  ASSUME NEW len, NEW ch, Lists(len, ch), pc = "idle",
         NEW o \in entries, o \in Objects
  PROVE  /\ Chain(fat, first[o]) = Members(ch[o], len[o])
         /\ first[o] # 0 => HasItsChain(o)
<1>1. Settled(o, len[o], ch[o])
  BY DEF Lists, Entry, Building, Freed, BeingFreed
<1>2. List(fat, ch[o], len[o], EOC)
  BY ListOfEntry DEF AfterLast
<1>3. EndChain(0) /\ EndChain(EOC)
  BY DEF EndChain, EOC
<1>4. len[o] \in Nat
  BY <1>2 DEF List
<1>5. CASE first[o] = 0
  <2>1. len[o] = 0
    BY <1>1, <1>5 DEF Settled
  <2>2. List(fat, ch[o], len[o], 0)
    BY <2>1 DEF List
  <2> QED
    BY <1>3, <1>5, <2>1, <2>2, ChainOfList
<1>6. CASE first[o] # 0
  <2>1. first[o] = IF len[o] = 0 THEN EOC ELSE ch[o][1]
    BY <1>1, <1>4, <1>6 DEF Settled
  <2>2. /\ Chain(fat, first[o]) = Members(ch[o], len[o])
        /\ EOC \in Along(fat, first[o])
    BY <1>2, <1>3, <2>1, ChainOfList
  <2>3. Cardinality(Members(ch[o], len[o])) = len[o]
    BY <1>2, ListsAreShort
  <2>4. o \in Files => size[o] = len[o]
    BY <1>1, <1>6 DEF Settled
  <2> QED
    BY <2>2, <2>3, <2>4 DEF HasItsChain, Terminated
<1> QED
  BY <1>5, <1>6

\* Whenever no command runs, every entry has a chain that ends in an end mark,
\* and a file's is as long as its length calls for.
THEOREM ChainsMatchSizes == Spec => []ChainMatchesSize
<1>1. IInv /\ FilesHeaded /\ ChainInv => ChainMatchesSize
  <2> SUFFICES ASSUME IInv, FilesHeaded, ChainInv, pc = "idle", NEW o \in entries
               PROVE  HasItsChain(o)
    BY DEF ChainMatchesSize
  <2>1. PICK len, ch : Lists(len, ch)
    BY DEF ChainInv
  <2>2. o \in Objects /\ first[o] # 0
    BY DEF IInv, TypeOK, HeadsKnown, FilesHeaded, JustNamed, Objects
  <2> QED
    BY <2>1, <2>2, SettledHasChain
<1> QED
  BY <1>1, Invariance, FilesHaveHeads, ListsExist, PTL
----------------------------------------------------------------------------
(* The linked table implements the pool of clusters (module ClusterStore). *)

\* What starts nowhere, or at a free cluster, is no chain.
LEMMA EmptyChain ==
  ASSUME NEW f, NEW c, EndChain(c) \/ f[c] = 0
  PROVE  Chain(f, c) = {}
<1>1. PICK s : s = <<>>
  OBVIOUS
<1>2. List(f, s, 0, c) /\ Members(s, 0) = {}
  BY DEF List, Members
<1> QED
  BY <1>2, ChainOfList

\* Each owner has the clusters of its list; the root's first is not counted.
OwnedAreListed ==
  \A len, ch : Lists(len, ch) =>
    \A o \in Owners : OwnedBy(o) = Members(ch[o], len[o]) \ {RootCluster}

Live == ChainInv /\ pc # "dead"

LEMMA ListedAreOwned == Live => OwnedAreListed
<1> SUFFICES ASSUME Live, NEW len, NEW ch, Lists(len, ch), NEW o \in Owners
             PROVE  OwnedBy(o) = Members(ch[o], len[o]) \ {RootCluster}
  BY DEF OwnedAreListed
<1> USE DEF Live
<1>1. EndChain(EOC) /\ EndChain(0)
  BY DEF EndChain, EOC
<1>2. Root \in Owners /\ len \in [Owners -> Nat] /\ ch \in [Owners -> [Nat -> Entries]]
  BY DEF Owners, Lists, Linked
<1>3. AfterLast(o) = EOC \/ fat[AfterLast(o)] = 0
  BY DEF AfterLast, ChainInv, AddControl
<1>4. CASE o = Root
  <2>1. PICK n, s : n = len[Root] - 1 /\ s = Beheaded(ch[Root])
    OBVIOUS
  <2>2. List(fat, s, n, AfterLast(Root))
        /\ fat[RootCluster] = IF n = 0 THEN AfterLast(Root) ELSE s[1]
    BY <2>1, ListOfRoot
  <2>3. Chain(fat, fat[RootCluster]) = Members(s, n)
    BY <1>1, <1>3, <1>4, <2>2, ChainOfList
  <2>4. Members(ch[Root], len[Root]) = Members(s, n) \cup {RootCluster}
    BY <1>2, <2>1, BeheadMembers DEF Lists
  <2>5. RootCluster \notin Members(s, n)
    <3>1. \A i \in 1 .. n : i + 1 \in 1 .. len[Root] /\ s[i] = ch[Root][i + 1] /\ i + 1 # 1
      BY <1>2, <2>1 DEF Beheaded
    <3>2. 1 \in 1 .. len[Root] /\ ch[Root][1] = RootCluster
      BY <1>2 DEF Lists
    <3>3. \A i \in 1 .. n : s[i] # RootCluster
      BY <1>2, <3>1, <3>2 DEF Lists, Linked
    <3> QED
      BY <3>3 DEF Members
  <2> QED
    BY <1>4, <2>3, <2>4, <2>5 DEF OwnedBy
<1>5. CASE o # Root
  <2>1. o \in Objects
    BY <1>5 DEF Owners
  <2>2. List(fat, ch[o], len[o], AfterLast(o)) /\ len[o] \in Nat
    BY <1>2, <2>1, ListOfEntry
  <2>3. RootCluster \notin Members(ch[o], len[o])
    <3>1. 1 \in 1 .. len[Root] /\ ch[Root][1] = RootCluster
      BY <1>2 DEF Lists
    <3> QED
      BY <1>2, <1>5, <3>1 DEF Lists, Linked, Members
  <2>4. len[o] = 0 => Members(ch[o], len[o]) = {}
    BY DEF Members
  <2>5. ASSUME NEW c, IF len[o] = 0 THEN EndChain(c) \/ fat[c] = 0 ELSE c = ch[o][1]
        PROVE  Chain(fat, c) = Members(ch[o], len[o])
    <3>1. CASE len[o] # 0
      BY <1>1, <1>3, <2>2, <2>5, <3>1, ChainOfList
    <3>2. CASE len[o] = 0
      BY <2>4, <2>5, <3>2, EmptyChain
    <3> QED
      BY <3>1, <3>2
  <2>6. CASE o \notin entries
    <3>1. first[o] = 0 /\ len[o] = 0 /\ ~(pc \in {"dot", "free"} /\ o = obj)
      BY <2>1, <2>6 DEF Lists, ChainInv, RemoveControl
    <3> QED
      BY <1>1, <1>5, <2>3, <2>5, <3>1 DEF OwnedBy
  <2>7. CASE o \in entries
    <3>1. Entry(o, len[o], ch[o])
      BY <2>7 DEF Lists
    <3>2. CASE pc \in {"dot", "free"} /\ o = obj
      <4>1. IF len[o] = 0 THEN EndChain(cur) \/ fat[cur] = 0 ELSE cur = ch[o][1]
        <5>1. CASE Freed(o)
          <6>1. cur \in {first[o], 0} /\ (fat[first[o]] = 0)
            BY <1>5, <3>2, <5>1 DEF Freed, ChainInv, RemoveControl
          <6> QED
            BY <1>1, <3>1, <5>1, <6>1 DEF Entry
        <5>2. CASE ~Freed(o)
          BY <2>2, <3>1, <3>2, <5>2 DEF Entry, BeingFreed
        <5> QED
          BY <5>1, <5>2
      <4> QED
        BY <1>5, <2>3, <2>5, <3>2, <4>1 DEF OwnedBy
    <3>3. CASE ~(pc \in {"dot", "free"} /\ o = obj)
      <4>1. IF len[o] = 0 THEN EndChain(first[o]) \/ fat[first[o]] = 0
            ELSE first[o] = ch[o][1]
        <5>1. CASE Freed(o)
          BY <1>5, <3>1, <5>1 DEF Entry, Freed, ChainInv, RemoveControl
        <5>2. CASE Building(o)
          BY <1>1, <2>2, <3>1, <5>2 DEF Entry, Building
        <5>3. CASE ~Freed(o) /\ ~Building(o)
          BY <1>1, <2>2, <3>1, <3>3, <5>3 DEF Entry, BeingFreed, Settled
        <5> QED
          BY <5>1, <5>2, <5>3
      <4> QED
        BY <1>5, <2>3, <2>5, <3>3, <4>1 DEF OwnedBy
    <3> QED
      BY <3>2, <3>3
  <2> QED
    BY <2>6, <2>7
<1> QED
  BY <1>4, <1>5
Free == {c \in Clusters : fat[c] = 0}
Owned == [o \in Owners |-> OwnedBy(o)]

\* What a step may do, as ClusterStore sees it.
Takes(o, c) ==
  /\ c \in Free /\ Free' = Free \ {c}
  /\ Owned'[o] = Owned[o] \cup {c}
  /\ \A p \in Owners \ {o} : Owned'[p] = Owned[p]

Gives(o, c) ==
  /\ c \in Clusters \ Free /\ Free' = Free \cup {c}
  /\ c \in Owned[o] /\ Owned'[o] = Owned[o] \ {c}
  /\ \A p \in Owners \ {o} : Owned'[p] = Owned[p]

LEMMA TakesIsTake ==
  ASSUME NEW o \in Owners, NEW c \in Clusters, Takes(o, c) \/ Gives(o, c)
  PROVE  Store!Next
<1>1. /\ Owned = [p \in Objects \cup {Root} |-> OwnedBy(p)]
      /\ Owned' = [p \in Objects \cup {Root} |-> OwnedBy(p)']
      /\ Free = {d \in Clusters : fat[d] = 0}
      /\ Free' = {d \in Clusters : fat'[d] = 0}
  BY DEF Owned, Owners, Free
<1>2. o \in Objects \cup {Root} /\ Owners = Objects \cup {Root}
  BY DEF Owners
<1>3. CASE Takes(o, c)
  <2>1. Owned' = [Owned EXCEPT ![o] = Owned[o] \cup {c}]
    BY <1>1, <1>2, <1>3 DEF Takes
  <2> QED
    BY <1>1, <1>2, <1>3, <2>1 DEF Takes, Store!Next, Store!Take
<1>4. CASE Gives(o, c)
  <2>1. Owned' = [Owned EXCEPT ![o] = Owned[o] \ {c}]
    BY <1>1, <1>2, <1>4 DEF Gives
  <2> QED
    BY <1>1, <1>2, <1>4, <2>1 DEF Gives, Store!Next, Store!Give
<1> QED
  BY <1>3, <1>4

\* A step that changes the lists by one cluster takes or gives it.
LEMMA ListsTellOwned ==
  ASSUME Live, Live', NEW len, NEW ch, Lists(len, ch), NEW l, NEW h, Lists(l, h)'
  PROVE  \A o \in Owners : /\ Owned[o] = Members(ch[o], len[o]) \ {RootCluster}
                           /\ Owned'[o] = Members(h[o], l[o]) \ {RootCluster}
<1>1. OwnedAreListed /\ OwnedAreListed'
  BY ListedAreOwned, PTL
<1>2. \A o \in Owners : Owned[o] = OwnedBy(o) /\ Owned'[o] = OwnedBy(o)'
  BY DEF Owned
<1> QED
  BY <1>1, <1>2 DEF OwnedAreListed

Stays == Free' = Free /\ \A o \in Owners : Owned'[o] = Owned[o]

\* A step that changes neither the table nor where a chain starts does nothing
\* there; nor does one that turns to a chain that is empty from one that is.
LEMMA SameHeadsStay ==
  ASSUME fat' = fat,
         \A o \in Objects :
           \/ OwnedBy(o)' = OwnedBy(o)
           \/ OwnedBy(o)' = {} /\ OwnedBy(o) = {}
  PROVE  Stays
<1>1. OwnedBy(Root)' = OwnedBy(Root)
  BY DEF OwnedBy
<1> QED
  BY <1>1 DEF Stays, Free, Owned, Owners

\* Each step moves at most one cluster, to or from the owner it is about.
LEMMA StepsMoveOneCluster ==
  ASSUME ChainInv, Next
  PROVE  Stays \/ \E o \in Owners, c \in Clusters : Takes(o, c) \/ Gives(o, c)
<1> USE DEF dirents, locals
<1>1. pc # "dead" /\ Live
  BY DEF Live, Next, Step, Add, Remove, AddStart, RemoveStart, FindSlot, GrowAlloc,
         GrowWalk, GrowLink, GrowMark, ImportAlloc, ImportLink, ImportMark, OutOfClusters,
         FreeNext, DotDone, SweepFile, SweepDone, FreeDone, DirentsWrite
<1>2. PICK len, ch : Lists(len, ch)
  BY <1>1 DEF ChainInv
<1>3. ChainInv'
  BY NextChain
<1>4. RootCluster \notin Free /\ fat[RootCluster] # 0
  BY <1>2, FreeIsUnlisted DEF Lists, Linked, Owners, Free
<1>5. fat \in [Entries -> FatValues] /\ Clusters \subseteq Entries /\ EOC # 0
      /\ 0 \notin Clusters
  BY DEF ChainInv, TypeOK, Clusters, Entries, EOC
<1>6. EndChain(0)
  BY DEF EndChain
<1>7. CASE GrowLink
  <2>1. Lists(len, ch)' /\ Live'
    BY <1>2, <1>3, <1>7, GrowLinkLists DEF Live, GrowLink
  <2>2. new \in Clusters /\ fat[cur] # 0
    BY <1>2, <1>7 DEF ChainInv, AddControl, GrowLink, Lists, Linked, Owners, Objects
  <2>3. Free' = Free
    BY <1>5, <1>7, <2>2 DEF GrowLink, Free
  <2>4. \A p \in Owners : /\ Owned[p] = Members(ch[p], len[p]) \ {RootCluster}
                          /\ Owned'[p] = Members(ch[p], len[p]) \ {RootCluster}
    BY <1>1, <1>2, <2>1, ListsTellOwned
  <2> QED
    BY <2>3, <2>4 DEF Stays
<1>8. CASE ImportLink
  <2>1. Lists(len, ch)' /\ Live'
    BY <1>2, <1>3, <1>8, ImportLinkLists DEF Live, ImportLink
  <2>2. new \in Clusters /\ obj \in entries /\ cur # 0 /\ obj \in Owners
    BY <1>8 DEF ChainInv, AddControl, ImportLink, TypeOK, Owners
  <2>3. fat[cur] # 0
    <3>1. Entry(obj, len[obj], ch[obj])
      BY <1>2, <2>2 DEF Lists
    <3>2. len[obj] > 0 /\ cur = ch[obj][len[obj]]
      BY <1>8, <2>2, <3>1 DEF ImportLink, Entry, Building
    <3>3. len[obj] \in 1 .. len[obj]
      BY <1>2, <2>2, <3>2 DEF Lists, Linked
    <3> QED
      BY <1>2, <2>2, <3>2, <3>3 DEF Lists, Linked
  <2>4. Free' = Free
    BY <1>5, <1>8, <2>2, <2>3 DEF ImportLink, Free
  <2>5. \A p \in Owners : /\ Owned[p] = Members(ch[p], len[p]) \ {RootCluster}
                          /\ Owned'[p] = Members(ch[p], len[p]) \ {RootCluster}
    BY <1>1, <1>2, <2>1, ListsTellOwned
  <2> QED
    BY <2>4, <2>5 DEF Stays
<1>9. CASE GrowMark \/ ImportMark
  <2>1. PICK o \in Owners : o = IF pc = "growMark" THEN dir ELSE obj
    BY <1>9 DEF GrowMark, ImportMark, ChainInv, AddControl, TypeOK, Owners, Objects
  <2>2. PICK l, h : Lists(l, h)' /\ Gained(len, ch, l, h, o, new)
    BY <1>2, <1>9, <2>1, GrowMarkLists, ImportMarkLists DEF GrowMark, ImportMark
  <2>3. new \in Clusters /\ fat[new] = 0 /\ fat' = [fat EXCEPT ![new] = EOC]
    BY <1>9 DEF ChainInv, AddControl, GrowMark, ImportMark
  <2>4. Live'
    BY <1>3, <1>9 DEF Live, GrowMark, ImportMark
  <2>5. new \in Free /\ Free' = Free \ {new}
    BY <1>5, <2>3 DEF Free
  <2>6. \A p \in Owners : /\ Owned[p] = Members(ch[p], len[p]) \ {RootCluster}
                          /\ Owned'[p] = Members(h[p], l[p]) \ {RootCluster}
    BY <1>1, <1>2, <2>2, <2>4, ListsTellOwned
  <2>7. Takes(o, new)
    BY <1>4, <2>2, <2>5, <2>6 DEF Takes, Gained
  <2> QED
    BY <2>3, <2>7
<1>10. CASE FreeNext
  <2>1. Live'
    BY <1>3, <1>10 DEF Live, FreeNext
  <2>2. CASE Freed(obj)
    <3>1. fat' = fat /\ Lists(len, ch)'
      BY <1>2, <1>10, <2>2, FreeNextLists
    <3>2. \A p \in Owners : /\ Owned[p] = Members(ch[p], len[p]) \ {RootCluster}
                            /\ Owned'[p] = Members(ch[p], len[p]) \ {RootCluster}
      BY <1>1, <1>2, <2>1, <3>1, ListsTellOwned
    <3> QED
      BY <3>1, <3>2 DEF Stays, Free
  <2>3. CASE ~Freed(obj)
    <3>1. PICK l, h : Lists(l, h)' /\ Gained(l, h, len, ch, obj, cur)
      BY <1>2, <1>10, <2>3, FreeNextLists
    <3>2. cur \in Clusters /\ cur # RootCluster /\ fat' = [fat EXCEPT ![cur] = 0]
      <4>1. cur \in FatValues /\ ~EndChain(cur)
        BY <1>10 DEF FreeNext, ChainInv, TypeOK
      <4>2. cur \in Clusters /\ cur # RootCluster
        BY <4>1 DEF FatValues, EndChain, EOC, RootCluster
      <4> QED
        BY <1>10, <4>2 DEF FreeNext
    <3>3. obj \in Owners /\ obj \in entries
      BY <1>10 DEF FreeNext, ChainInv, RemoveControl, TypeOK, Owners
    <3>4. fat[cur] # 0
      <4>1. Entry(obj, len[obj], ch[obj])
        BY <1>2, <3>3 DEF Lists
      <4>2. len[obj] > 0 /\ cur = ch[obj][1]
        BY <1>10, <2>3, <4>1 DEF FreeNext, Entry, BeingFreed
      <4>3. 1 \in 1 .. len[obj]
        BY <1>2, <3>3, <4>2 DEF Lists, Linked
      <4> QED
        BY <1>2, <3>3, <4>2, <4>3 DEF Lists, Linked
    <3>5. cur \in Clusters \ Free /\ Free' = Free \cup {cur}
      BY <1>5, <3>2, <3>4 DEF Free
    <3>6. cur \notin Members(h[obj], l[obj])
      <4>1. fat'[cur] = 0
        BY <1>5, <3>2
      <4>2. \A i \in 1 .. l[obj] : fat'[h[obj][i]] # 0
        BY <3>1, <3>3 DEF Lists, Linked
      <4> QED
        BY <4>1, <4>2 DEF Members
    <3>7. \A p \in Owners : /\ Owned[p] = Members(ch[p], len[p]) \ {RootCluster}
                            /\ Owned'[p] = Members(h[p], l[p]) \ {RootCluster}
      BY <1>1, <1>2, <2>1, <3>1, ListsTellOwned
    <3>8. Gives(obj, cur)
      BY <3>1, <3>2, <3>3, <3>5, <3>6, <3>7 DEF Gives, Gained
    <3> QED
      BY <3>2, <3>3, <3>8
  <2> QED
    BY <2>2, <2>3
<1>11. CASE DotDone
  <2>1. obj = dir /\ fat[first[obj]] = 0
    BY <1>11 DEF DotDone, ChainInv, RemoveControl
  <2>2. OwnedBy(obj)' = {} /\ OwnedBy(obj) = {}
    <3>1. Chain(fat, cur) = {} /\ Chain(fat, first[obj]) = {}
      BY <1>11, <2>1, EmptyChain DEF DotDone
    <3>2. obj # Root
      BY <1>11 DEF DotDone, ChainInv, RemoveControl, TypeOK
    <3> QED
      BY <1>11, <3>1, <3>2 DEF DotDone, OwnedBy
  <2>3. \A o \in Objects : o # obj => OwnedBy(o)' = OwnedBy(o)
    BY <1>11 DEF DotDone, OwnedBy
  <2> QED
    BY <1>11, <2>2, <2>3, SameHeadsStay DEF DotDone
<1>12. CASE FreeDone
  <2>1. OwnedBy(obj)' = {} /\ OwnedBy(obj) = {}
    <3>1. Chain(fat, cur) = {} /\ Chain(fat, 0) = {}
      BY <1>6, <1>12, EmptyChain DEF FreeDone
    <3>2. obj # Root /\ obj \in Objects /\ first'[obj] = 0
      BY <1>12 DEF FreeDone, ChainInv, RemoveControl, TypeOK
    <3> QED
      BY <1>12, <3>1, <3>2 DEF FreeDone, OwnedBy
  <2>2. \A o \in Objects : o # obj => OwnedBy(o)' = OwnedBy(o)
    <3>1. \A o \in Objects : o # obj => first'[o] = first[o]
      BY <1>12 DEF FreeDone, ChainInv, TypeOK
    <3> QED
      BY <1>12, <3>1 DEF FreeDone, OwnedBy
  <2> QED
    BY <1>12, <2>1, <2>2, SameHeadsStay DEF FreeDone
<1>13. CASE SweepDone
  <2>1. \A o \in Objects : OwnedBy(o)' = OwnedBy(o)
    BY <1>13 DEF SweepDone, OwnedBy
  <2> QED
    BY <1>13, <2>1, SameHeadsStay DEF SweepDone
<1>14. ASSUME NEW o \in Objects, SweepFile(o) \/ RemoveStart(o)
       PROVE  Stays
  <2>1. \A p \in Objects : OwnedBy(p)' = OwnedBy(p)
    BY <1>14 DEF SweepFile, RemoveStart, OwnedBy
  <2> QED
    BY <1>14, <2>1, SameHeadsStay DEF SweepFile, RemoveStart
<1>15. ASSUME NEW o \in Objects, NEW d \in Dirs \cup {Root}, AddStart(o, d)
       PROVE  Stays
  <2>1. \A p \in Objects : OwnedBy(p)' = OwnedBy(p)
    BY <1>15 DEF AddStart, OwnedBy
  <2> QED
    BY <1>15, <2>1, SameHeadsStay DEF AddStart
<1>16. CASE \/ \E n \in 1 .. MaxFileClusters : FindSlot(n)
            \/ GrowAlloc \/ GrowWalk \/ ImportAlloc \/ OutOfClusters \/ DirentsWrite
  <2>1. \A p \in Objects : OwnedBy(p)' = OwnedBy(p)
    BY <1>16 DEF FindSlot, GrowAlloc, GrowWalk, ImportAlloc, OutOfClusters, DirentsWrite, OwnedBy
  <2> QED
    BY <1>16, <2>1, SameHeadsStay
       DEF FindSlot, GrowAlloc, GrowWalk, ImportAlloc, OutOfClusters, DirentsWrite
<1> QED
  BY <1>7, <1>8, <1>9, <1>10, <1>11, <1>12, <1>13, <1>14, <1>15, <1>16
     DEF Next, Step, Add, Remove

\* The table implements the pool of clusters.
THEOREM TableImplementsStore == Spec => ImplementsStore
<1>1. Init => Store!Init
  <2> SUFFICES ASSUME Init
               PROVE  Store!Init
    OBVIOUS
  <2>1. EndChain(EOC) /\ EndChain(0) /\ fat[RootCluster] = EOC
    BY DEF EndChain, EOC, Init, FormattedFat, RootCluster, Entries
  <2>2. \A o \in Objects \cup {Root} : OwnedBy(o) = {}
    BY <2>1, EmptyChain DEF OwnedBy, Init
  <2> QED
    BY <2>2 DEF Store!Init
<1>2. ChainInv /\ [Next]_vars => [Store!Next]_<<Free, Owned>>
  <2>1. ASSUME UNCHANGED vars
        PROVE  UNCHANGED <<Free, Owned>>
    BY <2>1 DEF vars, dirents, locals, Free, Owned, OwnedBy
  <2>2. ASSUME Stays
        PROVE  UNCHANGED <<Free, Owned>>
    BY <2>2 DEF Stays, Owned
  <2> QED
    BY <2>1, <2>2, StepsMoveOneCluster, TakesIsTake
<1> QED
  BY <1>1, <1>2, ListsExist, PTL
     DEF Spec, ImplementsStore, Store!Spec, Free, Owned, Owners

-----------------------------------------------------------------------------
(* What one process hands on to the next.  The lists of the second part    *)
(* are kept while a process runs; what is added here is how the entries on *)
(* the disk differ from those in memory, and that a process which closes   *)
(* the disk, is killed in the midst of an addition or dies leaves lists    *)
(* there for the next one to find.                                         *)

USE MaxOpsAssumption

\* What the theorems ask of the faults: a process may die in the first operation
\* it performs, and be killed while it adds an entry, unless it is between the
\* link to a directory's new cluster and the mark there.  Module Commit's other
\* run shows that neither can be dropped.
FaultsSpared == DiesUpTo <= 1 /\ KillDuring \subseteq {"add"}

\* The entries es, with first clusters fs and lengths sz, have lists in the FAT f.
Sound(f, es, fs, sz) ==
  \E len, ch :
    /\ Linked(f, len, ch)
    /\ len[Root] > 0 /\ ch[Root][1] = RootCluster
    /\ \A o \in Objects : o \notin es => len[o] = 0 /\ fs[o] = 0
    /\ \A o \in es :
         IF fs[o] = 0 THEN len[o] = 0 /\ o \in Files
         ELSE len[o] > 0 /\ fs[o] = ch[o][1] /\ (o \in Files => sz[o] = len[o])
    /\ \A o \in Owners : len[o] > 0 => f[ch[o][len[o]]] = EOC

DiskTypeOK ==
  disk \in [fat : [Entries -> FatValues], entries : SUBSET Objects,
            parent : [Objects -> Dirs \cup {Root}],
            first : [Objects -> {0} \cup Clusters],
            size : [Objects -> 0 .. MaxFileClusters]]

\* Except during a removal, the entries on the disk are those in memory, without
\* the one that is being added.
Written ==
  ~Removing /\ pc # "dead" =>
    /\ disk.entries = entries \ {obj}
    /\ \A o \in Objects :
         disk.first[o] = IF o \in disk.entries THEN first[o] ELSE 0
    /\ \A o \in disk.entries : disk.size[o] = size[o]

\* What the process that has just opened the disk found there, until it writes.
Adding == pc \in {"slot", "growWalk", "growMark", "alloc", "link", "mark"}
AsFound == ops = 0 \/ (ops = 1 /\ (Adding \/ pc = "dead"))

DiskSound == Sound(disk.fat, disk.entries, disk.first, disk.size)
Found == AsFound => DiskSound

\* The files without a chain are those that could not be read.
BareKnown ==
  /\ pc # "dead" =>
       \A o \in entries : first[o] = 0 => o \in unread \/ Building(o)
  /\ \A o \in disk.entries : disk.first[o] = 0 => o \in unread

OpsInv ==
  /\ ops \in Nat
  /\ ops = 0 => pc = "idle"
  /\ pc = "idle" => obj = Root

DiskInv == DiskTypeOK /\ Written /\ Found /\ BareKnown /\ OpsInv

CInv == ChainInv /\ DiskInv

----------------------------------------------------------------------------
(* Lists that are complete, in memory and on the disk.                     *)

\* What a process in memory has is sound, without the entry it is adding: the
\* lists of the others do not depend on that one's.
LEMMA KeptIsSound ==
  ASSUME ChainInv, pc # "dead", ~Removing, pc # "growMark",
         pc = "idle" => obj = Root,
         NEW fs, \A o \in Objects : fs[o] = IF o \in entries \ {obj} THEN first[o] ELSE 0,
         NEW sz, \A o \in entries \ {obj} : sz[o] = size[o]
  PROVE  Sound(fat, entries \ {obj}, fs, sz)
<1>1. PICK len, ch : Lists(len, ch)
  BY DEF ChainInv
<1>2. /\ entries \subseteq Objects /\ Root \notin Objects
      /\ pc \in {"idle", "slot", "growWalk", "alloc", "link", "mark", "write"}
      /\ len \in [Owners -> Nat]
  BY <1>1 DEF ChainInv, TypeOK, Phases, Removing, Lists, Linked
<1>3. \A o \in Owners : o # obj => AfterLast(o) = EOC
  BY <1>2 DEF AfterLast
<1>4. ASSUME NEW o \in entries \ {obj}
      PROVE  Settled(o, len[o], ch[o])
  BY <1>1, <1>2, <1>4 DEF Lists, Entry, Building, Freed, BeingFreed
<1>5. CASE obj = Root
  <2>1. pc = "idle"
    BY <1>2, <1>5 DEF ChainInv, AddControl, Removing
  <2>2. AfterLast(Root) = EOC
    BY <2>1 DEF AfterLast
  <2> QED
    BY <1>1, <1>2, <1>3, <1>4, <1>5, <2>2 DEF Sound, Lists, Settled
<1>6. CASE obj # Root
  <2>1. obj \in Objects /\ obj \in Owners
    BY <1>6 DEF ChainInv, TypeOK, Owners
  <2>2. PICK l : l = [len EXCEPT ![obj] = 0]
    OBVIOUS
  <2>3. Linked(fat, l, ch)
    BY <1>1, <2>1, <2>2, DropKeepsLinked DEF Lists
  <2>4. l[obj] = 0 /\ \A o \in Owners : o # obj => l[o] = len[o]
    BY <1>2, <2>1, <2>2
  <2> QED
    BY <1>1, <1>2, <1>3, <1>4, <1>6, <2>1, <2>3, <2>4
       DEF Sound, Lists, Settled, Owners
<1> QED
  BY <1>5, <1>6

\* A process that reads what is sound has lists.
Reads == TypeOK /\ pc = "idle" /\ Sound(fat, entries, first, size)

LEMMA ReadsLists == Reads => ChainInv
<1> SUFFICES ASSUME Reads
             PROVE  ChainInv
  OBVIOUS
<1>1. \E l, h : Lists(l, h)
  BY DEF Reads, Sound, Lists, Entry, Settled, Building, Freed, BeingFreed, AfterLast
<1> QED
  BY <1>1 DEF Reads, ChainInv, AddControl, RemoveControl

----------------------------------------------------------------------------
(* From one process to the next.                                           *)

\* Whoever leaves sound lists on the disk leaves the invariant to the next.
LEMMA OpenKeepsCInv ==
  ASSUME Open, DiskTypeOK', DiskSound',
         \A o \in disk'.entries : disk'.first[o] = 0 => o \in unread
  PROVE  CInv'
<1>1. TypeOK'
  BY DEF Open, DiskTypeOK, TypeOK, Phases, Clusters, FatValues
<1>2. Sound(fat', entries', first', size')
  BY DEF Open, DiskSound
<1>3. ChainInv'
  <2>1. Reads'
    BY <1>1, <1>2 DEF Reads, Open
  <2> QED
    BY <2>1, ReadsLists, PTL
<1>4. Written'
  <2>1. \A o \in Objects : o \notin disk'.entries => disk'.first[o] = 0
    BY DEF DiskSound, Sound
  <2>2. Root \notin disk'.entries
    BY DEF DiskTypeOK
  <2> QED
    BY <2>1, <2>2 DEF Open, Written
<1>5. BareKnown' /\ OpsInv' /\ Found'
  BY DEF Open, BareKnown, OpsInv, Found
<1> QED
  BY <1>3, <1>4, <1>5 DEF CInv, DiskInv

\* The first process finds a volume that has just been formatted.
LEMMA InitCInv == CommitInit => CInv
<1> SUFFICES ASSUME CommitInit
             PROVE  CInv
  OBVIOUS
<1>1. ChainInv /\ TypeOK
  BY InitChain DEF CommitInit, ChainInv
<1>2. Init /\ pc = "idle" /\ obj = Root /\ entries = {} /\ ~Removing
  BY DEF CommitInit, Init, Removing
<1>3. \A o \in Objects : first[o] = 0
  BY <1>2 DEF Init
<1>4. /\ disk.fat = fat /\ disk.entries = entries /\ disk.first = first
      /\ disk.size = size /\ disk.parent = parent
  BY DEF CommitInit, InMemory
<1>5. DiskTypeOK
  BY <1>1 DEF DiskTypeOK, CommitInit, InMemory, TypeOK
<1>6. DiskSound
  BY <1>1, <1>2, <1>3, <1>4, KeptIsSound DEF DiskSound
<1> QED
  BY <1>1, <1>2, <1>3, <1>4, <1>5, <1>6
     DEF CInv, DiskInv, Written, Found, BareKnown, OpsInv, CommitInit

\* The FAT is written and the entries are not: those the process was adding are
\* as if it had not begun.
LEMMA LeavesSound ==
  ASSUME CInv, Open, disk' = [disk EXCEPT !.fat = fat],
         pc # "dead", ~Removing, pc # "growMark"
  PROVE  CInv'
<1>1. /\ disk'.fat = fat /\ disk'.entries = disk.entries
      /\ disk'.first = disk.first /\ disk'.size = disk.size
  BY DEF CInv, DiskInv, DiskTypeOK
<1>2. DiskTypeOK'
  BY DEF CInv, DiskInv, DiskTypeOK, ChainInv, TypeOK
<1>3. Sound(fat, disk.entries, disk.first, disk.size)
  <2>1. /\ disk.entries = entries \ {obj}
        /\ \A o \in Objects :
             disk.first[o] = IF o \in entries \ {obj} THEN first[o] ELSE 0
        /\ \A o \in entries \ {obj} : disk.size[o] = size[o]
    BY DEF CInv, DiskInv, Written
  <2>2. ChainInv /\ (pc = "idle" => obj = Root)
    BY DEF CInv, DiskInv, OpsInv
  <2>3. Sound(fat, entries \ {obj}, disk.first, disk.size)
    BY <2>1, <2>2, KeptIsSound
  <2> QED
    BY <2>1, <2>3
<1>4. DiskSound'
  BY <1>1, <1>3 DEF DiskSound
<1> QED
  BY <1>1, <1>2, <1>4, OpenKeepsCInv DEF CInv, DiskInv, BareKnown

LEMMA CloseCInv == CInv /\ Close => CInv'
BY LeavesSound DEF Close, Removing

LEMMA KilledCInv ==
  ASSUME FaultsSpared, CInv, Killed
  PROVE  CInv'
<1>1. Doing = "add"
  BY DEF FaultsSpared, Killed
<1>2. ~Removing /\ pc # "growMark"
  BY <1>1 DEF Doing
<1> QED
  BY <1>2, LeavesSound DEF Killed

\* A process that dies in its first operation leaves the disk as it found it.
LEMMA DiedCInv ==
  ASSUME FaultsSpared, CInv, Died
  PROVE  CInv'
<1>1. AsFound
  BY DEF FaultsSpared, Died, AsFound, CInv, DiskInv, OpsInv
<1>2. DiskSound' /\ DiskTypeOK'
  BY <1>1 DEF CInv, DiskInv, Found, DiskSound, DiskTypeOK, Died
<1> QED
  BY <1>2, OpenKeepsCInv DEF CInv, DiskInv, BareKnown, Died
----------------------------------------------------------------------------
(* The steps of one process.                                               *)

LEMMA StartOpCInv ==
  ASSUME CInv, StartOp
  PROVE  CInv'
<1> USE DEF StartOp, dirents
<1>1. pc = "idle" /\ obj = Root /\ ops \in Nat /\ ops' = ops + 1 /\ entries \subseteq Objects
  BY DEF AddStart, RemoveStart, CInv, DiskInv, OpsInv, ChainInv, TypeOK
<1>2. CASE \E o \in Objects, d \in Dirs \cup {Root} : AddStart(o, d)
  <2>1. PICK o \in Objects, d \in Dirs \cup {Root} : AddStart(o, d)
    BY <1>2
  <2>2. ChainInv'
    BY <2>1, AddStartChain DEF CInv
  <2>3. DiskTypeOK' /\ OpsInv' /\ BareKnown'
    BY <1>1, <2>1
       DEF CInv, DiskInv, DiskTypeOK, OpsInv, BareKnown, Building, AddStart
  <2>4. Written'
    BY <1>1, <2>1 DEF CInv, DiskInv, Written, Removing, AddStart
  <2>5. Found'
    BY <1>1, <2>1 DEF CInv, DiskInv, Found, DiskSound, AsFound
  <2> QED
    BY <2>2, <2>3, <2>4, <2>5 DEF CInv, DiskInv
<1>3. CASE \E o \in Objects : RemoveStart(o)
  <2>1. PICK o \in Objects : RemoveStart(o)
    BY <1>3
  <2>2. ChainInv'
    BY <2>1, RemoveStartChain DEF CInv
  <2>3. DiskTypeOK' /\ OpsInv' /\ BareKnown'
    BY <1>1, <2>1
       DEF CInv, DiskInv, DiskTypeOK, OpsInv, BareKnown, Building, RemoveStart
  <2>4. Written' /\ Found'
    BY <1>1, <2>1
       DEF CInv, DiskInv, Written, Removing, Found, AsFound, Adding, RemoveStart
  <2> QED
    BY <2>2, <2>3, <2>4 DEF CInv, DiskInv
<1> QED
  BY <1>2, <1>3

\* Naming the new entry in memory, and giving it a first cluster, is nothing the
\* disk shows.
LEMMA AddCInv ==
  ASSUME CInv, Add, UNCHANGED <<disk, ops, killed, unread>>
  PROVE  CInv'
<1>1. Adding /\ pc' \in {"slot", "growWalk", "growMark", "alloc", "link", "mark",
                         "write", "dead"}
  BY DEF Adding, Add, FindSlot, GrowAlloc, GrowWalk, GrowLink, GrowMark, ImportAlloc,
         ImportLink, ImportMark, OutOfClusters
<1>2. ChainInv'
  BY AddChain DEF CInv
<1>3. /\ entries' = entries \cup (IF pc \in {"slot"} /\ pc' = "alloc" THEN {obj} ELSE {})
      /\ obj' = obj
      /\ \A o \in Objects : o # obj => first'[o] = first[o] /\ size'[o] = size[o]
  BY DEF Add, FindSlot, GrowAlloc, GrowWalk, GrowLink, GrowMark, ImportAlloc,
         ImportLink, ImportMark, OutOfClusters, dirents, locals, CInv, ChainInv, TypeOK
<1>4. DiskTypeOK' /\ OpsInv'
  BY <1>1 DEF CInv, DiskInv, DiskTypeOK, OpsInv, Adding
<1>5. /\ obj \in Objects /\ ~Removing
      /\ pc \in {"slot", "growWalk", "growMark"} => obj \notin entries
      /\ entries \subseteq Objects
  BY <1>1 DEF CInv, ChainInv, AddControl, Adding, Removing, TypeOK
<1>6. Written'
  <2>1. disk.entries = entries \ {obj} /\ disk.entries = entries' \ {obj}
    BY <1>1, <1>3, <1>5 DEF CInv, DiskInv, Written, Adding
  <2> QED
    BY <1>1, <1>3, <1>5, <2>1 DEF CInv, DiskInv, Written, Adding
<1>7. Found'
  BY <1>1 DEF CInv, DiskInv, Found, AsFound, Adding, DiskSound
<1>8. BareKnown'
  <2>1. ASSUME NEW o \in entries', first'[o] = 0, pc' # "dead"
        PROVE  o \in unread \/ Building(o)'
    <3>1. CASE o = obj
      <4>1. pc' \in {"alloc", "link", "mark"} \/ ImportMark \/ pc' \in {"slot", "growWalk", "growMark"}
        BY <1>1, <2>1 DEF Add, FindSlot, GrowAlloc, GrowWalk, GrowLink, GrowMark,
               ImportAlloc, ImportLink, ImportMark, OutOfClusters
      <4>2. CASE pc' \in {"alloc", "link", "mark"}
        BY <1>3, <3>1, <4>2 DEF Building
      <4>3. CASE pc' \in {"slot", "growWalk", "growMark"}
        BY <1>2, <1>3, <2>1, <3>1, <4>3 DEF ChainInv, AddControl
      <4>4. CASE ImportMark /\ pc' = "write"
        <5>1. new # 0 /\ (cur # 0 => first[obj] # 0)
          <6>1. PICK len, ch : Lists(len, ch)
            BY <4>4 DEF CInv, ChainInv, ImportMark
          <6>2. /\ obj \in entries /\ new \in Clusters /\ obj \in Owners /\ obj # Root
            BY <1>5, <4>4 DEF CInv, ChainInv, AddControl, ImportMark, Owners
          <6>3. Entry(obj, len[obj], ch[obj])
            BY <6>1, <6>2 DEF Lists
          <6>4. cur # 0 => len[obj] > 0 /\ first[obj] = ch[obj][1]
            BY <4>4, <6>3 DEF Entry, Building, ImportMark
          <6>5. len[obj] > 0 => ch[obj][1] # 0
            <7>1. len[obj] > 0 => 1 \in 1 .. len[obj]
              BY <6>1, <6>2 DEF Lists, Linked
            <7> QED
              BY <6>1, <6>2, <7>1 DEF Lists, Linked, Clusters
          <6> QED
            BY <6>2, <6>4, <6>5 DEF Clusters
        <5> QED
          BY <1>5, <2>1, <3>1, <4>4, <5>1 DEF ImportMark, CInv, ChainInv, TypeOK
      <4> QED
        BY <1>1, <2>1, <4>1, <4>2, <4>3, <4>4 DEF ImportMark
    <3>2. CASE o # obj
      <4>1. o \in entries /\ first[o] = 0 /\ ~Building(o)
        BY <1>3, <1>5, <2>1, <3>2 DEF Building
      <4> QED
        BY <1>1, <4>1 DEF CInv, DiskInv, BareKnown, Adding
    <3> QED
      BY <3>1, <3>2
  <2> QED
    BY <2>1 DEF CInv, DiskInv, BareKnown
<1> QED
  BY <1>2, <1>4, <1>6, <1>7, <1>8 DEF CInv, DiskInv

\* What a removal does is on the disk when it is over, and nobody looks before.
LEMMA RemoveCInv ==
  ASSUME CInv, FreeNext \/ DotDone \/ FreeDone \/ \E o \in Objects : SweepFile(o),
         UNCHANGED <<disk, ops, killed, unread>>
  PROVE  CInv'
<1>1. /\ pc \in {"dot", "sweep", "free"}
      /\ pc' \in {"dot", "sweep", "free", "write"}
      /\ pc' = "write" => FreeDone
  BY DEF FreeNext, DotDone, FreeDone, SweepFile
<1>2. ChainInv'
  BY FreeNextChain, DotDoneChain, FreeDoneChain, SweepFileChain DEF CInv
<1>3. /\ entries' \subseteq entries
      /\ \A o \in entries' : first'[o] = first[o]
      /\ pc' = "write" => obj' \notin entries'
  BY <1>1 DEF FreeNext, DotDone, FreeDone, SweepFile, dirents, locals, CInv, ChainInv, TypeOK
<1>4. DiskTypeOK' /\ OpsInv' /\ Found' /\ Written'
  BY <1>1, <1>3 DEF CInv, DiskInv, DiskTypeOK, OpsInv, Found, AsFound, Adding,
                    Written, Removing
<1>5. BareKnown'
  BY <1>1, <1>3 DEF CInv, DiskInv, BareKnown, Building
<1> QED
  BY <1>2, <1>4, <1>5 DEF CInv, DiskInv

\* What is in memory is written, but for the FAT.
LEMMA LeaveDirectoryCInv ==
  ASSUME CInv, LeaveDirectory
  PROVE  CInv'
<1> USE DEF LeaveDirectory, WriteDirents, dirents
<1>1. /\ pc \in {"sweep", "write"} /\ pc' \in {"free", "idle"}
      /\ pc' = "idle" => obj' = Root
      /\ fat' = fat /\ entries' = entries /\ first' = first /\ size' = size
  BY DEF SweepDone, DirentsWrite
<1>2. ChainInv'
  BY SweepDoneChain, DirentsWriteChain DEF CInv
<1>3. /\ disk'.fat = disk.fat /\ disk'.entries = entries /\ disk'.first = first
      /\ disk'.size = size /\ disk'.parent = parent
  BY DEF InMemory
<1>4. DiskTypeOK' /\ OpsInv'
  BY <1>1 DEF CInv, DiskInv, DiskTypeOK, OpsInv, ChainInv, TypeOK, InMemory
<1>5. Written' /\ Found'
  <2>1. \A o \in Objects : o \notin entries => first[o] = 0
    BY <1>1 DEF CInv, ChainInv, Lists
  <2>2. Root \notin entries
    BY DEF CInv, ChainInv, TypeOK
  <2> QED
    BY <1>1, <1>3, <2>1, <2>2
       DEF CInv, DiskInv, Written, Removing, Found, AsFound, Adding, OpsInv
<1>6. BareKnown'
  BY <1>1, <1>3 DEF CInv, DiskInv, BareKnown, Building
<1> QED
  BY <1>2, <1>4, <1>5, <1>6 DEF CInv, DiskInv

\* An entry whose file of the host cannot be read has no list.
LEMMA FileReadFailsCInv ==
  ASSUME CInv, FileReadFails
  PROVE  CInv'
<1> USE DEF FileReadFails, dirents, locals
<1>1. PICK len, ch : Lists(len, ch)
  BY DEF CInv, ChainInv
<1>2. ChainInv'
  <2>1. Lists(len, ch)'
    BY <1>1 DEF Lists, Entry, Settled, Building, Freed, BeingFreed, AfterLast
  <2>2. (TypeOK /\ AddControl /\ RemoveControl)'
    BY DEF CInv, ChainInv, TypeOK, Phases, AddControl, RemoveControl
  <2> QED
    BY <2>1, <2>2 DEF ChainInv
<1>3. DiskTypeOK' /\ OpsInv' /\ Found'
  BY DEF CInv, DiskInv, DiskTypeOK, OpsInv, Found, AsFound, Adding
<1>4. Written'
  BY DEF CInv, DiskInv, Written, Removing
<1>5. BareKnown'
  BY DEF CInv, DiskInv, BareKnown, Building
<1> QED
  BY <1>2, <1>3, <1>4, <1>5 DEF CInv, DiskInv

LEMMA FileReadDiesCInv ==
  ASSUME CInv, FileReadDies, UNCHANGED <<disk, ops, killed, unread>>
  PROVE  CInv'
<1> USE DEF FileReadDies, dirents, locals
<1>1. ChainInv'
  BY DEF CInv, ChainInv, TypeOK, Phases
<1>2. DiskTypeOK' /\ OpsInv' /\ Found' /\ Written' /\ BareKnown'
  BY DEF CInv, DiskInv, DiskTypeOK, OpsInv, Found, AsFound, Adding, DiskSound, Written, BareKnown
<1> QED
  BY <1>1, <1>2 DEF CInv, DiskInv

LEMMA StutterCInv == CInv /\ UNCHANGED cvars => CInv'
<1> SUFFICES ASSUME CInv, UNCHANGED cvars
             PROVE  CInv'
  OBVIOUS
<1>1. ChainInv'
  BY StutterChain DEF CInv, cvars
<1>2. DiskTypeOK' /\ OpsInv' /\ Found' /\ Written' /\ BareKnown'
  BY DEF CInv, DiskInv, DiskTypeOK, OpsInv, Found, AsFound, Adding, DiskSound, Written,
         Removing, BareKnown, Building, cvars, vars, dirents, locals
<1> QED
  BY <1>1, <1>2 DEF CInv, DiskInv

LEMMA NextCInv == FaultsSpared /\ CInv /\ [CommitNext]_cvars => CInv'
<1> SUFFICES ASSUME FaultsSpared, CInv, [CommitNext]_cvars
             PROVE  CInv'
  OBVIOUS
<1>1. CASE Compute
  BY <1>1, AddCInv, RemoveCInv, FileReadDiesCInv DEF Compute
<1>2. CASE StartOp \/ LeaveDirectory \/ FileReadFails
  BY <1>2, StartOpCInv, LeaveDirectoryCInv, FileReadFailsCInv
<1>3. CASE Close \/ Killed \/ Died
  BY <1>3, CloseCInv, KilledCInv, DiedCInv
<1> QED
  BY <1>1, <1>2, <1>3, StutterCInv DEF CommitNext

\* Memory and disk both hold sound lists, in every process of every sequence.
THEOREM CommitInvariance ==
  ASSUME FaultsSpared
  PROVE  CommitSpec => []CInv
<1>1. CInv /\ [CommitNext]_cvars => CInv'
  BY NextCInv
<1> QED
  BY <1>1, InitCInv, PTL DEF CommitSpec
----------------------------------------------------------------------------
(* What the next process finds.                                            *)

\* The chains of two lists have no cluster in common.
LEMMA ListsDisjoint ==
  ASSUME NEW len, NEW ch, Lists(len, ch), NEW o \in Owners, NEW p \in Owners, o # p
  PROVE  Members(ch[o], len[o]) \cap Members(ch[p], len[p]) = {}
BY DEF Members, Lists, Linked

\* The root directory's chain ends in an end mark, whenever it is not growing.
LEMMA RootTerminated ==
  ASSUME NEW len, NEW ch, Lists(len, ch), AfterLast(Root) = EOC
  PROVE  /\ Terminated(fat, fat[RootCluster])
         /\ Along(fat, fat[RootCluster]) \subseteq
              Members(ch[Root], len[Root]) \cup {EOC}
<1>1. PICK n, s : n \in Nat /\ n = len[Root] - 1 /\ s = Beheaded(ch[Root])
  BY ListOfRoot
<1>2. List(fat, s, n, EOC) /\ fat[RootCluster] = IF n = 0 THEN EOC ELSE s[1]
  BY <1>1, ListOfRoot
<1>3. EndChain(EOC)
  BY DEF EndChain, EOC
<1>4. Along(fat, fat[RootCluster]) = Members(s, n) \cup {EOC}
  BY <1>2, <1>3, ChainOfList
<1>5. Members(s, n) \subseteq Members(ch[Root], len[Root])
  <2>1. len[Root] \in Nat
    BY DEF Lists, Linked, Owners
  <2>2. \A i \in 1 .. n : i + 1 \in 1 .. len[Root] /\ s[i] = ch[Root][i + 1]
    BY <1>1, <2>1 DEF Beheaded
  <2> QED
    BY <2>2 DEF Members
<1> QED
  BY <1>4, <1>5 DEF Terminated

\* Each process finds every file that could be read whole, no two chains that
\* meet, and a root directory that ends.
THEOREM FilesStayIntact ==
  ASSUME FaultsSpared
  PROVE  CommitSpec => []FilesIntact
<1>1. CInv => FilesIntact
  <2> SUFFICES ASSUME CInv, pc = "idle"
               PROVE  /\ \A o \in entries : Bare(o) \/ HasItsChain(o)
                      /\ \A o, p \in entries : o # p =>
                           Chain(fat, first[o]) \cap Chain(fat, first[p]) = {}
                      /\ Terminated(fat, fat[RootCluster])
    BY DEF FilesIntact
  <2>1. PICK len, ch : Lists(len, ch)
    BY DEF CInv, ChainInv
  <2>2. entries \subseteq Objects /\ entries \subseteq Owners
    BY DEF CInv, ChainInv, TypeOK, Owners
  <2>3. \A o \in entries : Bare(o) \/ HasItsChain(o)
    <3>1. \A o \in entries : first[o] = 0 => o \in unread
      BY DEF CInv, DiskInv, BareKnown, Building
    <3> QED
      BY <2>1, <2>2, <3>1, SettledHasChain DEF Bare
  <2>4. ASSUME NEW o \in entries, NEW p \in entries, o # p
        PROVE  Chain(fat, first[o]) \cap Chain(fat, first[p]) = {}
    BY <2>1, <2>2, <2>4, SettledHasChain, ListsDisjoint
  <2>5. Terminated(fat, fat[RootCluster])
    BY <2>1, RootTerminated DEF AfterLast
  <2> QED
    BY <2>3, <2>4, <2>5
<1> QED
  BY <1>1, CommitInvariance, PTL

\* What cluster_alloc returns is on no chain of an entry or of the root directory.
LEMMA HandoutIsUnlisted ==
  ASSUME ChainInv, ImportAlloc \/ GrowAlloc
  PROVE  /\ \A o \in entries : first[o] # 0 => new' \notin Along(fat, first[o])
         /\ new' \notin Along(fat, fat[RootCluster])
<1>1. pc \in {"alloc", "slot"} /\ pc # "dead"
  BY DEF ImportAlloc, GrowAlloc
<1>2. PICK len, ch : Lists(len, ch)
  BY <1>1 DEF ChainInv
<1>3. new' \in Clusters /\ fat[new'] = 0 /\ new' # EOC
  BY AllocIsFree DEF ChainInv, ImportAlloc, GrowAlloc, Clusters, EOC
<1>4. \A o \in Owners : AfterLast(o) = EOC /\ new' \notin Members(ch[o], len[o])
  BY <1>1, <1>2, <1>3, FreeIsUnlisted DEF AfterLast, Members
<1>5. EndChain(EOC)
  BY DEF EndChain, EOC
<1>6. ASSUME NEW o \in entries, first[o] # 0
      PROVE  new' \notin Along(fat, first[o])
  <2>1. o \in Objects /\ o \in Owners /\ len[o] \in Nat
    BY <1>2 DEF ChainInv, TypeOK, Owners, Lists, Linked
  <2>2. Entry(o, len[o], ch[o])
    BY <1>2 DEF Lists
  <2>3. len[o] # 0 /\ first[o] = ch[o][1]
    BY <1>1, <1>6, <2>1, <2>2 DEF Entry, Settled, Building, Freed, BeingFreed
  <2>4. List(fat, ch[o], len[o], EOC)
    BY <1>2, <1>4, <2>1, ListOfEntry
  <2>5. Along(fat, first[o]) = Members(ch[o], len[o]) \cup {EOC}
    BY <1>5, <2>3, <2>4, ChainOfList
  <2> QED
    BY <1>3, <1>4, <2>1, <2>5
<1>7. new' \notin Along(fat, fat[RootCluster])
  <2>1. Root \in Owners
    BY DEF Owners
  <2> QED
    BY <1>2, <1>3, <1>4, <2>1, RootTerminated
<1> QED
  BY <1>6, <1>7

\* No cluster of a listed chain is handed out a second time.
THEOREM NothingHandedOutTwice ==
  ASSUME FaultsSpared
  PROVE  CommitSpec => NoDoubleHandout
<1>1. CInv => [ImportAlloc \/ GrowAlloc =>
        /\ \A o \in entries : first[o] # 0 => new' \notin Along(fat, first[o])
        /\ new' \notin Along(fat, fat[RootCluster])]_cvars
  BY HandoutIsUnlisted DEF CInv
<1> QED
  BY <1>1, CommitInvariance, PTL DEF NoDoubleHandout
----------------------------------------------------------------------------
(* A volume no signal has touched.                                         *)

\* FatTable's invariant between commands, of a FAT f and entries es with first
\* clusters fs.
AsGoodAsNew(f, es, fs) ==
  /\ \A c, d \in Entries : f[c] \in Clusters /\ f[c] = f[d] => c = d
  /\ \A o, p \in Objects : fs[o] # 0 /\ fs[o] = fs[p] => o = p
  /\ \A o \in Objects, c \in Entries : fs[o] # 0 => f[c] # fs[o]
  /\ Fat32 => /\ \A c \in Entries : f[c] # RootCluster
              /\ \A o \in Objects : fs[o] # RootCluster
  /\ \A c \in Entries : f[c] \in Clusters => f[f[c]] # 0
  /\ \A o \in Objects : fs[o] # 0 => f[fs[o]] # 0
  /\ \A c \in 3 .. (TotalClusters - 1) :
       f[c] # 0 => (\E d \in Entries : f[d] = c) \/ (\E o \in Objects : fs[o] = c)
  /\ f[RootCluster] # 0
  /\ \A o \in Objects : o \notin es => fs[o] = 0
  /\ \A o \in es \cap Dirs : fs[o] # 0

MemoryGood == AsGoodAsNew(fat, entries, first)
DiskGood == AsGoodAsNew(disk.fat, disk.entries, disk.first)

LEMMA IdleIsGood == IInv /\ pc = "idle" => MemoryGood
BY DEF IInv, NoCrossLink, NoDangling, HalfLinked, Freeing, NoOrphan, HeadsKnown, JustNamed,
       MemoryGood, AsGoodAsNew

JustOpened == TypeOK /\ pc = "idle" /\ MemoryGood

LEMMA GoodIsIInv == JustOpened => IInv
<1> SUFFICES ASSUME JustOpened
             PROVE  IInv
  OBVIOUS
<1> USE DEF JustOpened
<1>1. NoCrossLink /\ NoDangling /\ NoOrphan /\ HeadsKnown
  BY DEF NoCrossLink, NoDangling, NoOrphan, HeadsKnown, MemoryGood, AsGoodAsNew
<1>2. GrowInv /\ ImportInv /\ RemoveInv
  BY DEF GrowInv, ImportInv, RemoveInv
<1> QED
  BY <1>1, <1>2 DEF IInv

\* Each file without a chain is one that could not be read, or is being added.
FilesKnown ==
  \A o \in entries \cap Files : first[o] = 0 => JustNamed(o) \/ o \in unread

HInv ==
  /\ CInv
  /\ ~killed => IInv /\ FilesKnown /\ (AsFound => DiskGood)

LEMMA InitHInv == CommitInit => HInv
<1> SUFFICES ASSUME CommitInit
             PROVE  HInv
  OBVIOUS
<1>1. IInv /\ pc = "idle" /\ entries = {}
  BY InitIInv DEF CommitInit, Init
<1>2. DiskGood
  BY <1>1, IdleIsGood DEF CommitInit, InMemory, MemoryGood, DiskGood
<1> QED
  BY <1>1, <1>2, InitCInv DEF HInv, FilesKnown

\* A process that opens a good volume has it.
LEMMA OpenKeepsHInv ==
  ASSUME Open, CInv', DiskGood'
  PROVE  HInv'
<1>1. JustOpened'
  BY DEF JustOpened, Open, CInv, ChainInv, DiskGood, MemoryGood
<1>2. IInv'
  BY <1>1, GoodIsIInv, PTL
<1>3. FilesKnown'
  BY DEF CInv, DiskInv, BareKnown, Building, Open, FilesKnown
<1> QED
  BY <1>2, <1>3 DEF HInv

LEMMA CloseHInv ==
  ASSUME HInv, ~killed, Close
  PROVE  HInv'
<1>1. CInv' /\ IInv /\ CInv
  BY CloseCInv DEF HInv
<1>2. pc = "idle" /\ obj = Root /\ ~Removing /\ Root \notin entries
  BY <1>1 DEF Close, CInv, DiskInv, OpsInv, Removing, ChainInv, TypeOK
<1>3. MemoryGood
  BY <1>1, <1>2, IdleIsGood
<1>4. disk'.fat = fat /\ disk'.entries = entries /\ disk'.first = first
  <2>1. disk'.fat = fat /\ disk'.entries = disk.entries /\ disk'.first = disk.first
    BY <1>1 DEF Close, CInv, DiskInv, DiskTypeOK
  <2>2. disk.entries = entries /\ \A o \in Objects : disk.first[o] = first[o]
    <3>1. \A o \in Objects : o \notin entries => first[o] = 0
      BY <1>1 DEF IInv, HeadsKnown
    <3> QED
      BY <1>1, <1>2, <3>1 DEF CInv, DiskInv, Written
  <2>3. disk.first \in [Objects -> {0} \cup Clusters] /\ first \in [Objects -> {0} \cup Clusters]
    BY <1>1 DEF CInv, DiskInv, DiskTypeOK, ChainInv, TypeOK
  <2> QED
    BY <2>1, <2>2, <2>3
<1>5. DiskGood'
  BY <1>3, <1>4 DEF DiskGood, MemoryGood
<1> QED
  BY <1>1, <1>5, OpenKeepsHInv DEF Close

LEMMA DiedHInv ==
  ASSUME FaultsSpared, HInv, ~killed, Died
  PROVE  HInv'
<1>1. CInv' /\ CInv
  BY DiedCInv DEF HInv
<1>2. AsFound
  BY <1>1 DEF FaultsSpared, Died, AsFound, CInv, DiskInv, OpsInv
<1>3. DiskGood'
  BY <1>2 DEF HInv, DiskGood, Died
<1> QED
  BY <1>1, <1>3, OpenKeepsHInv DEF Died

\* Failing to read the file that is to be added changes no chain.
LEMMA FileReadIInv ==
  ASSUME IInv, FileReadFails \/ FileReadDies
  PROVE  IInv'
<1> USE DEF FileReadFails, FileReadDies, dirents, locals, IInv
<1>1. TypeOK'
  BY DEF TypeOK, Phases
<1>2. NoCrossLink' /\ NoDangling' /\ NoOrphan'
  BY DEF NoCrossLink, NoDangling, HalfLinked, Freeing, NoOrphan
<1>3. HeadsKnown'
  BY DEF HeadsKnown, JustNamed
<1>4. GrowInv' /\ ImportInv' /\ RemoveInv'
  BY DEF GrowInv, ImportInv, RemoveInv
<1> QED
  BY <1>1, <1>2, <1>3, <1>4

\* What a process does before it opens the disk again.
LEMMA ProcessIInv ==
  ASSUME IInv, StartOp \/ LeaveDirectory \/ Compute \/ FileReadFails
  PROVE  IInv'
<1>1. CASE StartOp
  BY <1>1, AddStartIInv, RemoveStartIInv DEF StartOp
<1>2. CASE LeaveDirectory
  BY <1>2, SweepDoneIInv, DirentsWriteIInv DEF LeaveDirectory
<1>3. CASE Compute \/ FileReadFails
  <2>1. CASE Add
    BY <2>1, FindSlotIInv, GrowAllocIInv, GrowWalkIInv, GrowLinkIInv, GrowMarkIInv,
       ImportAllocIInv, ImportLinkIInv, ImportMarkIInv, OutOfClustersIInv DEF Add
  <2> QED
    BY <1>3, <2>1, FileReadIInv, FreeNextIInv, DotDoneIInv, FreeDoneIInv, SweepFileIInv
       DEF Compute
<1> QED
  BY <1>1, <1>2, <1>3

LEMMA ProcessHInv ==
  ASSUME HInv, CInv', ~killed,
         StartOp \/ LeaveDirectory \/ Compute \/ FileReadFails
  PROVE  HInv'
<1>1. IInv /\ IInv'
  BY ProcessIInv DEF HInv
<1>2. FilesKnown'
  <2>1. CASE pc' # "dead"
    <3>1. ASSUME NEW o \in entries', Building(o)', first'[o] = 0
          PROVE  JustNamed(o)'
      BY <1>1, <3>1 DEF IInv, ImportInv, Building, JustNamed
    <3> QED
      BY <2>1, <3>1 DEF FilesKnown, CInv, DiskInv, BareKnown
  <2>2. CASE pc' = "dead"
    <3>1. OutOfClusters \/ FileReadDies
      BY <2>2 DEF StartOp, AddStart, RemoveStart, LeaveDirectory, SweepDone, DirentsWrite,
             Compute, Add, FindSlot, GrowAlloc, GrowWalk, GrowLink, GrowMark, ImportAlloc,
             ImportLink, ImportMark, FreeNext, DotDone, FreeDone, SweepFile, FileReadFails
    <3>2. UNCHANGED <<entries, first, obj, cur, unread>> /\ pc # "dead"
      BY <3>1 DEF OutOfClusters, FileReadDies, StartOp, AddStart, RemoveStart,
             LeaveDirectory, SweepDone, DirentsWrite, Compute, FileReadFails, dirents, locals
    <3> QED
      BY <2>2, <3>2 DEF HInv, FilesKnown, JustNamed
  <2> QED
    BY <2>1, <2>2
<1>3. AsFound' => DiskGood'
  <2>1. CASE StartOp
    BY <2>1 DEF StartOp, HInv, CInv, DiskInv, OpsInv, AsFound, DiskGood
  <2>2. CASE LeaveDirectory
    BY <2>2 DEF LeaveDirectory, SweepDone, DirentsWrite, HInv, CInv, DiskInv, OpsInv,
                AsFound, Adding
  <2>3. CASE Compute \/ FileReadFails
    <3>1. disk' = disk /\ ops' = ops
      BY <2>3 DEF Compute, FileReadFails
    <3>2. Adding' \/ pc' = "dead" => Adding
      BY <2>3 DEF Compute, FileReadFails, FileReadDies, Adding, Add, FindSlot, GrowAlloc,
             GrowWalk, GrowLink, GrowMark, ImportAlloc, ImportLink, ImportMark,
             OutOfClusters, FreeNext, DotDone, FreeDone, SweepFile
    <3> QED
      BY <3>1, <3>2 DEF HInv, AsFound, DiskGood
  <2> QED
    BY <2>1, <2>2, <2>3
<1> QED
  BY <1>1, <1>2, <1>3 DEF HInv

LEMMA NextHInv == FaultsSpared /\ HInv /\ [CommitNext]_cvars => HInv'
<1> SUFFICES ASSUME FaultsSpared, HInv, [CommitNext]_cvars
             PROVE  HInv'
  OBVIOUS
<1>1. CInv'
  BY NextCInv DEF HInv
<1>2. CASE killed'
  BY <1>1, <1>2 DEF HInv
<1>3. CASE UNCHANGED cvars
  <2>1. CASE killed
    BY <1>1, <1>3, <2>1 DEF HInv, cvars
  <2>2. CASE ~killed
    <3>1. IInv'
      BY <1>3, <2>2, StutterIInv DEF HInv, cvars
    <3>2. FilesKnown' /\ (AsFound' => DiskGood')
      BY <1>3, <2>2 DEF HInv, FilesKnown, JustNamed, AsFound, Adding, DiskGood,
                        cvars, vars, dirents, locals
    <3> QED
      BY <1>1, <3>1, <3>2 DEF HInv
  <2> QED
    BY <2>1, <2>2
<1>4. CASE CommitNext /\ ~killed'
  <2>1. ~killed /\ ~Killed
    BY <1>4 DEF CommitNext, StartOp, LeaveDirectory, Compute, FileReadFails, Close,
                Killed, Died
  <2> QED
    BY <1>1, <1>4, <2>1, ProcessHInv, CloseHInv, DiedHInv DEF CommitNext
<1> QED
  BY <1>2, <1>3, <1>4

\* Processes that are not killed hand on a volume as good as a new one: all that
\* FatTable proves of one process holds for a sequence of them.
THEOREM VolumesHandedOn ==
  ASSUME FaultsSpared
  PROVE  CommitSpec => []HandsOn
<1>1. HInv /\ [CommitNext]_cvars => HInv'
  BY NextHInv
<1>2. HInv => HandsOn
  BY DEF HInv, HandsOn, FilesKnown
<1> QED
  BY <1>1, <1>2, InitHInv, PTL DEF CommitSpec
=============================================================================
