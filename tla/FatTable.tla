------------------------------ MODULE FatTable ------------------------------
(***************************************************************************)
(* The commands of fatdisk that change the file allocation table, one step *)
(* per change of the table: file_import (a file's clusters, or the one     *)
(* cluster of a new directory), dirents_grow (a directory that has no room *)
(* for another entry) and dirent_remove.  The table is disk->fat, the copy *)
(* in memory; what reaches the disk, and when, is module Commit.           *)
(*                                                                         *)
(* Directories are in the root and hold files: the walk over a deeper tree *)
(* is module DirTree.                                                      *)
(***************************************************************************)
EXTENDS FatOps

CONSTANTS
  Files, Dirs,     \* the entries that may be created, by what they are
  Root,            \* the root directory, which has no entry of its own
  MaxFileClusters  \* bound: clusters of one file

Objects == Files \cup Dirs

ASSUME ObjectsAssumption == Root \notin Objects /\ Files \cap Dirs = {}
ASSUME MaxFileClustersAssumption == MaxFileClusters \in Nat \ {0}

VARIABLES
  fat,      \* disk->fat
  last,     \* the static last_cluster of cluster_alloc
  entries,  \* the entries in use
  parent,   \* the directory each entry is in
  first,    \* each entry's first cluster (h_first_cluster, l_first_cluster)
  size,     \* each entry's length, in clusters
  pc,       \* what the program is doing
  obj,      \* the entry being added or removed
  dir,      \* the directory added to; the one being removed, or Root
  cur,      \* `last_cluster` of file_import, `cluster` of the two others
  new,      \* the cluster cluster_alloc has just returned
  left      \* clusters file_import has still to take

locals == <<obj, dir, cur, new, left>>
dirents == <<entries, parent, first, size>>
vars == <<fat, last, dirents, pc, locals>>

Phases ==
  {"idle", "slot", "growWalk", "growMark", "alloc", "link", "mark",
   "dot", "sweep", "free", "write", "dead"}

TypeOK ==
  /\ fat \in [Entries -> FatValues]
  /\ last \in Clusters
  /\ entries \in SUBSET Objects
  /\ parent \in [Objects -> Dirs \cup {Root}]
  /\ first \in [Objects -> {0} \cup Clusters]
  /\ size \in [Objects -> 0 .. MaxFileClusters]
  /\ pc \in Phases
  /\ obj \in Objects \cup {Root}
  /\ dir \in Dirs \cup {Root}
  /\ cur \in FatValues
  /\ new \in {0} \cup Clusters
  /\ left \in 0 .. MaxFileClusters

Init ==
  /\ fat = FormattedFat
  /\ last = 2
  /\ entries = {}
  /\ parent = [o \in Objects |-> Root]
  /\ first = [o \in Objects |-> 0]
  /\ size = [o \in Objects |-> 0]
  /\ pc = "idle"
  /\ obj = Root /\ dir = Root /\ cur = 0 /\ new = 0 /\ left = 0

\* The cluster a directory's chain starts at.
HeadOf(d) == IF d = Root THEN RootCluster ELSE first[d]

\* The directory's entries go back to disk, and the walk is over.
DirentsWrite ==
  /\ pc = "write"
  /\ pc' = "idle"
  /\ obj' = Root /\ dir' = Root /\ cur' = 0 /\ new' = 0 /\ left' = 0
  /\ UNCHANGED <<fat, last, dirents>>

----------------------------------------------------------------------------
(* Adding an entry.                                                        *)

\* The walk reaches the directory to add in, and the entry is not there.
AddStart(o, d) ==
  /\ pc = "idle"
  /\ o \notin entries
  /\ d \in (entries \cap Dirs) \cup {Root}
  /\ o \in Dirs => d = Root
  /\ obj' = o
  /\ dir' = d
  /\ pc' = "slot"
  /\ UNCHANGED <<fat, last, dirents, cur, new, left>>

\* dirent_find_free_space found a run of unused slots: file_import names the
\* entry there and records the length, n clusters.
FindSlot(n) ==
  /\ pc = "slot"
  /\ obj \in Dirs => n = 1
  /\ entries' = entries \cup {obj}
  /\ parent' = [parent EXCEPT ![obj] = dir]
  /\ size' = [size EXCEPT ![obj] = n]
  /\ left' = n
  /\ cur' = 0
  /\ pc' = "alloc"
  /\ UNCHANGED <<fat, last, first, obj, dir, new>>

\* It found none: dirents_grow takes a cluster and walks to the chain's end.
GrowAlloc ==
  /\ pc = "slot"
  /\ \E c \in ClusterAlloc(fat, last) : new' = c /\ last' = c
  /\ cur' = HeadOf(dir)
  /\ pc' = "growWalk"
  /\ UNCHANGED <<fat, dirents, obj, dir, left>>

\* A slip: the walk does not move on.
GrowWalkStuck ==
  /\ pc = "growWalk"
  /\ ~EndChain(fat[cur])
  /\ UNCHANGED vars

GrowWalk ==
  /\ pc = "growWalk"
  /\ ~EndChain(fat[cur])
  /\ cur' = fat[cur]
  /\ UNCHANGED <<fat, last, dirents, pc, obj, dir, new, left>>

GrowLink ==
  /\ pc = "growWalk"
  /\ EndChain(fat[cur])
  /\ fat' = [fat EXCEPT ![cur] = new]
  /\ pc' = "growMark"
  /\ UNCHANGED <<last, dirents, locals>>

\* A slip: the new end of the chain is not marked.
GrowMarkForgotten ==
  /\ pc = "growMark"
  /\ pc' = "slot"
  /\ UNCHANGED <<fat, last, dirents, locals>>

\* The walk then looks for a free run again, in the longer directory.
GrowMark ==
  /\ pc = "growMark"
  /\ fat' = [fat EXCEPT ![new] = EOC]
  /\ pc' = "slot"
  /\ UNCHANGED <<last, dirents, locals>>

\* The allocation loop of file_import: take a cluster, link the one before
\* to it if there is one, and mark it as the end.
ImportAlloc ==
  /\ pc = "alloc"
  /\ \E c \in ClusterAlloc(fat, last) : new' = c /\ last' = c
  /\ pc' = IF cur = 0 THEN "mark" ELSE "link"
  /\ UNCHANGED <<fat, dirents, obj, dir, cur, left>>

\* A slip: the arguments of cluster_next_set swapped.
ImportLinkSwapped ==
  /\ pc = "link"
  /\ fat' = [fat EXCEPT ![new] = cur]
  /\ pc' = "mark"
  /\ UNCHANGED <<last, dirents, locals>>

ImportLink ==
  /\ pc = "link"
  /\ fat' = [fat EXCEPT ![cur] = new]
  /\ pc' = "mark"
  /\ UNCHANGED <<last, dirents, locals>>

\* Slips: the loop without its break; the line that "may seem not needed" left
\* out; `first` not reset after the first cluster.
ImportMarkNoBreak ==
  /\ pc = "mark"
  /\ fat' = [fat EXCEPT ![new] = EOC]
  /\ first' = IF cur = 0 THEN [first EXCEPT ![obj] = new] ELSE first
  /\ cur' = new
  /\ left' = left - 1
  /\ pc' = IF left < 1 THEN "write" ELSE "alloc"
  /\ UNCHANGED <<last, entries, parent, size, obj, dir, new>>

ImportMarkUnmarked ==
  /\ pc = "mark"
  /\ first' = IF cur = 0 THEN [first EXCEPT ![obj] = new] ELSE first
  /\ cur' = new
  /\ left' = left - 1
  /\ pc' = IF left = 1 THEN "write" ELSE "alloc"
  /\ UNCHANGED <<fat, last, entries, parent, size, obj, dir, new>>

ImportMarkEachFirst ==
  /\ pc = "mark"
  /\ fat' = [fat EXCEPT ![new] = EOC]
  /\ first' = [first EXCEPT ![obj] = new]
  /\ cur' = new
  /\ left' = left - 1
  /\ pc' = IF left = 1 THEN "write" ELSE "alloc"
  /\ UNCHANGED <<last, entries, parent, size, obj, dir, new>>

ImportMark ==
  /\ pc = "mark"
  /\ fat' = [fat EXCEPT ![new] = EOC]
  /\ first' = IF cur = 0 THEN [first EXCEPT ![obj] = new] ELSE first
  /\ cur' = new
  /\ left' = left - 1
  /\ pc' = IF left = 1 THEN "write" ELSE "alloc"
  /\ UNCHANGED <<last, entries, parent, size, obj, dir, new>>

\* DIE("Out of clusters/disk space ..."): the process exits.
OutOfClusters ==
  /\ pc \in {"slot", "alloc"}
  /\ ClusterAlloc(fat, last) = {}
  /\ pc' = "dead"
  /\ UNCHANGED <<fat, last, dirents, locals>>

----------------------------------------------------------------------------
(* Removing an entry.  The walk enters a directory before it removes the   *)
(* directory's entry, and everything inside matches: "." first, which      *)
(* frees the directory's own chain; ".." is the root's cluster, a chain    *)
(* that has already ended; then the files.                                 *)

RemoveStart(o) ==
  /\ pc = "idle"
  /\ o \in entries
  /\ obj' = o
  /\ cur' = first[o]
  /\ dir' = IF o \in Dirs THEN o ELSE Root
  /\ pc' = IF o \in Dirs THEN "dot" ELSE "free"
  /\ UNCHANGED <<fat, last, dirents, new, left>>

\* A slip: the next cluster is read after the entry has been zapped.
FreeNextZapped ==
  /\ pc \in {"dot", "free"}
  /\ ~EndChain(cur)
  /\ fat' = [fat EXCEPT ![cur] = 0]
  /\ cur' = 0
  /\ UNCHANGED <<last, dirents, pc, obj, dir, new, left>>

\* One turn of dirent_remove's loop: the root's cluster is never freed.
FreeNext ==
  /\ pc \in {"dot", "free"}
  /\ ~EndChain(cur)
  /\ fat' = [fat EXCEPT ![cur] = IF Fat32 /\ cur = RootCluster THEN EOC ELSE 0]
  /\ cur' = fat[cur]
  /\ UNCHANGED <<last, dirents, pc, obj, dir, new, left>>

DotDone ==
  /\ pc = "dot"
  /\ EndChain(cur)
  /\ pc' = "sweep"
  /\ UNCHANGED <<fat, last, dirents, locals>>

SweepFile(o) ==
  /\ pc = "sweep"
  /\ o \in entries
  /\ parent[o] = dir
  /\ obj' = o
  /\ cur' = first[o]
  /\ pc' = "free"
  /\ UNCHANGED <<fat, last, dirents, dir, new, left>>

\* Back from the directory to its own entry, whose chain is free by now.
SweepDone ==
  /\ pc = "sweep"
  /\ \A o \in entries : parent[o] # dir
  /\ obj' = dir
  /\ cur' = first[dir]
  /\ pc' = "free"
  /\ UNCHANGED <<fat, last, dirents, dir, new, left>>

\* The first cluster is cleared and the name marked as deleted: nothing reads
\* the rest of the entry any more.
FreeDone ==
  /\ pc = "free"
  /\ EndChain(cur)
  /\ first' = [first EXCEPT ![obj] = 0]
  /\ entries' = entries \ {obj}
  /\ parent' = [parent EXCEPT ![obj] = Root]
  /\ size' = [size EXCEPT ![obj] = 0]
  /\ pc' = IF dir # Root /\ obj # dir THEN "sweep" ELSE "write"
  /\ UNCHANGED <<fat, last, locals>>

----------------------------------------------------------------------------
Add ==
  \/ \E n \in 1 .. MaxFileClusters : FindSlot(n)
  \/ GrowAlloc \/ GrowWalk \/ GrowLink \/ GrowMark
  \/ ImportAlloc \/ ImportLink \/ ImportMark
  \/ OutOfClusters

Remove ==
  \/ FreeNext \/ DotDone \/ FreeDone
  \/ \E o \in Objects : SweepFile(o)
  \/ SweepDone

\* What the program does on its own, once a command has started.
Step == Add \/ Remove \/ DirentsWrite

Next ==
  \/ \E o \in Objects, d \in Dirs \cup {Root} : AddStart(o, d)
  \/ \E o \in Objects : RemoveStart(o)
  \/ Step

Spec == Init /\ [][Next]_vars
FairSpec == Spec /\ WF_vars(Step)

----------------------------------------------------------------------------
(* Properties.                                                             *)

\* An entry's first cluster that dirent_remove has freed or is freeing, and
\* has not cleared yet: its own or, once inside a directory, the directory's.
Freeing(o) ==
  \/ pc \in {"dot", "free"} /\ o = obj
  \/ pc \in {"sweep", "free"} /\ o = dir

\* A cluster is taken from the table and marked two steps later.  Between
\* the link to it and the mark the chain ends in a free entry.
HalfLinked(c) == pc \in {"mark", "growMark"} /\ c = new

\* No cluster is the next cluster of two others, or the first of two entries,
\* or both a first and a next cluster; and none of these is the root's first
\* cluster (fat.c: cluster_alloc must not return a cluster that is in use).
NoCrossLink ==
  /\ \A c, d \in Entries : fat[c] \in Clusters /\ fat[c] = fat[d] => c = d
  /\ \A o, p \in Objects : first[o] # 0 /\ first[o] = first[p] => o = p
  /\ \A o \in Objects, c \in Entries : first[o] # 0 => fat[c] # first[o]
  /\ Fat32 => /\ \A c \in Entries : fat[c] # RootCluster
              /\ \A o \in Objects : first[o] # RootCluster

\* Every chain goes from allocated cluster to allocated cluster: no link and
\* no entry leads to a cluster that cluster_alloc could give to another file
\* (fat.c: file_import, dirents_grow, dirent_remove).
NoDangling ==
  /\ \A c \in Entries :
       fat[c] \in Clusters => fat[fat[c]] # 0 \/ HalfLinked(fat[c])
  /\ \A o \in Objects : first[o] # 0 => fat[first[o]] # 0 \/ Freeing(o)

\* No cluster is lost: what the table shows as allocated is the next of
\* another cluster, the first of an entry, or where dirent_remove stands.
\* (fat_format withholds cluster 2 on every FAT type.)
NoOrphan ==
  \A c \in 3 .. (TotalClusters - 1) :
    fat[c] # 0 => \/ \E d \in Entries : fat[d] = c
                  \/ \E o \in Objects : first[o] = c
                  \/ pc = "free" /\ cur = c
                  \/ pc = "dot" /\ cur = c

----------------------------------------------------------------------------
(* The inductive invariant: the properties above, and what holds at each   *)
(* step of a command.                                                      *)

\* The entry file_import has named and has taken no cluster for.
JustNamed(o) == o = obj /\ pc \in {"alloc", "mark", "dead"} /\ cur = 0

\* A directory in use has a first cluster, unless it has just been named; a
\* deleted entry has none; the root's cluster is never free.
HeadsKnown ==
  /\ fat[RootCluster] # 0
  /\ \A o \in Objects : o \notin entries => first[o] = 0
  /\ \A o \in entries \cap Dirs : first[o] = 0 => JustNamed(o)

\* So has a file, if what is to be added can be read (module Commit).
FilesHeaded ==
  \A o \in entries \cap Files : first[o] = 0 => JustNamed(o)

Unreferenced(c) ==
  /\ \A d \in Entries : fat[d] # c
  /\ \A o \in Objects : first[o] # c

\* A new cluster is unknown to everyone but the step that links it.
GrowInv ==
  /\ pc \in {"slot", "growWalk", "growMark"} =>
       /\ obj \in Objects \ entries
       /\ dir = Root \/ dir \in entries
  /\ pc \in {"growWalk", "growMark"} => new \in Clusters /\ fat[new] = 0
  /\ pc = "growWalk" =>
       /\ Unreferenced(new)
       /\ cur \in Entries /\ fat[cur] # 0
  /\ pc = "growMark" => cur \in Entries /\ fat[cur] = new

ImportInv ==
  /\ pc \in {"alloc", "link", "mark"} =>
       /\ obj \in entries
       /\ left > 0
       /\ cur = 0 <=> first[obj] = 0
       /\ cur # 0 => cur \in Clusters
  /\ pc \in {"link", "mark"} => new \in Clusters /\ fat[new] = 0
  /\ pc = "alloc" /\ cur # 0 => fat[cur] = EOC
  /\ pc = "link" => cur # 0 /\ fat[cur] = EOC /\ Unreferenced(new)
  /\ pc = "mark" => IF cur = 0 THEN Unreferenced(new) ELSE fat[cur] = new

\* Where dirent_remove stands, nobody but the entry it removes points to.
RemoveInv ==
  /\ pc \in {"dot", "free"} =>
       /\ obj \in entries
       /\ ~EndChain(cur) => /\ \A d \in Entries : fat[d] # cur
                            /\ \A o \in Objects \ {obj} : first[o] # cur
       /\ fat[first[obj]] = 0 \/ cur = first[obj]
  /\ pc = "dot" => obj = dir
  /\ pc \in {"dot", "sweep"} => dir \in entries
  /\ pc = "free" /\ dir # Root => dir \in entries

IInv ==
  /\ TypeOK
  /\ NoCrossLink
  /\ NoDangling
  /\ NoOrphan
  /\ HeadsKnown
  /\ GrowInv
  /\ ImportInv
  /\ RemoveInv

----------------------------------------------------------------------------
(* Properties over whole chains and over steps.                            *)

HasItsChain(o) ==
  /\ Terminated(fat, first[o])
  /\ o \in Files => Cardinality(Chain(fat, first[o])) = size[o]

\* Between commands, every chain ends in an end mark, and a file's has exactly
\* as many clusters as its length calls for: file_extract, which counts the
\* length down along the chain, meets no premature end and leaves nothing
\* behind.
ChainMatchesSize ==
  pc = "idle" => \A o \in entries : HasItsChain(o)

\* The chain each owner holds.  While dirent_remove frees a chain the owner
\* holds what is ahead of it.
OwnedBy(o) ==
  IF o = Root THEN Chain(fat, fat[RootCluster])
  ELSE IF pc \in {"dot", "free"} /\ o = obj THEN Chain(fat, cur)
  ELSE Chain(fat, first[o])

Store == INSTANCE ClusterStore WITH
           Owners <- Objects \cup {Root},
           free <- {c \in Clusters : fat[c] = 0},
           owned <- [o \in Objects \cup {Root} |-> OwnedBy(o)]

\* The linked table implements a pool of clusters with single owners: each
\* step moves at most one cluster, between the free ones and the chain of
\* the entry, or of the directory, the command is about.
ImplementsStore == Store!Spec

\* fatdisk gives up for want of space only if no cluster is free, wherever
\* the search started (fat.c: the second pass of cluster_alloc).
DieOnlyWhenFull ==
  [][pc' = "dead" /\ pc # "dead" => \A c \in Clusters : fat[c] # 0]_vars

\* Every command ends: no chain leads dirents_grow or dirent_remove in
\* circles.
CommandEnds == pc # "idle" ~> pc \in {"idle", "dead"}
=============================================================================
