--------------------------- MODULE FileDataProofs ---------------------------
(***************************************************************************)
(* Proofs about FileData: each cluster of an imported file is written once *)
(* and with its own part of the file, the file comes out again as it went  *)
(* in, no reader delivers more than the size says, and only a file with a  *)
(* damaged chain is reported or delivered short, for clusters and files of *)
(* every size and for every allocation.                                    *)
(***************************************************************************)
EXTENDS FileData, FiniteSetTheorems, WellFoundedInduction, TLAPS

USE TotalClustersAssumption, Fat32Assumption, SectorsPerClusterAssumption,
    MaxLenAssumption

Positions == 0 .. Last
Ended == {"ok", "nothing", "io", "error", "died"}
Importing == pc \in {"runs", "singles"}

----------------------------------------------------------------------------
(* The invariant.                                                          *)

TypeOK ==
  /\ imported \in BOOLEAN
  /\ size \in Nat
  /\ fat \in [Entries -> 0 .. EOC]
  /\ first \in {0} \cup DataClusters
  /\ disk \in [Clusters -> [Offsets -> Nat]]
  /\ pc \in {"runs", "singles", "stored", "read"} \cup Ended
  /\ reader \in Readers
  /\ cur \in 0 .. EOC
  /\ left \in Int
  /\ out \in Seq(Nat)
  /\ blank \in BOOLEAN
  /\ Importing => imported

\* What file_import has been given, and does not change.
Given ==
  /\ file \in [0 .. (size - 1) -> Nat]
  /\ chain \in [Positions -> DataClusters]
  /\ \A j, k \in Positions : chain[j] = chain[k] => j = k
  /\ fat = Linked(chain)
  /\ first = chain[0]

\* The k-th cluster still has to be written.
Pending(k) ==
  /\ array[k] # 0
  /\ pc = "runs" \/ (pc = "singles" /\ k >= c)

\* The run that is being collected: the clusters before the c-th, down to its
\* start, and the c-th as well, are neighbours.
InRun ==
  /\ run.start \in 0 .. (c - 1)
  /\ run.count = c - run.start
  /\ c <= Last
  /\ \A j \in run.start .. c : chain[j] = chain[run.start] + (j - run.start)
  /\ \A j \in run.start .. c : array[j] = chain[j]

ImportInv ==
  /\ array \in [Positions -> {0} \cup DataClusters]
  /\ writes \in [Clusters -> Nat]
  /\ c \in 0 .. (Last + 1)
  /\ \A k \in Positions : array[k] # 0 => array[k] = chain[k]
  /\ pc = "runs" => \A k \in Positions : k >= c => array[k] # 0
  /\ pc = "runs" => run = None \/ InRun
  /\ pc = "runs" /\ c > Last => run = None
  /\ \A k \in Positions :
       IF Pending(k) THEN writes[chain[k]] = 0
       ELSE disk[chain[k]] = Part(k) /\ writes[chain[k]] = 1
  /\ \A cl \in Clusters :
       (\A k \in Positions : chain[k] # cl) => writes[cl] = 0

\* How much has been delivered, by what is left of the size.
Counted ==
  /\ pc \in {"runs", "singles", "stored", "nothing"} => out = <<>>
  /\ pc \in {"read", "ok", "io", "error", "died"} =>
       /\ Len(out) <= IF left >= 0 THEN size - left ELSE size
       /\ left <= size
       /\ reader # "hexdump" =>
            Len(out) = IF left >= 0 THEN size - left ELSE size
  /\ pc = "ok" => left <= 0
  /\ pc = "ok" => EndChain(cur)
  /\ pc = "nothing" => reader # "extract" /\ first = 0

\* k clusters have been read of a file that fatdisk has stored.
ReadSoFar(k) ==
  /\ left = size - k * SectorsPerCluster
  /\ cur = IF k <= Last THEN chain[k] ELSE EOC
  /\ reader # "hexdump" => \A i \in 1 .. Len(out) : out[i] = file[i - 1]
  /\ reader = "hexdump" =>
       \A j \in 0 .. (k - 1) : Part(j)[0] # 0 =>
         \A i \in Offsets : Part(j)[i] # 0 =>
           \E m \in 1 .. Len(out) : out[m] = Part(j)[i]

ReadInv == pc \in {"read", "ok"} => \E k \in 0 .. (Last + 1) : ReadSoFar(k)

FileInv ==
  /\ TypeOK
  /\ Counted
  /\ imported => Given /\ ImportInv /\ ReadInv

----------------------------------------------------------------------------
(* Clusters and offsets.                                                   *)

\* A file takes at least one cluster.
LEMMA SomeClusters == ASSUME NEW n \in Nat PROVE ClusterCount(n) \in Nat \ {0}
<1>1. (n + SectorsPerCluster - 1) \div SectorsPerCluster \in Nat
  OBVIOUS
<1> QED
  BY <1>1 DEF ClusterCount

LEMMA LastNat == ASSUME size \in Nat PROVE Last \in Nat
BY SomeClusters DEF Last

\* The sectors of m clusters and of one more.
LEMMA NextMultiple ==
  ASSUME NEW m \in Int
  PROVE  /\ m * SectorsPerCluster \in Int
         /\ (m + 1) * SectorsPerCluster = m * SectorsPerCluster + SectorsPerCluster
OBVIOUS

LEMMA SumMultiple ==
  ASSUME NEW k \in Int, NEW m \in Int
  PROVE  (k + m) * SectorsPerCluster = k * SectorsPerCluster + m * SectorsPerCluster
OBVIOUS

\* Offset i of cluster m lies within the first n clusters.
LEMMA WithinMultiple ==
  ASSUME NEW m \in Nat, NEW n \in Nat, m < n, NEW i \in Offsets
  PROVE  m * SectorsPerCluster + i < n * SectorsPerCluster
<1>1. PICK d \in Nat : n = m + 1 + d
  <2>1. n - m - 1 \in Nat /\ n = m + 1 + (n - m - 1)
    OBVIOUS
  <2> QED
    BY <2>1
<1>2. d * SectorsPerCluster \in Nat
  OBVIOUS
<1>3. n * SectorsPerCluster = m * SectorsPerCluster + SectorsPerCluster + d * SectorsPerCluster
  BY <1>1, NextMultiple, SumMultiple
<1>4. i < SectorsPerCluster /\ i \in Nat
  BY DEF Offsets
<1>5. m * SectorsPerCluster \in Int
  BY NextMultiple
<1> QED
  BY <1>2, <1>3, <1>4, <1>5
----------------------------------------------------------------------------
(* Writing a block of neighbouring clusters.                               *)

\* The sectors of each cluster of a file are numbers.
LEMMA PartType ==
  ASSUME size \in Nat, Given, NEW k \in Nat
  PROVE  Part(k) \in [Offsets -> Nat]
<1> SUFFICES ASSUME NEW i \in Offsets
             PROVE  Part(k)[i] \in Nat
  BY DEF Part
<1>1. k * SectorsPerCluster + i \in Nat
  BY DEF Offsets
<1>2. PICK j : j \in Nat /\ j = k * SectorsPerCluster + i
  BY <1>1
<1>3. Part(k)[i] = IF j < size THEN file[j] ELSE 0
  BY <1>2 DEF Part
<1> QED
  BY <1>2, <1>3 DEF Given

\* What WriteClusters puts into the m-th of n clusters from the k-th of the file
\* on is that cluster's part of the file.
LEMMA SectorOfBlock ==
  ASSUME size \in Nat, NEW k \in Nat, NEW n \in Nat, NEW m \in Nat, m < n,
         NEW i \in Offsets
  PROVE  LET j == m * SectorsPerCluster + i
         IN  (IF j < DataLen(k, n) THEN file[k * SectorsPerCluster + j] ELSE 0)
               = Part(k + m)[i]
<1>1. PICK K, M, N :
        /\ K \in Nat /\ M \in Nat /\ N \in Nat
        /\ K = k * SectorsPerCluster
        /\ M = m * SectorsPerCluster
        /\ N = n * SectorsPerCluster
  <2>1. /\ k * SectorsPerCluster \in Nat
        /\ m * SectorsPerCluster \in Nat
        /\ n * SectorsPerCluster \in Nat
    OBVIOUS
  <2> QED
    BY <2>1
<1>2. M + i < N
  BY <1>1, WithinMultiple
<1>3. (k + m) * SectorsPerCluster = K + M
  BY <1>1, SumMultiple
<1>4. (k + n) * SectorsPerCluster = K + N
  BY <1>1, SumMultiple
<1>5. i \in Nat
  BY DEF Offsets
<1>6. DataLen(k, n) = IF size < K + N THEN size - K ELSE N
  BY <1>1, <1>4 DEF DataLen
<1>7. Part(k + m)[i] = IF K + M + i < size THEN file[K + M + i] ELSE 0
  BY <1>3 DEF Part
<1>8. M + i < DataLen(k, n) <=> K + M + i < size
  BY <1>1, <1>2, <1>5, <1>6
<1>9. K + (M + i) = K + M + i
  BY <1>1, <1>5
<1> QED
  BY <1>1, <1>7, <1>8, <1>9

\* A block of n neighbouring clusters from the k-th on is written: each of them
\* once more and with its own part, and no other.
LEMMA BlockWritten ==
  ASSUME TypeOK, Given, writes \in [Clusters -> Nat],
         NEW k \in Positions, NEW n \in Nat, k + n <= Last + 1,
         array[k] = chain[k],
         \A j \in k .. (k + n - 1) : chain[j] = chain[k] + (j - k),
         WriteBlock(k, n)
  PROVE  /\ disk' \in [Clusters -> [Offsets -> Nat]]
         /\ writes' \in [Clusters -> Nat]
         /\ \A j \in k .. (k + n - 1) :
              /\ disk'[chain[j]] = Part(j)
              /\ writes'[chain[j]] = writes[chain[j]] + 1
         /\ \A cl \in Clusters :
              (\A j \in k .. (k + n - 1) : chain[j] # cl) =>
                disk'[cl] = disk[cl] /\ writes'[cl] = writes[cl]
<1>0. Last \in Nat /\ size \in Nat /\ k \in Nat
  BY LastNat DEF TypeOK, Positions
<1>1. PICK h : h = chain[k] /\ h \in DataClusters
  BY <1>0 DEF Given, Positions
<1>a. h \in Nat
  BY <1>1 DEF DataClusters
<1>2. PICK block : block = h .. (h + n - 1)
  OBVIOUS
<1>3. disk' = [cl \in Clusters |->
                 IF cl \in block
                 THEN [i \in Offsets |->
                         IF (cl - h) * SectorsPerCluster + i < DataLen(k, n)
                         THEN file[k * SectorsPerCluster
                                     + ((cl - h) * SectorsPerCluster + i)]
                         ELSE 0]
                 ELSE disk[cl]]
  BY <1>1, <1>2 DEF WriteBlock, WriteClusters
<1>4. writes' = [cl \in Clusters |->
                   IF cl \in block THEN writes[cl] + 1 ELSE writes[cl]]
  BY <1>1, <1>2 DEF WriteBlock, WriteClusters
<1>5. ASSUME NEW cl \in Clusters, cl \in block
      PROVE  /\ cl - h \in Nat /\ cl - h < n
             /\ disk'[cl] = Part(k + (cl - h))
  <2>1. cl - h \in Nat /\ cl - h < n
    BY <1>2, <1>a, <1>5
  <2>2. PICK m \in Nat : m = cl - h /\ m < n
    BY <2>1
  <2>3. disk'[cl] = [i \in Offsets |->
                       IF m * SectorsPerCluster + i < DataLen(k, n)
                       THEN file[k * SectorsPerCluster + (m * SectorsPerCluster + i)]
                       ELSE 0]
    BY <1>3, <1>5, <2>2
  <2>4. \A i \in Offsets :
          (IF m * SectorsPerCluster + i < DataLen(k, n)
           THEN file[k * SectorsPerCluster + (m * SectorsPerCluster + i)]
           ELSE 0) = Part(k + m)[i]
    BY <1>0, <2>2, SectorOfBlock
  <2>5. Part(k + m) = [i \in Offsets |-> Part(k + m)[i]]
    BY DEF Part
  <2>6. disk'[cl] = Part(k + m)
    BY <2>3, <2>4, <2>5
  <2> QED
    BY <2>1, <2>2, <2>6
<1>6. ASSUME NEW j \in k .. (k + n - 1)
      PROVE  chain[j] \in Clusters /\ chain[j] \in block /\ chain[j] - h = j - k
  <2>1. j \in Positions /\ j \in Nat
    BY <1>0 DEF Positions
  <2>2. chain[j] \in DataClusters
    BY <2>1 DEF Given
  <2>3. chain[j] = h + (j - k)
    BY <1>1
  <2> QED
    BY <1>0, <1>2, <1>a, <2>1, <2>2, <2>3 DEF DataClusters, Clusters
<1>7. ASSUME NEW cl \in Clusters, \A j \in k .. (k + n - 1) : chain[j] # cl
      PROVE  cl \notin block
  <2> SUFFICES ASSUME cl \in block
               PROVE  FALSE
    OBVIOUS
  <2>1. PICK j : j = k + (cl - h)
    OBVIOUS
  <2>2. j \in k .. (k + n - 1) /\ j - k = cl - h
    BY <1>0, <1>2, <1>a, <2>1 DEF Clusters
  <2>3. chain[j] = h + (j - k)
    BY <1>1, <2>2
  <2>4. chain[j] = cl
    BY <1>a, <2>2, <2>3 DEF Clusters
  <2> QED
    BY <1>7, <2>2, <2>4
<1>8. disk' \in [Clusters -> [Offsets -> Nat]]
  <2>1. \A cl \in Clusters : cl \notin block => disk'[cl] = disk[cl]
    BY <1>3
  <2>2. \A cl \in Clusters : disk'[cl] \in [Offsets -> Nat]
    <3>1. \A m \in Nat : Part(k + m) \in [Offsets -> Nat]
      BY <1>0, PartType
    <3> QED
      BY <1>5, <2>1, <3>1 DEF TypeOK
  <2>3. disk' = [cl \in Clusters |-> disk'[cl]]
    BY <1>3
  <2> QED
    BY <2>2, <2>3
<1>9. \A j \in k .. (k + n - 1) : k + (j - k) = j
  BY <1>0
<1>10. \A j \in k .. (k + n - 1) :
         /\ disk'[chain[j]] = Part(j)
         /\ writes'[chain[j]] = writes[chain[j]] + 1
  <2> TAKE j \in k .. (k + n - 1)
  <2>1. disk'[chain[j]] = Part(k + (chain[j] - h))
    BY <1>5, <1>6
  <2>2. disk'[chain[j]] = Part(j)
    BY <1>6, <1>9, <2>1
  <2> QED
    BY <1>4, <1>6, <2>2
<1>11. writes' \in [Clusters -> Nat]
  BY <1>4
<1>12. ASSUME NEW cl \in Clusters, \A j \in k .. (k + n - 1) : chain[j] # cl
       PROVE  disk'[cl] = disk[cl] /\ writes'[cl] = writes[cl]
  BY <1>3, <1>4, <1>7, <1>12
<1> QED
  BY <1>8, <1>10, <1>11, <1>12
----------------------------------------------------------------------------
(* The table of an imported file.                                          *)

\* The entry of each cluster names the next one, and that of the last ends it.
LEMMA LinkedNext ==
  ASSUME NEW n \in Nat \ {0}, NEW a \in [0 .. (n - 1) -> DataClusters],
         \A j, k \in 0 .. (n - 1) : a[j] = a[k] => j = k,
         NEW k \in 0 .. (n - 1)
  PROVE  Linked(a)[a[k]] = IF k < n - 1 THEN a[k + 1] ELSE EOC
<1>1. a[k] \in Entries /\ ~(a[k] <= 2)
  BY DEF DataClusters, Entries
<1>2. DOMAIN a = 0 .. (n - 1)
  OBVIOUS
<1>3. (CHOOSE j \in DOMAIN a : a[j] = a[k]) = k
  BY <1>2
<1>4. a[k] \in {a[j] : j \in DOMAIN a}
  BY <1>2
<1>5. Linked(a)[a[k]] = IF k + 1 \in DOMAIN a THEN a[k + 1] ELSE EOC
  BY <1>1, <1>3, <1>4 DEF Linked
<1>6. k + 1 \in DOMAIN a <=> k < n - 1
  BY <1>2
<1> QED
  BY <1>5, <1>6

LEMMA LinkedType ==
  ASSUME NEW n \in Nat \ {0}, NEW a \in [0 .. (n - 1) -> DataClusters]
  PROVE  Linked(a) \in [Entries -> 0 .. EOC]
<1> SUFFICES ASSUME NEW cl \in Entries
             PROVE  Linked(a)[cl] \in 0 .. EOC
  BY DEF Linked
<1>1. EOC \in 0 .. EOC /\ 0 \in 0 .. EOC /\ DataClusters \subseteq 0 .. EOC
  BY DEF EOC, DataClusters
<1>2. \A k \in DOMAIN a : a[k] \in 0 .. EOC
  BY <1>1
<1>3. CASE cl <= 2
  BY <1>1, <1>3 DEF Linked
<1>4. ASSUME ~(cl <= 2), cl \notin {a[k] : k \in DOMAIN a}
      PROVE  Linked(a)[cl] \in 0 .. EOC
  BY <1>1, <1>4 DEF Linked
<1>5. ASSUME ~(cl <= 2), cl \in {a[k] : k \in DOMAIN a}
      PROVE  Linked(a)[cl] \in 0 .. EOC
  <2>1. PICK k : k = CHOOSE j \in DOMAIN a : a[j] = cl
    OBVIOUS
  <2>2. Linked(a)[cl] = IF k + 1 \in DOMAIN a THEN a[k + 1] ELSE EOC
    BY <1>5, <2>1 DEF Linked
  <2> QED
    BY <1>1, <1>2, <2>2
<1> QED
  BY <1>3, <1>4, <1>5

----------------------------------------------------------------------------
(* The invariant holds at first.                                           *)

LEMMA ImportStarts == InitImport /\ Init => FileInv
<1> SUFFICES ASSUME InitImport, Init
             PROVE  FileInv
  OBVIOUS
<1>0. size \in Nat /\ Last \in Nat /\ ClusterCount(size) = Last + 1
  <2>1. size \in Nat
    BY DEF InitImport
  <2> QED
    BY <2>1, SomeClusters DEF Last
<1>1. PICK n : n \in Nat \ {0} /\ n = Last + 1 /\ n = ClusterCount(size)
  BY <1>0
<1>2. 0 .. (n - 1) = Positions /\ 0 \in Positions
  BY <1>0, <1>1 DEF Positions
<1>3. chain \in [0 .. (n - 1) -> DataClusters]
  BY <1>1 DEF InitImport, Allocations
<1>4. ASSUME NEW j \in 0 .. (n - 1), NEW k \in 0 .. (n - 1), j # k
      PROVE  chain[j] # chain[k]
  <2>1. chain \in Allocations(n)
    BY <1>1 DEF InitImport
  <2>2. PICK from \in DataClusters : \A x \in 0 .. (n - 1), y \in 0 .. (n - 1) :
          x < y => (chain[x] - from) % TotalClusters < (chain[y] - from) % TotalClusters
    BY <2>1 DEF Allocations
  <2>3. PICK f : f = [x \in 0 .. (n - 1) |-> (chain[x] - from) % TotalClusters]
    OBVIOUS
  <2>4. \A x \in 0 .. (n - 1) : f[x] \in Int
    <3> TAKE x \in 0 .. (n - 1)
    <3>1. chain[x] - from \in Int
      BY <1>3 DEF DataClusters
    <3> QED
      BY <2>3, <3>1
  <2>5. chain[j] = chain[k] => f[j] = f[k]
    BY <2>3
  <2>6. j < k => f[j] < f[k]
    BY <2>2, <2>3
  <2>7. k < j => f[k] < f[j]
    BY <2>2, <2>3
  <2>8. j < k \/ k < j
    BY <1>1, <1>4
  <2> QED
    BY <2>4, <2>5, <2>6, <2>7, <2>8
<1>5. file \in [0 .. (size - 1) -> Nat]
  <2>1. PICK blanks : file = [i \in 0 .. (size - 1) |-> IF i \in blanks THEN 0 ELSE i + 1]
    BY DEF InitImport, Files
  <2> QED
    BY <1>0, <2>1
<1>6. Given
  <2>1. \A j, k \in Positions : chain[j] = chain[k] => j = k
    BY <1>2, <1>4
  <2> QED
    BY <1>2, <1>3, <1>5, <2>1 DEF Given, InitImport
<1>7. TypeOK
  <2>1. fat \in [Entries -> 0 .. EOC]
    BY <1>1, <1>3, LinkedType DEF InitImport
  <2>2. first \in DataClusters
    BY <1>2, <1>3 DEF InitImport
  <2>3. disk \in [Clusters -> [Offsets -> Nat]]
    <3>1. Stale \in Nat
      BY DEF Stale
    <3> QED
      BY <3>1 DEF InitImport
  <2>4. cur \in 0 .. EOC /\ left \in Int /\ out \in Seq(Nat)
    BY DEF Init, EOC
  <2> QED
    BY <1>0, <2>1, <2>2, <2>3, <2>4 DEF TypeOK, Init, InitImport, Importing
<1>8. Counted
  BY DEF Counted, Init, InitImport
<1>9. ImportInv
  <2>1. array \in [Positions -> {0} \cup DataClusters] /\ array = chain
    BY <1>2, <1>3 DEF InitImport
  <2>2. \A k \in Positions : array[k] # 0 /\ chain[k] \in Clusters
    BY <1>6, <2>1 DEF Given, DataClusters, Clusters
  <2>3. \A k \in Positions : Pending(k) /\ writes[chain[k]] = 0
    BY <2>2 DEF Pending, Init, InitImport
  <2>4. ~(c > Last) /\ c \in 0 .. (Last + 1)
    BY <1>0 DEF Init
  <2> QED
    BY <2>1, <2>2, <2>3, <2>4 DEF ImportInv, Init, InitImport
<1>10. ReadInv
  BY DEF ReadInv, InitImport
<1> QED
  BY <1>6, <1>7, <1>8, <1>9, <1>10 DEF FileInv

LEMMA ForeignStarts == InitForeign /\ Init => FileInv
<1> SUFFICES ASSUME InitForeign, Init
             PROVE  FileInv
  OBVIOUS
<1>1. fat \in [Entries -> 0 .. EOC]
  <2>1. PICK f \in [DataClusters -> {0, EOC} \cup DataClusters] :
          fat = [cl \in Entries |-> IF cl <= 2 THEN EOC ELSE f[cl]]
    BY DEF InitForeign
  <2>2. \A cl \in Entries : ~(cl <= 2) => cl \in DataClusters
    BY DEF Entries, DataClusters
  <2> QED
    BY <2>1, <2>2 DEF EOC, DataClusters
<1>2. disk \in [Clusters -> [Offsets -> Nat]]
  BY DEF InitForeign, Clusters
<1>3. cur \in 0 .. EOC /\ left \in Int /\ out \in Seq(Nat)
  BY DEF Init, EOC
<1>4. TypeOK
  <2>1. size \in Nat
    BY DEF InitForeign
  <2>2. pc = "stored" /\ imported = FALSE /\ blank = FALSE /\ reader \in Readers
    BY DEF Init, InitForeign
  <2>3. first \in {0} \cup DataClusters
    BY DEF InitForeign
  <2> QED
    BY <1>1, <1>2, <1>3, <2>1, <2>2, <2>3 DEF TypeOK, Importing
<1>5. Counted
  BY DEF Counted, Init, InitForeign
<1> QED
  BY <1>4, <1>5 DEF FileInv, InitForeign
----------------------------------------------------------------------------
(* The steps of an import.                                                 *)

\* What an import leaves alone keeps its part of the invariant.
LEMMA ImportFrame ==
  ASSUME FileInv, Importing, UNCHANGED <<stored, reading>>,
         pc' \in {"runs", "singles", "stored"},
         disk' \in [Clusters -> [Offsets -> Nat]],
         ImportInv'
  PROVE  FileInv'
<1>1. imported /\ imported' /\ TypeOK /\ Counted /\ Given
  BY DEF FileInv, TypeOK, stored
<1>2. TypeOK'
  BY <1>1 DEF TypeOK, Importing, stored, reading
<1>3. Counted'
  BY <1>1 DEF Counted, Importing, stored, reading
<1>4. Given'
  BY <1>1 DEF Given, stored, Positions, Last
<1>5. ReadInv'
  BY DEF ReadInv
<1> QED
  BY <1>2, <1>3, <1>4, <1>5 DEF FileInv

\* The parts of the file are where they were.
LEMMA PartsStay ==
  ASSUME UNCHANGED stored
  PROVE  Last' = Last /\ Positions' = Positions /\ \A k : Part(k)' = Part(k)
BY DEF stored, Last, Positions, Part

LEMMA ExtendRunStep == ASSUME FileInv, ExtendRun PROVE FileInv'
<1>1. pc = "runs" /\ pc' = "runs" /\ Importing /\ TypeOK /\ Given /\ ImportInv
  BY DEF ExtendRun, FileInv, TypeOK, Importing
<1>2. UNCHANGED <<array, disk, writes, stored, reading, pc, chain>>
  BY DEF ExtendRun, stored
<1>3. Last \in Nat /\ c \in 0 .. (Last - 1) /\ c' = c + 1
  BY <1>1, LastNat DEF TypeOK, ImportInv, ExtendRun, Adjacent
<1>4. c \in Positions /\ c + 1 \in Positions
  BY <1>3 DEF Positions
<1>5. array[c] = chain[c] /\ array[c + 1] = chain[c + 1]
  BY <1>1, <1>3, <1>4 DEF ImportInv
<1>6. chain[c + 1] = chain[c] + 1
  BY <1>5 DEF ExtendRun, Adjacent
<1>7. PICK s : s = IF run.start = -1 THEN c ELSE run.start
  OBVIOUS
<1>8. run' = [start |-> s, count |-> run.count + 1]
  BY <1>7 DEF ExtendRun
<1>9. \A j \in Positions : chain[j] \in Nat
  BY <1>1 DEF Given, DataClusters
<1>10. /\ s \in 0 .. c /\ run.count + 1 = (c + 1) - s
       /\ \A j \in s .. (c + 1) : chain[j] = chain[s] + (j - s)
       /\ \A j \in s .. (c + 1) : array[j] = chain[j]
  <2>1. CASE run = None
    <3>1. s = c /\ run.count = 0
      BY <1>7, <2>1 DEF None
    <3>2. \A j \in c .. (c + 1) : j = c \/ j = c + 1
      BY <1>3
    <3>3. chain[c] = chain[c] + (c - c) /\ chain[c + 1] = chain[c] + ((c + 1) - c)
      BY <1>3, <1>4, <1>6, <1>9
    <3>4. \A j \in c .. (c + 1) : chain[j] = chain[c] + (j - c) /\ array[j] = chain[j]
      BY <1>5, <3>2, <3>3
    <3> QED
      BY <1>3, <3>1, <3>4
  <2>2. CASE InRun
    <3>1. s = run.start /\ s \in 0 .. (c - 1) /\ run.count = c - s
      BY <1>3, <1>7, <2>2 DEF InRun
    <3>2. \A j \in s .. (c + 1) : j \in s .. c \/ j = c + 1
      BY <1>3, <3>1
    <3>3. chain[c] = chain[s] + (c - s)
      BY <1>3, <2>2, <3>1 DEF InRun
    <3>4. s \in Positions
      BY <1>3, <3>1 DEF Positions
    <3>5. chain[c + 1] = chain[s] + ((c + 1) - s)
      BY <1>3, <1>6, <1>9, <3>1, <3>3, <3>4
    <3>6. \A j \in s .. c : chain[j] = chain[s] + (j - s) /\ array[j] = chain[j]
      BY <2>2, <3>1 DEF InRun
    <3>7. s \in 0 .. c /\ run.count + 1 = (c + 1) - s
      BY <1>3, <3>1
    <3>8. array[c + 1] = chain[c + 1]
      BY <1>5
    <3> QED
      BY <3>2, <3>5, <3>6, <3>7, <3>8
  <2>3. run = None \/ InRun
    BY <1>1 DEF ImportInv
  <2> QED
    BY <2>1, <2>2, <2>3
<1>11. InRun'
  BY <1>2, <1>3, <1>8, <1>10, PartsStay DEF InRun
<1>12. ImportInv'
  <2>1. \A k \in Positions : Pending(k)' <=> Pending(k)
    BY <1>1, <1>2 DEF Pending
  <2>2. \A k \in Positions : k >= c + 1 => k >= c
    BY <1>3 DEF Positions
  <2>3. c + 1 \in 0 .. (Last + 1) /\ ~(c + 1 > Last)
    BY <1>3
  <2> QED
    BY <1>1, <1>2, <1>3, <1>11, <2>1, <2>2, <2>3, PartsStay DEF ImportInv
<1> QED
  BY <1>1, <1>2, <1>12, ImportFrame DEF FileInv, TypeOK

LEMMA WriteRunStep == ASSUME FileInv, WriteRun PROVE FileInv'
<1>1. pc = "runs" /\ pc' = "runs" /\ Importing /\ TypeOK /\ Given /\ ImportInv
  BY DEF WriteRun, FileInv, TypeOK, Importing, stored
<1>2. UNCHANGED <<stored, reading, chain>>
  BY DEF WriteRun, stored
<1>3. Last \in Nat /\ c \in 0 .. Last /\ c' = c + 1
  BY <1>1, LastNat DEF TypeOK, ImportInv, WriteRun
<1>4. InRun
  BY <1>1 DEF ImportInv, WriteRun, None
<1>5. PICK s, n : /\ s = run.start /\ n = run.count
                  /\ s \in 0 .. (c - 1) /\ n \in Nat /\ s + n = c
  <2>1. /\ run.start \in 0 .. (c - 1) /\ run.count \in Nat
        /\ run.start + run.count = c
    BY <1>3, <1>4 DEF InRun
  <2> QED
    BY <2>1
<1>6. s \in Positions /\ (s + n) - 1 = c - 1 /\ s + n <= Last + 1
  BY <1>3, <1>5 DEF Positions
<1>7. /\ array[s] = chain[s]
      /\ \A j \in s .. (s + n - 1) : chain[j] = chain[s] + (j - s)
      /\ \A j \in s .. (s + n - 1) : array[j] = chain[j]
  BY <1>3, <1>4, <1>5 DEF InRun
<1>8. WriteBlock(s, n)
  BY <1>5 DEF WriteRun
<1>9. /\ disk' \in [Clusters -> [Offsets -> Nat]]
      /\ writes' \in [Clusters -> Nat]
      /\ \A j \in s .. (s + n - 1) :
           /\ disk'[chain[j]] = Part(j)
           /\ writes'[chain[j]] = writes[chain[j]] + 1
      /\ \A cl \in Clusters :
           (\A j \in s .. (s + n - 1) : chain[j] # cl) =>
             disk'[cl] = disk[cl] /\ writes'[cl] = writes[cl]
  <2>1. writes \in [Clusters -> Nat]
    BY <1>1 DEF ImportInv
  <2> QED
    BY <1>1, <1>5, <1>6, <1>7, <1>8, <2>1, BlockWritten
<1>10. PICK B : B = s .. (s + n - 1)
  OBVIOUS
<1>11. array' = [j \in Positions |-> IF j \in B THEN 0 ELSE array[j]]
  BY <1>1, <1>5, <1>10 DEF WriteRun, Written, ImportInv
<1>12. run' = None
  BY DEF WriteRun, RunOver
<1>13. B \subseteq Positions /\ \A j \in B : j < c
  BY <1>3, <1>5, <1>10 DEF Positions
<1>14. ImportInv'
  <2>1. array' \in [Positions -> {0} \cup DataClusters]
    BY <1>1, <1>11 DEF ImportInv
  <2>2. \A k \in Positions : array'[k] # 0 => array'[k] = chain[k]
    BY <1>1, <1>11 DEF ImportInv
  <2>3. \A k \in Positions : k >= c + 1 => array'[k] # 0
    <3>1. \A k \in Positions : k >= c + 1 => k \notin B /\ k >= c
      BY <1>3, <1>13 DEF Positions
    <3> QED
      BY <1>1, <1>11, <3>1 DEF ImportInv
  <2>4. ASSUME NEW k \in Positions
        PROVE  IF Pending(k)' THEN writes'[chain[k]] = 0
               ELSE disk'[chain[k]] = Part(k) /\ writes'[chain[k]] = 1
    <3>0. chain[k] \in DataClusters /\ chain[k] \in Clusters /\ chain[k] # 0
      BY <1>1 DEF Given, DataClusters, Clusters
    <3>1. CASE k \in B
      <4>1. ~Pending(k)'
        BY <1>11, <3>1 DEF Pending
      <4>2. Pending(k)
        BY <1>1, <1>7, <1>10, <3>0, <3>1 DEF Pending
      <4>3. writes[chain[k]] = 0
        BY <1>1, <4>2 DEF ImportInv
      <4> QED
        BY <1>9, <1>10, <3>1, <4>1, <4>3
    <3>2. CASE k \notin B
      <4>1. Pending(k)' <=> Pending(k)
        BY <1>1, <1>11, <3>2 DEF Pending
      <4>2. \A j \in B : chain[j] # chain[k]
        BY <1>1, <1>13, <3>2 DEF Given
      <4>3. disk'[chain[k]] = disk[chain[k]] /\ writes'[chain[k]] = writes[chain[k]]
        BY <1>9, <1>10, <3>0, <4>2
      <4> QED
        BY <1>1, <4>1, <4>3 DEF ImportInv
    <3> QED
      BY <3>1, <3>2
  <2>5. \A cl \in Clusters : (\A k \in Positions : chain[k] # cl) => writes'[cl] = 0
    BY <1>1, <1>9, <1>10, <1>13 DEF ImportInv
  <2> QED
    BY <1>1, <1>2, <1>3, <1>9, <1>12, <2>1, <2>2, <2>3, <2>4, <2>5, PartsStay
    DEF ImportInv
<1> QED
  BY <1>1, <1>2, <1>9, <1>14, ImportFrame

LEMMA PassAloneStep == ASSUME FileInv, PassAlone PROVE FileInv'
<1>1. pc = "runs" /\ pc' = "runs" /\ Importing /\ TypeOK /\ Given /\ ImportInv
  BY DEF PassAlone, FileInv, TypeOK, Importing
<1>2. UNCHANGED <<array, run, disk, writes, stored, reading, pc, chain>>
  BY DEF PassAlone, stored
<1>3. Last \in Nat /\ c \in 0 .. Last /\ c' = c + 1
  BY <1>1, LastNat DEF TypeOK, ImportInv, PassAlone
<1>4. run = None
  BY <1>1, <1>3 DEF ImportInv, InRun, PassAlone
<1>5. ImportInv'
  <2>1. \A k \in Positions : Pending(k)' <=> Pending(k)
    BY <1>1, <1>2 DEF Pending
  <2>2. \A k \in Positions : k >= c + 1 => k >= c
    BY <1>3 DEF Positions
  <2> QED
    BY <1>1, <1>2, <1>3, <1>4, <2>1, <2>2, PartsStay DEF ImportInv
<1> QED
  BY <1>1, <1>2, <1>5, ImportFrame DEF TypeOK

LEMMA RunsDoneStep == ASSUME FileInv, RunsDone PROVE FileInv'
<1>1. /\ pc = "runs" /\ pc' = "singles" /\ c' = 0
      /\ Importing /\ TypeOK /\ Given /\ ImportInv
  BY DEF RunsDone, FileInv, TypeOK, Importing
<1>2. UNCHANGED <<array, run, disk, writes, stored, reading, chain>>
  BY DEF RunsDone, stored
<1>3. Last \in Nat
  BY <1>1, LastNat DEF TypeOK
<1>4. ImportInv'
  <2>1. \A k \in Positions : Pending(k)' <=> Pending(k)
    BY <1>1, <1>2 DEF Pending, Positions
  <2> QED
    BY <1>1, <1>2, <1>3, <2>1, PartsStay DEF ImportInv
<1> QED
  BY <1>1, <1>2, <1>4, ImportFrame DEF TypeOK

LEMMA WriteSingleStep == ASSUME FileInv, WriteSingle PROVE FileInv'
<1>1. pc = "singles" /\ pc' = "singles" /\ Importing /\ TypeOK /\ Given /\ ImportInv
  BY DEF WriteSingle, FileInv, TypeOK, Importing
<1>2. UNCHANGED <<array, run, stored, reading, chain>>
  BY DEF WriteSingle, stored
<1>3. Last \in Nat /\ c \in 0 .. Last /\ c \in Positions /\ c' = c + 1
  BY <1>1, LastNat DEF TypeOK, ImportInv, WriteSingle, Positions
<1>4. array[c] = chain[c] /\ chain[c] \in Nat
  BY <1>1, <1>3 DEF ImportInv, WriteSingle, Given, DataClusters
<1>5. \A j \in c .. (c + 1 - 1) : j = c
  BY <1>3
<1>6. /\ disk' \in [Clusters -> [Offsets -> Nat]]
      /\ writes' \in [Clusters -> Nat]
      /\ \A j \in c .. (c + 1 - 1) :
           /\ disk'[chain[j]] = Part(j)
           /\ writes'[chain[j]] = writes[chain[j]] + 1
      /\ \A cl \in Clusters :
           (\A j \in c .. (c + 1 - 1) : chain[j] # cl) =>
             disk'[cl] = disk[cl] /\ writes'[cl] = writes[cl]
  <2>1. \A j \in c .. (c + 1 - 1) : chain[j] = chain[c] + (j - c)
    BY <1>3, <1>4, <1>5
  <2>2. WriteBlock(c, 1) /\ writes \in [Clusters -> Nat] /\ c + 1 <= Last + 1
    BY <1>1, <1>3 DEF WriteSingle, ImportInv
  <2> QED
    BY <1>1, <1>3, <1>4, <2>1, <2>2, BlockWritten
<1>7. /\ disk'[chain[c]] = Part(c) /\ writes'[chain[c]] = writes[chain[c]] + 1
      /\ \A cl \in Clusters : cl # chain[c] =>
           disk'[cl] = disk[cl] /\ writes'[cl] = writes[cl]
  <2>1. c \in c .. (c + 1 - 1)
    BY <1>3
  <2> QED
    BY <1>5, <1>6, <2>1
<1>8. PICK q : q = c
  OBVIOUS
<1>9. ImportInv'
  <2>1. ASSUME NEW k \in Positions
        PROVE  IF Pending(k)' THEN writes'[chain[k]] = 0
               ELSE disk'[chain[k]] = Part(k) /\ writes'[chain[k]] = 1
    <3>1. CASE k = q
      <4>1. Pending(k)
        BY <1>1, <1>3, <1>8, <3>1 DEF Pending, WriteSingle
      <4>2. ~Pending(k)'
        BY <1>1, <1>3, <1>8, <3>1 DEF Pending
      <4>3. writes[chain[k]] = 0
        BY <1>1, <4>1 DEF ImportInv
      <4> QED
        BY <1>7, <1>8, <3>1, <4>2, <4>3
    <3>2. CASE k # q
      <4>1. Pending(k)' <=> Pending(k)
        BY <1>1, <1>2, <1>3, <1>8, <3>2 DEF Pending, Positions
      <4>2. chain[k] # chain[c] /\ chain[k] \in Clusters
        BY <1>1, <1>3, <1>8, <3>2 DEF Given, DataClusters, Clusters
      <4> QED
        BY <1>1, <1>7, <4>1, <4>2 DEF ImportInv
    <3> QED
      BY <3>1, <3>2
  <2>2. \A cl \in Clusters : (\A k \in Positions : chain[k] # cl) => writes'[cl] = 0
    BY <1>1, <1>3, <1>7 DEF ImportInv
  <2>3. c + 1 \in 0 .. (Last + 1)
    BY <1>3
  <2>4. writes' \in [Clusters -> Nat]
    BY <1>6
  <2>5. \A k \in Positions : array[k] # 0 => array[k] = chain[k]
    BY <1>1 DEF ImportInv
  <2>6. array \in [Positions -> {0} \cup DataClusters]
    BY <1>1 DEF ImportInv
  <2> QED
    BY <1>1, <1>2, <1>3, <2>1, <2>2, <2>3, <2>4, <2>5, <2>6, PartsStay
    DEF ImportInv
<1> QED
  BY <1>1, <1>2, <1>6, <1>9, ImportFrame

LEMMA PassWrittenStep == ASSUME FileInv, PassWritten PROVE FileInv'
<1>1. pc = "singles" /\ pc' = "singles" /\ Importing /\ TypeOK /\ Given /\ ImportInv
  BY DEF PassWritten, FileInv, TypeOK, Importing
<1>2. UNCHANGED <<array, run, disk, writes, stored, reading, chain>>
  BY DEF PassWritten, stored
<1>3. Last \in Nat /\ c \in 0 .. Last /\ c' = c + 1 /\ array[c] = 0
  BY <1>1, LastNat DEF TypeOK, ImportInv, PassWritten
<1>4. ImportInv'
  <2>1. \A k \in Positions : Pending(k)' <=> Pending(k)
    BY <1>1, <1>2, <1>3 DEF Pending, Positions
  <2> QED
    BY <1>1, <1>2, <1>3, <2>1, PartsStay DEF ImportInv
<1> QED
  BY <1>1, <1>2, <1>4, ImportFrame DEF TypeOK

LEMMA SinglesDoneStep == ASSUME FileInv, SinglesDone PROVE FileInv'
<1>1. /\ pc = "singles" /\ pc' = "stored" /\ c' = 0 /\ c > Last
      /\ Importing /\ TypeOK /\ Given /\ ImportInv
  BY DEF SinglesDone, FileInv, TypeOK, Importing
<1>2. UNCHANGED <<array, run, disk, writes, stored, reading, chain>>
  BY DEF SinglesDone, stored
<1>3. Last \in Nat /\ c \in Nat
  BY <1>1, LastNat DEF TypeOK, ImportInv
<1>4. ImportInv'
  <2>1. \A k \in Positions : ~Pending(k)' /\ ~Pending(k)
    BY <1>1, <1>3 DEF Pending, Positions
  <2> QED
    BY <1>1, <1>2, <1>3, <2>1, PartsStay DEF ImportInv
<1> QED
  BY <1>1, <1>2, <1>4, ImportFrame DEF TypeOK
----------------------------------------------------------------------------
(* The steps of a reader.                                                  *)

\* What was imported stays as it is.
LEMMA ReadFrame ==
  ASSUME FileInv, ~Importing, ~Importing', UNCHANGED <<importing, stored, reader>>
  PROVE  imported' = imported /\ (imported => Given' /\ ImportInv')
<1> SUFFICES ASSUME imported
             PROVE  Given' /\ ImportInv'
  BY DEF stored
<1>1. Given /\ ImportInv
  BY DEF FileInv
<1>2. Given'
  BY <1>1 DEF Given, stored, Positions, Last
<1>3. \A k \in Positions : ~Pending(k) /\ ~Pending(k)'
  BY DEF Pending, Importing
<1>4. pc # "runs" /\ pc' # "runs"
  BY DEF Importing
<1>5. UNCHANGED <<array, writes, c, disk, chain>>
  BY DEF importing, stored
<1>6. Last' = Last /\ Positions' = Positions /\ \A k : Part(k)' = Part(k)
  BY PartsStay
<1>7. ImportInv'
  BY <1>1, <1>3, <1>4, <1>5, <1>6 DEF ImportInv
<1> QED
  BY <1>2, <1>7

\* The cluster being read, and what is delivered of it.
LEMMA DeliveredType ==
  ASSUME TypeOK, ~EndChain(cur), ~TooLong
  PROVE  /\ cur \in Clusters /\ cur \in Entries
         /\ left \in Nat
         /\ Delivered \in Seq(Nat)
         /\ Len(Delivered) = Smaller(left, SectorsPerCluster)
         /\ \A i \in 1 .. Len(Delivered) : Delivered[i] = disk[cur][i - 1]
<1>1. cur \in Clusters /\ cur \in Entries
  BY DEF TypeOK, EndChain, Clusters, Entries, EOC
<1>2. left \in Nat
  BY DEF TypeOK, TooLong
<1>3. PICK n : n = Smaller(left, SectorsPerCluster) /\ n \in Nat
               /\ n <= SectorsPerCluster
  BY <1>2 DEF Smaller
<1>4. \A i \in 1 .. n : disk[cur][i - 1] \in Nat
  <2> TAKE i \in 1 .. n
  <2>1. i - 1 \in Offsets
    BY <1>3 DEF Offsets
  <2> QED
    BY <1>1, <2>1 DEF TypeOK
<1>5. Delivered = [i \in 1 .. n |-> disk[cur][i - 1]]
  BY <1>3 DEF Delivered
<1>6. PICK D : D = [i \in 1 .. n |-> disk[cur][i - 1]]
  OBVIOUS
<1>7. D \in Seq(Nat) /\ Len(D) = n
  BY <1>3, <1>4, <1>6
<1> QED
  BY <1>1, <1>2, <1>3, <1>5, <1>6, <1>7

LEMMA StartReadingStep == ASSUME FileInv, StartReading PROVE FileInv'
<1>1. /\ pc = "stored" /\ pc' \in {"read", "nothing"} /\ TypeOK /\ Counted
      /\ cur' = first /\ left' = size
      /\ UNCHANGED <<importing, stored, reader, out, blank>>
  BY DEF StartReading, FileInv
<1>2. UNCHANGED <<disk, fat, first, size, imported, file, chain>>
  BY <1>1 DEF importing, stored
<1>3. TypeOK'
  BY <1>1, <1>2 DEF TypeOK, Importing, Ended, DataClusters, EOC
<1>4. Counted'
  <2>1. out' = <<>> /\ Len(out') = 0
    BY <1>1 DEF Counted
  <2>2. left' >= 0 /\ size' - left' = 0 /\ left' <= size'
    BY <1>1, <1>2 DEF TypeOK
  <2>3. pc' = "nothing" => reader # "extract" /\ first = 0
    BY DEF StartReading
  <2> QED
    BY <1>1, <1>2, <2>1, <2>2, <2>3 DEF Counted
<1>5. imported' = imported /\ (imported => Given' /\ ImportInv')
  BY <1>1, ReadFrame DEF Importing
<1>6. ASSUME imported, pc' = "read"
      PROVE  ReadSoFar(0)' /\ 0 \in 0 .. (Last' + 1)
  <2>1. Last \in Nat /\ Last' = Last
    BY <1>1, <1>2, LastNat, PartsStay DEF TypeOK
  <2>2. out' = <<>> /\ 1 .. Len(out') = {} /\ 0 .. (0 - 1) = {}
    BY <1>1 DEF Counted
  <2>3. cur' = chain[0]
    BY <1>1, <1>6 DEF FileInv, Given
  <2>4. left' = size' - 0 * SectorsPerCluster
    BY <1>1, <1>2 DEF TypeOK
  <2> QED
    BY <1>2, <2>1, <2>2, <2>3, <2>4 DEF ReadSoFar
<1>7. imported => ReadInv'
  BY <1>1, <1>6 DEF ReadInv
<1> QED
  BY <1>3, <1>4, <1>5, <1>7 DEF FileInv

\* Reading ends with the table and what was delivered as they are.
LEMMA StopStep ==
  ASSUME FileInv, pc = "read", UNCHANGED <<importing, stored, reading>>,
         \/ pc' \in {"error", "died", "io"}
         \/ pc' = "ok" /\ left <= 0 /\ EndChain(cur)
  PROVE  FileInv'
<1>1. TypeOK /\ Counted
  BY DEF FileInv
<1>2. UNCHANGED <<disk, fat, first, size, imported, file, chain>>
  BY DEF importing, stored
<1>3. UNCHANGED <<reader, cur, left, out, blank>>
  BY DEF reading
<1>4. TypeOK'
  BY <1>1, <1>2, <1>3 DEF TypeOK, Importing, Ended
<1>5. Counted'
  BY <1>1, <1>2, <1>3 DEF Counted
<1>6. imported' = imported /\ (imported => Given' /\ ImportInv')
  BY <1>3, ReadFrame DEF Importing
<1>7. imported => ReadInv'
  <2> SUFFICES ASSUME imported
               PROVE  ReadInv'
    OBVIOUS
  <2>1. PICK k \in 0 .. (Last + 1) : ReadSoFar(k)
    BY DEF FileInv, ReadInv
  <2>2. ReadSoFar(k)'
    BY <1>2, <1>3, <2>1, PartsStay DEF ReadSoFar
  <2> QED
    BY <2>1, <2>2, PartsStay DEF ReadInv
<1> QED
  BY <1>4, <1>5, <1>6, <1>7 DEF FileInv
\* The next cluster of an imported file holds its next part, of which as much
\* is delivered as the file has left.
LEMMA NextPart ==
  ASSUME FileInv, imported, pc = "read", ~EndChain(cur), ~TooLong,
         NEW k \in 0 .. (Last + 1), ReadSoFar(k)
  PROVE  /\ k \in Positions /\ k + 1 \in 0 .. (Last + 1)
         /\ disk[cur] = Part(k)
         /\ fat[cur] = IF k + 1 <= Last THEN chain[k + 1] ELSE EOC
         /\ left - SectorsPerCluster = size - (k + 1) * SectorsPerCluster
         /\ \A i \in Offsets : i < left => Part(k)[i] = file[(size - left) + i]
         /\ \A i \in Offsets : i >= left => Part(k)[i] = 0
<1>0. TypeOK /\ Given /\ ImportInv /\ Last \in Nat /\ k \in Nat
  BY LastNat DEF FileInv, TypeOK
<1>1. cur \in Clusters /\ left \in Nat /\ size \in Nat
  BY <1>0, DeliveredType DEF TypeOK
<1>2. k <= Last
  BY <1>0, <1>1 DEF ReadSoFar, EOC, Clusters
<1>3. k \in Positions /\ k + 1 \in 0 .. (Last + 1)
  BY <1>0, <1>2 DEF Positions
<1>4. cur = chain[k]
  BY <1>2 DEF ReadSoFar
<1>5. disk[cur] = Part(k)
  <2>1. ~Pending(k)
    BY DEF Pending
  <2> QED
    BY <1>0, <1>3, <1>4, <2>1 DEF ImportInv
<1>6. fat[cur] = IF k + 1 <= Last THEN chain[k + 1] ELSE EOC
  <2>1. PICK n : n = Last + 1 /\ n \in Nat \ {0} /\ 0 .. (n - 1) = Positions
    BY <1>0 DEF Positions
  <2>2. Linked(chain)[chain[k]] = IF k < n - 1 THEN chain[k + 1] ELSE EOC
    BY <1>0, <1>3, <2>1, LinkedNext DEF Given
  <2>3. k < n - 1 <=> k + 1 <= Last
    BY <1>0, <2>1
  <2> QED
    BY <1>0, <1>4, <2>2, <2>3 DEF Given
<1>7. PICK K \in Nat : K = k * SectorsPerCluster
  BY <1>0
<1>8. (k + 1) * SectorsPerCluster = K + SectorsPerCluster /\ left = size - K
  BY <1>0, <1>7, NextMultiple DEF ReadSoFar
<1>9. left - SectorsPerCluster = size - (k + 1) * SectorsPerCluster
  BY <1>1, <1>7, <1>8
<1>10. \A i \in Offsets : Part(k)[i] = IF K + i < size THEN file[K + i] ELSE 0
  BY <1>7 DEF Part
<1>11. \A i \in Offsets : (K + i < size <=> i < left) /\ K + i = (size - left) + i
  BY <1>1, <1>7, <1>8 DEF Offsets
<1>12. \A i \in Offsets : i >= left => ~(i < left)
  BY <1>1 DEF Offsets
<1> QED
  BY <1>3, <1>5, <1>6, <1>9, <1>10, <1>11, <1>12

\* What is delivered comes after what was.
LEMMA Appending ==
  ASSUME NEW s \in Seq(Nat), NEW t \in Seq(Nat)
  PROVE  /\ s \o t \in Seq(Nat) /\ Len(s \o t) = Len(s) + Len(t)
         /\ Len(s) \in Nat /\ Len(t) \in Nat
         /\ \A i \in 1 .. Len(s) : (s \o t)[i] = s[i]
         /\ \A i \in 1 .. Len(t) : (s \o t)[Len(s) + i] = t[i]
<1>1. s \o t \in Seq(Nat) /\ Len(s \o t) = Len(s) + Len(t)
  OBVIOUS
<1>2. Len(s) \in Nat /\ Len(t) \in Nat
  OBVIOUS
<1>3. \A i \in 1 .. Len(s) : (s \o t)[i] = s[i]
  OBVIOUS
<1>4. \A i \in 1 .. Len(t) : (s \o t)[Len(s) + i] = t[i]
  <2> TAKE i \in 1 .. Len(t)
  <2>1. PICK m : m = Len(s) + i
    OBVIOUS
  <2>2. m \in 1 .. (Len(s) + Len(t)) /\ ~(m <= Len(s)) /\ m - Len(s) = i
    BY <1>2, <2>1
  <2>3. (s \o t)[m] = t[m - Len(s)]
    BY <1>2, <2>2
  <2> QED
    BY <2>1, <2>2, <2>3
<1> QED
  BY <1>1, <1>2, <1>3, <1>4

LEMMA ReadClusterStep == ASSUME FileInv, ReadCluster PROVE FileInv'
<1>1. /\ pc = "read" /\ ~EndChain(cur) /\ ~TooLong /\ TypeOK /\ Counted
      /\ pc' \in {"read", "error"}
      /\ left' = left - SectorsPerCluster
      /\ UNCHANGED <<importing, stored, reader>>
  BY DEF ReadCluster, FileInv, Consumed
<1>2. UNCHANGED <<disk, fat, first, size, imported, file, chain, reader>>
  BY <1>1 DEF importing, stored
<1>3. PICK D : D = Delivered
  OBVIOUS
<1>4. /\ cur \in Clusters /\ cur \in Entries /\ left \in Nat
      /\ D \in Seq(Nat) /\ Len(D) = Smaller(left, SectorsPerCluster)
      /\ \A i \in 1 .. Len(D) : D[i] = disk[cur][i - 1]
  BY <1>1, <1>3, DeliveredType
<1>5. out' = IF Skipped THEN out ELSE out \o D
  BY <1>3 DEF ReadCluster
<1>6. out \in Seq(Nat) /\ size \in Nat
  BY <1>1 DEF TypeOK
<1>7. /\ out \o D \in Seq(Nat) /\ Len(out \o D) = Len(out) + Len(D)
      /\ Len(out) \in Nat /\ Len(D) \in Nat
      /\ \A i \in 1 .. Len(out) : (out \o D)[i] = out[i]
      /\ \A i \in 1 .. Len(D) : (out \o D)[Len(out) + i] = D[i]
  BY <1>4, <1>6, Appending
<1>8. TypeOK'
  <2>1. cur' \in 0 .. EOC
    BY <1>1, <1>4 DEF TypeOK, ReadCluster
  <2>2. left' \in Int
    BY <1>1, <1>4
  <2>3. out' \in Seq(Nat)
    BY <1>5, <1>6, <1>7
  <2>4. blank' \in BOOLEAN
    BY DEF ReadCluster
  <2> QED
    BY <1>1, <1>2, <2>1, <2>2, <2>3, <2>4 DEF TypeOK, Importing, Ended
<1>9. Counted'
  <2>1. Len(out) <= size - left
    BY <1>1, <1>4 DEF Counted
  <2>2. reader # "hexdump" => Len(out) = size - left /\ ~Skipped
    BY <1>1, <1>4 DEF Counted, Skipped
  <2>3. left <= size
    BY <1>1 DEF Counted
  <2>4. Len(out) + Len(D) <= (size - left) + Smaller(left, SectorsPerCluster)
    BY <1>4, <1>6, <1>7, <2>1
  <2>5. (size - left) + Smaller(left, SectorsPerCluster) =
          IF left - SectorsPerCluster >= 0 THEN size - (left - SectorsPerCluster)
                                           ELSE size
    BY <1>4, <1>6 DEF Smaller
  <2>6. Len(out') <= Len(out) + Len(D)
    BY <1>5, <1>7
  <2>7. Len(out') <= IF left' >= 0 THEN size - left' ELSE size
    <3>1. Len(out') \in Nat
      BY <1>8 DEF TypeOK
    <3>2. PICK x : x = Len(out) + Len(D) /\ x \in Nat
      BY <1>7
    <3>3. PICK y : /\ y = (size - left) + Smaller(left, SectorsPerCluster)
                   /\ y \in Int
      BY <1>4, <1>6 DEF Smaller
    <3>4. Len(out') <= y
      BY <2>4, <2>6, <3>1, <3>2, <3>3
    <3> QED
      BY <1>1, <2>5, <3>3, <3>4
  <2>8. reader # "hexdump" =>
          Len(out') = IF left' >= 0 THEN size - left' ELSE size
    BY <1>1, <1>4, <1>5, <1>7, <2>2, <2>5
  <2>9. left' <= size
    BY <1>1, <1>4, <1>6, <2>3
  <2> QED
    BY <1>1, <1>2, <2>7, <2>8, <2>9 DEF Counted
<1>10. imported' = imported /\ (imported => Given' /\ ImportInv')
  BY <1>1, ReadFrame DEF Importing
<1>11. ASSUME imported, pc' = "read"
       PROVE  ReadInv'
  <2>1. PICK k \in 0 .. (Last + 1) : ReadSoFar(k)
    BY <1>1, <1>11 DEF FileInv, ReadInv
  <2>2. /\ k \in Positions /\ k + 1 \in 0 .. (Last + 1)
        /\ disk[cur] = Part(k)
        /\ fat[cur] = IF k + 1 <= Last THEN chain[k + 1] ELSE EOC
        /\ left - SectorsPerCluster = size - (k + 1) * SectorsPerCluster
        /\ \A i \in Offsets : i < left => Part(k)[i] = file[(size - left) + i]
        /\ \A i \in Offsets : i >= left => Part(k)[i] = 0
    BY <1>1, <1>11, <2>1, NextPart
  <2>3. cur' = IF k + 1 <= Last THEN chain[k + 1] ELSE EOC
    BY <1>1, <1>11, <2>2 DEF ReadCluster
  <2>4. ASSUME NEW i \in 1 .. Len(D)
        PROVE  /\ i - 1 \in Offsets /\ i - 1 < left /\ i \in Nat
               /\ D[i] = Part(k)[i - 1]
    BY <1>4, <1>7, <2>2 DEF Smaller, Offsets
  <2>5. ASSUME reader # "hexdump", NEW i \in 1 .. Len(out')
        PROVE  out'[i] = file[i - 1]
    <3>1. out' = out \o D /\ Len(out) = size - left
      BY <1>1, <1>4, <1>5, <2>5 DEF Skipped, Counted
    <3>2. CASE i \in 1 .. Len(out)
      BY <1>7, <2>1, <2>5, <3>1, <3>2 DEF ReadSoFar
    <3>3. CASE i \notin 1 .. Len(out)
      <4>1. PICK m : m = i - Len(out)
        OBVIOUS
      <4>2. m \in 1 .. Len(D) /\ i = Len(out) + m
        BY <1>7, <3>1, <3>3, <4>1
      <4>3. out'[i] = D[m]
        BY <1>7, <3>1, <4>2
      <4>4. D[m] = file[(size - left) + (m - 1)]
        BY <2>2, <2>4, <4>2
      <4>5. (size - left) + (m - 1) = i - 1
        BY <1>4, <1>6, <2>4, <3>1, <4>2
      <4> QED
        BY <4>3, <4>4, <4>5
    <3> QED
      BY <3>2, <3>3
  <2>6. ASSUME reader = "hexdump", NEW j \in 0 .. k, Part(j)[0] # 0,
               NEW i \in Offsets, Part(j)[i] # 0
        PROVE  \E m \in 1 .. Len(out') : out'[m] = Part(j)[i]
    <3>1. CASE j # k
      <4>1. j \in 0 .. (k - 1)
        BY <2>1, <2>2, <3>1 DEF Positions
      <4>2. PICK m \in 1 .. Len(out) : out[m] = Part(j)[i]
        BY <2>1, <2>6, <4>1 DEF ReadSoFar
      <4>3. m \in 1 .. Len(out') /\ out'[m] = out[m]
        BY <1>5, <1>7
      <4> QED
        BY <4>2, <4>3
    <3>2. CASE j = k
      <4>1. out' = out \o D
        BY <1>5, <2>2, <2>6, <3>2 DEF Skipped
      <4>2. i < left /\ i \in Nat
        BY <1>4, <2>2, <2>6, <3>2 DEF Offsets
      <4>3. i + 1 \in 1 .. Len(D) /\ (i + 1) - 1 = i
        BY <1>4, <4>2 DEF Smaller, Offsets
      <4>4. D[i + 1] = Part(k)[i]
        BY <2>4, <4>3
      <4>5. PICK m : m = Len(out) + (i + 1)
        OBVIOUS
      <4>6. m \in 1 .. Len(out') /\ out'[m] = D[i + 1]
        BY <1>7, <4>1, <4>3, <4>5
      <4> QED
        BY <3>2, <4>4, <4>6
    <3> QED
      BY <3>1, <3>2
  <2>7. (k + 1) - 1 = k
    BY <2>1
  <2>8. ReadSoFar(k + 1)'
    BY <1>1, <1>2, <2>2, <2>3, <2>5, <2>6, <2>7, PartsStay DEF ReadSoFar
  <2> QED
    BY <1>1, <2>2, <2>8, PartsStay DEF ReadInv
<1>12. imported => ReadInv'
  <2>1. pc' # "read" => ReadInv'
    BY <1>1 DEF ReadInv
  <2> QED
    BY <1>11, <2>1
<1> QED
  BY <1>8, <1>9, <1>10, <1>12 DEF FileInv

----------------------------------------------------------------------------
(* The theorems.                                                           *)

\* What file_import and the readers rely on holds at every step.
THEOREM FileInvariance == Spec => []FileInv
<1>1. Init => FileInv
  BY ImportStarts, ForeignStarts DEF Init
<1>2. FileInv /\ [Next]_vars => FileInv'
  <2> SUFFICES ASSUME FileInv, [Next]_vars
               PROVE  FileInv'
    OBVIOUS
  <2>1. CASE ExtendRun
    BY <2>1, ExtendRunStep
  <2>2. CASE WriteRun
    BY <2>2, WriteRunStep
  <2>3. CASE PassAlone
    BY <2>3, PassAloneStep
  <2>4. CASE RunsDone
    BY <2>4, RunsDoneStep
  <2>5. CASE WriteSingle
    BY <2>5, WriteSingleStep
  <2>6. CASE PassWritten
    BY <2>6, PassWrittenStep
  <2>7. CASE SinglesDone
    BY <2>7, SinglesDoneStep
  <2>8. CASE StartReading
    BY <2>8, StartReadingStep
  <2>9. CASE ReadCluster
    BY <2>9, ReadClusterStep
  <2>10. CASE ChainTooLong
    BY <2>10, StopStep DEF ChainTooLong
  <2>11. CASE ReadFails
    BY <2>11, StopStep DEF ReadFails
  <2>12. CASE ChainEnds
    <3>1. left > 0 \/ left <= 0
      BY DEF FileInv, TypeOK
    <3> QED
      BY <2>12, <3>1, StopStep DEF ChainEnds
  <2>13. CASE UNCHANGED vars
    <3>1. /\ UNCHANGED <<file, chain, array, c, run, disk, writes, fat, first>>
          /\ UNCHANGED <<size, imported, pc, reader, cur, left, out, blank, stored>>
      BY <2>13 DEF vars, importing, stored, reading
    <3>2. TypeOK' /\ Counted'
      BY <3>1 DEF FileInv, TypeOK, Counted, Importing
    <3>3. Last' = Last /\ Positions' = Positions /\ \A k : Part(k)' = Part(k)
      BY <3>1, PartsStay
    <3>4. Given => Given'
      BY <3>1, <3>3 DEF Given
    <3>5. \A k : Pending(k)' <=> Pending(k)
      BY <3>1 DEF Pending
    <3>6. InRun => InRun'
      BY <3>1, <3>3 DEF InRun
    <3>7. ImportInv => ImportInv'
      BY <3>1, <3>3, <3>5, <3>6 DEF ImportInv
    <3>8. \A k : ReadSoFar(k) => ReadSoFar(k)'
      BY <3>1, <3>3 DEF ReadSoFar
    <3>9. ReadInv => ReadInv'
      BY <3>1, <3>3, <3>8 DEF ReadInv
    <3> QED
      BY <3>1, <3>2, <3>4, <3>7, <3>9 DEF FileInv
  <2> QED
    BY <2>1, <2>2, <2>3, <2>4, <2>5, <2>6, <2>7, <2>8, <2>9, <2>10, <2>11,
       <2>12, <2>13 DEF Next, Import, Read
<1> QED
  BY <1>1, <1>2, PTL DEF Spec

\* When file_import returns, each cluster of the file has been written once and
\* with its own part, and no other was, however many sectors a cluster has and
\* wherever cluster_alloc found room.
THEOREM EachClusterWrittenOnce == Spec => []WrittenOnce
<1>1. FileInv => WrittenOnce
  <2> SUFFICES ASSUME FileInv, imported, pc \notin {"runs", "singles"}
               PROVE  /\ \A k \in DOMAIN chain :
                           disk[chain[k]] = Part(k) /\ writes[chain[k]] = 1
                      /\ \A cl \in Clusters :
                           (\A k \in DOMAIN chain : chain[k] # cl) => writes[cl] = 0
    BY DEF WrittenOnce
  <2>1. DOMAIN chain = Positions /\ ImportInv
    BY DEF FileInv, Given
  <2>2. \A k \in Positions : ~Pending(k)
    BY DEF Pending
  <2> QED
    BY <2>1, <2>2 DEF ImportInv
<1> QED
  BY <1>1, FileInvariance, PTL

\* extract and cat deliver no more than the size of any file, and all of it when
\* they report success, whatever its chain is like.
THEOREM NoMoreThanItsSize == Spec => []SizeRespected
<1>1. FileInv => SizeRespected
  <2> SUFFICES ASSUME FileInv
               PROVE  SizeRespected
    OBVIOUS
  <2>1. TypeOK /\ Counted
    BY DEF FileInv
  <2>2. Len(out) \in Nat /\ size \in Nat /\ left \in Int
    BY <2>1 DEF TypeOK
  <2>3. CASE pc \in {"runs", "singles", "stored", "nothing"}
    <3>1. Len(out) = 0
      BY <2>1, <2>3 DEF Counted
    <3> QED
      BY <2>2, <2>3, <3>1 DEF SizeRespected
  <2>4. CASE pc \in {"read", "ok", "io", "error", "died"}
    <3>1. Len(out) <= size
      BY <2>1, <2>2, <2>4 DEF Counted
    <3>2. pc = "ok" /\ reader # "hexdump" => Len(out) = size
      BY <2>1, <2>2, <2>4 DEF Counted
    <3> QED
      BY <3>1, <3>2 DEF SizeRespected
  <2> QED
    BY <2>1, <2>3, <2>4 DEF TypeOK, Ended
<1> QED
  BY <1>1, FileInvariance, PTL

\* A file that fatdisk has stored comes out as it went in, whatever its length
\* and wherever its clusters are.
THEOREM StoredFilesComeOut == Spec => []ComesOutAsItWentIn
<1>1. FileInv => ComesOutAsItWentIn
  <2> SUFFICES ASSUME FileInv, imported, pc = "ok"
               PROVE  IF reader # "hexdump"
                      THEN Len(out) = size /\ \A i \in 1 .. size : out[i] = file[i - 1]
                      ELSE \A k \in DOMAIN chain : Part(k)[0] # 0 =>
                             \A i \in Offsets : Part(k)[i] # 0 =>
                               \E j \in DOMAIN out : out[j] = Part(k)[i]
    BY DEF ComesOutAsItWentIn
  <2>1. TypeOK /\ Counted /\ Given
    BY DEF FileInv
  <2>2. Last \in Nat /\ DOMAIN chain = Positions /\ DOMAIN out = 1 .. Len(out)
    BY <2>1, LastNat DEF TypeOK, Given
  <2>3. PICK k \in 0 .. (Last + 1) : ReadSoFar(k)
    BY DEF FileInv, ReadInv
  <2>4. k = Last + 1
    <3> SUFFICES ASSUME k # Last + 1
                 PROVE  FALSE
      OBVIOUS
    <3>1. k \in Positions /\ k <= Last
      BY <2>2 DEF Positions
    <3>2. cur \in DataClusters
      BY <2>1, <2>3, <3>1 DEF Given, ReadSoFar
    <3> QED
      BY <2>1, <3>2 DEF Counted, EndChain, DataClusters, EOC
  <2>5. ASSUME reader # "hexdump"
        PROVE  Len(out) = size /\ \A i \in 1 .. size : out[i] = file[i - 1]
    <3>1. Len(out) = size
      BY <2>1, <2>5 DEF Counted, TypeOK
    <3> QED
      BY <2>3, <2>5, <3>1 DEF ReadSoFar
  <2>6. 0 .. (k - 1) = Positions
    BY <2>2, <2>4 DEF Positions
  <2> QED
    BY <2>2, <2>3, <2>5, <2>6 DEF ReadSoFar
<1> QED
  BY <1>1, FileInvariance, PTL

----------------------------------------------------------------------------
(* The chain of a file that any system may have written.                   *)

Values == 0 .. EOC

\* What Along finds after d, and in one turn from the set S.
Next1(f, d) == IF EndChain(d) THEN d ELSE f[d]
Turn(f, S) == UNION {{d, Next1(f, d)} : d \in S}

\* A function that satisfies the equation Along is defined by.
IsMet(f, a, g) ==
  g = [n \in 0 .. TotalClusters |-> IF n = 0 THEN {a} ELSE Turn(f, g[n - 1])]

\* p leads from a along the table f in n turns, in some of which it may wait.
Leads(f, a, n, p) ==
  /\ p \in [0 .. n -> Values]
  /\ p[0] = a
  /\ \A i \in 0 .. (n - 1) : p[i + 1] = p[i] \/ p[i + 1] = Next1(f, p[i])

\* There is only one such function.
LEMMA AlongIs ==
  ASSUME NEW f, NEW a, NEW g, IsMet(f, a, g)
  PROVE  Along(f, a) = g[TotalClusters]
<1>1. ASSUME NEW m, IsMet(f, a, m)
      PROVE  m = g
  <2>1. /\ DOMAIN m = 0 .. TotalClusters /\ DOMAIN g = 0 .. TotalClusters
        /\ m[0] = {a} /\ g[0] = {a}
        /\ \A n \in 1 .. TotalClusters : m[n] = Turn(f, m[n - 1]) /\ g[n] = Turn(f, g[n - 1])
    <3>1. /\ DOMAIN m = 0 .. TotalClusters /\ DOMAIN g = 0 .. TotalClusters
          /\ \A n \in 0 .. TotalClusters :
               /\ m[n] = IF n = 0 THEN {a} ELSE Turn(f, m[n - 1])
               /\ g[n] = IF n = 0 THEN {a} ELSE Turn(f, g[n - 1])
      BY <1>1, Zenon DEF IsMet
    <3>2. 0 \in 0 .. TotalClusters
      OBVIOUS
    <3>3. \A n \in 1 .. TotalClusters : n \in 0 .. TotalClusters /\ n # 0
      OBVIOUS
    <3> QED
      BY <3>1, <3>2, <3>3
  <2> DEFINE Differ == {n \in 0 .. TotalClusters : m[n] # g[n]}
  <2>2. Differ = {}
    <3> SUFFICES ASSUME Differ # {} PROVE FALSE
      OBVIOUS
    <3>1. Differ \subseteq Nat
      OBVIOUS
    <3>2. PICK n \in Differ : \A k \in Differ : ~ (<<k, n>> \in OpToRel(<, Nat))
      <4> HIDE DEF Differ
      <4> QED
        BY <3>1, NatLessThanWellFounded, WFMin
    <3>3. n \in 1 .. TotalClusters /\ n - 1 \in 0 .. TotalClusters
      <4>1. n # 0 /\ n \in 0 .. TotalClusters
        BY <2>1
      <4> QED
        BY <4>1
    <3>4. n - 1 \notin Differ
      <4>1. <<n - 1, n>> \in OpToRel(<, Nat)
        BY <3>3 DEF OpToRel
      <4> QED
        BY <3>2, <4>1
    <3>5. m[n - 1] = g[n - 1]
      BY <3>3, <3>4
    <3> QED
      BY <2>1, <3>3, <3>5
  <2>3. \A n \in 0 .. TotalClusters : m[n] = g[n]
    BY <2>2
  <2>4. m = [n \in 0 .. TotalClusters |-> m[n]] /\ g = [n \in 0 .. TotalClusters |-> g[n]]
    BY <1>1 DEF IsMet
  <2> QED
    BY <2>3, <2>4
<1>2. (CHOOSE m : IsMet(f, a, m)) = g
  BY <1>1
<1>3. Along(f, a) = (CHOOSE m : IsMet(f, a, m))[TotalClusters]
  BY DEF Along, IsMet, Turn, Next1
<1> QED
  BY <1>2, <1>3

\* Following the table from a value leads to a value.
LEMMA NextIsValue ==
  ASSUME NEW f \in [Entries -> Values], NEW d \in Values
  PROVE  Next1(f, d) \in Values
BY DEF Next1, EndChain, Values, EOC, Entries

\* What is met in n turns.
LEMMA TurnsLead ==
  ASSUME NEW f \in [Entries -> Values], NEW a \in Values, NEW n \in Nat \ {0}
  PROVE  {d \in Values : \E p : Leads(f, a, n, p) /\ p[n] = d}
           = Turn(f, {d \in Values : \E p : Leads(f, a, n - 1, p) /\ p[n - 1] = d})
<1> DEFINE R == {d \in Values : \E p : Leads(f, a, n, p) /\ p[n] = d}
           Q == {d \in Values : \E p : Leads(f, a, n - 1, p) /\ p[n - 1] = d}
<1>1. PICK m \in Nat : m = n - 1 /\ n = m + 1
  <2>1. n - 1 \in Nat /\ n = (n - 1) + 1
    OBVIOUS
  <2> QED
    BY <2>1
<1>2. Q = {d \in Values : \E p : Leads(f, a, m, p) /\ p[m] = d}
  BY <1>1
<1>3. R = {d \in Values : \E p : Leads(f, a, m + 1, p) /\ p[m + 1] = d}
  BY <1>1
<1> HIDE DEF R, Q
<1>4. ASSUME NEW d \in R
      PROVE  \E b \in Q : d = b \/ d = Next1(f, b)
  <2>1. PICK p : Leads(f, a, m + 1, p) /\ p[m + 1] = d
    BY <1>3
  <2>2. PICK q : q = [i \in 0 .. m |-> p[i]]
    OBVIOUS
  <2>3. Leads(f, a, m, q) /\ q[m] = p[m] /\ p[m] \in Values
    BY <2>1, <2>2 DEF Leads
  <2>4. p[m] \in Q
    BY <1>2, <2>3
  <2>5. d = p[m] \/ d = Next1(f, p[m])
    BY <2>1 DEF Leads
  <2> QED
    BY <2>4, <2>5
<1>5. ASSUME NEW b \in Q, NEW d, d = b \/ d = Next1(f, b)
      PROVE  d \in R
  <2>1. PICK p : Leads(f, a, m, p) /\ p[m] = b
    BY <1>2
  <2>2. d \in Values
    BY <1>2, <1>5, NextIsValue
  <2>3. PICK q : q = [i \in 0 .. m + 1 |-> IF i = m + 1 THEN d ELSE p[i]]
    OBVIOUS
  <2>4. q \in [0 .. m + 1 -> Values] /\ q[0] = a
    BY <2>1, <2>2, <2>3 DEF Leads
  <2>5. ASSUME NEW i \in 0 .. (m + 1 - 1)
        PROVE  q[i + 1] = q[i] \/ q[i + 1] = Next1(f, q[i])
    <3>1. CASE i = m
      BY <1>5, <2>1, <2>3, <3>1
    <3>2. CASE i # m
      <4>1. i \in 0 .. (m - 1) /\ i + 1 # m + 1 /\ i # m + 1
            /\ i \in 0 .. m + 1 /\ i + 1 \in 0 .. m + 1
        BY <3>2
      <4>2. q[i] = p[i] /\ q[i + 1] = p[i + 1]
        BY <2>3, <4>1
      <4> QED
        BY <2>1, <4>1, <4>2 DEF Leads
    <3> QED
      BY <3>1, <3>2
  <2>6. Leads(f, a, m + 1, q) /\ q[m + 1] = d
    BY <2>3, <2>4, <2>5 DEF Leads
  <2> QED
    BY <1>3, <2>2, <2>6
<1>6. \A d : d \in Turn(f, Q) <=> \E b \in Q : d = b \/ d = Next1(f, b)
  BY DEF Turn
<1>7. R = Turn(f, Q)
  BY <1>4, <1>5, <1>6
<1> QED
  BY <1>7 DEF R, Q

\* Along finds what can be reached in as many turns as there are clusters.
LEMMA AlongLeads ==
  ASSUME NEW f \in [Entries -> Values], NEW a \in Values
  PROVE  Along(f, a) =
           {d \in Values : \E p : Leads(f, a, TotalClusters, p) /\ p[TotalClusters] = d}
<1> DEFINE T == TotalClusters
           Found(n) == {d \in Values : \E p : Leads(f, a, n, p) /\ p[n] = d}
           g == [n \in 0 .. T |-> Found(n)]
<1>1. Found(0) = {a}
  <2>1. Leads(f, a, 0, [i \in 0 .. 0 |-> a])
    BY DEF Leads
  <2>2. \A p : Leads(f, a, 0, p) => p[0] = a
    BY DEF Leads
  <2>3. [i \in 0 .. 0 |-> a][0] = a
    OBVIOUS
  <2> QED
    BY <2>1, <2>2, <2>3
<1>2. \A n \in 0 .. T : Found(n) = IF n = 0 THEN {a} ELSE Turn(f, g[n - 1])
  <2> SUFFICES ASSUME NEW n \in 0 .. T, n # 0
               PROVE  Found(n) = Turn(f, g[n - 1])
    BY <1>1
  <2>1. n \in Nat \ {0} /\ n - 1 \in 0 .. T
    OBVIOUS
  <2>2. g[n - 1] = Found(n - 1)
    BY <2>1
  <2>3. Found(n) = Turn(f, Found(n - 1))
    BY <2>1, TurnsLead
  <2> HIDE DEF g, Found
  <2> QED
    BY <2>2, <2>3
<1>3. g = [n \in 0 .. T |-> IF n = 0 THEN {a} ELSE Turn(f, g[n - 1])]
  <2> HIDE DEF Found
  <2> QED
    BY <1>2, Zenon
<1>4. IsMet(f, a, g)
  BY <1>3, Zenon DEF IsMet
<1>5. g[T] = Found(T)
  OBVIOUS
<1> HIDE DEF g
<1> QED
  BY <1>4, <1>5, AlongIs

\* p leads to the end mark, and nothing does so in fewer turns.
Shortest(f, a, n, p) ==
  /\ Leads(f, a, n, p) /\ p[n] = EOC
  /\ \A k \in 0 .. (n - 1) : \A q : Leads(f, a, k, q) => q[k] # EOC

\* Then it does not wait, and meets no cluster twice.
LEMMA ShortestIsChain ==
  ASSUME NEW f \in [Entries -> Values], NEW a \in DataClusters,
         NEW n \in Nat, NEW p, Shortest(f, a, n, p)
  PROVE  /\ \A i, j \in 0 .. n : p[i] = p[j] => i = j
         /\ \A i \in 0 .. (n - 1) :
              ~EndChain(p[i]) /\ p[i] \in Entries /\ p[i + 1] = f[p[i]] /\ f[p[i]] # 0
<1>1. /\ p \in [0 .. n -> Values] /\ p[0] = a /\ p[n] = EOC
      /\ \A i \in 0 .. (n - 1) : p[i + 1] = p[i] \/ p[i + 1] = Next1(f, p[i])
  BY DEF Shortest, Leads
<1>2. ASSUME NEW i \in 0 .. (n - 1)
      PROVE  p[i] # EOC
  <2>1. PICK q : q = [k \in 0 .. i |-> p[k]]
    OBVIOUS
  <2>2. \A k \in 0 .. i : k \in 0 .. n /\ q[k] = p[k]
    BY <2>1
  <2>3. q \in [0 .. i -> Values]
    BY <1>1, <2>1, <2>2
  <2>4. 0 \in 0 .. i /\ i \in 0 .. i
    OBVIOUS
  <2>5. \A k \in 0 .. (i - 1) : q[k + 1] = q[k] \/ q[k + 1] = Next1(f, q[k])
    <3> TAKE k \in 0 .. (i - 1)
    <3>1. k \in 0 .. i /\ k + 1 \in 0 .. i /\ k \in 0 .. (n - 1)
      OBVIOUS
    <3> QED
      BY <1>1, <2>2, <3>1
  <2>6. Leads(f, a, i, q) /\ q[i] = p[i]
    BY <1>1, <2>2, <2>3, <2>4, <2>5 DEF Leads
  <2> QED
    BY <2>6 DEF Shortest
<1>3. ASSUME NEW i \in 0 .. n, NEW j \in 0 .. n, i < j
      PROVE  p[i] # p[j]
  <2>1. CASE j = n
    BY <1>1, <1>2, <1>3, <2>1
  <2>2. CASE j # n
    <3> SUFFICES ASSUME p[i] = p[j] PROVE FALSE
      OBVIOUS
    <3>1. PICK d \in Nat, m \in Nat : d = j - i /\ d > 0 /\ m = n - d /\ m > i /\ m < n
      <4>1. j - i \in Nat /\ j - i > 0 /\ n - (j - i) \in Nat /\ n - (j - i) > i
            /\ n - (j - i) < n
        BY <1>3, <2>2
      <4> QED
        BY <4>1
    <3>2. PICK q : q = [k \in 0 .. m |-> IF k <= i THEN p[k] ELSE p[k + d]]
      OBVIOUS
    <3>3. q \in [0 .. m -> Values] /\ q[0] = a /\ q[m] = EOC
      <4>1. \A k \in 0 .. m : k \in 0 .. n /\ k + d \in 0 .. n
        BY <3>1
      <4>2. m + d = n /\ ~(m <= i) /\ 0 <= i
        BY <3>1
      <4>3. q \in [0 .. m -> Values]
        BY <1>1, <3>2, <4>1
      <4>4. 0 \in 0 .. m /\ m \in 0 .. m
        OBVIOUS
      <4>5. q[0] = p[0] /\ q[m] = p[m + d]
        BY <3>2, <4>2, <4>4
      <4> QED
        BY <1>1, <4>2, <4>3, <4>5
    <3>4. ASSUME NEW k \in 0 .. (m - 1)
          PROVE  q[k + 1] = q[k] \/ q[k + 1] = Next1(f, q[k])
      <4>1. /\ k \in 0 .. m /\ k + 1 \in 0 .. m /\ k \in 0 .. (n - 1)
            /\ k + d \in 0 .. (n - 1) /\ k + 1 + d = (k + d) + 1
        BY <3>1
      <4>2. CASE k + 1 <= i
        BY <1>1, <3>2, <4>1, <4>2
      <4>3. CASE k = i
        <5>1. q[k] = p[k + d] /\ q[k + 1] = p[(k + d) + 1]
          BY <3>1, <3>2, <4>1, <4>3
        <5> QED
          BY <1>1, <4>1, <5>1
      <4>4. CASE k > i
        <5>1. q[k] = p[k + d] /\ q[k + 1] = p[(k + d) + 1]
          BY <3>2, <4>1, <4>4
        <5> QED
          BY <1>1, <4>1, <5>1
      <4> QED
        BY <4>2, <4>3, <4>4
    <3>5. Leads(f, a, m, q)
      BY <3>3, <3>4 DEF Leads
    <3> QED
      BY <3>1, <3>3, <3>5 DEF Shortest
  <2> QED
    BY <2>1, <2>2
<1>4. \A i, j \in 0 .. n : p[i] = p[j] => i = j
  <2> TAKE i, j \in 0 .. n
  <2>1. i < j \/ j < i \/ i = j
    OBVIOUS
  <2> QED
    BY <1>3, <2>1
<1>5. ASSUME NEW i \in 0 .. (n - 1)
      PROVE  ~EndChain(p[i]) /\ p[i] \in Entries /\ p[i + 1] = f[p[i]]
  <2>1. i \in 0 .. n /\ i + 1 \in 0 .. n /\ i # i + 1
    OBVIOUS
  <2>2. p[i + 1] # p[i]
    BY <1>4, <2>1
  <2>3. p[i + 1] = Next1(f, p[i])
    BY <1>1, <2>2
  <2>4. ~EndChain(p[i]) /\ p[i + 1] = f[p[i]]
    BY <2>2, <2>3 DEF Next1
  <2>5. p[i] \in Values
    BY <1>1, <2>1
  <2> QED
    BY <2>4, <2>5 DEF EndChain, Entries, Values, EOC
<1>6. ASSUME NEW i \in 0 .. (n - 1)
      PROVE  f[p[i]] # 0
  <2>1. PICK h \in 0 .. n : h = i + 1
    OBVIOUS
  <2>2. p[h] = f[p[i]]
    BY <1>5, <2>1
  <2>3. CASE h = n
    BY <1>1, <2>2, <2>3 DEF EOC
  <2>4. CASE h # n
    <3>1. ~EndChain(p[h])
      BY <1>5, <2>4
    <3> QED
      BY <2>2, <3>1 DEF EndChain
  <2> QED
    BY <2>3, <2>4
<1> QED
  BY <1>4, <1>5, <1>6

\* A path through the table from a, one cluster after the other, to the end
\* mark.
OnPath(f, a, n, p) ==
  /\ p[0] = a /\ p[n] = EOC
  /\ \A i \in 0 .. (n - 1) :
       ~EndChain(p[i]) /\ p[i] \in Entries /\ p[i + 1] = f[p[i]] /\ f[p[i]] # 0

\* A path that starts on a chain stays on it.
LEMMA StaysOnChain ==
  ASSUME NEW f \in [Entries -> Values], NEW a,
         NEW n \in Nat, NEW p, OnPath(f, a, n, p),
         NEW m \in Nat, NEW q, Leads(f, a, m, q)
  PROVE  \E i \in 0 .. n : q[m] = p[i]
<1>0. /\ p[0] = a /\ p[n] = EOC
      /\ \A i \in 0 .. (n - 1) : ~EndChain(p[i]) /\ p[i + 1] = f[p[i]]
  BY DEF OnPath
<1> DEFINE Off == {k \in 0 .. m : \A i \in 0 .. n : q[k] # p[i]}
<1>1. Off = {}
  <2> SUFFICES ASSUME Off # {} PROVE FALSE
    OBVIOUS
  <2>1. Off \subseteq Nat
    OBVIOUS
  <2>2. PICK k \in Off : \A h \in Off : ~ (<<h, k>> \in OpToRel(<, Nat))
    <3> HIDE DEF Off
    <3> QED
      BY <2>1, NatLessThanWellFounded, WFMin
  <2>3. k # 0
    <3>1. q[0] = p[0] /\ 0 \in 0 .. n
      BY <1>0 DEF Leads
    <3> QED
      BY <3>1
  <2>4. k - 1 \in 0 .. (m - 1) /\ k - 1 \in 0 .. m /\ (k - 1) + 1 = k
    BY <2>3
  <2>5. k - 1 \notin Off
    <3>1. <<k - 1, k>> \in OpToRel(<, Nat)
      BY <2>4 DEF OpToRel
    <3> QED
      BY <2>2, <3>1
  <2>6. PICK i \in 0 .. n : q[k - 1] = p[i]
    BY <2>4, <2>5
  <2>7. q[k] = p[i] \/ q[k] = Next1(f, p[i])
    BY <2>4, <2>6 DEF Leads
  <2>8. CASE i = n
    <3>1. Next1(f, p[i]) = p[i]
      BY <1>0, <2>8 DEF Next1, EndChain, EOC
    <3> QED
      BY <2>7, <3>1
  <2>9. CASE i # n
    <3>1. i \in 0 .. (n - 1) /\ i + 1 \in 0 .. n
      BY <2>9
    <3>2. Next1(f, p[i]) = p[i + 1]
      BY <1>0, <3>1 DEF Next1
    <3> QED
      BY <2>7, <3>1, <3>2
  <2> QED
    BY <2>8, <2>9
<1>2. m \in 0 .. m
  OBVIOUS
<1> QED
  BY <1>1, <1>2

\* The path from a to the end mark, if there is one, goes through the clusters
\* of the chain and through each of them once.
LEMMA ChainIsPath ==
  ASSUME NEW f \in [Entries -> Values], NEW a \in DataClusters, Terminated(f, a)
  PROVE  \E p : OnPath(f, a, Cardinality(Chain(f, a)), p)
                /\ Cardinality(Chain(f, a)) \in Nat
<1> DEFINE T == TotalClusters
<1>1. a \in Values /\ EOC \in Values /\ T \in Nat
  BY DEF DataClusters, Values, EOC
<1>2. PICK r : Leads(f, a, T, r) /\ r[T] = EOC
  BY <1>1, AlongLeads DEF Terminated
<1> DEFINE Ends == {k \in Nat : \E q : Leads(f, a, k, q) /\ q[k] = EOC}
<1>3. PICK n \in Ends : \A k \in Ends : ~ (<<k, n>> \in OpToRel(<, Nat))
  <2>1. Ends \subseteq Nat /\ Ends # {}
    BY <1>1, <1>2
  <2> HIDE DEF Ends
  <2> QED
    BY <2>1, NatLessThanWellFounded, WFMin
<1>4. \A k \in Ends : ~(k < n)
  BY <1>3 DEF OpToRel
<1>5. n \in Nat /\ n <= T
  BY <1>1, <1>2, <1>4
<1>6. PICK p : Leads(f, a, n, p) /\ p[n] = EOC
  BY <1>3
<1>7. Shortest(f, a, n, p)
  BY <1>4, <1>5, <1>6 DEF Shortest
<1>8. /\ \A i, j \in 0 .. n : p[i] = p[j] => i = j
      /\ OnPath(f, a, n, p)
  BY <1>5, <1>6, <1>7, ShortestIsChain DEF OnPath, Leads
<1> DEFINE P == 0 .. (n - 1)
           C == {p[i] : i \in P}
<1>9. \A i \in P : p[i] \in Chain(f, a)
  <2> TAKE i \in P
  <2>1. PICK q : q = [k \in 0 .. T |-> IF k <= i THEN p[k] ELSE p[i]]
    OBVIOUS
  <2>2. q \in [0 .. T -> Values] /\ q[0] = a /\ q[T] = p[i] /\ p[i] \in Values
    <3>1. \A k \in 0 .. T : k <= i => k \in 0 .. n
      BY <1>5
    <3>2. i \in 0 .. n /\ 0 <= i /\ ~(T <= i)
      BY <1>5
    <3> QED
      BY <1>1, <1>6, <2>1, <3>1, <3>2 DEF Leads
  <2>3. ASSUME NEW k \in 0 .. (T - 1)
        PROVE  q[k + 1] = q[k] \/ q[k + 1] = Next1(f, q[k])
    <3>1. k \in 0 .. T /\ k + 1 \in 0 .. T
      OBVIOUS
    <3>2. CASE k + 1 <= i
      <4>1. k \in 0 .. (n - 1) /\ k <= i
        BY <1>5, <3>2
      <4>2. q[k + 1] = p[k + 1] /\ q[k] = p[k]
        BY <2>1, <3>1, <3>2, <4>1
      <4> QED
        BY <1>6, <4>1, <4>2 DEF Leads
    <3>3. CASE k = i
      BY <2>1, <3>1, <3>3
    <3>4. CASE k > i
      BY <2>1, <3>1, <3>4
    <3> QED
      BY <1>1, <3>2, <3>3, <3>4
  <2>4. Leads(f, a, T, q)
    BY <2>2, <2>3 DEF Leads
  <2>5. p[i] \in Along(f, a)
    BY <1>1, <2>2, <2>4, AlongLeads
  <2> QED
    BY <1>8, <2>5 DEF Chain, OnPath
<1>10. ASSUME NEW d \in Chain(f, a)
       PROVE  d \in C
  <2>1. PICK q : Leads(f, a, T, q) /\ q[T] = d
    BY <1>1, AlongLeads DEF Chain
  <2>2. PICK i \in 0 .. n : q[T] = p[i]
    <3> HIDE DEF C, P, Ends
    <3>1. OnPath(f, a, n, p) /\ n \in Nat /\ T \in Nat /\ Leads(f, a, T, q)
      BY <1>1, <1>5, <1>8, <2>1
    <3> HIDE DEF T
    <3> QED
      BY <3>1, StaysOnChain
  <2>3. i # n
    <3>1. EndChain(EOC)
      BY DEF EndChain, EOC
    <3> QED
      BY <1>6, <2>1, <2>2, <3>1 DEF Chain
  <2> QED
    BY <1>5, <2>1, <2>2, <2>3
<1>11. Chain(f, a) = C
  BY <1>9, <1>10
<1>12. Cardinality(C) = n
  <2> DEFINE b == [i \in P |-> p[i]]
  <2>1. b \in Bijection(P, C)
    <3>1. b \in [P -> C] /\ \A x \in C : \E i \in P : b[i] = x
      OBVIOUS
    <3>2. \A i, j \in P : b[i] = b[j] => i = j
      BY <1>5, <1>8
    <3> HIDE DEF b, C, P
    <3> QED
      BY <3>1, <3>2 DEF Bijection, Injection, Surjection, IsInjective
  <2>2. IsFiniteSet(P) /\ Cardinality(P) = n
    <3>1. Cardinality(0 .. (n - 1)) = IF 0 > n - 1 THEN 0 ELSE n - 1 - 0 + 1
      BY <1>5, FS_Interval
    <3>2. IsFiniteSet(0 .. (n - 1))
      BY <1>5, FS_Interval
    <3> QED
      BY <1>5, <3>1, <3>2
  <2> HIDE DEF b, P, C
  <2> QED
    BY <2>1, <2>2, FS_Bijection DEF ExistsBijection
<1> HIDE DEF C
<1> QED
  BY <1>5, <1>8, <1>11, <1>12

----------------------------------------------------------------------------
(* Reading a file whose chain is as long as its size says.                 *)

Undamaged ==
  /\ Terminated(fat, first)
  /\ Cardinality(Chain(fat, first)) = ClusterCount(size)

\* k clusters of the chain have been read.
AtCluster(p, k) ==
  /\ k \in 0 .. ClusterCount(size)
  /\ cur = p[k]
  /\ left = size - k * SectorsPerCluster

OnChain ==
  pc = "read" /\ Undamaged =>
    \E p : OnPath(fat, first, ClusterCount(size), p) /\ \E k \in Nat : AtCluster(p, k)

DamageInv == FileInv /\ OnChain /\ OnlyDamagedFilesFail

\* The clusters of a file hold it, and all but the last are full.
LEMMA CountIsEnough ==
  ASSUME NEW n \in Nat
  PROVE  /\ n <= ClusterCount(n) * SectorsPerCluster
         /\ \A k \in Nat : k < ClusterCount(n) => k * SectorsPerCluster <= n
<1> DEFINE S == SectorsPerCluster
           q == (n + S - 1) \div S
<1>1. q \in Nat /\ q * S <= n + S - 1 /\ n + S - 1 < q * S + S
  <2>1. n + S - 1 \in Nat
    OBVIOUS
  <2> QED
    BY <2>1, SMT
<1>2. q * S \in Nat
  BY <1>1, NextMultiple
<1> HIDE DEF q
<1>3. n <= q * S
  BY <1>1, <1>2
<1>4. ASSUME NEW k \in Nat, k < q
      PROVE  k * S <= n
  <2>1. PICK d \in Nat : q = k + 1 + d
    <3>1. q - k - 1 \in Nat /\ q = k + 1 + (q - k - 1)
      BY <1>1, <1>4
    <3> QED
      BY <3>1
  <2>2. d * S \in Nat /\ k * S \in Int
    OBVIOUS
  <2>3. q * S = k * S + S + d * S
    BY <2>1, NextMultiple, SumMultiple
  <2> QED
    BY <1>1, <1>2, <2>2, <2>3
<1>5. CASE q = 0
  <2>1. ClusterCount(n) = 1
    BY <1>5 DEF ClusterCount, q
  <2>2. n = 0
    BY <1>3, <1>5
  <2> QED
    BY <2>1, <2>2
<1>6. CASE q # 0
  <2>1. ClusterCount(n) = q
    BY <1>6 DEF ClusterCount, q
  <2> QED
    BY <1>3, <1>4, <2>1
<1> QED
  BY <1>5, <1>6

\* A path from the first cluster of an undamaged file.
LEMMA UndamagedPath ==
  ASSUME TypeOK, Undamaged
  PROVE  \E p : OnPath(fat, first, ClusterCount(size), p)
<1>1. fat \in [Entries -> Values] /\ first \in {0} \cup DataClusters
  BY DEF TypeOK, Values
<1>2. first # 0
  <2> SUFFICES ASSUME first = 0 PROVE FALSE
    OBVIOUS
  <2>1. 0 \in Values /\ EOC # 0 /\ EndChain(0) /\ TotalClusters \in Nat
    BY DEF Values, EOC, EndChain
  <2>2. PICK q : Leads(fat, 0, TotalClusters, q) /\ q[TotalClusters] = EOC
    BY <1>1, <2>1, AlongLeads DEF Undamaged, Terminated
  <2> DEFINE Off == {k \in 0 .. TotalClusters : q[k] # 0}
  <2>3. Off \subseteq Nat /\ Off # {}
    BY <2>1, <2>2
  <2>4. PICK k \in Off : \A h \in Off : ~ (<<h, k>> \in OpToRel(<, Nat))
    <3> HIDE DEF Off
    <3> QED
      BY <2>3, NatLessThanWellFounded, WFMin
  <2>5. k # 0
    BY <2>2 DEF Leads
  <2>6. /\ k - 1 \in 0 .. (TotalClusters - 1) /\ k - 1 \in 0 .. TotalClusters
        /\ (k - 1) + 1 = k
    BY <2>5
  <2>7. q[k - 1] = 0
    <3>1. <<k - 1, k>> \in OpToRel(<, Nat)
      BY <2>6 DEF OpToRel
    <3> QED
      BY <2>4, <2>6, <3>1
  <2>8. q[k] = 0
    BY <2>1, <2>2, <2>6, <2>7 DEF Leads, Next1
  <2> QED
    BY <2>8
<1> QED
  BY <1>1, <1>2, ChainIsPath DEF Undamaged

\* Where a reader of an undamaged file is: at a cluster of its chain, with some
\* of the size left for it, or at the end mark, with nothing left.
LEMMA WhereTheReaderIs ==
  ASSUME TypeOK, NEW p, OnPath(fat, first, ClusterCount(size), p),
         NEW k \in Nat, AtCluster(p, k)
  PROVE  /\ EndChain(cur) => left <= 0
         /\ ~EndChain(cur) =>
              /\ k < ClusterCount(size) /\ left >= 0 /\ fat[cur] # 0
              /\ fat[cur] = p[k + 1]
<1>1. size \in Nat /\ ClusterCount(size) \in Nat \ {0}
  BY SomeClusters DEF TypeOK
<1>2. PICK n \in Nat : n = ClusterCount(size)
  BY <1>1
<1>3. left = size - k * SectorsPerCluster /\ k * SectorsPerCluster \in Int
  BY NextMultiple DEF AtCluster
<1>4. CASE k = n
  <2>1. cur = EOC /\ EndChain(EOC)
    BY <1>2, <1>4 DEF AtCluster, OnPath, EndChain, EOC
  <2>2. size <= k * SectorsPerCluster
    BY <1>1, <1>2, <1>4, CountIsEnough
  <2> QED
    BY <1>1, <1>3, <2>1, <2>2
<1>5. CASE k # n
  <2>1. k \in 0 .. (n - 1)
    BY <1>2, <1>5 DEF AtCluster
  <2>2. ~EndChain(cur) /\ fat[cur] # 0 /\ fat[cur] = p[k + 1]
    BY <1>2, <2>1 DEF AtCluster, OnPath
  <2>3. k * SectorsPerCluster <= size
    BY <1>1, <1>2, <2>1, CountIsEnough
  <2> QED
    BY <1>1, <1>2, <1>3, <2>1, <2>2, <2>3
<1> QED
  BY <1>4, <1>5

\* The readers do not touch the table or the entry.
LEMMA DamageStays ==
  ASSUME UNCHANGED <<fat, first, size>>
  PROVE  /\ Undamaged' <=> Undamaged
         /\ ClusterCount(size)' = ClusterCount(size)
BY DEF Undamaged

LEMMA StartOnChain ==
  ASSUME DamageInv, StartReading
  PROVE  OnChain'
<1> SUFFICES ASSUME Undamaged', pc' = "read"
             PROVE  OnChain'
  BY DEF OnChain
<1>1. /\ UNCHANGED <<fat, first, size>> /\ cur' = first /\ left' = size
      /\ TypeOK
  BY DEF StartReading, stored, DamageInv, FileInv
<1>2. Undamaged
  BY <1>1, DamageStays
<1>3. PICK p : OnPath(fat, first, ClusterCount(size), p)
  BY <1>1, <1>2, UndamagedPath
<1>4. ClusterCount(size) \in Nat \ {0} /\ size \in Nat
  BY <1>1, SomeClusters DEF TypeOK
<1>5. AtCluster(p, 0)'
  <2>1. 0 \in 0 .. ClusterCount(size) /\ p[0] = first
    BY <1>3, <1>4 DEF OnPath
  <2>2. left' = size' - 0 * SectorsPerCluster
    BY <1>1, <1>4
  <2> QED
    BY <1>1, <2>1, <2>2, DamageStays DEF AtCluster
<1>6. OnPath(fat, first, ClusterCount(size), p)'
  BY <1>1, <1>3, DamageStays
<1> QED
  BY <1>5, <1>6 DEF OnChain

LEMMA ReadOnChain ==
  ASSUME DamageInv, ReadCluster
  PROVE  OnChain' /\ OnlyDamagedFilesFail'
<1>1. /\ pc = "read" /\ ~EndChain(cur) /\ ~TooLong /\ TypeOK
      /\ UNCHANGED <<fat, first, size, reader>>
      /\ left' = left - SectorsPerCluster
      /\ IF Broken THEN pc' = "error" /\ cur' = cur ELSE pc' = "read" /\ cur' = fat[cur]
  BY DEF ReadCluster, stored, DamageInv, FileInv, Consumed
<1> SUFFICES ASSUME Undamaged
             PROVE  pc' = "read" /\ OnChain'
  BY <1>1, DamageStays DEF OnChain, OnlyDamagedFilesFail, Undamaged
<1>2a. PICK p : OnPath(fat, first, ClusterCount(size), p) /\ \E k \in Nat : AtCluster(p, k)
  BY <1>1 DEF DamageInv, OnChain
<1>2. PICK k \in Nat : OnPath(fat, first, ClusterCount(size), p) /\ AtCluster(p, k)
  BY <1>2a
<1>3. k < ClusterCount(size) /\ fat[cur] # 0 /\ fat[cur] = p[k + 1]
  BY <1>1, <1>2, WhereTheReaderIs
<1>4. pc' = "read" /\ cur' = p[k + 1]
  BY <1>1, <1>3 DEF Broken
<1>5. PICK h \in Nat : h = k + 1
  OBVIOUS
<1>6. AtCluster(p, h)'
  <2>1. h \in 0 .. ClusterCount(size)
    BY <1>1, <1>3, <1>5, SomeClusters DEF TypeOK
  <2>2. left' = size - h * SectorsPerCluster
    <3>1. left = size - k * SectorsPerCluster /\ size \in Nat
      BY <1>1, <1>2 DEF AtCluster, TypeOK
    <3>2. h * SectorsPerCluster = k * SectorsPerCluster + SectorsPerCluster
          /\ k * SectorsPerCluster \in Int
      BY <1>5, NextMultiple
    <3> QED
      BY <1>1, <3>1, <3>2
  <2> QED
    BY <1>1, <1>4, <1>5, <2>1, <2>2, DamageStays DEF AtCluster
<1>7. OnPath(fat, first, ClusterCount(size), p)'
  BY <1>1, <1>2, DamageStays
<1> QED
  BY <1>4, <1>6, <1>7 DEF OnChain

\* Nobody complains of a file whose chain is as long as its size says, whatever
\* else the table holds, however long the file is, and whoever wrote it.
THEOREM OnlyDamageIsReported == Spec => []OnlyDamagedFilesFail
<1>1. FileInv /\ Init => DamageInv
  BY DEF Init, InitImport, InitForeign, DamageInv, OnChain, OnlyDamagedFilesFail
<1>2. DamageInv /\ FileInv' /\ [Next]_vars => DamageInv'
  <2> SUFFICES ASSUME DamageInv, FileInv', [Next]_vars
               PROVE  OnChain' /\ OnlyDamagedFilesFail'
    BY DEF DamageInv
  <2>1. TypeOK /\ OnChain /\ OnlyDamagedFilesFail
    BY DEF DamageInv, FileInv
  <2>2. CASE Import
    <3>1. pc' \in {"runs", "singles", "stored"}
      BY <2>2 DEF Import, ExtendRun, WriteRun, PassAlone, RunsDone, WriteSingle,
         PassWritten, SinglesDone
    <3> QED
      BY <3>1 DEF OnChain, OnlyDamagedFilesFail
  <2>3. CASE StartReading
    <3>1. pc' \in {"read", "nothing"}
      BY <2>3 DEF StartReading
    <3> QED
      BY <2>3, <3>1, StartOnChain DEF OnlyDamagedFilesFail
  <2>4. CASE ReadCluster
    BY <2>4, ReadOnChain
  <2>5. CASE ChainTooLong \/ ReadFails \/ ChainEnds
    <3>1. /\ pc = "read" /\ pc' \in {"died", "error", "io", "ok"}
          /\ UNCHANGED <<fat, first, size>>
      BY <2>5 DEF ChainTooLong, ReadFails, ChainEnds, stored
    <3>2. ASSUME pc' \in {"died", "error"}, Undamaged
          PROVE  FALSE
      <4>3. PICK p : OnPath(fat, first, ClusterCount(size), p)
                     /\ \E k \in Nat : AtCluster(p, k)
        BY <2>1, <3>1, <3>2 DEF OnChain
      <4>1. PICK k \in Nat :
              OnPath(fat, first, ClusterCount(size), p) /\ AtCluster(p, k)
        BY <4>3
      <4>2. ~(~EndChain(cur) /\ TooLong) /\ ~(EndChain(cur) /\ left > 0)
        <5>1. left \in Int
          BY <2>1 DEF TypeOK
        <5> QED
          BY <2>1, <4>1, <5>1, WhereTheReaderIs DEF TooLong
      <4> QED
        BY <2>5, <3>2, <4>2 DEF ChainTooLong, ReadFails, ChainEnds
    <3> QED
      BY <3>1, <3>2, DamageStays DEF OnChain, OnlyDamagedFilesFail, Undamaged
  <2>6. CASE UNCHANGED vars
    <3>1. UNCHANGED <<fat, first, size, pc, cur, left>>
      BY <2>6 DEF vars, stored, reading
    <3> QED
      BY <2>1, <3>1, DamageStays DEF OnChain, OnlyDamagedFilesFail, Undamaged, AtCluster
  <2> QED
    BY <2>2, <2>3, <2>4, <2>5, <2>6 DEF Next, Read
<1>3. DamageInv => OnlyDamagedFilesFail
  BY DEF DamageInv
<1> QED
  BY <1>1, <1>2, <1>3, FileInvariance, PTL DEF Spec
=============================================================================
