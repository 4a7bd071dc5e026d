------------------------- MODULE SectorCacheProofs -------------------------
(***************************************************************************)
(* Proofs about SectorCache, for every number of sectors and whatever they *)
(* hold.  IInv is inductive; one lemma per action.                         *)
(***************************************************************************)
EXTENDS SectorCache, TLAPS

USE LastSectorAssumption

\* A new process, whose cache is empty, satisfies the invariant.
LEMMA InitIInv == Init => IInv
BY DEF Init, IInv, TypeOK, NothingSkipped, Coherent, OnlyDirsCached, WriteInv,
       Empty, Sectors, Commands

\* Reading keeps it: what is added to the cache is what is on the disk, and add
\* reads directories only.
LEMMA ReadIInv ==
  ASSUME IInv, NEW s \in Sectors, NEW e \in Sectors, Read(s, e)
  PROVE  IInv'
<1> USE DEF Read, writing, Sectors
<1>1. TypeOK'
  BY DEF IInv, TypeOK
<1>2. NothingSkipped'
  BY DEF IInv, NothingSkipped
<1>3. Coherent'
  BY DEF IInv, Coherent
<1>4. OnlyDirsCached'
  BY DEF IInv, OnlyDirsCached, Readable
<1>5. WriteInv'
  BY DEF IInv, WriteInv
<1> QED BY <1>1, <1>2, <1>3, <1>4, <1>5 DEF IInv

\* The start of a write to directories keeps it.
LEMMA WriteStartIInv ==
  ASSUME IInv, NEW s \in Sectors, NEW e \in Sectors, pc = "idle", WriteStart(s, e),
         command # "show", use' \in [Sectors -> {"free", "dir", "file"}],
         \A i \in s .. e : use'[i] = "dir",
         \A i \in Sectors : use[i] = "dir" => use'[i] = "dir"
  PROVE  IInv'
<1> USE DEF WriteStart, Sectors
<1>1. TypeOK'
  BY DEF IInv, TypeOK
<1>2. NothingSkipped'
  BY DEF IInv, NothingSkipped
<1>3. Coherent'
  BY DEF IInv, Coherent
<1>4. OnlyDirsCached'
  BY DEF IInv, OnlyDirsCached, TypeOK
<1>5. WriteInv'
  BY DEF IInv, WriteInv
<1> QED BY <1>1, <1>2, <1>3, <1>4, <1>5 DEF IInv

\* A step of sector_write keeps it: a sector that is skipped is on the disk
\* already, because the sector is not one whose write has failed.
LEMMA WriteSectorIInv ==
  ASSUME IInv, NEW written \in BOOLEAN, WriteSector(written)
  PROVE  IInv'
<1> USE DEF WriteSector
<1>1. at \in Sectors /\ at \in DOMAIN data /\ data[at] \in Data
  BY DEF IInv, TypeOK
<1>2. Unchanged => disk[at] = data[at]
  BY <1>1 DEF IInv, Coherent, Unchanged, TypeOK
<1>3. TypeOK'
  <2>1. disk' \in [Sectors -> Data] /\ latest' \in [Sectors -> Data]
    BY <1>1 DEF IInv, TypeOK
  <2>2. DOMAIN cache' \subseteq Sectors /\ \A s \in DOMAIN cache' : cache'[s] \in Data
    BY <1>1 DEF IInv, TypeOK
  <2>3. DOMAIN data' \subseteq Sectors /\ \A s \in DOMAIN data' : data'[s] \in Data
    BY DEF IInv, TypeOK, Empty
  <2>4. at' \in Nat /\ pc' \in {"idle", "write", "dead"} /\ ok' \in BOOLEAN
    BY DEF IInv, TypeOK
  <2>5. pc' = "write" => at' \in DOMAIN data'
    OBVIOUS
  <2> QED BY <2>1, <2>2, <2>3, <2>4, <2>5 DEF IInv, TypeOK
<1>4. NothingSkipped'
  BY <1>1, <1>2 DEF IInv, NothingSkipped, TypeOK
<1>5. Coherent'
  <2> SUFFICES ASSUME NEW s \in DOMAIN cache', cache'[s] # disk'[s], pc' # "dead"
               PROVE  pc' = "write" /\ ~ok' /\ s < at'
    BY DEF Coherent
  <2>1. ~ok' /\ s < at'
    <3>1. CASE s = at
      BY <3>1, <1>1, <1>2 DEF IInv, TypeOK
    <3>2. CASE s # at
      <4>1. s \in DOMAIN cache /\ cache[s] # disk[s]
        BY <3>2, <1>1 DEF IInv, TypeOK
      <4>2. ~ok /\ s < at
        BY <4>1 DEF IInv, Coherent
      <4> QED BY <4>2, <4>1 DEF IInv, TypeOK, Sectors
    <3> QED BY <3>1, <3>2
  <2> QED BY <2>1
<1>6. OnlyDirsCached'
  BY <1>1 DEF IInv, OnlyDirsCached, WriteInv
<1>7. WriteInv'
  BY DEF IInv, WriteInv, Empty
<1> QED BY <1>3, <1>4, <1>5, <1>6, <1>7 DEF IInv

\* Writing a file past the cache keeps it: the sector is not cached, because
\* it was free and add has only directories in the cache.
LEMMA TakeForFileIInv ==
  ASSUME IInv, NEW s \in Sectors, TakeForFile(s)
  PROVE  IInv'
<1> USE DEF TakeForFile, writing
<1>1. s \notin DOMAIN cache
  BY DEF IInv, OnlyDirsCached
<1>2. TypeOK'
  BY DEF IInv, TypeOK
<1>3. NothingSkipped'
  BY DEF IInv, NothingSkipped, TypeOK
<1>4. Coherent'
  BY <1>1 DEF IInv, Coherent, TypeOK
<1>5. OnlyDirsCached'
  BY <1>1 DEF IInv, OnlyDirsCached, TypeOK
<1>6. WriteInv'
  BY DEF IInv, WriteInv
<1> QED BY <1>2, <1>3, <1>4, <1>5, <1>6 DEF IInv

\* Freeing keeps it: add frees files, and they are not cached.
LEMMA FreeIInv ==
  ASSUME IInv, NEW s \in Sectors, Free(s)
  PROVE  IInv'
<1> USE DEF Free, writing
<1>1. TypeOK'
  BY DEF IInv, TypeOK
<1>2. NothingSkipped' /\ Coherent'
  BY DEF IInv, NothingSkipped, Coherent
<1>3. OnlyDirsCached'
  BY DEF IInv, OnlyDirsCached, TypeOK
<1>4. WriteInv'
  BY DEF IInv, WriteInv
<1> QED BY <1>1, <1>2, <1>3, <1>4 DEF IInv

\* The end of a process keeps it: the next one starts with an empty cache.
LEMMA ExitIInv == IInv /\ Exit => IInv'
BY DEF Exit, IInv, TypeOK, NothingSkipped, Coherent, OnlyDirsCached, WriteInv,
       Empty, Commands

\* Every step keeps the invariant.
LEMMA NextIInv == IInv /\ [Next]_vars => IInv'
<1> SUFFICES ASSUME IInv, [Next]_vars PROVE IInv'
  OBVIOUS
<1>1. CASE UNCHANGED vars
  BY <1>1 DEF vars, writing, IInv, TypeOK, NothingSkipped, Coherent,
              OnlyDirsCached, WriteInv
<1>2. ASSUME NEW s \in Sectors, NEW e \in Sectors, Read(s, e) PROVE IInv'
  BY <1>2, ReadIInv
<1>3. ASSUME NEW s \in Sectors, NEW e \in Sectors, WriteDirents(s, e) PROVE IInv'
  BY <1>3, WriteStartIInv DEF WriteDirents, IInv, TypeOK
<1>4. ASSUME NEW s \in Sectors, TakeForDir(s) PROVE IInv'
  BY <1>4, WriteStartIInv DEF TakeForDir, IInv, TypeOK, Sectors
<1>5. ASSUME NEW s \in Sectors, TakeForFile(s) PROVE IInv'
  BY <1>5, TakeForFileIInv
<1>6. ASSUME NEW s \in Sectors, Free(s) PROVE IInv'
  BY <1>6, FreeIInv
<1>7. ASSUME NEW written \in BOOLEAN, WriteSector(written) PROVE IInv'
  BY <1>7, WriteSectorIInv
<1>8. CASE Exit
  BY <1>8, ExitIInv
<1> QED BY <1>1, <1>2, <1>3, <1>4, <1>5, <1>6, <1>7, <1>8 DEF Next

\* The inductive invariant holds in every reachable state.
THEOREM Invariance == Spec => []IInv
<1> QED BY InitIInv, NextIInv, PTL DEF Spec

\* No write is skipped that would have changed the disk.
THEOREM NoWriteIsSkipped == Spec => []NothingSkipped
<1>1. IInv => NothingSkipped
  BY DEF IInv
<1> QED BY <1>1, Invariance, PTL

\* What is read is what was last written.
THEOREM ReadsAreLatest == Spec => []ReadsLatest
<1>1. IInv => ReadsLatest
  BY DEF IInv, TypeOK, Coherent, NothingSkipped, ReadsLatest
<1> QED BY <1>1, Invariance, PTL
=============================================================================
