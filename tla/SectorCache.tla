---------------------------- MODULE SectorCache ----------------------------
(***************************************************************************)
(* The cache of sectors in disk.c, with the three ways to the disk that    *)
(* the rest of fatdisk uses: sector_read and sector_write, which go        *)
(* through the cache, and sector_write_no_cache, which does not look at it.*)
(* The cache lives as long as the process, and a process runs one command: *)
(* add, rm, or one that only shows what is there (ls, cat, extract ...).   *)
(*                                                                         *)
(* A sector belongs to a directory, to a file, or to nobody.  A directory  *)
(* is read and written through the cache.  A file is written past it, by   *)
(* file_import, and read through it.  Who may take and free what, when, is *)
(* a summary of module FatTable.                                           *)
(***************************************************************************)
EXTENDS Integers, FiniteSets

CONSTANTS
  LastSector,  \* bound: sectors are 0 .. LastSector
  Data         \* what a sector may hold

ASSUME LastSectorAssumption == LastSector \in Nat

Sectors == 0 .. LastSector
Commands == {"add", "rm", "show"}

VARIABLES
  disk,      \* what is on the disk
  cache,     \* the sectors in tree_sector_cache, with what it holds for each
  use,       \* what each sector belongs to
  command,   \* the command of this process
  pc,        \* "idle", or "write" while in sector_write, or "dead"
  at,        \* the sector sector_write has come to
  data,      \* the caller's block
  ok,        \* ret of sector_write
  latest     \* history: the last thing written to each sector

writing == <<at, data, ok>>
vars == <<disk, cache, use, command, pc, writing, latest>>

TypeOK ==
  /\ disk \in [Sectors -> Data]
  /\ DOMAIN cache \subseteq Sectors
  /\ \A s \in DOMAIN cache : cache[s] \in Data
  /\ use \in [Sectors -> {"free", "dir", "file"}]
  /\ command \in Commands
  /\ pc \in {"idle", "write", "dead"}
  /\ ok \in BOOLEAN
  /\ latest \in [Sectors -> Data]
  /\ at \in Nat
  /\ DOMAIN data \subseteq Sectors
  /\ \A s \in DOMAIN data : data[s] \in Data
  /\ pc = "write" => at \in DOMAIN data

Empty == [s \in {} |-> 0]

Init ==
  /\ disk \in [Sectors -> Data]
  /\ cache = Empty
  /\ use \in [Sectors -> {"free", "dir", "file"}]
  /\ command \in Commands
  /\ pc = "idle"
  /\ at = 0 /\ data = Empty /\ ok = TRUE
  /\ latest = disk
----------------------------------------------------------------------------
\* What a command reads: show reads files too, add and rm only directories.
Readable == IF command = "show" THEN {"dir", "file"} ELSE {"dir"}

\* sector_read of the block s .. e: what the cache has comes from there, the
\* rest from the disk and into the cache.
Read(s, e) ==
  /\ pc = "idle"
  /\ s <= e
  /\ \A i \in s .. e : use[i] \in Readable
  /\ cache' = [i \in DOMAIN cache \cup (s .. e) |->
                 IF i \in DOMAIN cache THEN cache[i] ELSE disk[i]]
  /\ UNCHANGED <<disk, use, command, pc, writing, latest>>

\* sector_write is called with a new content for the block s .. e.
WriteStart(s, e) ==
  /\ s <= e
  /\ pc' = "write"
  /\ at' = s
  /\ data' \in [s .. e -> Data]
  /\ ok' = TRUE
  /\ UNCHANGED <<disk, cache, command, latest>>

WriteDirents(s, e) ==
  /\ pc = "idle"
  /\ command # "show"
  /\ \A i \in s .. e : use[i] = "dir"
  /\ WriteStart(s, e)
  /\ UNCHANGED use

\* A new directory, or the growth of one: cluster_write.
TakeForDir(s) ==
  /\ pc = "idle"
  /\ command = "add"
  /\ use[s] = "free"
  /\ use' = [use EXCEPT ![s] = "dir"]
  /\ WriteStart(s, s)

\* A slip: a cached sector is written and the cache keeps the old one.
WriteSectorUncached(written) ==
  /\ pc = "write"
  /\ at \in DOMAIN cache /\ cache[at] = data[at] => written
  /\ cache' = IF at \in DOMAIN cache THEN cache
              ELSE [i \in DOMAIN cache \cup {at} |-> IF i = at THEN data[at] ELSE cache[i]]
  /\ disk' = IF written THEN [disk EXCEPT ![at] = data[at]] ELSE disk
  /\ latest' = IF written THEN [latest EXCEPT ![at] = data[at]] ELSE latest
  /\ ok' = (ok /\ written)
  /\ at' = at + 1
  /\ IF at + 1 \in DOMAIN data THEN pc' = "write" /\ data' = data
     ELSE pc' = (IF ok' THEN "idle" ELSE "dead") /\ data' = Empty
  /\ UNCHANGED <<use, command>>

\* Nothing to write if the cache has just that; else the cache is updated and
\* the sector written, which may fail.  The callers DIE if it did.
Unchanged == at \in DOMAIN cache /\ cache[at] = data[at]

WriteSector(written) ==
  /\ pc = "write"
  /\ Unchanged => written
  /\ cache' = [i \in DOMAIN cache \cup {at} |-> IF i = at THEN data[at] ELSE cache[i]]
  /\ disk' = IF written /\ ~Unchanged THEN [disk EXCEPT ![at] = data[at]] ELSE disk
  /\ latest' = IF written THEN [latest EXCEPT ![at] = data[at]] ELSE latest
  /\ ok' = (ok /\ written)
  /\ at' = at + 1
  /\ IF at + 1 \in DOMAIN data THEN pc' = "write" /\ data' = data
     ELSE pc' = (IF ok' THEN "idle" ELSE "dead") /\ data' = Empty
  /\ UNCHANGED <<use, command>>

\* sector_write_no_cache of a file's data; file_import does not look at the
\* result.
TakeForFile(s) ==
  /\ pc = "idle"
  /\ command = "add"
  /\ use[s] = "free"
  /\ use' = [use EXCEPT ![s] = "file"]
  /\ \/ \E d \in Data : /\ disk' = [disk EXCEPT ![s] = d]
                         /\ latest' = [latest EXCEPT ![s] = d]
     \/ UNCHANGED <<disk, latest>>
  /\ UNCHANGED <<cache, command, pc, writing>>

\* A slip: what add replaces may be a directory.
FreeAny(s) ==
  /\ pc = "idle"
  /\ command # "show"
  /\ use' = [use EXCEPT ![s] = "free"]
  /\ UNCHANGED <<disk, cache, command, pc, writing, latest>>

\* rm frees files and directories.  add first removes the file it replaces,
\* and never a directory.
Free(s) ==
  /\ pc = "idle"
  /\ \/ command = "rm" /\ use[s] # "free"
     \/ command = "add" /\ use[s] = "file"
  /\ use' = [use EXCEPT ![s] = "free"]
  /\ UNCHANGED <<disk, cache, command, pc, writing, latest>>

\* sector_cache_destroy, or exit; then another process.
Exit ==
  /\ pc \in {"idle", "dead"}
  /\ cache' = Empty
  /\ command' \in Commands
  /\ pc' = "idle" /\ at' = 0 /\ ok' = TRUE
  /\ UNCHANGED <<disk, use, data, latest>>

Next ==
  \/ \E s, e \in Sectors : Read(s, e) \/ WriteDirents(s, e)
  \/ \E s \in Sectors : TakeForDir(s) \/ TakeForFile(s) \/ Free(s)
  \/ \E written \in BOOLEAN : WriteSector(written)
  \/ Exit

Spec == Init /\ [][Next]_vars

----------------------------------------------------------------------------
(* Properties.                                                             *)

\* Every sector on the disk is what was last written there, through the cache
\* or past it: a write that is skipped because the cache shows no change is
\* one that would have changed nothing (disk.c: sector_write).
NothingSkipped == \A s \in Sectors : disk[s] = latest[s]

\* What sector_read returns is what was last written, though files are written
\* past the cache, sectors go from one use to another, and a write may fail.
ReadsLatest ==
  pc = "idle" => \A s \in DOMAIN cache : cache[s] = latest[s]

----------------------------------------------------------------------------
(* The inductive invariant.                                                *)

\* The cache is ahead of the disk only where a write in progress has failed,
\* and then fatdisk dies before it looks again.
Coherent ==
  \A s \in DOMAIN cache :
    cache[s] # disk[s] => \/ pc = "dead"
                          \/ pc = "write" /\ ~ok /\ s < at

\* An add never has in its cache a sector that it could write past it.
OnlyDirsCached ==
  command = "add" => \A s \in DOMAIN cache : use[s] = "dir"

WriteInv ==
  pc = "write" =>
    /\ command # "show"
    /\ \A s \in DOMAIN data : use[s] = "dir"

IInv == TypeOK /\ NothingSkipped /\ Coherent /\ OnlyDirsCached /\ WriteInv
=============================================================================
