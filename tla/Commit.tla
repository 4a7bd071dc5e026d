------------------------------- MODULE Commit -------------------------------
(***************************************************************************)
(* What reaches the disk, and when.  A process reads the FAT when it opens *)
(* the disk and writes it when it closes it (disk_command_close, which the *)
(* SIGINT handler also calls); a directory's entries are written as soon   *)
(* as the walk leaves the directory; DIE exits and writes nothing more.    *)
(* The next process finds what is on the disk.                             *)
(***************************************************************************)
EXTENDS FatTable

CONSTANTS
  MaxOps,      \* bound: files and directories one process adds or removes
  DiesUpTo,    \* the runs stop at a DIE in a later one of them than this
  KillDuring   \* the activities SIGINT may interrupt

ASSUME MaxOpsAssumption == MaxOps \in Nat \ {0} /\ DiesUpTo \in Nat
ASSUME KillDuringAssumption == KillDuring \subseteq {"add", "growLink", "remove"}

VARIABLES
  disk,   \* the FAT and the directory entries on the disk
  ops,    \* how many entries the process has set out to add or remove
  killed, \* history: some process was killed
  unread  \* history: the entries whose files of the host could not be read

cvars == <<vars, disk, ops, killed, unread>>

InMemory ==
  [fat |-> fat, entries |-> entries, parent |-> parent, first |-> first,
   size |-> size]

CommitInit ==
  Init /\ disk = InMemory /\ ops = 0 /\ killed = FALSE /\ unread = {}

\* disk_command_open of the next process: everything is read from the disk,
\* and cluster_alloc starts over.
Open ==
  /\ fat' = disk'.fat
  /\ entries' = disk'.entries
  /\ parent' = disk'.parent
  /\ first' = disk'.first
  /\ size' = disk'.size
  /\ last' = 2
  /\ pc' = "idle"
  /\ obj' = Root /\ dir' = Root /\ cur' = 0 /\ new' = 0 /\ left' = 0
  /\ ops' = 0
  /\ unread' = {o \in unread \cap entries' : first'[o] = 0}

----------------------------------------------------------------------------
\* A slip: the directory is not flagged as modified.
WriteNothing == disk' = disk

\* dirents_free writes a modified directory; the FAT stays in memory.
WriteDirents == disk' = [InMemory EXCEPT !.fat = disk.fat]

StartOp ==
  /\ ops < MaxOps
  /\ ops' = ops + 1
  /\ \/ \E o \in Objects, d \in Dirs \cup {Root} : AddStart(o, d)
     \/ \E o \in Objects : RemoveStart(o)
  /\ UNCHANGED <<disk, killed, unread>>

\* The walk leaves a directory it has emptied, or ends.
LeaveDirectory ==
  /\ SweepDone \/ DirentsWrite
  /\ WriteDirents
  /\ UNCHANGED <<ops, killed, unread>>

\* file_read cannot open the file of the host that is to be added: DIE.
FileReadDies ==
  /\ pc = "alloc" /\ cur = 0 /\ obj \in Files
  /\ pc' = "dead"
  /\ UNCHANGED <<fat, last, dirents, locals>>

\* It opens the file and fails to read it: file_import returns before it has
\* allocated anything, and the walk writes the entry it has named and sized.
FileReadFails ==
  /\ pc = "alloc" /\ cur = 0 /\ obj \in Files
  /\ pc' = "write"
  /\ unread' = unread \cup {obj}
  /\ UNCHANGED <<fat, last, dirents, locals, disk, ops, killed>>

Compute ==
  /\ \/ Add \/ FileReadDies
     \/ FreeNext \/ DotDone \/ FreeDone
     \/ \E o \in Objects : SweepFile(o)
  /\ UNCHANGED <<disk, ops, killed, unread>>

\* A slip: the FAT is not written.
CloseWithoutFat ==
  /\ pc = "idle"
  /\ ops > 0
  /\ disk' = disk
  /\ Open
  /\ UNCHANGED killed

\* The command is over: the FAT is written.
Close ==
  /\ pc = "idle"
  /\ ops > 0
  /\ disk' = [disk EXCEPT !.fat = fat]
  /\ Open
  /\ UNCHANGED killed

Removing ==
  \/ pc \in {"dot", "sweep", "free"}
  \/ pc = "write" /\ obj \notin entries

\* What the process is at, as far as an interruption matters: dirents_grow
\* links a cluster to a directory before it marks it.
Doing ==
  CASE Removing -> "remove"
    [] pc = "growMark" -> "growLink"
    [] OTHER -> "add"

\* A slip: the handler also writes the entries as they stand.
KilledWritingAll ==
  /\ pc # "dead"
  /\ ops > 0
  /\ Doing \in KillDuring
  /\ disk' = InMemory
  /\ Open
  /\ killed' = TRUE

\* SIGINT: the handler closes the disk and exits.  The entries the walk has
\* changed and not written are gone.
Killed ==
  /\ pc # "dead"
  /\ ops > 0
  /\ Doing \in KillDuring
  /\ disk' = [disk EXCEPT !.fat = fat]
  /\ Open
  /\ killed' = TRUE

\* DIE exited without closing the disk.
Died ==
  /\ pc = "dead"
  /\ ops <= DiesUpTo
  /\ UNCHANGED <<disk, killed>>
  /\ Open

CommitNext ==
  \/ StartOp \/ LeaveDirectory \/ Compute \/ FileReadFails
  \/ Close \/ Killed \/ Died

CommitSpec == CommitInit /\ [][CommitNext]_cvars

----------------------------------------------------------------------------
(* Properties.                                                             *)

\* An entry without a chain, because its file could not be read.
Bare(o) == o \in unread /\ first[o] = 0

\* Whatever became of the processes before, a process finds a volume in which
\* each file that could be read has a chain of its own, of the length its entry
\* records, ending in an end mark (main.c: killed, die; command.c:
\* disk_command_close; fat.c: file_import).
FilesIntact ==
  pc = "idle" =>
    /\ \A o \in entries : Bare(o) \/ HasItsChain(o)
    /\ \A o, p \in entries :
         o # p => Chain(fat, first[o]) \cap Chain(fat, first[p]) = {}
    /\ Terminated(fat, fat[RootCluster])

\* Unless one was killed, processes hand on a volume that is as good as new:
\* all that one process relies on for its chains holds for the next, no cluster
\* is lost, and a process that died or failed to read a file has left no
\* half-written chain behind (fat.c: dirents_write, fat_write, fat_read).
HandsOn ==
  ~killed =>
    /\ IInv
    /\ \A o \in entries \cap Files : first[o] = 0 => JustNamed(o) \/ o \in unread

\* cluster_alloc never returns a cluster of a chain that some entry, or the
\* root directory, starts (fat.c, on marking a cluster as soon as it is taken:
\* "to prevent cluster alloc returning this cluster again").
NoDoubleHandout ==
  [][ImportAlloc \/ GrowAlloc =>
       /\ \A o \in entries : first[o] # 0 => new' \notin Along(fat, first[o])
       /\ new' \notin Along(fat, fat[RootCluster])]_cvars
=============================================================================
