------------------------------ MODULE Dirents ------------------------------
(***************************************************************************)
(* One directory as an array of slots.  A name takes a run of slots: the   *)
(* fragments of its long (VFAT) name, the last fragment first, and then    *)
(* its short entry.  fatdisk looks for a run of free slots, grows the      *)
(* directory if there is none, and on removal gives the slots back by      *)
(* counting fragments backwards from the short entry.                      *)
(*                                                                         *)
(* The clusters of the directory and of its files are FatTable's.          *)
(***************************************************************************)
EXTENDS Integers, FiniteSets, Sequences

CONSTANTS
  Names,         \* what files in the directory can be called
  Fragments,     \* vfat_fragments(name); 0 for a name only DOS has written
  Trailing,      \* the names whose last fragment is nothing but blanks
  ClusterSlots,  \* number of dirents in a cluster
  MaxSlots       \* bound: no addition to a directory of more slots

ASSUME FragmentsAssumption == Fragments \in [Names -> Nat]
ASSUME TrailingAssumption ==
  Trailing \subseteq {n \in Names : Fragments[n] > 1}
\* A cluster has room for any name: 21 slots for 255 characters.  With clusters
\* of 16 slots the search would run out of the directory.
ASSUME ClusterSlotsAssumption ==
  ClusterSlots \in Nat /\ \A n \in Names : Fragments[n] + 1 <= ClusterSlots
ASSUME MaxSlotsAssumption == MaxSlots \in Nat

VARIABLES
  slots,     \* dirents->dirents
  present,   \* history: the names that should be in the directory
  request,   \* what rm matches, or what is added
  d,         \* the slot the walk is at
  vfat,      \* vfat_filename, as a sequence of fragments
  pc         \* "idle", "rm", "add"

vars == <<slots, present, request, d, vfat, pc>>

----------------------------------------------------------------------------
(* Slots.                                                                  *)

Zero == [kind |-> "zero"]         \* name[0] is 0
Deleted == [kind |-> "deleted"]   \* name[0] is FAT_FILE_DELETE_CHAR
Frag(n, k) == [kind |-> "frag", name |-> n, order |-> k]
Short(n) == [kind |-> "short", name |-> n]

SlotValues ==
  {Zero, Deleted}
    \cup {Short(n) : n \in Names}
    \cup UNION {{Frag(n, k) : k \in 1 .. Fragments[n]} : n \in Names}

Live(s) == s.kind \in {"frag", "short"}

\* order & 0x40: the fragment that comes first in the directory.
StartsName(s) == s.order = Fragments[s.name]

\* What fatdisk writes for a name.
Written(n) ==
  [i \in 1 .. (Fragments[n] + 1) |->
     IF i <= Fragments[n] THEN Frag(n, Fragments[n] + 1 - i) ELSE Short(n)]

\* A slip: a deleted slot does not end a name that was being read.
ReadFreeKeeping(s, v) == v

\* dirent_read_name puts each fragment before what it has, and forgets what it
\* has when it meets a free slot or the first fragment of another name.
ReadFree(s, v) == <<>>

ReadName(s, v) ==
  IF ~Live(s) THEN ReadFree(s, v)
  ELSE <<[name |-> s.name, order |-> s.order]>>
         \o (IF StartsName(s) THEN <<>> ELSE v)

Long(n) == [k \in 1 .. Fragments[n] |-> [name |-> n, order |-> k]]

\* strchop.
Chopped(v) ==
  IF v # <<>> /\ \E n \in Trailing : v[Len(v)] = [name |-> n, order |-> Fragments[n]]
  THEN SubSeq(v, 1, Len(v) - 1) ELSE v

\* What is in vfat_filename when the walk comes to slot i.
VfatBefore(i) ==
  LET v[j \in 1 .. i] ==
        IF j = 1 THEN <<>>
        ELSE IF slots[j - 1].kind = "short" THEN <<>>
        ELSE ReadName(slots[j - 1], v[j - 1])
  IN  v[i]

Shorts == {i \in DOMAIN slots : slots[i].kind = "short"}

----------------------------------------------------------------------------
(* Volumes.                                                                *)

\* A fragment is followed by the rest of its name.
FollowedByRest(ss, i) ==
  LET s == ss[i]
  IN  /\ i < Len(ss)
      /\ ss[i + 1] = IF s.order = 1 THEN Short(s.name) ELSE Frag(s.name, s.order - 1)

\* What other systems leave: whole names, no name twice, and gaps anywhere.
Volumes ==
  {ss \in [1 .. ClusterSlots -> SlotValues] :
     /\ \A i \in DOMAIN ss : ss[i].kind = "frag" => FollowedByRest(ss, i)
     /\ \A i \in DOMAIN ss : ss[i].kind = "short" =>
          LET n == ss[i].name
          IN  Fragments[n] < i
              /\ SubSeq(ss, i - Fragments[n], i) = Written(n)
     /\ \A i, j \in DOMAIN ss :
          ss[i].kind = "short" /\ ss[i] = ss[j] => i = j}

Init ==
  /\ slots \in Volumes
  /\ present = {slots[i].name : i \in Shorts}
  /\ request = {} /\ d = 1 /\ vfat = <<>> /\ pc = "idle"

----------------------------------------------------------------------------
(* Adding.                                                                 *)

\* A slip: only the first slot is looked at.
InUseFirst(i, count) == Live(slots[i])

\* dirent_in_use.
InUse(i, count) == \E j \in i .. (i + count - 1) : Live(slots[j])

\* dirent_find_free_space; its loop stops one short of the last run.
FreeRuns(count) == {i \in 1 .. (Len(slots) - count) : ~InUse(i, count)}

\* A slip: the directory is not read again.
NewClusterUnread == <<>>

NewCluster == [i \in 1 .. ClusterSlots |-> Zero]

\* dirent_entry_exists is false: what is replaced was removed before.  The walk
\* comes to this after it has gone through the directory.
AddStart(n) ==
  /\ pc = "idle"
  /\ Len(slots) <= MaxSlots
  /\ n \notin present
  /\ Fragments[n] > 0
  /\ request' = {n}
  /\ present' = present \cup {n}
  /\ pc' = "add"
  /\ UNCHANGED <<slots, d, vfat>>

\* dirents_grow, and dirents_alloc again.
Grow(n) ==
  /\ pc = "add"
  /\ FreeRuns(Fragments[n] + 1) = {}
  /\ slots' = slots \o NewCluster
  /\ UNCHANGED <<present, request, d, vfat, pc>>

\* file_import, which dies if it is "overwriting an existing file".
Import(n) ==
  LET runs == FreeRuns(Fragments[n] + 1)
      at == CHOOSE i \in runs : \A j \in runs : i <= j
  IN  /\ pc = "add"
      /\ runs # {}
      /\ slots' = [i \in DOMAIN slots |->
                     IF i \in at .. (at + Fragments[n])
                     THEN Written(n)[i - at + 1] ELSE slots[i]]
      /\ request' = {}
      /\ pc' = "idle"
      /\ UNCHANGED <<present, d, vfat>>

----------------------------------------------------------------------------
(* Removing.                                                               *)

RmStart(names) ==
  /\ pc = "idle"
  /\ request' = names
  /\ present' = present \ names
  /\ d' = 1
  /\ vfat' = <<>>
  /\ pc' = "rm"
  /\ UNCHANGED slots

\* The long name counts, if there is one.
Matched(s, v) ==
  IF v = <<>> THEN s.name \in request
  ELSE \E n \in request : v = Chopped(Long(n))

\* A slip: the first fragment in the directory is forgotten.
ZappedOneLess(v) == (d - Len(v) + 1) .. d

\* dirent_remove counts vfat_fragments of the long name it has read.  It dies if
\* one of them "is not VFAT".
Zapped(v) == (d - Len(v)) .. d

PassSlot ==
  /\ pc = "rm"
  /\ d <= Len(slots)
  /\ slots[d].kind # "short"
  /\ vfat' = ReadName(slots[d], vfat)
  /\ d' = d + 1
  /\ UNCHANGED <<slots, present, request, pc>>

RemoveEntry ==
  /\ pc = "rm"
  /\ d <= Len(slots)
  /\ slots[d].kind = "short"
  /\ Matched(slots[d], Chopped(vfat))
  /\ slots' = [i \in DOMAIN slots |->
                 IF i \in Zapped(Chopped(vfat)) THEN Deleted ELSE slots[i]]
  /\ vfat' = <<>>
  /\ d' = d + 1
  /\ UNCHANGED <<present, request, pc>>

KeepEntry ==
  /\ pc = "rm"
  /\ d <= Len(slots)
  /\ slots[d].kind = "short"
  /\ ~Matched(slots[d], Chopped(vfat))
  /\ vfat' = <<>>
  /\ d' = d + 1
  /\ UNCHANGED <<slots, present, request, pc>>

RmDone ==
  /\ pc = "rm"
  /\ d > Len(slots)
  /\ request' = {}
  /\ d' = 1
  /\ pc' = "idle"
  /\ UNCHANGED <<slots, present, vfat>>

Add == \E n \in request : Grow(n) \/ Import(n)

Remove == PassSlot \/ RemoveEntry \/ KeepEntry \/ RmDone

Next ==
  \/ \E n \in Names : AddStart(n)
  \/ \E names \in SUBSET Names \ {{}} : RmStart(names)
  \/ Add
  \/ Remove

Spec == Init /\ [][Next]_vars

\* A command goes on until it is done; nobody has to start one.
FairSpec == Spec /\ WF_vars(Add \/ Remove)

----------------------------------------------------------------------------
(* Properties.                                                             *)

\* After any sequence of additions and removals the directory lists the names it
\* should, each once, and each is read in full: dirent_read_name neither loses a
\* fragment nor adds one that another name has left.
ListsWhatIsThere ==
  pc = "idle" =>
    /\ {slots[i].name : i \in Shorts} = present
    /\ \A i \in Shorts : VfatBefore(i) = Long(slots[i].name)
    /\ \A i, j \in Shorts : slots[i] = slots[j] => i = j

\* No addition touches a slot that is in use, and no removal one of a name that
\* it does not match: neither sanity check of file_import and dirent_remove is
\* ever what stops fatdisk.
NothingElseLost ==
  [][\A i \in DOMAIN slots : Live(slots[i]) /\ slots'[i] # slots[i] =>
       /\ pc = "rm"
       /\ slots'[i] = Deleted
       /\ slots[i].name \in request]_vars

\* A removal gives back all slots of a name (fat.c: "zap all VFAT fragments"), so
\* that each fragment there is belongs to the short entry behind it; but strchop
\* hides the last fragment of a name when it holds nothing but blanks.
SlotsComeBack ==
  \A i \in DOMAIN slots : slots[i].kind = "frag" =>
    \/ FollowedByRest(slots, i)
    \/ slots[i].name \in Trailing /\ StartsName(slots[i])

\* Growing the directory ends with room for the name.
AddEnds == pc = "add" ~> pc = "idle"
=============================================================================
