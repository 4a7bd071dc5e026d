------------------------------ MODULE DirTree ------------------------------
(***************************************************************************)
(* disk_walk with args->remove: the recursive removal of what a pattern    *)
(* matches, over a tree of directories, while the chains it walks through  *)
(* are being freed.  One step per entry of a directory; what a step does   *)
(* to the table is FatTable's FreeNext, repeated to the end of the chain.  *)
(*                                                                         *)
(* An entry is named by its first cluster, a number; its chain is two      *)
(* clusters long, o and o + 1.                                             *)
(***************************************************************************)
EXTENDS FatOps, Sequences

CONSTANTS
  Files, Dirs,
  Patterns      \* what is asked of rm: a set of the kinds in Asked, below

Root == RootCluster
Objects == Files \cup Dirs
Kinds == {"files", "top", "nested", "star"}

ASSUME NamesAssumption ==
  /\ Files \cap Dirs = {}
  /\ \A o \in Objects : o \in Clusters \ {2} /\ o + 1 \in Clusters \ Objects
ASSUME PatternsAssumption == Patterns \subseteq Kinds

VARIABLES
  fat,
  entries,    \* the entries in use
  dots,       \* the "." and ".." entries in use
  parent,     \* the directory each entry is in
  target,     \* the entries the pattern matches by itself
  star,       \* the directory d of a pattern d/*, or 0
  stack       \* the activations of disk_walk_, the innermost first

vars == <<fat, entries, dots, parent, target, star, stack>>

\* A frame [dir, all, dot, left, at] is a directory being walked: all is the
\* filter that matches everything, dot how many of "." and ".." it has visited,
\* left its other entries still to visit, at the one whose subtree is being
\* walked, or 0.

In(d) == {o \in entries : parent[o] = d}

\* What may be asked: any files; any entries of the root; a directory inside
\* another by its path; everything in a directory of the root.
Asked(kind, T, d) ==
  \/ kind = "files" /\ T \subseteq Files /\ d = 0
  \/ kind = "top" /\ T \subseteq In(Root) /\ d = 0
  \/ kind = "nested" /\ d = 0 /\ \E e \in Dirs \ In(Root) : T = {e}
  \/ kind = "star" /\ d \in Dirs \cap In(Root) /\ T = In(d)

\* Every tree (up to the names of the directories) and every pattern.
Init ==
  /\ fat = [c \in Entries |->
              IF c \in Objects THEN c + 1
              ELSE IF c <= 2 \/ c - 1 \in Objects THEN EOC ELSE 0]
  /\ entries = Objects
  /\ dots = Dirs \X {".", ".."}
  /\ parent \in {p \in [Objects -> Dirs \cup {Root}] : \A d \in Dirs : p[d] < d}
  /\ target \in SUBSET Objects
  /\ star \in Dirs \cup {0}
  /\ \E kind \in Patterns : Asked(kind, target, star)
  /\ stack = <<[dir |-> Root, all |-> FALSE, dot |-> 2, left |-> In(Root),
                at |-> 0]>>
----------------------------------------------------------------------------
Top == Head(stack)

\* dirent_remove's loop: each cluster from c to the end of its chain is free.
\* A cluster that is free already ends the chain.
FreeChain(table, c) ==
  [d \in Entries |-> IF d \in Along(table, c) /\ ~EndChain(d)
                     THEN 0 ELSE table[d]]

\* Inside a directory that matched, everything matches, "." and ".." too.
Matched(o) == Top.all \/ o \in target
DotsMatched == Top.all \/ star = Top.dir

\* "." is entry 0 and ".." entry 1 of a directory: its own first cluster and
\* its parent's.  The walk does not enter them, but removes them.
VisitDot ==
  /\ stack # <<>>
  /\ Top.dot < 2
  /\ LET dot == IF Top.dot = 0 THEN "." ELSE ".."
         c == IF Top.dot = 0 THEN Top.dir ELSE parent[Top.dir]
     IN  IF DotsMatched
         THEN fat' = FreeChain(fat, c) /\ dots' = dots \ {<<Top.dir, dot>>}
         ELSE UNCHANGED <<fat, dots>>
  /\ stack' = [stack EXCEPT ![1].dot = @ + 1]
  /\ UNCHANGED <<entries, parent, target, star>>

\* The entries dirents_alloc finds in the directory: all of them, or some if
\* the chain breaks off before its second cluster.
ReadDir(d) == IF d + 1 \in Chain(fat, d) THEN {In(d)} ELSE SUBSET In(d)

\* Slips: the filter is dropped whether the directory matched or not; the
\* directory's chain is freed before it is read.
EnterUnfiltered(o) ==
  /\ stack # <<>>
  /\ Top.dot = 2 /\ Top.at = 0
  /\ o \in Top.left \cap Dirs
  /\ stack' = <<[dir |-> o, all |-> TRUE, dot |-> 0, left |-> In(o), at |-> 0],
                 [Top EXCEPT !.at = o]>> \o Tail(stack)
  /\ UNCHANGED <<fat, entries, dots, parent, target, star>>

EnterFreed(o) ==
  /\ stack # <<>>
  /\ Top.dot = 2 /\ Top.at = 0
  /\ o \in Top.left \cap Dirs
  /\ fat' = IF Matched(o) THEN FreeChain(fat, o) ELSE fat
  /\ \E found \in IF Matched(o) THEN SUBSET In(o) ELSE {In(o)} :
       stack' = <<[dir |-> o, all |-> Matched(o), dot |-> 0, left |-> found,
                   at |-> 0],
                  [Top EXCEPT !.at = o]>> \o Tail(stack)
  /\ UNCHANGED <<entries, dots, parent, target, star>>

\* The walk enters a directory before it removes the directory's entry.  (It
\* skips a directory in which the filter can match nothing; entering one
\* changes nothing.)
Enter(o) ==
  /\ stack # <<>>
  /\ Top.dot = 2 /\ Top.at = 0
  /\ o \in Top.left \cap Dirs
  /\ \E found \in ReadDir(o) :
       stack' = <<[dir |-> o, all |-> Matched(o), dot |-> 0, left |-> found,
                   at |-> 0],
                  [Top EXCEPT !.at = o]>> \o Tail(stack)
  /\ UNCHANGED <<fat, entries, dots, parent, target, star>>

\* The walk is done with what is inside the entry, if anything.
Ready(o) ==
  /\ stack # <<>>
  /\ Top.dot = 2
  /\ o \in Top.left
  /\ Top.at = IF o \in Dirs THEN o ELSE 0

PassBy(o) == stack' = [stack EXCEPT ![1].left = @ \ {o}, ![1].at = 0]

RemoveEntry(o) ==
  /\ Ready(o)
  /\ Matched(o)
  /\ fat' = FreeChain(fat, o)
  /\ entries' = entries \ {o}
  /\ PassBy(o)
  /\ UNCHANGED <<dots, parent, target, star>>

KeepEntry(o) ==
  /\ Ready(o)
  /\ ~Matched(o)
  /\ PassBy(o)
  /\ UNCHANGED <<fat, entries, dots, parent, target, star>>

\* dirents_free writes the directory, and the walk returns.
Leave ==
  /\ stack # <<>>
  /\ Top.dot = 2
  /\ Top.left = {}
  /\ stack' = Tail(stack)
  /\ UNCHANGED <<fat, entries, dots, parent, target, star>>

Next ==
  \/ VisitDot
  \/ \E o \in Objects : Enter(o) \/ RemoveEntry(o) \/ KeepEntry(o)
  \/ Leave

Spec == Init /\ [][Next]_vars

----------------------------------------------------------------------------
(* Properties.                                                             *)

\* A directory and the directories it is in.
Above[d \in Dirs \cup {Root}] ==
  IF d \in Dirs THEN {d} \cup Above[parent[d]] ELSE {}

\* An entry and the directories it is in.
PathOf(o) == {o} \cup Above[parent[o]]

\* What the pattern matches, and everything inside it.
Doomed == {o \in Objects : PathOf(o) \cap target # {}}

Intact(o) ==
  /\ o \in entries
  /\ Terminated(fat, o) /\ Chain(fat, o) = {o, o + 1}
  /\ o \in Dirs => {o} \X {".", ".."} \subseteq dots

\* rm leaves everything else alone, at every moment: what does not match and
\* is not inside a directory that does keeps its entry, its "." and "..", and
\* its chain (README.md: "recursively remove dir", "selectively remove").
RmSparesOthers == \A o \in Objects \ Doomed : Intact(o)

\* When the walk is over rm has removed everything it was asked to, and
\* freed all of its clusters, though it frees a directory's chain before it
\* has been through the directory.
RmComplete ==
  stack = <<>> => \A o \in Doomed : o \notin entries /\ fat[o] = 0 /\ fat[o + 1] = 0
=============================================================================
