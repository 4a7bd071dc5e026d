--------------------------- MODULE DirTreeProofs ----------------------------
(***************************************************************************)
(* Proofs about DirTree, for every tree of directories and files, however  *)
(* deep: rm of files, or of entries of the root directory, leaves alone    *)
(* what it was not asked to remove.                                        *)
(***************************************************************************)
EXTENDS DirTree, SequenceTheorems, WellFoundedInduction, TLAPS

USE TotalClustersAssumption, Fat32Assumption, NamesAssumption, PatternsAssumption

----------------------------------------------------------------------------
(* The table.                                                              *)

Values == 0 .. EOC

\* What Along finds after d, and in one turn from the set S.
Follow(f, d) == IF EndChain(d) THEN d ELSE f[d]
Turn(f, S) == UNION {{d, Follow(f, d)} : d \in S}

\* A function that satisfies the equation Along is defined by.
IsMet(f, a, g) ==
  g = [n \in 0 .. TotalClusters |-> IF n = 0 THEN {a} ELSE Turn(f, g[n - 1])]

\* There is only one.
LEMMA AlongIs ==
  ASSUME NEW f, NEW a, NEW g, IsMet(f, a, g)
  PROVE  Along(f, a) = g[TotalClusters]
<1>1. ASSUME NEW m, IsMet(f, a, m)
      PROVE  m = g
  <2>1. /\ DOMAIN m = 0 .. TotalClusters /\ DOMAIN g = 0 .. TotalClusters
        /\ m[0] = {a} /\ g[0] = {a}
        /\ \A n \in 1 .. TotalClusters : m[n] = Turn(f, m[n - 1]) /\ g[n] = Turn(f, g[n - 1])
    <3>1. /\ DOMAIN m = 0 .. TotalClusters /\ DOMAIN g = 0 .. TotalClusters
          /\ \A n \in 0 .. TotalClusters :
               /\ m[n] = IF n = 0 THEN {a} ELSE Turn(f, m[n - 1])
               /\ g[n] = IF n = 0 THEN {a} ELSE Turn(f, g[n - 1])
      BY <1>1, Zenon DEF IsMet
    <3>2. 0 \in 0 .. TotalClusters /\ \A n \in 1 .. TotalClusters :
            n \in 0 .. TotalClusters /\ n # 0
      OBVIOUS
    <3> QED
      BY <3>1, <3>2
  <2> DEFINE Differ == {n \in 0 .. TotalClusters : m[n] # g[n]}
  <2>2. Differ = {}
    <3> SUFFICES ASSUME Differ # {} PROVE FALSE
      OBVIOUS
    <3>1. Differ \subseteq Nat
      OBVIOUS
    <3>2. PICK n \in Differ : \A k \in Differ : ~ (<<k, n>> \in OpToRel(<, Nat))
      <4> HIDE DEF Differ
      <4> QED
        BY <3>1, NatLessThanWellFounded, WFMin
    <3>3. n \in 1 .. TotalClusters /\ n - 1 \in 0 .. TotalClusters
      <4>1. n # 0 /\ n \in 0 .. TotalClusters
        BY <2>1
      <4> QED
        BY <4>1
    <3>4. <<n - 1, n>> \in OpToRel(<, Nat)
      BY <3>3 DEF OpToRel
    <3>5. m[n - 1] = g[n - 1]
      BY <3>2, <3>3, <3>4
    <3> QED
      BY <2>1, <3>3, <3>5
  <2>3. \A n \in 0 .. TotalClusters : m[n] = g[n]
    BY <2>2
  <2>4. m = [n \in 0 .. TotalClusters |-> m[n]] /\ g = [n \in 0 .. TotalClusters |-> g[n]]
    BY <1>1 DEF IsMet
  <2> QED
    BY <2>3, <2>4
<1>2. (CHOOSE m : IsMet(f, a, m)) = g
  BY <1>1
<1>3. Along(f, a) = (CHOOSE m : IsMet(f, a, m))[TotalClusters]
  BY DEF Along, IsMet, Turn, Follow
<1> QED
  BY <1>2, <1>3

\* A chain that ends with its second cluster, or before.
LEMMA ShortChain ==
  ASSUME NEW f, NEW a, NEW u, NEW v,
         u = Follow(f, a), v = Follow(f, u), EndChain(v)
  PROVE  Along(f, a) = {a, u, v}
<1> DEFINE g == [n \in 0 .. TotalClusters |->
                   IF n = 0 THEN {a} ELSE IF n = 1 THEN {a, u} ELSE {a, u, v}]
<1>1. Follow(f, v) = v
  BY DEF Follow
<1>2. /\ Turn(f, {a}) = {a, u} /\ Turn(f, {a, u}) = {a, u, v}
      /\ Turn(f, {a, u, v}) = {a, u, v}
  BY <1>1 DEF Turn
<1>3. \A n \in 0 .. TotalClusters : g[n] = IF n = 0 THEN {a} ELSE Turn(f, g[n - 1])
  <2> SUFFICES ASSUME NEW n \in 0 .. TotalClusters, n # 0
               PROVE  g[n] = Turn(f, g[n - 1])
    OBVIOUS
  <2>1. n - 1 \in 0 .. TotalClusters
    OBVIOUS
  <2>2. CASE n = 1
    BY <1>2, <2>1, <2>2
  <2>3. CASE n = 2
    BY <1>2, <2>1, <2>3
  <2>4. CASE n > 2
    <3>1. n - 1 # 0 /\ n - 1 # 1 /\ n # 0 /\ n # 1
      BY <2>4
    <3>2. g[n - 1] = {a, u, v} /\ g[n] = {a, u, v}
      BY <2>1, <3>1
    <3> QED
      BY <1>2, <3>2
  <2> QED
    BY <2>2, <2>3, <2>4
<1>4. g = [n \in 0 .. TotalClusters |-> IF n = 0 THEN {a} ELSE Turn(f, g[n - 1])]
  <2>1. g = [n \in 0 .. TotalClusters |-> g[n]]
    OBVIOUS
  <2> HIDE DEF g
  <2> QED
    BY <1>3, <2>1, Zenon
<1>5. IsMet(f, a, g)
  BY <1>4, Zenon DEF IsMet
<1>6. g[TotalClusters] = {a, u, v}
  OBVIOUS
<1> HIDE DEF g
<1> QED
  BY <1>5, <1>6, AlongIs

\* The chain of the object o is whole, or all of it is free.
Whole(f, o) == f[o] = o + 1 /\ f[o + 1] = EOC
Freed(f, o) == f[o] = 0 /\ f[o + 1] = 0
Chained(f) ==
  /\ f \in [Entries -> Values]
  /\ \A o \in Objects : Whole(f, o) \/ Freed(f, o)

\* Objects take two clusters each, none of them the root's.
LEMMA ObjectClusters ==
  ASSUME NEW o \in Objects
  PROVE  /\ o \in Entries /\ o + 1 \in Entries
         /\ ~EndChain(o) /\ ~EndChain(o + 1)
         /\ \A p \in Objects : p # o => p # o + 1 /\ p + 1 # o /\ p + 1 # o + 1
         /\ o # Root /\ o # 0
         /\ o + 1 # o /\ o \in Nat
BY DEF Entries, Clusters, EndChain, EOC, Root, RootCluster, Objects

LEMMA WholeChain ==
  ASSUME NEW f, NEW o \in Objects, Whole(f, o)
  PROVE  Terminated(f, o) /\ Chain(f, o) = {o, o + 1}
<1>1. EndChain(EOC) /\ EOC # 0
  BY DEF EndChain, EOC
<1>2. PICK u : u = o + 1
  OBVIOUS
<1>3. Follow(f, o) = u /\ Follow(f, u) = EOC
  BY <1>2, ObjectClusters DEF Whole, Follow
<1>4. Along(f, o) = {o, u, EOC}
  BY <1>1, <1>3, ShortChain
<1>5. ~EndChain(o) /\ ~EndChain(u) /\ f[o] = u /\ f[u] = EOC /\ u # 0
  BY <1>2, ObjectClusters DEF Whole
<1> QED
  BY <1>1, <1>2, <1>4, <1>5 DEF Terminated, Chain

\* Freeing an object's chain leaves those of the others as they are.
LEMMA FreeOne ==
  ASSUME NEW f, Chained(f), NEW o \in Objects
  PROVE  /\ Chained(FreeChain(f, o))
         /\ Freed(FreeChain(f, o), o)
         /\ \A p \in Objects \ {o} :
              FreeChain(f, o)[p] = f[p] /\ FreeChain(f, o)[p + 1] = f[p + 1]
<1>1. PICK u : u = f[o]
  OBVIOUS
<1>2. PICK v : v = Follow(f, u)
  OBVIOUS
<1>3. u = Follow(f, o)
  BY <1>1, ObjectClusters DEF Follow
<1>4. /\ EndChain(v) /\ u \in {o + 1, 0}
      /\ v \in {EOC, 0}
      /\ u = 0 => f[o + 1] = 0
  <2>1. CASE Whole(f, o)
    <3>1. u = o + 1 /\ v = EOC /\ u # 0
      BY <1>1, <1>2, <2>1, ObjectClusters DEF Whole, Follow, EndChain
    <3> QED
      BY <3>1 DEF EndChain, EOC
  <2>2. CASE Freed(f, o)
    <3>1. u = 0 /\ v = 0 /\ f[o + 1] = 0
      BY <1>1, <1>2, <2>2 DEF Freed, Follow, EndChain
    <3> QED
      BY <3>1 DEF EndChain
  <2> QED
    BY <2>1, <2>2 DEF Chained
<1>5. Along(f, o) = {o, u, v}
  BY <1>2, <1>3, <1>4, ShortChain
<1>6. \A d : d \in Along(f, o) /\ ~EndChain(d) => d \in {o, o + 1}
  BY <1>4, <1>5 DEF EndChain
<1>7. o \in Along(f, o) /\ ~EndChain(o)
  BY <1>5, ObjectClusters
<1>8. f[o + 1] = 0 \/ (o + 1 \in Along(f, o) /\ ~EndChain(o + 1))
  BY <1>4, <1>5, ObjectClusters
<1> DEFINE F == FreeChain(f, o)
<1>9. \A d \in Entries : F[d] = IF d \in Along(f, o) /\ ~EndChain(d) THEN 0 ELSE f[d]
  BY DEF FreeChain
<1>10. F \in [Entries -> Values]
  <2>1. 0 \in Values
    BY DEF Values, EOC
  <2> QED
    BY <2>1 DEF FreeChain, Chained
<1> HIDE DEF F
<1>11. \A p \in Objects \ {o} : F[p] = f[p] /\ F[p + 1] = f[p + 1]
  BY <1>6, <1>9, ObjectClusters
<1>12. Freed(F, o)
  BY <1>7, <1>8, <1>9, ObjectClusters DEF Freed
<1>13. Chained(F)
  BY <1>10, <1>11, <1>12 DEF Chained, Whole, Freed
<1> QED
  BY <1>11, <1>12, <1>13 DEF F

\* Of the root directory nothing is freed.
LEMMA FreeRoot ==
  ASSUME NEW f \in [Entries -> Values]
  PROVE  FreeChain(f, Root) = f
<1>1. EndChain(Root)
  BY DEF Root, RootCluster, EndChain
<1>2. Follow(f, Root) = Root
  BY <1>1 DEF Follow
<1>3. Along(f, Root) = {Root}
  BY <1>1, <1>2, ShortChain
<1> QED
  BY <1>1, <1>3 DEF FreeChain

----------------------------------------------------------------------------
(* The tree.                                                               *)

Tree == parent \in [Objects -> Dirs \cup {Root}]

\* p leads up from the directory d in n steps.
Climbs(d, n, p) ==
  /\ p \in [0 .. n -> Dirs \cup {Root}]
  /\ p[0] = d
  /\ \A i \in 0 .. (n - 1) : p[i] \in Dirs /\ p[i + 1] = parent[p[i]]

IsAbove(g) ==
  g = [d \in Dirs \cup {Root} |-> IF d \in Dirs THEN {d} \cup g[parent[d]] ELSE {}]

\* There is a function such as Above.
LEMMA AboveExists ==
  ASSUME Tree
  PROVE  \E g : IsAbove(g)
<1> DEFINE D == Dirs \cup {Root}
           Up(d) == {e \in Dirs : \E n \in Nat : \E p : Climbs(d, n, p) /\ p[n] = e}
           g == [d \in D |-> Up(d)]
<1>1. Up(Root) = {}
  <2> SUFFICES ASSUME NEW e \in Dirs, NEW n \in Nat, NEW p, Climbs(Root, n, p), p[n] = e
               PROVE  FALSE
    OBVIOUS
  <2>1. Root \notin Dirs /\ p[0] = Root
    BY ObjectClusters DEF Objects, Climbs
  <2>2. n # 0
    BY <2>1
  <2>3. 0 \in 0 .. (n - 1)
    BY <2>2
  <2> QED
    BY <2>1, <2>3 DEF Climbs
<1>2. ASSUME NEW d \in Dirs
      PROVE  Up(d) = {d} \cup Up(parent[d])
  <2>1. parent[d] \in D
    BY DEF Tree, Objects
  <2>2. ASSUME NEW e \in Up(d)
        PROVE  e \in {d} \cup Up(parent[d])
    <3>1. PICK n \in Nat : \E p : Climbs(d, n, p) /\ p[n] = e
      OBVIOUS
    <3>2. PICK p : Climbs(d, n, p) /\ p[n] = e
      BY <3>1
    <3>3. CASE n = 0
      BY <3>2, <3>3 DEF Climbs
    <3>4. CASE n # 0
      <4>1. PICK m \in Nat : n = m + 1
        <5>1. n - 1 \in Nat /\ n = (n - 1) + 1
          BY <3>4
        <5> QED
          BY <5>1
      <4>2. PICK q : q = [i \in 0 .. m |-> p[i + 1]]
        OBVIOUS
      <4>3. \A i \in 0 .. m : i + 1 \in 0 .. n /\ q[i] = p[i + 1]
        BY <4>1, <4>2
      <4>4. q \in [0 .. m -> D]
        BY <3>2, <4>2, <4>3 DEF Climbs
      <4>5. 0 \in 0 .. (n - 1) /\ 0 + 1 = 1 /\ p[1] = parent[d]
        BY <3>2, <4>1 DEF Climbs
      <4>6. q[0] = parent[d] /\ q[m] = e
        BY <3>2, <4>1, <4>3, <4>5
      <4>7. ASSUME NEW i \in 0 .. (m - 1)
            PROVE  q[i] \in Dirs /\ q[i + 1] = parent[q[i]]
        <5>1. PICK j : j = i + 1
          OBVIOUS
        <5>2. j \in 0 .. (n - 1) /\ i \in 0 .. m /\ j \in 0 .. m
          BY <4>1, <5>1
        <5>3. q[i] = p[j] /\ q[j] = p[j + 1]
          BY <4>3, <5>1, <5>2
        <5> QED
          BY <3>2, <5>1, <5>2, <5>3 DEF Climbs
      <4>8. Climbs(parent[d], m, q)
        BY <4>4, <4>6, <4>7 DEF Climbs
      <4> QED
        BY <4>6, <4>8
    <3> QED
      BY <3>3, <3>4
  <2>3. d \in Up(d)
    <3>1. PICK p : p = [i \in 0 .. 0 |-> d]
      OBVIOUS
    <3>2. Climbs(d, 0, p) /\ p[0] = d
      BY <3>1 DEF Climbs
    <3> QED
      BY <3>2
  <2>4. ASSUME NEW e \in Up(parent[d])
        PROVE  e \in Up(d)
    <3>1. PICK m \in Nat : \E q : Climbs(parent[d], m, q) /\ q[m] = e
      OBVIOUS
    <3>2. PICK q : Climbs(parent[d], m, q) /\ q[m] = e
      BY <3>1
    <3>3. PICK n \in Nat : n = m + 1
      OBVIOUS
    <3>4. PICK p : p = [i \in 0 .. n |-> IF i = 0 THEN d ELSE q[i - 1]]
      OBVIOUS
    <3>5. \A i \in 1 .. n : i - 1 \in 0 .. m /\ i \in 0 .. n /\ p[i] = q[i - 1]
      BY <3>3, <3>4
    <3>6. p[0] = d /\ p[n] = e
      <4>1. 0 \in 0 .. n /\ n \in 1 .. n /\ n - 1 = m
        BY <3>3
      <4> QED
        BY <3>2, <3>4, <3>5, <4>1
    <3>7. p \in [0 .. n -> D]
      <4>1. \A i \in 0 .. n : i = 0 \/ i \in 1 .. n
        OBVIOUS
      <4>2. \A i \in 1 .. n : q[i - 1] \in D
        BY <3>2, <3>5 DEF Climbs
      <4> QED
        BY <3>4, <4>1, <4>2
    <3>8. ASSUME NEW i \in 0 .. (n - 1)
          PROVE  p[i] \in Dirs /\ p[i + 1] = parent[p[i]]
      <4>1. i + 1 \in 1 .. n /\ (i + 1) - 1 = i
        OBVIOUS
      <4>2. p[i + 1] = q[i]
        BY <3>5, <4>1
      <4>3. CASE i = 0
        BY <3>2, <3>6, <4>2, <4>3 DEF Climbs
      <4>4. CASE i # 0
        <5>1. PICK j : j = i - 1
          OBVIOUS
        <5>2. j \in 0 .. (m - 1) /\ i \in 1 .. n /\ j + 1 = i
          BY <3>3, <4>4, <5>1
        <5>3. p[i] = q[j] /\ q[j] \in Dirs /\ q[i] = parent[q[j]]
          BY <3>2, <3>5, <5>1, <5>2 DEF Climbs
        <5> QED
          BY <4>2, <5>3
      <4> QED
        BY <4>3, <4>4
    <3>9. Climbs(d, n, p)
      BY <3>6, <3>7, <3>8 DEF Climbs
    <3> QED
      BY <3>6, <3>9
  <2> HIDE DEF Up
  <2> QED
    BY <2>2, <2>3, <2>4
<1> HIDE DEF Up
<1>3. \A d \in D : Up(d) = IF d \in Dirs THEN {d} \cup g[parent[d]] ELSE {}
  <2> SUFFICES ASSUME NEW d \in D
               PROVE  Up(d) = IF d \in Dirs THEN {d} \cup g[parent[d]] ELSE {}
    OBVIOUS
  <2>1. CASE d \in Dirs
    <3>1. parent[d] \in D
      BY <2>1 DEF Tree, Objects
    <3>2. g[parent[d]] = Up(parent[d])
      BY <3>1
    <3> HIDE DEF g
    <3> QED
      BY <1>2, <2>1, <3>2
  <2>2. CASE d \notin Dirs
    BY <1>1, <2>2
  <2> QED
    BY <2>1, <2>2
<1>4. g = [d \in D |-> IF d \in Dirs THEN {d} \cup g[parent[d]] ELSE {}]
  BY <1>3, Zenon
<1>5. IsAbove(g)
  BY <1>4, Zenon DEF IsAbove
<1> QED
  BY <1>5

\* The path of what is in a directory goes through that directory.
LEMMA PathInside ==
  ASSUME Tree
  PROVE  /\ \A o \in Objects : o \in PathOf(o)
         /\ \A o \in Objects : parent[o] \in Dirs =>
              PathOf(o) = {o} \cup PathOf(parent[o])
         /\ \A o \in Objects : parent[o] \notin Dirs => PathOf(o) = {o}
<1>1. IsAbove(CHOOSE g : IsAbove(g))
  BY AboveExists
<1>2. Above = CHOOSE g : IsAbove(g)
  BY DEF Above, IsAbove
<1>3. Above = [d \in Dirs \cup {Root} |->
                 IF d \in Dirs THEN {d} \cup Above[parent[d]] ELSE {}]
  BY <1>1, <1>2 DEF IsAbove
<1>4. \A d \in Dirs \cup {Root} : Above[d] = IF d \in Dirs THEN {d} \cup Above[parent[d]]
                                             ELSE {}
  BY <1>3, Zenon
<1> QED
  BY <1>4 DEF PathOf, Tree, Objects

\* What is inside what goes goes too.
LEMMA DoomedInside ==
  ASSUME Tree, NEW o \in Objects
  PROVE  /\ o \in target => o \in Doomed
         /\ parent[o] \in Doomed => o \in Doomed
         /\ o \in Doomed => o \in target \/ parent[o] \in Doomed
<1>1. Doomed \subseteq Objects
  BY DEF Doomed
<1>2. o \in target => o \in Doomed
  BY PathInside DEF Doomed
<1>3. ASSUME parent[o] \in Doomed PROVE o \in Doomed
  <2>1. parent[o] \in Dirs
    <3>1. parent[o] # Root
      BY <1>1, <1>3, ObjectClusters
    <3> QED
      BY <3>1 DEF Tree
  <2> QED
    BY <1>3, <2>1, PathInside DEF Doomed
<1>4. ASSUME o \in Doomed, o \notin target PROVE parent[o] \in Doomed
  <2>1. PathOf(o) \cap target # {}
    BY <1>4 DEF Doomed
  <2>2. parent[o] \in Dirs
    BY <1>4, <2>1, PathInside
  <2> QED
    BY <1>4, <2>1, <2>2, PathInside DEF Doomed, Objects
<1> QED
  BY <1>2, <1>3, <1>4

\* Directories are inside directories with lower numbers, so that the tree has
\* no circle.
Ordered == Tree /\ \A d \in Dirs : parent[d] < d

\* A directory on the way from o to the root is o itself, or there is an entry
\* of that directory on the way.
LEMMA PathBelow ==
  ASSUME Ordered, NEW o \in Objects, NEW d \in PathOf(o), d # o
  PROVE  d \in Dirs /\ \E e \in Objects : parent[e] = d /\ e \in PathOf(o)
<1> DEFINE Good(x) == d \in Dirs /\ \E e \in Objects : parent[e] = d /\ e \in PathOf(x)
           Bad == {x \in Dirs : d \in PathOf(x) /\ d # x /\ ~Good(x)}
<1>1. ASSUME NEW x \in Objects, d \in PathOf(x), d # x, parent[x] \notin Bad
      PROVE  Good(x)
  <2>1. parent[x] \in Dirs /\ PathOf(x) = {x} \cup PathOf(parent[x])
    BY <1>1, PathInside DEF Ordered
  <2>2. x \in PathOf(x)
    BY PathInside DEF Ordered
  <2>3. CASE d = parent[x]
    BY <2>1, <2>2, <2>3
  <2>4. CASE d # parent[x]
    <3>1. d \in PathOf(parent[x])
      BY <1>1, <2>1
    <3>2. Good(parent[x])
      BY <1>1, <2>1, <2>4, <3>1
    <3> QED
      BY <2>1, <3>2
  <2> QED
    BY <2>3, <2>4
<1>2. Bad = {}
  <2> SUFFICES ASSUME Bad # {} PROVE FALSE
    OBVIOUS
  <2>1. Bad \subseteq Nat
    BY ObjectClusters DEF Objects
  <2>2. PICK x \in Bad : \A y \in Bad : ~ (<<y, x>> \in OpToRel(<, Nat))
    <3> HIDE DEF Bad
    <3> QED
      BY <2>1, NatLessThanWellFounded, WFMin
  <2>3. parent[x] \notin Bad
    <3> SUFFICES ASSUME parent[x] \in Bad PROVE FALSE
      OBVIOUS
    <3>1. parent[x] < x /\ parent[x] \in Nat /\ x \in Nat
      BY <2>1 DEF Ordered
    <3>2. <<parent[x], x>> \in OpToRel(<, Nat)
      BY <3>1 DEF OpToRel
    <3> QED
      BY <2>2, <3>2
  <2>4. Good(x)
    <3>1. x \in Objects /\ d \in PathOf(x) /\ d # x
      BY DEF Objects
    <3> HIDE DEF Good, Bad
    <3> QED
      BY <1>1, <2>3, <3>1
  <2> QED
    BY <2>4
<1> HIDE DEF Bad
<1>3. Good(o)
  BY <1>1, <1>2
<1> QED
  BY <1>3

\* The way to the root goes through an entry of the root.
LEMMA PathFromRoot ==
  ASSUME Ordered, NEW o \in Objects
  PROVE  \E a \in Objects : parent[a] = Root /\ a \in PathOf(o)
<1> DEFINE Good(x) == \E a \in Objects : parent[a] = Root /\ a \in PathOf(x)
           Bad == {x \in Dirs : ~Good(x)}
<1>1. ASSUME NEW x \in Objects, parent[x] \notin Bad
      PROVE  Good(x)
  <2>1. x \in PathOf(x)
    BY PathInside DEF Ordered
  <2>2. CASE parent[x] = Root
    BY <2>1, <2>2
  <2>3. CASE parent[x] # Root
    <3>1. parent[x] \in Dirs
      BY <2>3 DEF Ordered, Tree
    <3>2. PathOf(x) = {x} \cup PathOf(parent[x])
      BY <3>1, PathInside DEF Ordered
    <3> QED
      BY <1>1, <3>1, <3>2
  <2> QED
    BY <2>2, <2>3
<1>2. Bad = {}
  <2> SUFFICES ASSUME Bad # {} PROVE FALSE
    OBVIOUS
  <2>1. Bad \subseteq Nat
    BY ObjectClusters DEF Objects
  <2>2. PICK x \in Bad : \A y \in Bad : ~ (<<y, x>> \in OpToRel(<, Nat))
    <3> HIDE DEF Bad
    <3> QED
      BY <2>1, NatLessThanWellFounded, WFMin
  <2>3. parent[x] \notin Bad
    <3> SUFFICES ASSUME parent[x] \in Bad PROVE FALSE
      OBVIOUS
    <3>1. parent[x] < x /\ parent[x] \in Nat /\ x \in Nat
      BY <2>1 DEF Ordered
    <3>2. <<parent[x], x>> \in OpToRel(<, Nat)
      BY <3>1 DEF OpToRel
    <3> QED
      BY <2>2, <3>2
  <2>4. x \in Objects
    BY DEF Objects
  <2>5. Good(x)
    <3> HIDE DEF Good, Bad
    <3> QED
      BY <1>1, <2>3, <2>4
  <2> QED
    BY <2>5
<1> HIDE DEF Bad
<1>3. Good(o)
  BY <1>1, <1>2
<1> QED
  BY <1>3

\* The way to the root is one: it goes on through the parent of whatever is on it.
LEMMA PathGoesOn ==
  ASSUME Ordered, NEW o \in Objects, NEW e \in Objects, e \in PathOf(o),
         parent[e] \in Dirs
  PROVE  parent[e] \in PathOf(o)
<1> DEFINE Bad == {x \in Dirs : e \in PathOf(x) /\ parent[e] \notin PathOf(x)}
<1>1. ASSUME NEW x \in Objects, e \in PathOf(x), parent[x] \notin Bad
      PROVE  parent[e] \in PathOf(x)
  <2>1. CASE e = x
    <3>1. PathOf(x) = {x} \cup PathOf(parent[x]) /\ parent[x] \in PathOf(parent[x])
      BY <2>1, PathInside DEF Ordered, Objects
    <3> QED
      BY <2>1, <3>1
  <2>2. CASE e # x
    <3>1. parent[x] \in Dirs /\ PathOf(x) = {x} \cup PathOf(parent[x])
      BY <1>1, <2>2, PathInside DEF Ordered
    <3> QED
      BY <1>1, <2>2, <3>1
  <2> QED
    BY <2>1, <2>2
<1>2. Bad = {}
  <2> SUFFICES ASSUME Bad # {} PROVE FALSE
    OBVIOUS
  <2>1. Bad \subseteq Nat
    BY ObjectClusters DEF Objects
  <2>2. PICK x \in Bad : \A y \in Bad : ~ (<<y, x>> \in OpToRel(<, Nat))
    <3> HIDE DEF Bad
    <3> QED
      BY <2>1, NatLessThanWellFounded, WFMin
  <2>3. parent[x] \notin Bad
    <3> SUFFICES ASSUME parent[x] \in Bad PROVE FALSE
      OBVIOUS
    <3>1. parent[x] < x /\ parent[x] \in Nat /\ x \in Nat
      BY <2>1 DEF Ordered
    <3>2. <<parent[x], x>> \in OpToRel(<, Nat)
      BY <3>1 DEF OpToRel
    <3> QED
      BY <2>2, <3>2
  <2>4. x \in Objects /\ e \in PathOf(x) /\ parent[e] \notin PathOf(x)
    BY DEF Objects
  <2> HIDE DEF Bad
  <2> QED
    BY <1>1, <2>3, <2>4
<1> HIDE DEF Bad
<1> QED
  BY <1>1, <1>2

----------------------------------------------------------------------------
(* The invariant.                                                          *)

Frames ==
  [dir : Dirs \cup {Root}, all : BOOLEAN, dot : 0 .. 2, left : SUBSET Objects,
   at : Dirs \cup {0}]

\* What is asked for: files, or entries of the root.
Asking ==
  /\ star = 0 /\ target \subseteq Objects
  /\ \A d \in target \cap Dirs : parent[d] = Root

\* A frame lists entries of its directory, and its filter is dropped if the
\* directory is to go.
FrameOK(fr, doomed, up) ==
  /\ fr \in Frames
  /\ fr.dot < 2 => fr.dir \in Dirs
  /\ fr.all <=> fr.dir \in doomed
  /\ \A o \in fr.left : up[o] = fr.dir
  /\ fr.at # 0 => fr.at \in fr.left

\* Each directory is the entry at which the walk of the one below it is.
StackOK ==
  /\ stack \in Seq(Frames)
  /\ \A i \in 1 .. Len(stack) :
       /\ FrameOK(stack[i], Doomed, parent)
       /\ i < Len(stack) => stack[i].dir = stack[i + 1].at /\ stack[i].dir \in Dirs
       /\ i = Len(stack) => stack[i].dir = Root
  /\ \A i, j \in 1 .. Len(stack) : i < j => stack[j].dir < stack[i].dir

Pending(o) == \E i \in 1 .. Len(stack) : o \in stack[i].left

\* The walk has listed the entry a, and has yet to enter it if it is a directory.
Unentered(a) == \E i \in 1 .. Len(stack) : a \in stack[i].left /\ a # stack[i].at

Untouched(o) == o \in entries /\ Whole(fat, o)
Gone(o) == o \notin entries /\ Freed(fat, o)

\* What must be kept.
Kept(o) == Untouched(o) /\ (o \in Dirs => {o} \X {".", ".."} \subseteq dots)

\* What is inside a directory not entered yet is untouched; what is to go and
\* is not gone is listed, or inside such a directory.
Progress ==
  /\ \A a \in Objects, o \in Objects : Unentered(a) /\ a \in PathOf(o) => Untouched(o)
  /\ \A o \in Doomed :
       \/ Gone(o) \/ Pending(o)
       \/ \E a \in Objects : Unentered(a) /\ a \in PathOf(o)

RmInv ==
  /\ Ordered /\ Asking /\ entries \subseteq Objects /\ Chained(fat)
  /\ StackOK
  /\ \A o \in Objects \ Doomed : Kept(o)
  /\ Progress

\* A directory that is being walked is not inside one not entered yet.
LEMMA WalkedAreEntered ==
  ASSUME Ordered, StackOK, NEW a, Unentered(a),
         NEW i \in 1 .. Len(stack), stack[i].dir \in Dirs
  PROVE  a \notin PathOf(stack[i].dir)
<1> DEFINE n == Len(stack)
           Bad == {d \in Dirs : /\ \E j \in 1 .. n : stack[j].dir = d
                                /\ a \in PathOf(d)}
<1>1. Bad = {}
  <2> SUFFICES ASSUME Bad # {} PROVE FALSE
    OBVIOUS
  <2>1. Bad \subseteq Nat
    BY ObjectClusters DEF Objects
  <2>2. PICK d \in Bad : \A y \in Bad : ~ (<<y, d>> \in OpToRel(<, Nat))
    <3> HIDE DEF Bad
    <3> QED
      BY <2>1, NatLessThanWellFounded, WFMin
  <2>3. PICK j \in 1 .. n : stack[j].dir = d
    OBVIOUS
  <2>4. d \in Dirs /\ d \in Objects /\ a \in PathOf(d) /\ d # Root
    BY ObjectClusters DEF Objects
  <2>5. j < n /\ j + 1 \in 1 .. n /\ n \in Nat
    <3>1. n \in Nat
      BY LenProperties DEF StackOK
    <3>2. j # n
      BY <2>3, <2>4 DEF StackOK
    <3> QED
      BY <3>1, <3>2
  <2>6. PICK fr : fr = stack[j + 1] /\ FrameOK(fr, Doomed, parent) /\ fr.at = d
    BY <2>3, <2>5 DEF StackOK
  <2>7. d \in fr.left /\ parent[d] = fr.dir
    BY <2>4, <2>6, ObjectClusters DEF FrameOK
  <2>8. a = d
    <3>1. CASE parent[d] \in Dirs
      <4>1. parent[d] \notin Bad
        <5> SUFFICES ASSUME parent[d] \in Bad PROVE FALSE
          OBVIOUS
        <5>1. parent[d] < d /\ parent[d] \in Nat /\ d \in Nat
          BY <2>1, <2>4 DEF Ordered
        <5>2. <<parent[d], d>> \in OpToRel(<, Nat)
          BY <5>1 DEF OpToRel
        <5> QED
          BY <2>2, <5>2
      <4>2. \E h \in 1 .. n : stack[h].dir = parent[d]
        BY <2>5, <2>6, <2>7
      <4>3. a \notin PathOf(parent[d])
        BY <3>1, <4>1, <4>2
      <4>4. PathOf(d) = {d} \cup PathOf(parent[d])
        BY <2>4, <3>1, PathInside DEF Ordered
      <4> QED
        BY <2>4, <4>3, <4>4
    <3>2. CASE parent[d] \notin Dirs
      BY <2>4, <3>2, PathInside DEF Ordered
    <3> QED
      BY <3>1, <3>2
  <2>9. PICK k \in 1 .. n : a \in stack[k].left /\ a # stack[k].at
    BY DEF Unentered
  <2>10. stack[k].dir = fr.dir
    BY <2>7, <2>8, <2>9 DEF StackOK, FrameOK
  <2>11. k = j + 1
    <3>1. \A x, y \in 1 .. n : x < y => stack[y].dir < stack[x].dir
      BY DEF StackOK
    <3>2. fr.dir \in Int
      <4>1. fr.dir \in Dirs \cup {Root}
        BY <2>6 DEF FrameOK, Frames
      <4> QED
        BY <4>1, ObjectClusters DEF Objects, Root, RootCluster
    <3>3. ~(fr.dir < fr.dir)
      BY <3>2
    <3>4. ~(k < j + 1) /\ ~(j + 1 < k)
      BY <2>5, <2>6, <2>10, <3>1, <3>3
    <3> QED
      BY <2>5, <3>4
  <2> QED
    BY <2>6, <2>8, <2>9, <2>11
<1> QED
  BY <1>1

\* The two ways a step changes the top of the stack, and the third is to take
\* it off.
LEMMA TopChanges ==
  ASSUME stack \in Seq(Frames), stack # <<>>, NEW fr \in Frames,
         stack' = [stack EXCEPT ![1] = fr]
  PROVE  /\ stack' \in Seq(Frames) /\ Len(stack') = Len(stack)
         /\ Len(stack) \in Nat /\ 1 \in 1 .. Len(stack)
         /\ stack'[1] = fr /\ Top = stack[1]
         /\ \A i \in 1 .. Len(stack) : i # 1 => stack'[i] = stack[i]
<1>1. Len(stack) \in Nat \ {0}
  BY EmptySeq
<1>2. 1 \in 1 .. Len(stack)
  BY <1>1
<1>3. Top = stack[1]
  BY DEF Top
<1> QED
  BY <1>1, <1>2, <1>3, ExceptSeq

LEMMA TopPushed ==
  ASSUME stack \in Seq(Frames), stack # <<>>, NEW fr \in Frames, NEW top \in Frames,
         stack' = <<fr, top>> \o Tail(stack)
  PROVE  /\ stack' \in Seq(Frames) /\ Len(stack') = Len(stack) + 1
         /\ Len(stack) \in Nat \ {0}
         /\ stack'[1] = fr /\ stack'[2] = top /\ Top = stack[1]
         /\ \A i \in 2 .. Len(stack) : stack'[i + 1] = stack[i]
<1>1. Len(stack) \in Nat \ {0}
  BY EmptySeq
<1>2. /\ Tail(stack) \in Seq(Frames) /\ Len(Tail(stack)) = Len(stack) - 1
      /\ \A i \in 1 .. Len(Tail(stack)) : Tail(stack)[i] = stack[i + 1]
  BY HeadTailProperties
<1>3. PICK s : s = <<fr, top>>
  OBVIOUS
<1>4. s \in Seq(Frames) /\ Len(s) = 2 /\ s[1] = fr /\ s[2] = top
  BY <1>3
<1>5. PICK r : r = Tail(stack)
  OBVIOUS
<1>6. /\ s \o r \in Seq(Frames) /\ Len(s \o r) = Len(s) + Len(r)
      /\ \A i \in 1 .. Len(s) + Len(r) :
           (s \o r)[i] = IF i <= Len(s) THEN s[i] ELSE r[i - Len(s)]
  <2>1. s \in Seq(Frames) /\ r \in Seq(Frames)
    BY <1>2, <1>4, <1>5
  <2>2. s \o r \in Seq(Frames) /\ Len(s \o r) = Len(s) + Len(r)
    BY <2>1, ConcatProperties
  <2>3. ASSUME NEW i \in 1 .. Len(s) + Len(r)
        PROVE  (s \o r)[i] = IF i <= Len(s) THEN s[i] ELSE r[i - Len(s)]
    BY <2>1, ConcatProperties
  <2> QED
    BY <2>2, <2>3
<1>7. stack' = s \o r
  BY <1>3, <1>5
<1>8. \A i \in 2 .. Len(stack) : stack'[i + 1] = stack[i]
  <2> TAKE i \in 2 .. Len(stack)
  <2>1. i + 1 \in 1 .. Len(s) + Len(r) /\ ~(i + 1 <= Len(s))
    BY <1>1, <1>2, <1>4, <1>5
  <2>2. (s \o r)[i + 1] = r[(i + 1) - 2]
    BY <1>4, <1>6, <2>1
  <2>3. (i + 1) - 2 = i - 1 /\ i - 1 \in 1 .. Len(r) /\ (i - 1) + 1 = i
    BY <1>1, <1>2, <1>5
  <2> QED
    BY <1>2, <1>5, <1>7, <2>2, <2>3
<1>9. stack'[1] = fr /\ stack'[2] = top
  <2>1. 1 \in 1 .. Len(s) + Len(r) /\ 2 \in 1 .. Len(s) + Len(r)
    BY <1>1, <1>2, <1>4, <1>5
  <2> QED
    BY <1>4, <1>6, <1>7, <2>1
<1>10. Len(stack') = Len(stack) + 1
  BY <1>1, <1>2, <1>4, <1>5, <1>6, <1>7
<1> QED
  BY <1>1, <1>6, <1>7, <1>8, <1>9, <1>10 DEF Top

LEMMA TopPopped ==
  ASSUME stack \in Seq(Frames), stack # <<>>, stack' = Tail(stack)
  PROVE  /\ stack' \in Seq(Frames) /\ Len(stack') = Len(stack) - 1
         /\ Len(stack) \in Nat \ {0} /\ Top = stack[1]
         /\ \A i \in 1 .. Len(stack) - 1 : stack'[i] = stack[i + 1]
<1>1. Len(stack) \in Nat \ {0}
  BY EmptySeq
<1>2. /\ Tail(stack) \in Seq(Frames) /\ Len(Tail(stack)) = Len(stack) - 1
      /\ \A i \in 1 .. Len(Tail(stack)) : Tail(stack)[i] = stack[i + 1]
  BY HeadTailProperties
<1> QED
  BY <1>1, <1>2 DEF Top

\* What the walk was asked for, and the tree it walks, stay as they are.
LEMMA SameTree ==
  ASSUME UNCHANGED <<parent, target, star>>
  PROVE  /\ Ordered <=> Ordered'
         /\ Asking <=> Asking'
         /\ Doomed' = Doomed
         /\ \A o : PathOf(o)' = PathOf(o)
<1>1. Above' = Above
  BY DEF Above
<1>2. \A o : PathOf(o)' = PathOf(o)
  BY <1>1 DEF PathOf
<1>3. Doomed' = Doomed
  BY <1>2 DEF Doomed
<1> QED
  BY <1>2, <1>3 DEF Ordered, Tree, Asking

\* What the frames below the innermost one list.
PendingBelow(o) == \E i \in 2 .. Len(stack) : o \in stack[i].left
UnenteredBelow(a) == \E i \in 2 .. Len(stack) : a \in stack[i].left /\ a # stack[i].at

LEMMA TopAndBelow ==
  ASSUME stack \in Seq(Frames), stack # <<>>
  PROVE  /\ Top = stack[1] /\ 1 \in 1 .. Len(stack) /\ Len(stack) \in Nat \ {0}
         /\ Top \in Frames
         /\ \A o : Pending(o) <=> o \in Top.left \/ PendingBelow(o)
         /\ \A a : Unentered(a) <=> (a \in Top.left /\ a # Top.at) \/ UnenteredBelow(a)
<1>1. Len(stack) \in Nat \ {0}
  BY EmptySeq
<1>2. \A i : i \in 1 .. Len(stack) <=> i = 1 \/ i \in 2 .. Len(stack)
  BY <1>1
<1>3. Top = stack[1] /\ Top \in Frames
  BY HeadTailProperties DEF Top
<1> QED
  BY <1>1, <1>2, <1>3 DEF Pending, Unentered, PendingBelow, UnenteredBelow

\* A change to the innermost frame.
LEMMA Changed ==
  ASSUME StackOK, stack # <<>>, UNCHANGED <<parent, target, star>>,
         NEW fr, FrameOK(fr, Doomed, parent), fr.dir = Top.dir, stack' = [stack EXCEPT ![1] = fr]
  PROVE  /\ StackOK'
         /\ \A o : Pending(o)' <=> o \in fr.left \/ PendingBelow(o)
         /\ \A a : Unentered(a)' <=> (a \in fr.left /\ a # fr.at) \/ UnenteredBelow(a)
<1>1. fr \in Frames /\ stack \in Seq(Frames)
  BY DEF FrameOK, StackOK
<1>2. /\ stack' \in Seq(Frames) /\ Len(stack') = Len(stack)
      /\ stack'[1] = fr /\ Top = stack[1]
      /\ \A i \in 1 .. Len(stack) : i # 1 => stack'[i] = stack[i]
  BY <1>1, TopChanges
<1>3. Len(stack) \in Nat \ {0}
  BY <1>1, EmptySeq
<1>4. \A i : i \in 1 .. Len(stack) <=> i = 1 \/ i \in 2 .. Len(stack)
  BY <1>3
<1>5. \A i \in 2 .. Len(stack) : stack'[i] = stack[i]
  BY <1>2, <1>4, <1>3
<1>6. \A i \in 1 .. Len(stack) : stack'[i].dir = stack[i].dir
  BY <1>2, <1>4, <1>5
<1>7. \A i \in 1 .. Len(stack) : FrameOK(stack'[i], Doomed, parent)
  BY <1>2, <1>4, <1>5 DEF StackOK
<1>8. ASSUME NEW i \in 1 .. Len(stack)
      PROVE  /\ i < Len(stack) => stack'[i].dir = stack'[i + 1].at /\ stack'[i].dir \in Dirs
             /\ i = Len(stack) => stack'[i].dir = Root
  <2>1. i < Len(stack) => i + 1 \in 2 .. Len(stack)
    BY <1>3
  <2> QED
    BY <1>5, <1>6, <2>1 DEF StackOK
<1>9. \A i \in 1 .. Len(stack) : FrameOK(stack'[i], Doomed', parent')
  BY <1>7, SameTree
<1>10. StackOK'
  BY <1>2, <1>6, <1>8, <1>9 DEF StackOK
<1>11. \A o : Pending(o)' <=> o \in fr.left \/ PendingBelow(o)
  BY <1>2, <1>4, <1>5 DEF Pending, PendingBelow
<1>12. \A a : Unentered(a)' <=> (a \in fr.left /\ a # fr.at) \/ UnenteredBelow(a)
  BY <1>2, <1>4, <1>5 DEF Unentered, UnenteredBelow
<1> QED
  BY <1>10, <1>11, <1>12

\* A directory entered: a frame for it on top of that of the directory it is in.
LEMMA Pushed ==
  ASSUME StackOK, stack # <<>>, UNCHANGED <<parent, target, star>>,
         NEW fr, FrameOK(fr, Doomed, parent),
         NEW top, FrameOK(top, Doomed, parent), top.dir = Top.dir,
         fr.dir = top.at, fr.dir \in Dirs, top.dir < fr.dir,
         stack' = <<fr, top>> \o Tail(stack)
  PROVE  /\ StackOK'
         /\ \A o : Pending(o)' <=> o \in fr.left \/ o \in top.left \/ PendingBelow(o)
         /\ \A a : Unentered(a)' <=> \/ a \in fr.left /\ a # fr.at
                                     \/ a \in top.left /\ a # top.at
                                     \/ UnenteredBelow(a)
<1>1. fr \in Frames /\ top \in Frames /\ stack \in Seq(Frames)
  BY DEF FrameOK, StackOK
<1>2. /\ stack' \in Seq(Frames) /\ Len(stack') = Len(stack) + 1
      /\ Len(stack) \in Nat \ {0}
      /\ stack'[1] = fr /\ stack'[2] = top /\ Top = stack[1]
      /\ \A i \in 2 .. Len(stack) : stack'[i + 1] = stack[i]
  BY <1>1, TopPushed
<1>3. PICK n \in Nat \ {0} : n = Len(stack)
  BY <1>2
<1>4. ASSUME NEW i \in 1 .. n + 1, i # 1, i # 2
      PROVE  i - 1 \in 2 .. n /\ (i - 1) + 1 = i
  BY <1>3, <1>4
<1>5. ASSUME NEW i \in 1 .. n + 1, i # 1, i # 2
      PROVE  stack'[i] = stack[i - 1]
  BY <1>2, <1>3, <1>4, <1>5
<1>6. ASSUME NEW i \in 1 .. n + 1
      PROVE  FrameOK(stack'[i], Doomed, parent)
  <2>1. CASE i = 1
    BY <1>2, <2>1
  <2>2. CASE i = 2
    BY <1>2, <2>2
  <2>3. CASE i # 1 /\ i # 2
    <3>1. stack'[i] = stack[i - 1] /\ i - 1 \in 1 .. n
      BY <1>3, <1>4, <1>5, <2>3
    <3> QED
      BY <1>3, <3>1 DEF StackOK
  <2> QED
    BY <2>1, <2>2, <2>3
<1>7. stack'[2].dir = stack[1].dir /\ 1 \in 1 .. n
  BY <1>2, <1>3
<1>8. \A i \in 2 .. n + 1 : i - 1 \in 1 .. n /\ stack'[i].dir = stack[i - 1].dir
  <2> TAKE i \in 2 .. n + 1
  <2>1. CASE i = 2
    BY <1>7, <2>1
  <2>2. CASE i # 2
    BY <1>3, <1>4, <1>5, <2>2
  <2> QED
    BY <2>1, <2>2
<1>9. ASSUME NEW i \in 1 .. n + 1
      PROVE  /\ i < n + 1 => stack'[i].dir = stack'[i + 1].at /\ stack'[i].dir \in Dirs
             /\ i = n + 1 => stack'[i].dir = Root
  <2>1. CASE i = 1
    BY <1>2, <1>3, <2>1
  <2>2. CASE i # 1
    <3>1. PICK j : j = i - 1
      OBVIOUS
    <3>2. j \in 1 .. n /\ i \in 2 .. n + 1 /\ i = j + 1
      BY <2>2, <3>1
    <3>3. stack'[i].dir = stack[j].dir
      BY <1>8, <3>1, <3>2
    <3>4. /\ j < n => stack[j].dir = stack[j + 1].at /\ stack[j].dir \in Dirs
          /\ j = n => stack[j].dir = Root
      BY <1>3, <3>2 DEF StackOK
    <3>5. j < n => stack'[i + 1] = stack[j + 1]
      <4> SUFFICES ASSUME j < n PROVE stack'[i + 1] = stack[j + 1]
        OBVIOUS
      <4>1. i \in 2 .. n
        BY <3>2
      <4>2. stack'[i + 1] = stack[i]
        BY <1>2, <1>3, <4>1
      <4> QED
        BY <3>2, <4>2
    <3> QED
      BY <1>3, <3>2, <3>3, <3>4, <3>5
  <2> QED
    BY <2>1, <2>2
<1>10. \A i, j \in 1 .. n + 1 : i < j => stack'[j].dir < stack'[i].dir
  <2> SUFFICES ASSUME NEW i \in 1 .. n + 1, NEW j \in 1 .. n + 1, i < j
               PROVE  stack'[j].dir < stack'[i].dir
    OBVIOUS
  <2>1. \A x, y \in 1 .. n : x < y => stack[y].dir < stack[x].dir
    BY <1>3 DEF StackOK
  <2>2. j \in 2 .. n + 1 /\ j - 1 \in 1 .. n /\ stack'[j].dir = stack[j - 1].dir
    <3>1. j \in 2 .. n + 1
      BY <2>1
    <3> QED
      BY <1>8, <3>1
  <2>3. CASE i # 1
    <3>1. i \in 2 .. n + 1
      BY <2>3
    <3>2. i - 1 \in 1 .. n /\ stack'[i].dir = stack[i - 1].dir
      BY <1>8, <3>1
    <3>3. i - 1 < j - 1
      OBVIOUS
    <3> QED
      BY <2>1, <2>2, <3>2, <3>3
  <2>4. CASE i = 1
    <3>1. stack[1].dir < fr.dir /\ stack'[i].dir = fr.dir
      BY <1>2, <2>4
    <3>2. CASE j = 2
      BY <2>2, <3>1, <3>2
    <3>3. CASE j # 2
      <4>1. 1 < j - 1 /\ 1 \in 1 .. n
        BY <2>2, <3>3
      <4>2. stack[j - 1].dir < stack[1].dir
        BY <2>1, <2>2, <4>1
      <4>3. /\ stack[1].dir \in Int /\ fr.dir \in Int
            /\ stack[j - 1].dir \in Int
        <5>1. \A d \in Dirs \cup {Root} : d \in Int
          BY ObjectClusters DEF Objects, Root, RootCluster
        <5>2. /\ stack[1].dir \in Dirs \cup {Root} /\ fr.dir \in Dirs \cup {Root}
              /\ stack[j - 1].dir \in Dirs \cup {Root}
          BY <1>1, <1>3, <2>2, <4>1 DEF Frames, StackOK, FrameOK
        <5> QED
          BY <5>1, <5>2
      <4>4. PICK x, y, z \in Int : x = stack[1].dir /\ y = fr.dir /\ z = stack[j - 1].dir
        BY <4>3
      <4>5. z < y
        BY <3>1, <4>2, <4>4
      <4> QED
        BY <2>2, <3>1, <4>4, <4>5
    <3> QED
      BY <3>2, <3>3
  <2> QED
    BY <2>3, <2>4
<1>11. StackOK'
  <2>1. \A i \in 1 .. n + 1 : FrameOK(stack'[i], Doomed', parent')
    BY <1>6, SameTree
  <2> QED
    BY <1>2, <1>3, <1>9, <1>10, <2>1 DEF StackOK
<1>12. /\ 1 \in 1 .. n + 1 /\ 2 \in 1 .. n + 1
       /\ \A i \in 2 .. n : i + 1 \in 1 .. n + 1
       /\ Len(stack') = n + 1
  BY <1>2, <1>3
<1>13. ASSUME NEW i \in 1 .. n + 1
       PROVE  \/ stack'[i] = fr \/ stack'[i] = top
              \/ \E j \in 2 .. n : stack'[i] = stack[j]
  <2>1. CASE i = 1 \/ i = 2
    BY <1>2, <2>1
  <2>2. CASE i # 1 /\ i # 2
    BY <1>4, <1>5, <2>2
  <2> QED
    BY <2>1, <2>2
<1>14. \A o : Pending(o)' <=> o \in fr.left \/ o \in top.left \/ PendingBelow(o)
  <2> TAKE o
  <2>1. Pending(o)' <=> \E i \in 1 .. n + 1 : o \in stack'[i].left
    BY <1>12 DEF Pending
  <2>2. PendingBelow(o) <=> \E i \in 2 .. n : o \in stack[i].left
    BY <1>3 DEF PendingBelow
  <2> QED
    BY <1>2, <1>3, <1>12, <1>13, <2>1, <2>2
<1>15. \A a : Unentered(a)' <=> \/ a \in fr.left /\ a # fr.at
                                \/ a \in top.left /\ a # top.at
                                \/ UnenteredBelow(a)
  <2> TAKE a
  <2> DEFINE Has(f) == a \in f.left /\ a # f.at
  <2>1. Unentered(a)' <=> \E i \in 1 .. n + 1 : Has(stack'[i])
    BY <1>12 DEF Unentered
  <2>2. UnenteredBelow(a) <=> \E i \in 2 .. n : Has(stack[i])
    BY <1>3 DEF UnenteredBelow
  <2> HIDE DEF Has
  <2>3. Unentered(a)' => Has(fr) \/ Has(top) \/ UnenteredBelow(a)
    <3> SUFFICES ASSUME Unentered(a)' PROVE Has(fr) \/ Has(top) \/ UnenteredBelow(a)
      OBVIOUS
    <3>1. PICK i \in 1 .. n + 1 : Has(stack'[i])
      BY <2>1
    <3> QED
      BY <1>13, <2>2, <3>1
  <2>4. Has(fr) \/ Has(top) => Unentered(a)'
    BY <1>2, <1>12, <2>1
  <2>5. UnenteredBelow(a) => Unentered(a)'
    <3> SUFFICES ASSUME UnenteredBelow(a) PROVE Unentered(a)'
      OBVIOUS
    <3>1. PICK i \in 2 .. n : Has(stack[i])
      BY <2>2
    <3>2. i + 1 \in 1 .. n + 1 /\ stack'[i + 1] = stack[i]
      BY <1>2, <1>3, <1>12
    <3>3. Has(stack'[i + 1])
      BY <3>1, <3>2
    <3> QED
      BY <2>1, <3>2, <3>3
  <2> QED
    BY <2>3, <2>4, <2>5 DEF Has
<1> QED
  BY <1>11, <1>14, <1>15

\* A directory with nothing left, left.
LEMMA Popped ==
  ASSUME StackOK, stack # <<>>, UNCHANGED <<parent, target, star>>,
         Top.left = {}, stack' = Tail(stack)
  PROVE  /\ StackOK'
         /\ \A o : Pending(o)' <=> Pending(o)
         /\ \A a : Unentered(a)' <=> Unentered(a)
<1>1. stack \in Seq(Frames)
  BY DEF StackOK
<1>2. /\ stack' \in Seq(Frames) /\ Len(stack') = Len(stack) - 1
      /\ Len(stack) \in Nat \ {0} /\ Top = stack[1]
      /\ \A i \in 1 .. Len(stack) - 1 : stack'[i] = stack[i + 1]
  BY <1>1, TopPopped
<1>3. PICK n \in Nat \ {0} : n = Len(stack)
  BY <1>2
<1>4. \A i \in 1 .. n - 1 : i + 1 \in 1 .. n /\ i + 1 \in 2 .. n /\ stack'[i] = stack[i + 1]
  BY <1>2, <1>3
<1>5. ASSUME NEW i \in 1 .. n - 1
      PROVE  /\ FrameOK(stack'[i], Doomed', parent')
             /\ i < n - 1 => stack'[i].dir = stack'[i + 1].at /\ stack'[i].dir \in Dirs
             /\ i = n - 1 => stack'[i].dir = Root
             /\ \A j \in 1 .. n - 1 : i < j => stack'[j].dir < stack'[i].dir
  <2>1. PICK k : k = i + 1
    OBVIOUS
  <2>2. k \in 1 .. n /\ stack'[i] = stack[k]
    BY <1>4, <2>1
  <2>3. FrameOK(stack'[i], Doomed', parent')
    BY <1>3, <2>2, SameTree DEF StackOK
  <2>4. i < n - 1 => i + 1 \in 1 .. n - 1 /\ k < n /\ stack'[i + 1] = stack[k + 1]
    BY <1>3, <1>4, <2>1
  <2>5. i = n - 1 => k = n
    BY <1>3, <2>1
  <2>6. ASSUME NEW j \in 1 .. n - 1, i < j
        PROVE  stack'[j].dir < stack'[i].dir
    <3>1. PICK h : h = j + 1
      OBVIOUS
    <3>2. h \in 1 .. n /\ stack'[j] = stack[h] /\ k < h
      BY <1>3, <1>4, <2>1, <2>6, <3>1
    <3> QED
      BY <1>3, <2>2, <3>2 DEF StackOK
  <2> QED
    BY <1>3, <2>2, <2>3, <2>4, <2>5, <2>6 DEF StackOK
<1>6. StackOK'
  BY <1>2, <1>3, <1>5 DEF StackOK
<1>7. \A j \in 2 .. n : j - 1 \in 1 .. n - 1 /\ stack[j] = stack'[j - 1]
  <2> TAKE j \in 2 .. n
  <2>1. PICK i : i = j - 1
    OBVIOUS
  <2>2. i \in 1 .. n - 1 /\ j = i + 1
    BY <1>3, <2>1
  <2> QED
    BY <1>4, <2>1, <2>2
<1>8. \A o : Pending(o)' <=> PendingBelow(o)
  <2> TAKE o
  <2>1. Pending(o)' <=> \E i \in 1 .. n - 1 : o \in stack'[i].left
    BY <1>2, <1>3 DEF Pending
  <2>2. PendingBelow(o) <=> \E i \in 2 .. n : o \in stack[i].left
    BY <1>3 DEF PendingBelow
  <2> QED
    BY <1>4, <1>7, <2>1, <2>2
<1>9. \A a : Unentered(a)' <=> UnenteredBelow(a)
  <2> TAKE a
  <2> DEFINE Has(f) == a \in f.left /\ a # f.at
  <2>1. Unentered(a)' <=> \E i \in 1 .. n - 1 : Has(stack'[i])
    BY <1>2, <1>3 DEF Unentered
  <2>2. UnenteredBelow(a) <=> \E i \in 2 .. n : Has(stack[i])
    BY <1>3 DEF UnenteredBelow
  <2> HIDE DEF Has
  <2> QED
    BY <1>4, <1>7, <2>1, <2>2
<1> QED
  BY <1>1, <1>6, <1>8, <1>9, TopAndBelow

----------------------------------------------------------------------------
(* The invariant holds.                                                    *)

\* What may be asked for here.
FilesOrTop == Patterns \subseteq {"files", "top"}

LEMMA RmInvInit ==
  ASSUME FilesOrTop, Init
  PROVE  RmInv
<1>1. Ordered
  BY DEF Init, Ordered, Tree
<1>2. Asking
  <2>1. PICK kind \in Patterns : Asked(kind, target, star)
    BY DEF Init
  <2>2. kind = "files" \/ kind = "top"
    BY DEF FilesOrTop
  <2> QED
    BY <2>1, <2>2 DEF Asked, Asking, In, Objects, Init
<1>3. entries = Objects
  BY DEF Init
<1>4. \A o \in Objects : Whole(fat, o)
  <2> TAKE o \in Objects
  <2>1. o \in Entries /\ o + 1 \in Entries /\ o + 1 \notin Objects
    BY ObjectClusters
  <2>2. fat[o] = o + 1
    BY <2>1 DEF Init
  <2>3. (o + 1) - 1 = o
    BY ObjectClusters
  <2>4. fat[o + 1] = EOC
    BY <2>1, <2>3 DEF Init
  <2> QED
    BY <2>2, <2>4 DEF Whole
<1>5. Chained(fat)
  <2>1. fat \in [Entries -> Values]
    <3>1. \A c \in Objects : c + 1 \in Values
      BY DEF Objects, Clusters, Values, EOC
    <3>2. 0 \in Values /\ EOC \in Values
      BY DEF Values, EOC
    <3> QED
      BY <3>1, <3>2 DEF Init
  <2> QED
    BY <1>4, <2>1 DEF Chained
<1>6. PICK fr : fr = [dir |-> Root, all |-> FALSE, dot |-> 2, left |-> In(Root), at |-> 0]
  OBVIOUS
<1>7. stack = <<fr>>
  BY <1>6 DEF Init
<1>8. FrameOK(fr, Doomed, parent)
  <2>1. Root \notin Doomed
    BY ObjectClusters DEF Doomed
  <2>2. fr \in Frames
    BY <1>3, <1>6 DEF Frames, In
  <2>3. \A o \in fr.left : parent[o] = fr.dir
    BY <1>6 DEF In
  <2>4. fr.dot = 2 /\ fr.all = FALSE /\ fr.dir = Root /\ fr.at = 0
    BY <1>6
  <2> QED
    BY <2>1, <2>2, <2>3, <2>4 DEF FrameOK
<1>9. Len(stack) = 1 /\ stack[1] = fr /\ fr \in Frames /\ stack \in Seq(Frames)
  BY <1>7, <1>8 DEF FrameOK
<1>10. StackOK
  <2>1. \A i \in 1 .. 1 : i = 1
    OBVIOUS
  <2>2. fr.dir = Root
    BY <1>6
  <2> QED
    BY <1>8, <1>9, <2>1, <2>2 DEF StackOK
<1>11. \A o \in Objects : Kept(o)
  BY <1>3, <1>4 DEF Kept, Untouched, Init
<1>12. Progress
  <2>1. ASSUME NEW o \in Objects
        PROVE  \E a \in Objects : Unentered(a) /\ a \in PathOf(o)
    <3>1. PICK a \in Objects : parent[a] = Root /\ a \in PathOf(o)
      BY <1>1, PathFromRoot
    <3>2. a \in fr.left /\ a # fr.at
      BY <1>3, <1>6, <3>1, ObjectClusters DEF In
    <3>3. Unentered(a)
      BY <1>9, <3>2 DEF Unentered
    <3> QED
      BY <3>1, <3>3
  <2> QED
    BY <1>11, <2>1 DEF Progress, Kept, Doomed
<1> QED
  BY <1>1, <1>2, <1>3, <1>5, <1>10, <1>11, <1>12 DEF RmInv

\* What is being listed by the innermost frame goes if its filter says so.
LEMMA MatchedIsDoomed ==
  ASSUME RmInv, stack # <<>>, NEW o \in Top.left
  PROVE  /\ o \in Objects /\ parent[o] = Top.dir
         /\ Matched(o) <=> o \in Doomed
<1>1. /\ stack \in Seq(Frames) /\ Top = stack[1] /\ 1 \in 1 .. Len(stack)
      /\ Top \in Frames
  BY TopAndBelow DEF RmInv, StackOK
<1>2. FrameOK(Top, Doomed, parent)
  BY <1>1 DEF RmInv, StackOK
<1>3. o \in Objects /\ parent[o] = Top.dir
  BY <1>1, <1>2 DEF Frames, FrameOK
<1>4. Top.all <=> parent[o] \in Doomed
  BY <1>2, <1>3 DEF FrameOK
<1> QED
  BY <1>3, <1>4, DoomedInside DEF Matched, RmInv, Ordered

LEMMA VisitDotKeeps ==
  ASSUME RmInv, VisitDot
  PROVE  RmInv'
<1>1. UNCHANGED <<parent, target, star>> /\ entries' = entries /\ stack # <<>>
  BY DEF VisitDot
<1>2. /\ stack \in Seq(Frames) /\ Top = stack[1] /\ 1 \in 1 .. Len(stack)
      /\ Len(stack) \in Nat \ {0} /\ Top \in Frames
      /\ \A o : Pending(o) <=> o \in Top.left \/ PendingBelow(o)
      /\ \A a : Unentered(a) <=> (a \in Top.left /\ a # Top.at) \/ UnenteredBelow(a)
  BY <1>1, TopAndBelow DEF RmInv, StackOK
<1>3. PICK fr0 \in Frames : fr0 = Top
  BY <1>2
<1>4. FrameOK(fr0, Doomed, parent) /\ fr0.dot < 2
  BY <1>2, <1>3 DEF RmInv, StackOK, VisitDot
<1>5. fr0.dir \in Dirs /\ fr0.dir \in Objects
  BY <1>4 DEF FrameOK, Objects
<1>6. PICK fr : fr = [fr0 EXCEPT !.dot = @ + 1]
  OBVIOUS
<1>7. stack' = [stack EXCEPT ![1] = fr]
  BY <1>2, <1>3, <1>6 DEF VisitDot
<1>8. /\ fr.dir = fr0.dir /\ fr.all = fr0.all /\ fr.left = fr0.left /\ fr.at = fr0.at
      /\ fr \in Frames
  BY <1>3, <1>4, <1>6 DEF Frames
<1>9. FrameOK(fr, Doomed, parent)
  BY <1>4, <1>5, <1>8 DEF FrameOK
<1>10. /\ StackOK'
       /\ \A o : Pending(o)' <=> Pending(o)
       /\ \A a : Unentered(a)' <=> Unentered(a)
  BY <1>1, <1>2, <1>3, <1>7, <1>8, <1>9, Changed DEF RmInv
<1>11. DotsMatched <=> fr0.dir \in Doomed
  <2>1. star # fr0.dir
    BY <1>5, ObjectClusters DEF RmInv, Asking
  <2> QED
    BY <1>3, <1>4, <2>1 DEF DotsMatched, FrameOK
\* The clusters freed are those of a directory being walked.
<1>12. \/ fat' = fat
       \/ \E x \in Doomed \cap Dirs : /\ fat' = FreeChain(fat, x)
                                      /\ \E i \in 1 .. Len(stack) : stack[i].dir = x
  <2>1. CASE ~DotsMatched
    BY <2>1 DEF VisitDot
  <2>2. CASE DotsMatched /\ fr0.dot = 0
    <3>1. fat' = FreeChain(fat, fr0.dir)
      BY <1>3, <2>2 DEF VisitDot
    <3> QED
      BY <1>2, <1>3, <1>5, <1>11, <2>2, <3>1
  <2>3. CASE DotsMatched /\ fr0.dot # 0
    <3>1. fat' = FreeChain(fat, parent[fr0.dir])
      BY <1>3, <2>3 DEF VisitDot
    <3>2. CASE parent[fr0.dir] = Root
      BY <3>1, <3>2, FreeRoot DEF RmInv, Chained
    <3>3. CASE parent[fr0.dir] # Root
      <4>1. parent[fr0.dir] \in Dirs
        BY <1>5, <3>3 DEF RmInv, Ordered, Tree
      <4>2. parent[fr0.dir] \in Doomed
        BY <1>5, <1>11, <2>3, <3>3, DoomedInside DEF RmInv, Ordered, Asking
      <4>3. \E i \in 1 .. Len(stack) : stack[i].dir = parent[fr0.dir]
        <5>1. fr0.dir # Root
          BY <1>5, ObjectClusters
        <5>2. 1 < Len(stack) /\ 1 + 1 = 2 /\ 2 \in 1 .. Len(stack)
          <6>1. Len(stack) # 1
            BY <1>2, <1>3, <5>1 DEF RmInv, StackOK
          <6>2. PICK n \in Nat \ {0} : n = Len(stack)
            BY <1>2
          <6>3. 1 < n /\ 2 \in 1 .. n
            BY <6>1, <6>2
          <6> QED
            BY <6>2, <6>3
        <5>3. fr0.dir = stack[2].at
          BY <1>2, <1>3, <5>2 DEF RmInv, StackOK
        <5>4. FrameOK(stack[2], Doomed, parent) /\ fr0.dir # 0
          BY <1>5, <5>2, ObjectClusters DEF RmInv, StackOK
        <5>5. parent[fr0.dir] = stack[2].dir
          BY <5>3, <5>4 DEF FrameOK
        <5> QED
          BY <5>2, <5>5
      <4> QED
        BY <3>1, <4>1, <4>2, <4>3
    <3> QED
      BY <3>2, <3>3
  <2> QED
    BY <2>1, <2>2, <2>3
<1>13. \A o \in Objects \ Doomed : {o} \X {".", ".."} \subseteq dots
                                   => {o} \X {".", ".."} \subseteq dots'
  <2>1. CASE DotsMatched
    <3>1. PICK dot : dots' = dots \ {<<fr0.dir, dot>>}
      BY <1>3, <2>1 DEF VisitDot
    <3> QED
      BY <1>11, <2>1, <3>1
  <2>2. CASE ~DotsMatched
    BY <2>2 DEF VisitDot
  <2> QED
    BY <2>1, <2>2
<1>14. /\ Chained(fat')
       /\ \A o \in Objects : Freed(fat, o) => Freed(fat', o)
       /\ \A o \in Objects \ Doomed : Whole(fat, o) => Whole(fat', o)
       /\ \A a \in Objects, o \in Objects :
            Unentered(a) /\ a \in PathOf(o) /\ Whole(fat, o) => Whole(fat', o)
  <2>1. CASE fat' = fat
    BY <2>1 DEF RmInv
  <2>2. CASE fat' # fat
    <3>1. PICK x \in Doomed \cap Dirs : /\ fat' = FreeChain(fat, x)
                                        /\ \E i \in 1 .. Len(stack) : stack[i].dir = x
      BY <1>12, <2>2
    <3>2. x \in Objects
      BY DEF Objects
    <3>3. /\ Chained(fat') /\ Freed(fat', x)
          /\ \A p \in Objects \ {x} : fat'[p] = fat[p] /\ fat'[p + 1] = fat[p + 1]
      BY <3>1, <3>2, FreeOne DEF RmInv
    <3>4. ASSUME NEW a \in Objects, Unentered(a)
          PROVE  a \notin PathOf(x)
      BY <3>1, <3>4, WalkedAreEntered DEF RmInv
    <3> QED
      BY <3>3, <3>4 DEF Freed, Whole
  <2> QED
    BY <2>1, <2>2
<1>15. \A o \in Objects \ Doomed : Kept(o)'
  BY <1>1, <1>13, <1>14 DEF RmInv, Kept, Untouched
<1>16. \A a \in Objects, o \in Objects : Unentered(a)' /\ a \in PathOf(o) => Untouched(o)'
  BY <1>1, <1>10, <1>14 DEF RmInv, Progress, Untouched
<1>17. \A o \in Doomed :
         \/ Gone(o)' \/ Pending(o)'
         \/ \E a \in Objects : Unentered(a)' /\ a \in PathOf(o)
  <2>1. \A o \in Objects : Gone(o) => Gone(o)'
    BY <1>1, <1>14 DEF Gone
  <2> QED
    BY <1>10, <2>1 DEF RmInv, Progress, Doomed
<1>18. Progress'
  BY <1>1, <1>16, <1>17, SameTree DEF Progress
<1> QED
  BY <1>1, <1>10, <1>14, <1>15, <1>18, SameTree DEF RmInv

\* What follows from passing by an entry of the innermost directory.
LEMMA PassByKeeps ==
  ASSUME RmInv, NEW o, Ready(o), PassBy(o), UNCHANGED <<parent, target, star>>
  PROVE  /\ o \in Objects /\ Ordered
         /\ StackOK'
         /\ \A p : Pending(p) => p = o \/ Pending(p)'
         /\ \A a : Unentered(a)' => Unentered(a)
         /\ \A p \in Objects, a \in Objects :
              Unentered(a) /\ a \in PathOf(p) => p = o \/ Unentered(a)'
         /\ \A a \in Objects : Unentered(a)' => a \notin PathOf(o)
<1>1. stack # <<>> /\ o \in Top.left /\ Top.at = IF o \in Dirs THEN o ELSE 0
  BY DEF Ready
<1>2. /\ stack \in Seq(Frames) /\ Top = stack[1] /\ 1 \in 1 .. Len(stack)
      /\ Len(stack) \in Nat \ {0} /\ Top \in Frames
      /\ \A p : Pending(p) <=> p \in Top.left \/ PendingBelow(p)
      /\ \A a : Unentered(a) <=> (a \in Top.left /\ a # Top.at) \/ UnenteredBelow(a)
  BY <1>1, TopAndBelow DEF RmInv, StackOK
<1>3. PICK fr0 \in Frames : fr0 = Top
  BY <1>2
<1>4. FrameOK(fr0, Doomed, parent)
  BY <1>2, <1>3 DEF RmInv, StackOK
<1>5. o \in Objects /\ parent[o] = fr0.dir
  BY <1>1, <1>3, MatchedIsDoomed
<1>6. PICK fr : fr = [fr0 EXCEPT !.left = @ \ {o}, !.at = 0]
  OBVIOUS
<1>7. stack' = [stack EXCEPT ![1] = fr]
  BY <1>2, <1>3, <1>6 DEF PassBy
<1>8. /\ fr.dir = fr0.dir /\ fr.all = fr0.all /\ fr.left = fr0.left \ {o} /\ fr.at = 0
      /\ fr.dot = fr0.dot /\ fr \in Frames
  BY <1>3, <1>6 DEF Frames
<1>9. FrameOK(fr, Doomed, parent)
  BY <1>4, <1>8 DEF FrameOK
<1>10. /\ StackOK'
       /\ \A p : Pending(p)' <=> p \in fr.left \/ PendingBelow(p)
       /\ \A a : Unentered(a)' <=> (a \in fr.left /\ a # fr.at) \/ UnenteredBelow(a)
  BY <1>1, <1>3, <1>7, <1>8, <1>9, Changed DEF RmInv
<1>11. \A p \in fr0.left : p \in Objects /\ p # 0
  BY <1>3, ObjectClusters DEF Frames
<1>12. \A p : Pending(p) => p = o \/ Pending(p)'
  BY <1>2, <1>3, <1>8, <1>10
<1>13. \A a : Unentered(a)' => Unentered(a)
  <2>1. \A a \in fr.left : a \in fr0.left /\ a # fr0.at
    BY <1>1, <1>3, <1>8, <1>11
  <2> QED
    BY <1>2, <1>3, <1>10, <2>1
<1>14. ASSUME NEW p \in Objects, NEW a \in Objects, Unentered(a), a \in PathOf(p)
       PROVE  p = o \/ Unentered(a)'
  <2>1. CASE UnenteredBelow(a)
    BY <1>10, <2>1
  <2>2. CASE a \in fr0.left /\ a # fr0.at /\ a # o
    BY <1>8, <1>10, <1>11, <2>2
  <2>3. CASE a = o /\ a # fr0.at
    <3>1. a \notin Dirs
      BY <1>1, <1>3, <2>3
    <3> QED
      BY <1>14, <2>3, <3>1, PathBelow DEF RmInv
  <2> QED
    BY <1>2, <1>3, <1>14, <2>1, <2>2, <2>3
<1>15. ASSUME Unentered(o)' PROVE FALSE
  <2>1. UnenteredBelow(o)
    BY <1>8, <1>10, <1>15
  <2>2. PICK i \in 2 .. Len(stack) : o \in stack[i].left
    BY <2>1 DEF UnenteredBelow
  <2>3. i \in 1 .. Len(stack) /\ 1 < i
    <3>1. PICK n \in Nat : n = Len(stack)
      BY <1>2
    <3> QED
      BY <3>1
  <2>4. stack[i].dir = fr0.dir /\ stack[i].dir < fr0.dir
    BY <1>2, <1>3, <1>5, <2>2, <2>3 DEF RmInv, StackOK, FrameOK
  <2>5. fr0.dir \in Int
    <3>1. fr0.dir \in Dirs \cup {Root}
      BY <1>3 DEF Frames
    <3> QED
      BY <3>1, ObjectClusters DEF Objects, Root, RootCluster
  <2>6. PICK x \in Int : x = fr0.dir
    BY <2>5
  <2>7. x < x
    BY <2>4, <2>6
  <2> QED
    BY <2>7
<1>16. ASSUME NEW a \in Objects, Unentered(a)', a \in PathOf(o)
       PROVE  FALSE
  <2>1. a # o /\ Unentered(a)
    BY <1>13, <1>15, <1>16
  <2>2. CASE parent[o] \in Dirs
    <3>1. a \in PathOf(parent[o])
      BY <1>5, <1>16, <2>1, <2>2, PathInside DEF RmInv, Ordered
    <3>2. a \notin PathOf(stack[1].dir)
      BY <1>2, <1>3, <1>5, <2>1, <2>2, WalkedAreEntered DEF RmInv
    <3> QED
      BY <1>2, <1>3, <1>5, <3>1, <3>2
  <2>3. CASE parent[o] \notin Dirs
    BY <1>5, <1>16, <2>1, <2>3, PathInside DEF RmInv, Ordered
  <2> QED
    BY <2>2, <2>3
<1> QED
  BY <1>5, <1>10, <1>12, <1>13, <1>14, <1>16 DEF RmInv

LEMMA KeepEntryKeeps ==
  ASSUME RmInv, NEW o, KeepEntry(o)
  PROVE  RmInv'
<1>1. /\ UNCHANGED <<parent, target, star>>
      /\ fat' = fat /\ entries' = entries /\ dots' = dots
      /\ Ready(o) /\ PassBy(o) /\ ~Matched(o)
  BY DEF KeepEntry
<1>2. /\ o \in Objects /\ Ordered
      /\ StackOK'
      /\ \A p : Pending(p) => p = o \/ Pending(p)'
      /\ \A a : Unentered(a)' => Unentered(a)
      /\ \A p \in Objects, a \in Objects :
           Unentered(a) /\ a \in PathOf(p) => p = o \/ Unentered(a)'
  BY <1>1, PassByKeeps
<1>3. o \notin Doomed
  BY <1>1, MatchedIsDoomed DEF Ready
<1>4. \A p : /\ Untouched(p)' <=> Untouched(p)
             /\ Gone(p)' <=> Gone(p)
             /\ Kept(p)' <=> Kept(p)
  BY <1>1 DEF Untouched, Gone, Kept, Whole, Freed
<1>5. Progress'
  <2>1. \A a \in Objects, p \in Objects : Unentered(a)' /\ a \in PathOf(p) => Untouched(p)'
    BY <1>2, <1>4 DEF RmInv, Progress
  <2>2. \A p \in Doomed :
          \/ Gone(p)' \/ Pending(p)'
          \/ \E a \in Objects : Unentered(a)' /\ a \in PathOf(p)
    BY <1>2, <1>3, <1>4 DEF RmInv, Progress, Doomed
  <2> QED
    BY <1>1, <2>1, <2>2, SameTree DEF Progress
<1>6. Chained(fat')
  BY <1>1 DEF RmInv
<1> QED
  BY <1>1, <1>2, <1>4, <1>5, <1>6, SameTree DEF RmInv

LEMMA RemoveEntryKeeps ==
  ASSUME RmInv, NEW o, RemoveEntry(o)
  PROVE  RmInv'
<1>1. /\ UNCHANGED <<parent, target, star>>
      /\ fat' = FreeChain(fat, o) /\ entries' = entries \ {o} /\ dots' = dots
      /\ Ready(o) /\ PassBy(o) /\ Matched(o)
  BY DEF RemoveEntry
<1>2. /\ o \in Objects /\ Ordered
      /\ StackOK'
      /\ \A p : Pending(p) => p = o \/ Pending(p)'
      /\ \A a : Unentered(a)' => Unentered(a)
      /\ \A p \in Objects, a \in Objects :
           Unentered(a) /\ a \in PathOf(p) => p = o \/ Unentered(a)'
      /\ \A a \in Objects : Unentered(a)' => a \notin PathOf(o)
  BY <1>1, PassByKeeps
<1>3. o \in Doomed
  BY <1>1, MatchedIsDoomed DEF Ready
<1>4. /\ Chained(fat') /\ Freed(fat', o)
      /\ \A p \in Objects \ {o} : fat'[p] = fat[p] /\ fat'[p + 1] = fat[p + 1]
  BY <1>1, <1>2, FreeOne DEF RmInv
<1>5. Gone(o)'
  BY <1>1, <1>4 DEF Gone
<1>6. \A p \in Objects \ {o} : /\ Untouched(p) => Untouched(p)'
                               /\ Gone(p) => Gone(p)'
                               /\ Kept(p) => Kept(p)'
  BY <1>1, <1>4 DEF Untouched, Gone, Kept, Whole, Freed
<1>7. Progress'
  <2>1. \A a \in Objects, p \in Objects : Unentered(a)' /\ a \in PathOf(p) => Untouched(p)'
    BY <1>2, <1>6 DEF RmInv, Progress
  <2>2. \A p \in Doomed :
          \/ Gone(p)' \/ Pending(p)'
          \/ \E a \in Objects : Unentered(a)' /\ a \in PathOf(p)
    BY <1>2, <1>5, <1>6 DEF RmInv, Progress, Doomed
  <2> QED
    BY <1>1, <2>1, <2>2, SameTree DEF Progress
<1>8. \A p \in Objects \ Doomed : Kept(p)'
  BY <1>3, <1>6 DEF RmInv
<1>9. entries' \subseteq Objects
  BY <1>1 DEF RmInv
<1> QED
  BY <1>1, <1>2, <1>4, <1>7, <1>8, <1>9, SameTree DEF RmInv

LEMMA EnterKeeps ==
  ASSUME RmInv, NEW o, Enter(o)
  PROVE  RmInv'
<1>1. /\ UNCHANGED <<parent, target, star>>
      /\ fat' = fat /\ entries' = entries /\ dots' = dots
      /\ stack # <<>> /\ o \in Top.left /\ o \in Dirs /\ Top.dot = 2 /\ Top.at = 0
  BY DEF Enter
<1>2. /\ stack \in Seq(Frames) /\ Top = stack[1] /\ 1 \in 1 .. Len(stack)
      /\ Len(stack) \in Nat \ {0} /\ Top \in Frames
      /\ \A p : Pending(p) <=> p \in Top.left \/ PendingBelow(p)
      /\ \A a : Unentered(a) <=> (a \in Top.left /\ a # Top.at) \/ UnenteredBelow(a)
  BY <1>1, TopAndBelow DEF RmInv, StackOK
<1>3. PICK fr0 \in Frames : fr0 = Top
  BY <1>2
<1>4. FrameOK(fr0, Doomed, parent)
  BY <1>2, <1>3 DEF RmInv, StackOK
<1>5. o \in Objects /\ parent[o] = fr0.dir /\ (Matched(o) <=> o \in Doomed)
  BY <1>1, <1>3, MatchedIsDoomed
<1>6. o # 0 /\ Unentered(o)
  BY <1>1, <1>2, <1>5, ObjectClusters
<1>7. \A p \in Objects : o \in PathOf(p) => Untouched(p)
  BY <1>5, <1>6 DEF RmInv, Progress
\* The directory is read to its end.
<1>8. ReadDir(o) = {In(o)}
  <2>1. Untouched(o)
    BY <1>5, <1>7, PathInside DEF RmInv, Ordered
  <2>2. Chain(fat, o) = {o, o + 1}
    BY <1>5, <2>1, WholeChain DEF Untouched
  <2> QED
    BY <2>2 DEF ReadDir
<1>9. PICK fr : fr = [dir |-> o, all |-> Matched(o), dot |-> 0, left |-> In(o), at |-> 0]
  OBVIOUS
<1>10. PICK top : top = [fr0 EXCEPT !.at = o]
  OBVIOUS
<1>11. stack' = <<fr, top>> \o Tail(stack)
  BY <1>3, <1>8, <1>9, <1>10 DEF Enter
<1>12. /\ fr.dir = o /\ fr.all = Matched(o) /\ fr.dot = 0 /\ fr.left = In(o) /\ fr.at = 0
       /\ fr \in Frames
  <2>1. Matched(o) \in BOOLEAN
    BY <1>3 DEF Matched, Frames
  <2>2. In(o) \subseteq Objects
    BY DEF RmInv, In
  <2> QED
    BY <1>1, <1>9, <2>1, <2>2 DEF Frames
<1>13. /\ top.dir = fr0.dir /\ top.all = fr0.all /\ top.dot = 2 /\ top.left = fr0.left
       /\ top.at = o /\ top \in Frames
  BY <1>1, <1>3, <1>10 DEF Frames
<1>14. FrameOK(fr, Doomed, parent)
  BY <1>1, <1>5, <1>12 DEF FrameOK, In
<1>15. FrameOK(top, Doomed, parent)
  BY <1>1, <1>3, <1>4, <1>13 DEF FrameOK
<1>16. top.dir < fr.dir
  BY <1>1, <1>5, <1>12, <1>13 DEF RmInv, Ordered
<1>17. /\ StackOK'
       /\ \A p : Pending(p)' <=> p \in fr.left \/ p \in top.left \/ PendingBelow(p)
       /\ \A a : Unentered(a)' <=> \/ a \in fr.left /\ a # fr.at
                                   \/ a \in top.left /\ a # top.at
                                   \/ UnenteredBelow(a)
  BY <1>1, <1>3, <1>11, <1>12, <1>13, <1>14, <1>15, <1>16, Pushed DEF RmInv
<1>18. \A p : /\ Untouched(p)' <=> Untouched(p)
              /\ Gone(p)' <=> Gone(p)
              /\ Kept(p)' <=> Kept(p)
  BY <1>1 DEF Untouched, Gone, Kept, Whole, Freed
<1>19. \A p : Pending(p) => Pending(p)'
  BY <1>2, <1>3, <1>13, <1>17
<1>20. \A a : Unentered(a) => a = o \/ Unentered(a)'
  BY <1>2, <1>3, <1>13, <1>17
<1>21. ASSUME NEW a \in Objects, NEW p \in Objects, Unentered(a)', a \in PathOf(p)
       PROVE  Untouched(p)
  <2>1. CASE Unentered(a)
    BY <1>21, <2>1 DEF RmInv, Progress
  <2>2. CASE a \in In(o)
    <3>1. parent[a] = o
      BY <2>2 DEF In
    <3>2. o \in PathOf(p)
      BY <1>1, <1>21, <3>1, PathGoesOn DEF RmInv
    <3> QED
      BY <1>7, <3>2
  <2> QED
    BY <1>1, <1>2, <1>3, <1>12, <1>13, <1>17, <1>21, <2>1, <2>2, ObjectClusters
<1>22. ASSUME NEW p \in Objects, o \in PathOf(p), o # p
       PROVE  \E a \in Objects : Unentered(a)' /\ a \in PathOf(p)
  <2>1. PICK e \in Objects : parent[e] = o /\ e \in PathOf(p)
    BY <1>5, <1>22, PathBelow DEF RmInv
  <2>2. o \in PathOf(e)
    BY <1>1, <1>5, <2>1, PathInside DEF RmInv, Ordered
  <2>3. e \in In(o) /\ e # 0
    BY <1>7, <2>1, <2>2, ObjectClusters DEF Untouched, In
  <2>4. Unentered(e)'
    BY <1>12, <1>17, <2>3
  <2> QED
    BY <2>1, <2>4
<1>23. Pending(o)'
  BY <1>1, <1>3, <1>13, <1>17
<1>24. Progress'
  <2>1. \A a \in Objects, p \in Objects : Unentered(a)' /\ a \in PathOf(p) => Untouched(p)'
    BY <1>18, <1>21
  <2>2. ASSUME NEW p \in Doomed
        PROVE  \/ Gone(p)' \/ Pending(p)'
               \/ \E a \in Objects : Unentered(a)' /\ a \in PathOf(p)
    <3>1. p \in Objects
      BY DEF Doomed
    <3>2. \/ Gone(p) \/ Pending(p)
          \/ \E a \in Objects : Unentered(a) /\ a \in PathOf(p)
      BY DEF RmInv, Progress
    <3> QED
      BY <1>18, <1>19, <1>20, <1>22, <1>23, <3>1, <3>2
  <2> QED
    BY <1>1, <2>1, <2>2, SameTree DEF Progress
<1>25. Chained(fat')
  BY <1>1 DEF RmInv
<1> QED
  BY <1>1, <1>17, <1>18, <1>24, <1>25, SameTree DEF RmInv

LEMMA LeaveKeeps ==
  ASSUME RmInv, Leave
  PROVE  RmInv'
<1>1. /\ UNCHANGED <<parent, target, star>>
      /\ fat' = fat /\ entries' = entries /\ dots' = dots
      /\ stack # <<>> /\ Top.left = {} /\ stack' = Tail(stack)
  BY DEF Leave
<1>2. /\ StackOK'
      /\ \A o : Pending(o)' <=> Pending(o)
      /\ \A a : Unentered(a)' <=> Unentered(a)
  BY <1>1, Popped DEF RmInv
<1>3. \A p : /\ Untouched(p)' <=> Untouched(p)
             /\ Gone(p)' <=> Gone(p)
             /\ Kept(p)' <=> Kept(p)
  BY <1>1 DEF Untouched, Gone, Kept, Whole, Freed
<1>4. Progress'
  <2>1. \A a \in Objects, p \in Objects : Unentered(a)' /\ a \in PathOf(p) => Untouched(p)'
    BY <1>2, <1>3 DEF RmInv, Progress
  <2>2. \A p \in Doomed :
          \/ Gone(p)' \/ Pending(p)'
          \/ \E a \in Objects : Unentered(a)' /\ a \in PathOf(p)
    BY <1>2, <1>3 DEF RmInv, Progress
  <2> QED
    BY <1>1, <2>1, <2>2, SameTree DEF Progress
<1>5. Chained(fat')
  BY <1>1 DEF RmInv
<1> QED
  BY <1>1, <1>2, <1>3, <1>4, <1>5, SameTree DEF RmInv

LEMMA StandingStill ==
  ASSUME RmInv, UNCHANGED vars
  PROVE  RmInv'
<1>1. /\ UNCHANGED <<parent, target, star>>
      /\ fat' = fat /\ entries' = entries /\ dots' = dots /\ stack' = stack
  BY DEF vars
<1>2. StackOK'
  BY <1>1, SameTree DEF RmInv, StackOK
<1>3. \A o : /\ Pending(o)' <=> Pending(o)
             /\ Unentered(o)' <=> Unentered(o)
             /\ Untouched(o)' <=> Untouched(o)
             /\ Gone(o)' <=> Gone(o)
             /\ Kept(o)' <=> Kept(o)
  BY <1>1 DEF Pending, Unentered, Untouched, Gone, Kept, Whole, Freed
<1>4. Progress'
  BY <1>1, <1>3, SameTree DEF RmInv, Progress
<1>5. Chained(fat')
  BY <1>1 DEF RmInv
<1> QED
  BY <1>1, <1>2, <1>3, <1>4, <1>5, SameTree DEF RmInv

\* rm of files, or of entries of the root directory, keeps to its invariant.
THEOREM RmInvariance ==
  ASSUME FilesOrTop
  PROVE  Spec => []RmInv
<1>1. Init => RmInv
  BY RmInvInit
<1>2. RmInv /\ [Next]_vars => RmInv'
  <2> SUFFICES ASSUME RmInv, [Next]_vars PROVE RmInv'
    OBVIOUS
  <2>1. CASE VisitDot
    BY <2>1, VisitDotKeeps
  <2>2. CASE \E o \in Objects : Enter(o) \/ RemoveEntry(o) \/ KeepEntry(o)
    BY <2>2, EnterKeeps, RemoveEntryKeeps, KeepEntryKeeps
  <2>3. CASE Leave
    BY <2>3, LeaveKeeps
  <2>4. CASE UNCHANGED vars
    BY <2>4, StandingStill
  <2> QED
    BY <2>1, <2>2, <2>3, <2>4 DEF Next
<1> QED
  BY <1>1, <1>2, PTL DEF Spec

\* rm leaves everything else alone, at every moment, whatever the tree: what
\* was not asked for, and is not inside what was, keeps its entry, its "." and
\* "..", and both clusters of its chain.
THEOREM OthersSpared ==
  ASSUME FilesOrTop
  PROVE  Spec => []RmSparesOthers
<1>1. RmInv => RmSparesOthers
  BY WholeChain DEF RmInv, Kept, Untouched, RmSparesOthers, Intact
<1> QED
  BY <1>1, RmInvariance, PTL

\* When the walk is over, rm has removed all it was asked to, and freed every
\* cluster of it, whatever the tree and the order of the entries.
THEOREM AllRemoved ==
  ASSUME FilesOrTop
  PROVE  Spec => []RmComplete
<1>1. RmInv => RmComplete
  <2> SUFFICES ASSUME RmInv, stack = <<>>, NEW o \in Doomed
               PROVE  o \notin entries /\ fat[o] = 0 /\ fat[o + 1] = 0
    BY DEF RmComplete
  <2>1. Len(stack) = 0
    BY EmptySeq
  <2>2. \A p : ~Pending(p) /\ ~Unentered(p)
    BY <2>1 DEF Pending, Unentered
  <2>3. Gone(o)
    BY <2>2 DEF RmInv, Progress
  <2> QED
    BY <2>3 DEF Gone, Freed
<1> QED
  BY <1>1, RmInvariance, PTL
=============================================================================
