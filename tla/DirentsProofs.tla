--------------------------- MODULE DirentsProofs ----------------------------
(***************************************************************************)
(* Proofs about Dirents: a directory lists the names it should and each is *)
(* read in full, additions and removals touch no name but the one they are *)
(* about, and a removal leaves no fragment behind, for every set of names, *)
(* every number of fragments and a directory of every size.                *)
(***************************************************************************)
EXTENDS Dirents, SequenceTheorems, WellFoundedInduction, TLAPS

USE FragmentsAssumption, TrailingAssumption, ClusterSlotsAssumption,
    MaxSlotsAssumption

----------------------------------------------------------------------------
(* The invariant.                                                          *)

\* The fragments of n from the k-th to the last, which comes first in the
\* directory.
Rest(n, k) ==
  [x \in 1 .. (Fragments[n] + 1 - k) |-> [name |-> n, order |-> (k + x) - 1]]

\* What dirent_read_name has when it comes to slot j of a directory of whole
\* names.
ReadBefore(j) ==
  IF j > 1 /\ slots[j - 1].kind = "frag"
  THEN Rest(slots[j - 1].name, slots[j - 1].order) ELSE <<>>

\* Slot i is the k-th fragment of n and has the ones after the k-th before it.
WholeFrag(i, n, k) ==
  \A j \in 0 .. (Fragments[n] - k) : i - j > 0 /\ slots[i - j] = Frag(n, k + j)

\* Slot i is the short entry of n and has all fragments of n before it.
WholeShort(i, n) ==
  \A j \in 1 .. Fragments[n] : i - j > 0 /\ slots[i - j] = Frag(n, j)

Whole ==
  /\ \A i \in DOMAIN slots :
       slots[i].kind = "frag" => WholeFrag(i, slots[i].name, slots[i].order)
  /\ \A i \in Shorts : WholeShort(i, slots[i].name)

\* No fragment of another name stands before an entry that has no long name.
DosAlone ==
  \A i \in Shorts : Fragments[slots[i].name] = 0 /\ i > 1 =>
    slots[i - 1].kind # "frag"

OnceEach == \A i, j \in Shorts : slots[i] = slots[j] => i = j

Listed == {slots[i].name : i \in Shorts}

\* What the walk of a removal has done so far.
Walk ==
  /\ d \in 1 .. (Len(slots) + 1)
  /\ vfat = ReadBefore(d)
  /\ present \cap request = {}
  /\ present \subseteq Listed
  /\ \A i \in Shorts :
       slots[i].name \in present \/ (i >= d /\ slots[i].name \in request)

DirInv ==
  /\ slots \in Seq(SlotValues)
  /\ present \subseteq Names /\ request \subseteq Names
  /\ pc \in {"idle", "rm", "add"}
  /\ Whole /\ DosAlone /\ OnceEach /\ SlotsComeBack
  /\ pc = "idle" => Listed = present
  /\ pc = "add" => \E n \in present :
       request = {n} /\ Fragments[n] > 0 /\ Listed = present \ {n}
  /\ pc = "rm" => Walk

----------------------------------------------------------------------------
(* Slots.                                                                  *)

LEMMA FragmentsNat == ASSUME NEW n \in Names PROVE Fragments[n] \in Nat
OBVIOUS

\* What a slot can be.
LEMMA SlotFields ==
  /\ Zero.kind = "zero" /\ Deleted.kind = "deleted"
  /\ \A n : Short(n).kind = "short" /\ Short(n).name = n
  /\ \A n, k : /\ Frag(n, k).kind = "frag"
               /\ Frag(n, k).name = n
               /\ Frag(n, k).order = k
BY DEF Zero, Deleted, Short, Frag

LEMMA SlotKinds ==
  ASSUME NEW s \in SlotValues
  PROVE  /\ \/ s = Zero \/ s = Deleted
            \/ s.kind = "short" /\ s.name \in Names /\ s = Short(s.name)
            \/ /\ s.kind = "frag" /\ s.name \in Names
               /\ s.order \in 1 .. Fragments[s.name]
               /\ s = Frag(s.name, s.order)
         /\ Live(s) <=> s.kind \in {"short", "frag"}
         /\ s.kind \in {"short", "frag", "zero", "deleted"}
<1>1. CASE s \in {Zero, Deleted}
  BY <1>1, SlotFields DEF Live
<1>2. CASE s \in {Short(n) : n \in Names}
  BY <1>2, SlotFields DEF Live
<1>3. CASE s \in UNION {{Frag(n, k) : k \in 1 .. Fragments[n]} : n \in Names}
  <2>1. PICK n \in Names : s \in {Frag(n, k) : k \in 1 .. Fragments[n]}
    BY <1>3
  <2>2. PICK k \in 1 .. Fragments[n] : s = Frag(n, k)
    BY <2>1
  <2> QED
    BY <2>2, SlotFields DEF Live
<1> QED
  BY <1>1, <1>2, <1>3 DEF SlotValues

LEMMA SlotsAre ==
  /\ Zero \in SlotValues /\ Deleted \in SlotValues
  /\ \A n \in Names : Short(n) \in SlotValues
  /\ \A n \in Names : \A k \in 1 .. Fragments[n] : Frag(n, k) \in SlotValues
  /\ ~Live(Zero) /\ ~Live(Deleted)
BY SlotFields DEF SlotValues, Live

\* A free slot is neither a fragment nor a short entry.
LEMMA NotLive ==
  ASSUME NEW s, ~Live(s)
  PROVE  s.kind # "frag" /\ s.kind # "short"
BY DEF Live

\* The whole of a name is its long name.
LEMMA RestIsLong == ASSUME NEW n \in Names PROVE Rest(n, 1) = Long(n)
<1>1. Fragments[n] \in Nat
  BY FragmentsNat
<1>2. \A x \in 1 .. Fragments[n] : (1 + x) - 1 = x
  BY <1>1
<1>3. 1 .. (Fragments[n] + 1 - 1) = 1 .. Fragments[n]
  BY <1>1
<1> QED
  BY <1>2, <1>3 DEF Rest, Long

\* dirent_read_name turns what it has before a fragment into what it has after.
LEMMA ReadOn ==
  ASSUME NEW n \in Names, NEW k \in 1 .. Fragments[n],
         NEW v, k < Fragments[n] => v = Rest(n, k + 1)
  PROVE  ReadName(Frag(n, k), v) = Rest(n, k)
<1>0. Fragments[n] \in Nat
  BY FragmentsNat
<1>1. PICK w : w = IF k = Fragments[n] THEN <<>> ELSE v
  OBVIOUS
<1>2. ReadName(Frag(n, k), v) = <<[name |-> n, order |-> k]>> \o w
  BY <1>1, SlotFields DEF ReadName, Live, StartsName
<1>3. PICK R : R = [name : Names, order : Nat]
  OBVIOUS
<1>4. w = [x \in 1 .. (Fragments[n] - k) |-> [name |-> n, order |-> k + x]]
  <2>1. CASE k = Fragments[n]
    <3>1. 1 .. (Fragments[n] - k) = {}
      BY <1>0, <2>1
    <3>2. w = [x \in 1 .. 0 |-> [name |-> n, order |-> k + x]]
      BY <1>1, <2>1
    <3>3. 1 .. (Fragments[n] - k) = 1 .. 0
      BY <1>0, <2>1
    <3> QED
      BY <3>2, <3>3
  <2>2. CASE k # Fragments[n]
    <3>1. w = Rest(n, k + 1)
      BY <1>0, <1>1, <2>2
    <3>2. 1 .. (Fragments[n] + 1 - (k + 1)) = 1 .. (Fragments[n] - k)
      BY <1>0
    <3>3. \A x \in 1 .. (Fragments[n] - k) : ((k + 1) + x) - 1 = k + x
      BY <1>0
    <3> QED
      BY <3>1, <3>2, <3>3 DEF Rest
  <2> QED
    BY <2>1, <2>2
<1>5. w \in Seq(R) /\ Len(w) = Fragments[n] - k
  <2>1. PICK m : m = Fragments[n] - k /\ m \in Nat
    BY <1>0
  <2>2. PICK e : e = [x \in 1 .. m |-> [name |-> n, order |-> k + x]]
    OBVIOUS
  <2>3. \A x \in 1 .. m : e[x] \in R
    BY <1>3, <2>1, <2>2
  <2>4. e \in Seq(R) /\ Len(e) = m
    BY <2>1, <2>2, <2>3
  <2>5. w = e
    BY <1>4, <2>1, <2>2
  <2> QED
    BY <2>1, <2>4, <2>5
<1>6. <<[name |-> n, order |-> k]>> \in Seq(R)
  BY <1>3
<1>7. PICK t : t = <<[name |-> n, order |-> k]>> \o w
  OBVIOUS
<1>8. t \in Seq(R) /\ Len(t) = Fragments[n] + 1 - k
  BY <1>0, <1>5, <1>6, <1>7
<1>9. \A x \in 1 .. (Fragments[n] + 1 - k) : t[x] = [name |-> n, order |-> (k + x) - 1]
  <2> TAKE x \in 1 .. (Fragments[n] + 1 - k)
  <2>1. CASE x = 1
    <3>1. t[1] = [name |-> n, order |-> k]
      BY <1>5, <1>6, <1>7
    <3>2. (k + 1) - 1 = k
      OBVIOUS
    <3> QED
      BY <2>1, <3>1, <3>2
  <2>2. CASE x # 1
    <3>1. PICK y : y = x - 1
      OBVIOUS
    <3>2. y \in 1 .. (Fragments[n] - k) /\ x \in 2 .. (Fragments[n] + 1 - k)
      BY <1>0, <2>2, <3>1
    <3>3. t[x] = w[y]
      BY <1>0, <1>5, <1>6, <1>7, <3>1, <3>2
    <3>4. w[y] = [name |-> n, order |-> k + y]
      BY <1>4, <3>2
    <3>5. k + y = (k + x) - 1
      BY <3>1, <3>2
    <3> QED
      BY <3>3, <3>4, <3>5
  <2> QED
    BY <2>1, <2>2
<1>10. t = [x \in 1 .. (Fragments[n] + 1 - k) |-> t[x]]
  BY <1>8
<1>11. t = Rest(n, k)
  BY <1>9, <1>10 DEF Rest
<1> QED
  BY <1>2, <1>7, <1>11
----------------------------------------------------------------------------
(* What dirent_read_name reads.                                            *)

LEMMA ReadFurther ==
  ASSUME slots \in Seq(SlotValues), Whole, NEW j \in 1 .. Len(slots),
         slots[j].kind # "short"
  PROVE  ReadName(slots[j], ReadBefore(j)) = ReadBefore(j + 1)
<1>1. slots[j] \in SlotValues /\ j + 1 > 1 /\ (j + 1) - 1 = j /\ j \in DOMAIN slots
  OBVIOUS
<1>2. CASE ~Live(slots[j])
  <2>1. slots[j].kind # "frag"
    BY <1>2, NotLive
  <2> QED
    BY <1>1, <1>2, <2>1 DEF ReadName, ReadFree, ReadBefore
<1>3. CASE Live(slots[j])
  <2>1. PICK n, k : n \in Names /\ k \in 1 .. Fragments[n] /\ slots[j] = Frag(n, k)
    BY <1>1, <1>3, SlotKinds, SlotFields
  <2>2. /\ slots[j].kind = "frag" /\ slots[j].name = n /\ slots[j].order = k
        /\ Fragments[n] \in Nat
    BY <2>1, SlotFields, FragmentsNat
  <2>3. ReadBefore(j + 1) = Rest(n, k)
    BY <1>1, <2>2 DEF ReadBefore
  <2>4. ASSUME k < Fragments[n]
        PROVE  ReadBefore(j) = Rest(n, k + 1)
    <3>1. WholeFrag(j, n, k)
      BY <1>1, <2>2 DEF Whole
    <3>2. 1 \in 0 .. (Fragments[n] - k)
      BY <2>1, <2>2, <2>4
    <3>3. j - 1 > 0 /\ slots[j - 1] = Frag(n, k + 1)
      BY <3>1, <3>2 DEF WholeFrag
    <3>4. slots[j - 1].kind = "frag" /\ slots[j - 1].name = n /\ slots[j - 1].order = k + 1
      BY <3>3, SlotFields
    <3>5. j > 1
      BY <3>3
    <3> QED
      BY <3>4, <3>5 DEF ReadBefore
  <2> QED
    BY <2>1, <2>3, <2>4, ReadOn
<1> QED
  BY <1>2, <1>3

LEMMA NoFragments == ASSUME NEW n \in Names, Fragments[n] = 0 PROVE Long(n) = <<>>
<1>1. 1 .. Fragments[n] = {}
  OBVIOUS
<1>2. Long(n) = [k \in 1 .. 0 |-> [name |-> n, order |-> k]]
  BY DEF Long
<1> QED
  BY <1>2

\* The walk comes to a short entry with its whole long name and nothing else.
LEMMA ReadInFull ==
  ASSUME slots \in Seq(SlotValues), Whole, DosAlone, NEW i \in Shorts
  PROVE  slots[i].name \in Names /\ ReadBefore(i) = Long(slots[i].name)
<1>1. i \in 1 .. Len(slots) /\ slots[i] \in SlotValues /\ slots[i].kind = "short"
  BY DEF Shorts
<1>2. PICK n : n \in Names /\ n = slots[i].name /\ Fragments[n] \in Nat
  BY <1>1, SlotKinds, SlotFields, FragmentsNat
<1>3. CASE Fragments[n] = 0
  <2>1. ~(i > 1 /\ slots[i - 1].kind = "frag")
    BY <1>2, <1>3 DEF DosAlone
  <2>2. ReadBefore(i) = <<>>
    BY <2>1 DEF ReadBefore
  <2> QED
    BY <1>2, <1>3, <2>2, NoFragments
<1>4. CASE Fragments[n] # 0
  <2>1. 1 \in 1 .. Fragments[n] /\ WholeShort(i, n)
    BY <1>2, <1>4 DEF Whole
  <2>2. i - 1 > 0 /\ slots[i - 1] = Frag(n, 1)
    BY <2>1 DEF WholeShort
  <2>3. i > 1 /\ slots[i - 1].kind = "frag" /\ slots[i - 1].name = n
        /\ slots[i - 1].order = 1
    BY <1>1, <2>2, SlotFields
  <2>4. ReadBefore(i) = Rest(n, 1)
    BY <2>3 DEF ReadBefore
  <2> QED
    BY <1>2, <2>4, RestIsLong
<1> QED
  BY <1>3, <1>4

\* A function that satisfies the equation VfatBefore(i) is defined by.
IsRead(i, g) ==
  g = [j \in 1 .. i |->
         IF j = 1 THEN <<>>
         ELSE IF slots[j - 1].kind = "short" THEN <<>>
         ELSE ReadName(slots[j - 1], g[j - 1])]

\* There is only one, so whoever knows one knows what VfatBefore(i) is.
LEMMA VfatBeforeIs ==
  ASSUME NEW i \in Nat \ {0}, NEW g, IsRead(i, g)
  PROVE  VfatBefore(i) = g[i]
<1>1. ASSUME NEW m, IsRead(i, m)
      PROVE  m = g
  <2>1. /\ DOMAIN m = 1 .. i /\ DOMAIN g = 1 .. i
        /\ \A j \in 1 .. i :
             /\ m[j] = IF j = 1 THEN <<>>
                       ELSE IF slots[j - 1].kind = "short" THEN <<>>
                       ELSE ReadName(slots[j - 1], m[j - 1])
             /\ g[j] = IF j = 1 THEN <<>>
                       ELSE IF slots[j - 1].kind = "short" THEN <<>>
                       ELSE ReadName(slots[j - 1], g[j - 1])
    BY <1>1, Zenon DEF IsRead
  <2> DEFINE Differ == {j \in 1 .. i : m[j] # g[j]}
  <2>2. Differ = {}
    <3> SUFFICES ASSUME Differ # {} PROVE FALSE
      OBVIOUS
    <3>1. Differ \subseteq Nat
      OBVIOUS
    <3>2. PICK j \in Differ : \A k \in Differ : ~ (<<k, j>> \in OpToRel(<, Nat))
      <4> HIDE DEF Differ
      <4> QED
        BY <3>1, NatLessThanWellFounded, WFMin
    <3>3. j \in 1 .. i /\ m[j] # g[j]
      OBVIOUS
    <3>4. j # 1
      BY <2>1, <3>3
    <3>5. j - 1 \in 1 .. i /\ j - 1 \in Nat /\ j \in Nat /\ j - 1 < j
      BY <3>3, <3>4
    <3>6. j - 1 \notin Differ
      <4>1. <<j - 1, j>> \in OpToRel(<, Nat)
        BY <3>5 DEF OpToRel
      <4> QED
        BY <3>2, <4>1
    <3>7. m[j - 1] = g[j - 1]
      BY <3>5, <3>6
    <3> QED
      BY <2>1, <3>3, <3>4, <3>7
  <2>3. \A j \in 1 .. i : m[j] = g[j]
    BY <2>2
  <2>4. m = [j \in 1 .. i |-> m[j]] /\ g = [j \in 1 .. i |-> g[j]]
    BY <1>1 DEF IsRead
  <2> QED
    BY <2>3, <2>4
<1>2. (CHOOSE m : IsRead(i, m)) = g
  BY <1>1
<1>3. VfatBefore(i) = (CHOOSE m : IsRead(i, m))[i]
  BY DEF VfatBefore, IsRead
<1> QED
  BY <1>2, <1>3

LEMMA ReadFromStart ==
  ASSUME slots \in Seq(SlotValues), Whole, NEW i \in 1 .. Len(slots)
  PROVE  VfatBefore(i) = ReadBefore(i)
<1> DEFINE g == [j \in 1 .. i |-> ReadBefore(j)]
<1>1. \A j \in 1 .. i :
        ReadBefore(j) = IF j = 1 THEN <<>>
                        ELSE IF slots[j - 1].kind = "short" THEN <<>>
                        ELSE ReadName(slots[j - 1], g[j - 1])
  <2> TAKE j \in 1 .. i
  <2>1. CASE j = 1
    BY <2>1 DEF ReadBefore
  <2>2. CASE j # 1
    <3>1. PICK k : k = j - 1 /\ k \in 1 .. Len(slots) /\ k \in 1 .. i /\ k + 1 = j
      BY <2>2
    <3>2. g[k] = ReadBefore(k)
      BY <3>1
    <3>3. slots[k].kind = "short" => ReadBefore(j) = <<>>
      BY <3>1 DEF ReadBefore
    <3>4. slots[k].kind # "short" => ReadBefore(j) = ReadName(slots[k], ReadBefore(k))
      BY <3>1, ReadFurther
    <3> HIDE DEF g
    <3> QED
      BY <2>2, <3>1, <3>2, <3>3, <3>4
  <2> QED
    BY <2>1, <2>2
<1>2. IsRead(i, g)
  BY <1>1, Zenon DEF IsRead
<1>3. g[i] = ReadBefore(i)
  OBVIOUS
<1> HIDE DEF g
<1> QED
  BY <1>2, <1>3, VfatBeforeIs

----------------------------------------------------------------------------
(* What a removal matches.                                                 *)

LEMMA ChoppedLong ==
  ASSUME NEW n \in Names
  PROVE  /\ Chopped(Long(n)) = <<>> <=> Fragments[n] = 0
         /\ Fragments[n] > 0 => Chopped(Long(n))[1] = [name |-> n, order |-> 1]
         /\ Len(Chopped(Long(n))) =
              IF n \in Trailing THEN Fragments[n] - 1 ELSE Fragments[n]
<1>0. Fragments[n] \in Nat
  BY FragmentsNat
<1>1. PICK R : R = [name : Names, order : Nat]
  OBVIOUS
<1>2. PICK v : v = Long(n)
  OBVIOUS
<1>3. /\ v \in Seq(R) /\ Len(v) = Fragments[n]
      /\ \A k \in 1 .. Fragments[n] : v[k] = [name |-> n, order |-> k]
  <2>1. PICK m \in Nat : m = Fragments[n]
    BY <1>0
  <2>2. v = [k \in 1 .. m |-> [name |-> n, order |-> k]]
    BY <1>2, <2>1 DEF Long
  <2>3. \A k \in 1 .. m : v[k] \in R
    BY <1>1, <2>2
  <2> QED
    BY <2>1, <2>2, <2>3
<1>4. v = <<>> <=> Fragments[n] = 0
  BY <1>3
<1>5. CASE Fragments[n] = 0
  <2>1. v = <<>> /\ Chopped(v) = v
    BY <1>4, <1>5 DEF Chopped
  <2>2. n \notin Trailing
    BY <1>5
  <2> QED
    BY <1>2, <1>3, <1>5, <2>1, <2>2
<1>6. CASE Fragments[n] # 0
  <2>1. v # <<>> /\ v[Len(v)] = [name |-> n, order |-> Fragments[n]]
    BY <1>0, <1>3, <1>4, <1>6
  <2>2. (\E t \in Trailing : v[Len(v)] = [name |-> t, order |-> Fragments[t]])
          <=> n \in Trailing
    <3>1. ASSUME NEW t \in Trailing, v[Len(v)] = [name |-> t, order |-> Fragments[t]]
          PROVE  n = t
      <4>1. [name |-> n, order |-> Fragments[n]].name
              = [name |-> t, order |-> Fragments[t]].name
        BY <2>1, <3>1
      <4> QED
        BY <4>1
    <3> QED
      BY <2>1, <3>1
  <2>3. Chopped(v) = IF n \in Trailing THEN SubSeq(v, 1, Len(v) - 1) ELSE v
    BY <2>1, <2>2 DEF Chopped
  <2>4. v[1] = [name |-> n, order |-> 1]
    BY <1>0, <1>3, <1>6
  <2>5. CASE n \notin Trailing
    BY <1>0, <1>2, <1>3, <1>4, <1>6, <2>3, <2>4, <2>5
  <2>6. CASE n \in Trailing
    <3>1. PICK m : m = Len(v) - 1 /\ m \in Nat /\ m >= 1 /\ m <= Len(v)
      BY <1>0, <1>3, <2>6
    <3>2. PICK w : w = SubSeq(v, 1, m)
      OBVIOUS
    <3>3. w \in Seq(R) /\ Len(w) = m /\ w[1] = v[1]
      BY <1>3, <3>1, <3>2
    <3>4. w # <<>>
      BY <3>1, <3>3
    <3> QED
      BY <1>0, <1>2, <1>3, <1>6, <2>3, <2>4, <2>6, <3>1, <3>2, <3>3, <3>4
  <2> QED
    BY <2>5, <2>6
<1> QED
  BY <1>5, <1>6

\* The entry of n is matched if n is asked for, and not otherwise.
LEMMA MatchedName ==
  ASSUME NEW n \in Names, request \subseteq Names
  PROVE  Matched(Short(n), Chopped(Long(n))) <=> n \in request
<1>0. \A m \in Names : Fragments[m] \in Nat /\
        (Chopped(Long(m)) = <<>> <=> Fragments[m] = 0)
  BY FragmentsNat, ChoppedLong, Zenon
<1>1. CASE Fragments[n] = 0
  BY <1>0, <1>1, SlotFields, Zenon DEF Matched
<1>2. CASE Fragments[n] # 0
  <2>1. Fragments[n] > 0 /\ Chopped(Long(n)) # <<>>
    BY <1>0, <1>2
  <2>2. ASSUME NEW m \in request, Chopped(Long(n)) = Chopped(Long(m))
        PROVE  m = n
    <3>1. m \in Names /\ Fragments[m] > 0
      BY <1>0, <2>1, <2>2
    <3>2. [name |-> n, order |-> 1] = [name |-> m, order |-> 1]
      BY <2>1, <2>2, <3>1, ChoppedLong
    <3> QED
      BY <3>2
  <2> QED
    BY <2>1, <2>2 DEF Matched
<1> QED
  BY <1>1, <1>2
----------------------------------------------------------------------------
(* The invariant holds at first.                                           *)

\* A volume another system has left: each fragment has its short entry as far
\* behind it as its number says.
LEMMA FragsHaveShorts ==
  ASSUME slots \in [1 .. ClusterSlots -> SlotValues],
         \A i \in DOMAIN slots : slots[i].kind = "frag" => FollowedByRest(slots, i),
         NEW i \in 1 .. ClusterSlots, slots[i].kind = "frag"
  PROVE  /\ i + slots[i].order \in 1 .. ClusterSlots
         /\ slots[i + slots[i].order] = Short(slots[i].name)
<1> DEFINE Bad(x) == ~ (/\ x + slots[x].order \in 1 .. ClusterSlots
                        /\ slots[x + slots[x].order] = Short(slots[x].name))
           Astray == {x \in 1 .. ClusterSlots : slots[x].kind = "frag" /\ Bad(x)}
           Left == {ClusterSlots - x : x \in Astray}
<1>1. Astray = {}
  <2> SUFFICES ASSUME Astray # {} PROVE FALSE
    OBVIOUS
  <2>1. Left \subseteq Nat /\ Left # {}
    OBVIOUS
  <2>2. PICK y \in Left : \A z \in Left : ~ (<<z, y>> \in OpToRel(<, Nat))
    <3> HIDE DEF Left
    <3> QED
      BY <2>1, NatLessThanWellFounded, WFMin
  <2>3. PICK x \in Astray : y = ClusterSlots - x
    OBVIOUS
  <2>4. x \in 1 .. ClusterSlots /\ slots[x].kind = "frag" /\ Bad(x)
    OBVIOUS
  <2>5. DOMAIN slots = 1 .. ClusterSlots /\ Len(slots) = ClusterSlots
    OBVIOUS
  <2>6. x < ClusterSlots /\ x + 1 \in 1 .. ClusterSlots
    <3>1. x < Len(slots)
      BY <2>4, <2>5 DEF FollowedByRest
    <3> QED
      BY <2>4, <2>5, <3>1
  <2>7. PICK n, k : /\ n \in Names /\ k \in 1 .. Fragments[n] /\ slots[x] = Frag(n, k)
                    /\ slots[x].name = n /\ slots[x].order = k
    BY <2>4, SlotKinds, SlotFields
  <2>8. slots[x + 1] = IF k = 1 THEN Short(n) ELSE Frag(n, k - 1)
    BY <2>4, <2>5, <2>7 DEF FollowedByRest
  <2>9. k # 1
    <3> SUFFICES ASSUME k = 1 PROVE FALSE
      OBVIOUS
    <3> QED
      BY <2>4, <2>6, <2>7, <2>8
  <2>10. slots[x + 1].kind = "frag" /\ slots[x + 1].name = n /\ slots[x + 1].order = k - 1
    BY <2>8, <2>9, SlotFields
  <2>11. (x + 1) + (k - 1) = x + k
    BY <2>4, <2>7, FragmentsNat
  <2>12. Bad(x + 1)
    BY <2>4, <2>7, <2>10, <2>11
  <2>13. x + 1 \in Astray
    BY <2>6, <2>10, <2>12
  <2>14. PICK z : z = ClusterSlots - (x + 1)
    OBVIOUS
  <2>15. z \in Left /\ z \in Nat /\ y \in Nat /\ z < y
    BY <2>1, <2>3, <2>4, <2>6, <2>13, <2>14
  <2>16. <<z, y>> \in OpToRel(<, Nat)
    BY <2>15 DEF OpToRel
  <2> QED
    BY <2>2, <2>15, <2>16
<1> QED
  BY <1>1

LEMMA InitDir == Init => DirInv
<1> SUFFICES ASSUME Init
             PROVE  DirInv
  OBVIOUS
<1>1. /\ slots \in [1 .. ClusterSlots -> SlotValues]
      /\ \A i \in DOMAIN slots : slots[i].kind = "frag" => FollowedByRest(slots, i)
      /\ \A i \in Shorts : /\ Fragments[slots[i].name] < i
                           /\ SubSeq(slots, i - Fragments[slots[i].name], i)
                                = Written(slots[i].name)
      /\ OnceEach
  BY DEF Init, Volumes, Shorts, OnceEach
<1>2. /\ slots \in Seq(SlotValues) /\ Len(slots) = ClusterSlots
      /\ DOMAIN slots = 1 .. ClusterSlots
  BY <1>1
<1>3. ASSUME NEW i \in Shorts
      PROVE  /\ slots[i].name \in Names /\ slots[i] = Short(slots[i].name)
             /\ Fragments[slots[i].name] \in Nat
             /\ WholeShort(i, slots[i].name)
  <2>1. i \in 1 .. Len(slots) /\ slots[i].kind = "short" /\ slots[i] \in SlotValues
    BY <1>1, <1>2 DEF Shorts
  <2>2. slots[i].name \in Names /\ slots[i] = Short(slots[i].name)
    BY <2>1, SlotKinds, SlotFields
  <2>3. PICK n : n = slots[i].name /\ n \in Names /\ Fragments[n] \in Nat
    BY <2>2, FragmentsNat
  <2>4. PICK F : F = Fragments[n] /\ F \in Nat /\ F < i
    BY <1>1, <2>3
  <2>5. SubSeq(slots, i - F, i) = Written(n)
    BY <1>1, <2>3, <2>4
  <2>6. ASSUME NEW j \in 1 .. F
        PROVE  i - j > 0 /\ slots[i - j] = Frag(n, j)
    <3>1. PICK x : x = F + 1 - j /\ x \in 1 .. F
      BY <2>4
    <3>2. SubSeq(slots, i - F, i)[x] = slots[(i - F) + x - 1]
      <4>1. PICK a : a = i - F /\ a \in 1 .. Len(slots) /\ x \in 1 .. (i - a + 1)
        BY <2>1, <2>4, <3>1
      <4>2. SubSeq(slots, a, i)[x] = slots[a + x - 1]
        BY <1>2, <2>1, <4>1
      <4> QED
        BY <4>1, <4>2
    <3>3. (i - F) + x - 1 = i - j
      BY <2>1, <2>4, <3>1
    <3>4. Written(n)[x] = Frag(n, F + 1 - x)
      BY <2>4, <3>1 DEF Written
    <3>5. F + 1 - x = j
      BY <2>4, <3>1
    <3>6. i - j > 0
      BY <2>1, <2>4
    <3> QED
      BY <2>5, <3>2, <3>3, <3>4, <3>5, <3>6
  <2> QED
    BY <2>2, <2>3, <2>4, <2>6 DEF WholeShort
<1>4. ASSUME NEW i \in 1 .. ClusterSlots, slots[i].kind = "frag"
      PROVE  WholeFrag(i, slots[i].name, slots[i].order)
  <2>1. PICK n, k : /\ n \in Names /\ k \in 1 .. Fragments[n]
                    /\ slots[i].name = n /\ slots[i].order = k
    BY <1>1, <1>4, SlotKinds, SlotFields
  <2>2. PICK s : s = i + k
    OBVIOUS
  <2>3. s \in 1 .. ClusterSlots /\ slots[s] = Short(n)
    BY <1>1, <1>4, <2>1, <2>2, FragsHaveShorts
  <2>4. s \in Shorts /\ slots[s].name = n
    BY <1>2, <2>3, SlotFields DEF Shorts
  <2>5. WholeShort(s, n) /\ Fragments[n] \in Nat
    BY <1>3, <2>4
  <2>6. \A j \in 0 .. (Fragments[n] - k) :
          k + j \in 1 .. Fragments[n] /\ s - (k + j) = i - j
    BY <2>1, <2>2, <2>5
  <2> QED
    BY <2>1, <2>5, <2>6 DEF WholeFrag, WholeShort
<1>5. Whole
  BY <1>2, <1>3, <1>4 DEF Whole
<1>6. DosAlone
  <2> SUFFICES ASSUME NEW i \in Shorts, Fragments[slots[i].name] = 0, i > 1,
                      slots[i - 1].kind = "frag"
               PROVE  FALSE
    BY DEF DosAlone
  <2>1. i \in 1 .. ClusterSlots
    BY <1>2 DEF Shorts
  <2>2. i - 1 \in 1 .. ClusterSlots /\ (i - 1) + 1 = i
    BY <2>1
  <2>3. PICK n, k : /\ n \in Names /\ k \in 1 .. Fragments[n]
                    /\ slots[i - 1].name = n /\ slots[i - 1].order = k
    BY <1>1, <2>2, SlotKinds, SlotFields
  <2>4. slots[i] = IF k = 1 THEN Short(n) ELSE Frag(n, k - 1)
    BY <1>1, <1>2, <2>2, <2>3 DEF FollowedByRest
  <2>5. slots[i].name = n
    BY <2>4, SlotFields
  <2> QED
    BY <2>3, <2>5, FragmentsNat
<1>7. SlotsComeBack
  BY <1>1 DEF SlotsComeBack
<1>8. present \subseteq Names /\ request \subseteq Names /\ Listed = present /\ pc = "idle"
  BY <1>3 DEF Init, Listed
<1> QED
  BY <1>1, <1>2, <1>5, <1>6, <1>7, <1>8 DEF DirInv

----------------------------------------------------------------------------
(* The steps that leave the slots alone.                                   *)

LEMMA SlotsStay ==
  ASSUME UNCHANGED slots
  PROVE  /\ Shorts' = Shorts /\ Listed' = Listed
         /\ slots \in Seq(SlotValues) => slots' \in Seq(SlotValues)
         /\ Whole => Whole'
         /\ DosAlone => DosAlone'
         /\ OnceEach => OnceEach'
         /\ SlotsComeBack => SlotsComeBack'
         /\ \A j : ReadBefore(j)' = ReadBefore(j)
<1>1. Shorts' = Shorts
  BY DEF Shorts
<1>2. \A i, n, k : WholeFrag(i, n, k)' <=> WholeFrag(i, n, k)
  BY DEF WholeFrag
<1>3. \A i, n : WholeShort(i, n)' <=> WholeShort(i, n)
  BY DEF WholeShort
<1>4. Listed' = Listed
  BY <1>1 DEF Listed
<1>5. Whole => Whole'
  BY <1>1, <1>2, <1>3 DEF Whole
<1>6. (DosAlone => DosAlone') /\ (OnceEach => OnceEach')
  BY <1>1 DEF DosAlone, OnceEach
<1>7. SlotsComeBack => SlotsComeBack'
  BY DEF SlotsComeBack, FollowedByRest, StartsName
<1>8. \A j : ReadBefore(j)' = ReadBefore(j)
  BY DEF ReadBefore
<1> QED
  BY <1>1, <1>4, <1>5, <1>6, <1>7, <1>8

LEMMA AddStartStep == ASSUME DirInv, NEW n \in Names, AddStart(n) PROVE DirInv'
<1>1. /\ pc = "idle" /\ pc' = "add" /\ n \notin present /\ Fragments[n] > 0
      /\ request' = {n} /\ present' = present \cup {n} /\ slots' = slots
  BY DEF AddStart
<1>2. Listed' = Listed /\ Listed = present
  BY <1>1, SlotsStay DEF DirInv
<1>3. Listed' = present' \ {n} /\ n \in present'
  BY <1>1, <1>2
<1> QED
  BY <1>1, <1>3, SlotsStay DEF DirInv

LEMMA RmStartStep ==
  ASSUME DirInv, NEW names \in SUBSET Names, RmStart(names)
  PROVE  DirInv'
<1>1. /\ pc = "idle" /\ pc' = "rm" /\ request' = names /\ present' = present \ names
      /\ d' = 1 /\ vfat' = <<>> /\ slots' = slots
  BY DEF RmStart
<1>2. Listed' = Listed /\ Listed = present /\ Shorts' = Shorts
  BY <1>1, SlotsStay DEF DirInv
<1>3. Walk'
  <2>1. d' \in 1 .. (Len(slots') + 1)
    BY <1>1 DEF DirInv
  <2>2. ReadBefore(1)' = <<>>
    BY DEF ReadBefore
  <2>3. ReadBefore(d)' = <<>>
    BY <1>1 DEF ReadBefore
  <2>4. \A i \in Shorts : i >= 1 /\ slots[i].name \in present
    BY <1>2 DEF DirInv, Shorts, Listed
  <2> QED
    BY <1>1, <1>2, <2>1, <2>3, <2>4 DEF Walk
<1> QED
  BY <1>1, <1>3, SlotsStay DEF DirInv

\* The walk goes on by a slot and has read as much.
LEMMA WalkOn ==
  ASSUME DirInv, pc = "rm", UNCHANGED <<slots, present, request, pc>>,
         d \in 1 .. Len(slots), d' = d + 1, vfat' = ReadBefore(d + 1),
         slots[d].kind = "short" => slots[d].name \notin request
  PROVE  DirInv'
<1>1. Walk /\ slots \in Seq(SlotValues)
  BY DEF DirInv
<1>2. Shorts' = Shorts /\ Listed' = Listed
  BY SlotsStay
<1>3. PICK e : e = d + 1 /\ e \in 1 .. (Len(slots) + 1) /\ d' = e
  BY <1>1
<1>4. vfat' = ReadBefore(d)'
  <2>1. ReadBefore(d)' = ReadBefore(e)
    BY <1>3 DEF ReadBefore
  <2> QED
    BY <1>3, <2>1
<1>5. \A i \in Shorts :
        slots[i].name \in present \/ (i >= e /\ slots[i].name \in request)
  <2> TAKE i \in Shorts
  <2>1. CASE i = d
    BY <1>1, <2>1 DEF Walk, Shorts
  <2>2. CASE i # d
    <3>1. i \in Nat /\ d \in Nat
      BY <1>1 DEF Shorts
    <3>2. i >= d => i >= e
      BY <1>3, <2>2, <3>1
    <3> QED
      BY <1>1, <3>2 DEF Walk
  <2> QED
    BY <2>1, <2>2
<1>6. Walk'
  BY <1>1, <1>2, <1>3, <1>4, <1>5 DEF Walk
<1> QED
  BY <1>6, SlotsStay DEF DirInv

LEMMA PassSlotStep == ASSUME DirInv, PassSlot PROVE DirInv'
<1>1. slots \in Seq(SlotValues) /\ Whole /\ Walk /\ pc = "rm"
  BY DEF DirInv, PassSlot
<1>2. d \in 1 .. Len(slots)
  BY <1>1 DEF Walk, PassSlot
<1>3. vfat' = ReadBefore(d + 1)
  BY <1>1, <1>2, ReadFurther DEF Walk, PassSlot
<1> QED
  BY <1>1, <1>2, <1>3, WalkOn DEF PassSlot

\* The walk comes to a short entry and knows whose it is.
LEMMA EntryRead ==
  ASSUME DirInv, pc = "rm", d <= Len(slots), slots[d].kind = "short"
  PROVE  /\ d \in 1 .. Len(slots) /\ d \in Shorts
         /\ slots[d].name \in Names /\ slots[d] = Short(slots[d].name)
         /\ vfat = Long(slots[d].name)
         /\ Matched(slots[d], Chopped(vfat)) <=> slots[d].name \in request
<1>1. slots \in Seq(SlotValues) /\ Whole /\ DosAlone /\ Walk /\ request \subseteq Names
  BY DEF DirInv
<1>2. d \in 1 .. Len(slots) /\ d \in Shorts
  BY <1>1 DEF Walk, Shorts
<1>3. slots[d].name \in Names /\ vfat = Long(slots[d].name)
  BY <1>1, <1>2, ReadInFull DEF Walk
<1>4. slots[d] = Short(slots[d].name)
  BY <1>1, <1>2, SlotKinds, SlotFields
<1>5. PICK n : n = slots[d].name /\ n \in Names
  BY <1>3
<1>6. Matched(Short(n), Chopped(Long(n))) <=> n \in request
  BY <1>1, <1>5, MatchedName
<1> QED
  BY <1>2, <1>3, <1>4, <1>5, <1>6

LEMMA KeepEntryStep == ASSUME DirInv, KeepEntry PROVE DirInv'
<1>1. pc = "rm" /\ d <= Len(slots) /\ slots[d].kind = "short"
  BY DEF KeepEntry
<1>2. d \in 1 .. Len(slots) /\ slots[d].name \notin request
  BY <1>1, EntryRead DEF KeepEntry
<1>3. ReadBefore(d + 1) = <<>>
  <2>1. (d + 1) - 1 = d
    BY <1>2
  <2> QED
    BY <1>1, <2>1 DEF ReadBefore
<1> QED
  BY <1>1, <1>2, <1>3, WalkOn DEF KeepEntry

LEMMA RmDoneStep == ASSUME DirInv, RmDone PROVE DirInv'
<1>1. /\ pc = "rm" /\ pc' = "idle" /\ request' = {} /\ slots' = slots
      /\ present' = present /\ d > Len(slots)
  BY DEF RmDone
<1>2. Walk /\ slots \in Seq(SlotValues)
  BY <1>1 DEF DirInv
<1>3. \A i \in Shorts : slots[i].name \in present
  <2> TAKE i \in Shorts
  <2>1. ~(i >= d)
    BY <1>1, <1>2 DEF Shorts, Walk
  <2> QED
    BY <1>2, <2>1 DEF Walk
<1>4. Listed' = present'
  BY <1>1, <1>2, <1>3, SlotsStay DEF Walk, Listed
<1> QED
  BY <1>1, <1>4, SlotsStay DEF DirInv
----------------------------------------------------------------------------
(* The steps that change the slots.                                        *)

\* Live slots that stay keep the names they belong to whole.
LEMMA GrowStep == ASSUME DirInv, NEW n \in request, Grow(n) PROVE DirInv'
<1>1. /\ pc = "add" /\ pc' = "add" /\ slots' = slots \o NewCluster
      /\ request' = request /\ present' = present /\ slots \in Seq(SlotValues)
  BY DEF Grow, DirInv
<1>2. PICK L : L = Len(slots) /\ L \in Nat
  BY <1>1
<1>3. NewCluster \in Seq(SlotValues) /\ Len(NewCluster) = ClusterSlots
      /\ \A i \in 1 .. ClusterSlots : NewCluster[i] = Zero
  BY SlotsAre DEF NewCluster
<1>4. /\ slots' \in Seq(SlotValues) /\ Len(slots') = L + ClusterSlots
      /\ \A i \in 1 .. L : slots'[i] = slots[i]
      /\ \A i \in 1 .. (L + ClusterSlots) : i > L => slots'[i] = Zero
  <2>1. slots' \in Seq(SlotValues) /\ Len(slots') = L + ClusterSlots
    <3>1. PICK t : t = NewCluster /\ t \in Seq(SlotValues) /\ Len(t) = ClusterSlots
      BY <1>3
    <3>2. slots \o t \in Seq(SlotValues) /\ Len(slots \o t) = Len(slots) + Len(t)
      BY <1>1, <3>1, ConcatProperties
    <3> QED
      BY <1>1, <1>2, <3>1, <3>2
  <2>2. \A i \in 1 .. L : slots'[i] = slots[i]
    BY <1>1, <1>2, <1>3
  <2>3. ASSUME NEW i \in 1 .. (L + ClusterSlots), i > L
        PROVE  slots'[i] = Zero
    <3>1. i - L \in 1 .. ClusterSlots
      BY <1>2, <2>3
    <3>2. slots'[i] = NewCluster[i - L]
      BY <1>1, <1>2, <1>3, <2>3, <3>1
    <3> QED
      BY <1>3, <3>1, <3>2
  <2> QED
    BY <2>1, <2>2, <2>3
<1>5. DOMAIN slots = 1 .. L /\ DOMAIN slots' = 1 .. (L + ClusterSlots)
      /\ 1 .. L \subseteq 1 .. (L + ClusterSlots)
  BY <1>1, <1>2, <1>4
<1>6. \A i \in DOMAIN slots' :
        IF i \in 1 .. L THEN slots'[i] = slots[i]
        ELSE slots'[i].kind = "zero"
  BY <1>2, <1>4, <1>5, SlotFields
<1>7. Shorts' = Shorts /\ \A i \in Shorts : i \in 1 .. L /\ slots'[i] = slots[i]
  BY <1>4, <1>5, <1>6 DEF Shorts
<1>8. Listed' = Listed
  BY <1>7 DEF Listed
<1>9. Whole'
  <2>1. \A i \in 1 .. L : \A m, k : WholeFrag(i, m, k) => WholeFrag(i, m, k)'
    <3> SUFFICES ASSUME NEW i \in 1 .. L, NEW m, NEW k, WholeFrag(i, m, k),
                        NEW j \in 0 .. (Fragments[m] - k)
                 PROVE  i - j > 0 /\ slots'[i - j] = Frag(m, k + j)
      BY DEF WholeFrag
    <3>1. i - j > 0 /\ slots[i - j] = Frag(m, k + j)
      BY DEF WholeFrag
    <3>2. i - j \in 1 .. L
      BY <1>2, <3>1
    <3> QED
      BY <1>4, <3>1, <3>2
  <2>2. \A i \in 1 .. L : \A m : WholeShort(i, m) => WholeShort(i, m)'
    <3> SUFFICES ASSUME NEW i \in 1 .. L, NEW m, WholeShort(i, m),
                        NEW j \in 1 .. Fragments[m]
                 PROVE  i - j > 0 /\ slots'[i - j] = Frag(m, j)
      BY DEF WholeShort
    <3>1. i - j > 0 /\ slots[i - j] = Frag(m, j)
      BY DEF WholeShort
    <3>2. i - j \in 1 .. L
      BY <1>2, <3>1
    <3> QED
      BY <1>4, <3>1, <3>2
  <2>3. Whole
    BY DEF DirInv
  <2> QED
    BY <1>5, <1>6, <1>7, <2>1, <2>2, <2>3 DEF Whole
<1>10. DosAlone'
  <2>1. DosAlone
    BY DEF DirInv
  <2>2. \A i \in Shorts : i > 1 => slots'[i - 1] = slots[i - 1]
    <3> TAKE i \in Shorts
    <3>1. i > 1 => i - 1 \in 1 .. L
      BY <1>2, <1>7
    <3> QED
      BY <1>4, <3>1
  <2> QED
    BY <1>7, <2>1, <2>2 DEF DosAlone
<1>11. OnceEach'
  BY <1>7 DEF DirInv, OnceEach
<1>12. SlotsComeBack'
  <2> SUFFICES ASSUME NEW i \in DOMAIN slots', slots'[i].kind = "frag"
               PROVE  \/ FollowedByRest(slots', i)
                      \/ slots'[i].name \in Trailing /\ StartsName(slots'[i])
    BY DEF SlotsComeBack, FollowedByRest, StartsName
  <2>1. i \in 1 .. L /\ slots'[i] = slots[i]
    BY <1>6
  <2>2. FollowedByRest(slots, i) => FollowedByRest(slots', i)
    <3> SUFFICES ASSUME FollowedByRest(slots, i)
                 PROVE  FollowedByRest(slots', i)
      OBVIOUS
    <3>1. i < L
      BY <1>2 DEF FollowedByRest
    <3>2. i + 1 \in 1 .. L /\ i < Len(slots')
      BY <1>2, <1>4, <2>1, <3>1
    <3> QED
      BY <1>4, <2>1, <3>2 DEF FollowedByRest
  <2>3. SlotsComeBack
    BY DEF DirInv
  <2> QED
    BY <1>5, <2>1, <2>2, <2>3 DEF SlotsComeBack
<1> QED
  BY <1>1, <1>4, <1>8, <1>9, <1>10, <1>11, <1>12 DEF DirInv

\* dirent_find_free_space finds the first run of free slots that is long enough.
LEMMA RoomFound ==
  ASSUME NEW count \in Nat, NEW runs, runs = FreeRuns(count), runs # {},
         slots \in Seq(SlotValues)
  PROVE  (CHOOSE i \in runs : \A j \in runs : i <= j) \in runs
<1>1. runs \subseteq Nat
  BY DEF FreeRuns
<1>2. PICK i \in runs : \A j \in runs : ~ (<<j, i>> \in OpToRel(<, Nat))
  BY <1>1, NatLessThanWellFounded, WFMin
<1>3. \A j \in runs : i <= j
  <2> TAKE j \in runs
  <2>1. i \in Nat /\ j \in Nat
    BY <1>1
  <2>2. ~ (j < i)
    BY <1>2, <2>1 DEF OpToRel
  <2> QED
    BY <2>1, <2>2
<1> QED
  BY <1>3

\* What file_import writes, and where.
LEMMA ImportSlots ==
  ASSUME DirInv, NEW n \in request, Import(n)
  PROVE  \E at, last \in DOMAIN slots :
           /\ n \in Names /\ Fragments[n] \in Nat /\ Fragments[n] > 0
           /\ last = at + Fragments[n]
           /\ DOMAIN slots' = DOMAIN slots /\ slots' \in Seq(SlotValues)
           /\ \A i \in DOMAIN slots :
                IF i \in at .. last
                THEN /\ slots'[i] = IF i = last THEN Short(n) ELSE Frag(n, last - i)
                     /\ slots[i].kind # "frag" /\ slots[i].kind # "short"
                ELSE slots'[i] = slots[i]
<1>1. /\ pc = "add" /\ slots \in Seq(SlotValues) /\ FreeRuns(Fragments[n] + 1) # {}
      /\ request \subseteq Names
  BY DEF Import, DirInv
<1>2. n \in Names /\ Fragments[n] \in Nat /\ Fragments[n] > 0
  BY <1>1, FragmentsNat DEF DirInv
<1>3. PICK F : F = Fragments[n] /\ F \in Nat /\ F > 0
  BY <1>2
<1>4. PICK runs : runs = FreeRuns(F + 1)
  OBVIOUS
<1>5. PICK at : at = CHOOSE i \in runs : \A j \in runs : i <= j
  OBVIOUS
<1>6. at \in runs
  BY <1>1, <1>3, <1>4, <1>5, RoomFound
<1>7. at \in 1 .. (Len(slots) - (F + 1)) /\ ~InUse(at, F + 1)
  BY <1>4, <1>6 DEF FreeRuns
<1>8. PICK last : last = at + F /\ last \in Nat /\ at \in Nat /\ at > 0 /\ last < Len(slots)
  BY <1>1, <1>3, <1>7
<1>9. at \in DOMAIN slots /\ last \in DOMAIN slots
  BY <1>1, <1>3, <1>8
<1>10. slots' = [i \in DOMAIN slots |->
                   IF i \in at .. last THEN Written(n)[i - at + 1] ELSE slots[i]]
  BY <1>3, <1>4, <1>5, <1>8 DEF Import
<1>11. ASSUME NEW i \in at .. last
       PROVE  /\ Written(n)[i - at + 1] = IF i = last THEN Short(n) ELSE Frag(n, last - i)
              /\ slots[i].kind # "frag" /\ slots[i].kind # "short"
              /\ i # last => last - i \in 1 .. Fragments[n]
  <2>1. PICK x : x = i - at + 1 /\ x \in 1 .. (F + 1)
    BY <1>3, <1>8
  <2>2. Written(n)[x] = IF x <= F THEN Frag(n, F + 1 - x) ELSE Short(n)
    BY <1>3, <2>1 DEF Written
  <2>3. x <= F <=> i # last
    BY <1>3, <1>8, <2>1
  <2>4. F + 1 - x = last - i
    BY <1>3, <1>8, <2>1
  <2>5. i \in at .. (at + (F + 1) - 1)
    BY <1>3, <1>8
  <2>6. ~Live(slots[i])
    BY <1>7, <2>5 DEF InUse
  <2>7. i # last => last - i \in 1 .. Fragments[n]
    BY <1>3, <1>8
  <2> QED
    BY <2>1, <2>2, <2>3, <2>4, <2>6, <2>7, NotLive
<1>12. \A i \in DOMAIN slots :
         IF i \in at .. last
         THEN /\ slots'[i] = IF i = last THEN Short(n) ELSE Frag(n, last - i)
              /\ slots[i].kind # "frag" /\ slots[i].kind # "short"
         ELSE slots'[i] = slots[i]
  BY <1>10, <1>11
<1>13. \A i \in DOMAIN slots : slots'[i] \in SlotValues
  BY <1>1, <1>2, <1>11, <1>12, SlotsAre
<1>14. slots' \in Seq(SlotValues) /\ DOMAIN slots' = DOMAIN slots
  <2>1. PICK m \in Nat : DOMAIN slots = 1 .. m
    BY <1>1
  <2>2. slots' \in [1 .. m -> SlotValues]
    BY <1>10, <1>13, <2>1
  <2> QED
    BY <2>1, <2>2
<1> QED
  BY <1>2, <1>3, <1>8, <1>9, <1>12, <1>14
LEMMA ImportStep == ASSUME DirInv, NEW n \in request, Import(n) PROVE DirInv'
<1>1. PICK at, last \in DOMAIN slots :
        /\ n \in Names /\ Fragments[n] \in Nat /\ Fragments[n] > 0
        /\ last = at + Fragments[n]
        /\ DOMAIN slots' = DOMAIN slots /\ slots' \in Seq(SlotValues)
        /\ \A i \in DOMAIN slots :
             IF i \in at .. last
             THEN /\ slots'[i] = IF i = last THEN Short(n) ELSE Frag(n, last - i)
                  /\ slots[i].kind # "frag" /\ slots[i].kind # "short"
             ELSE slots'[i] = slots[i]
  BY ImportSlots
<1>2. /\ pc = "add" /\ pc' = "idle" /\ request' = {} /\ present' = present
      /\ slots \in Seq(SlotValues)
      /\ Whole /\ DosAlone /\ OnceEach /\ SlotsComeBack
      /\ n \in present /\ Listed = present \ {n} /\ present \subseteq Names
  BY DEF Import, DirInv
<1>3. PICK L \in Nat : L = Len(slots) /\ DOMAIN slots = 1 .. L /\ Len(slots') = L
  BY <1>1, <1>2
<1>4. at \in 1 .. L /\ last \in 1 .. L /\ at < last
  BY <1>1, <1>3
<1>a. PICK F : F = Fragments[n] /\ F \in Nat /\ F > 0 /\ last = at + F
  BY <1>1
<1>b. at \in Nat /\ last \in Nat /\ at > 0
  BY <1>4
<1>5. ASSUME NEW i \in 1 .. L, slots[i].kind \in {"frag", "short"}
      PROVE  i \notin at .. last /\ slots'[i] = slots[i]
  BY <1>1, <1>3, <1>5
<1>6. \A i \in at .. last :
        slots'[i] = IF i = last THEN Short(n) ELSE Frag(n, last - i)
  BY <1>1, <1>3, <1>4
<1>7. \A i \in 1 .. L : i \notin at .. last => slots'[i] = slots[i]
  BY <1>1, <1>3
<1>8. /\ slots'[last].kind = "short" /\ slots'[last].name = n
      /\ \A i \in at .. (last - 1) : /\ slots'[i].kind = "frag" /\ slots'[i].name = n
                                     /\ slots'[i].order = last - i
  BY <1>4, <1>6, SlotFields
<1>9. \A i \in at .. last : i = last \/ i \in at .. (last - 1)
  BY <1>4
<1>10. Shorts' = Shorts \cup {last} /\ Shorts \subseteq 1 .. L /\ last \notin Shorts
  <2>1. \A i \in 1 .. L : slots'[i].kind = "short" <=> slots[i].kind = "short" \/ i = last
    BY <1>1, <1>3, <1>4, <1>7, <1>8, <1>9
  <2>2. slots[last].kind # "short"
    BY <1>1, <1>3, <1>4
  <2> QED
    BY <1>1, <1>3, <1>4, <2>1, <2>2 DEF Shorts
<1>11. \A i \in Shorts : slots'[i] = slots[i] /\ slots[i].kind = "short"
  BY <1>3, <1>5 DEF Shorts
<1>12. Listed' = present'
  <2>1. Listed' = {slots'[i].name : i \in Shorts \cup {last}}
    BY <1>10 DEF Listed
  <2>2. {slots'[i].name : i \in Shorts \cup {last}}
          = {slots'[i].name : i \in Shorts} \cup {slots'[last].name}
    OBVIOUS
  <2>3. {slots'[i].name : i \in Shorts} = Listed
    BY <1>11 DEF Listed
  <2> QED
    BY <1>2, <1>8, <2>1, <2>2, <2>3
<1>13. Whole'
  <2>1. ASSUME NEW i \in 1 .. L, slots'[i].kind = "frag"
        PROVE  WholeFrag(i, slots[i].name, slots[i].order)'
    <3>1. CASE i \in at .. last
      <4>1. i \in at .. (last - 1) /\ slots'[i].name = n /\ slots'[i].order = last - i
        BY <1>8, <1>9, <2>1, <3>1
      <4>2. ASSUME NEW j \in 0 .. (Fragments[n] - (last - i))
            PROVE  i - j > 0 /\ slots'[i - j] = Frag(n, (last - i) + j)
        <5>a. j \in 0 .. (F - (last - i)) /\ i \in at .. (last - 1)
          BY <1>a, <4>1
        <5>1. i - j \in at .. last /\ i - j # last
          BY <1>a, <1>b, <5>a
        <5>2. last - (i - j) = (last - i) + j
          BY <1>4, <4>1
        <5> QED
          BY <1>4, <1>6, <5>1, <5>2
      <4> QED
        BY <4>1, <4>2 DEF WholeFrag
    <3>2. CASE i \notin at .. last
      <4>1. slots'[i] = slots[i] /\ WholeFrag(i, slots[i].name, slots[i].order)
        BY <1>2, <1>3, <1>7, <2>1, <3>2 DEF Whole
      <4>2. PICK m, k : m = slots[i].name /\ k = slots[i].order
        OBVIOUS
      <4>3. ASSUME NEW j \in 0 .. (Fragments[m] - k)
            PROVE  i - j > 0 /\ slots'[i - j] = Frag(m, k + j)
        <5>1. i - j > 0 /\ slots[i - j] = Frag(m, k + j)
          BY <4>1, <4>2 DEF WholeFrag
        <5>2. i - j \in 1 .. L
          BY <5>1
        <5> QED
          BY <1>5, <5>1, <5>2, SlotFields
      <4> QED
        BY <4>1, <4>2, <4>3 DEF WholeFrag
    <3> QED
      BY <3>1, <3>2
  <2>2. WholeShort(last, n)'
    <3>1. ASSUME NEW j \in 1 .. Fragments[n]
          PROVE  last - j > 0 /\ slots'[last - j] = Frag(n, j)
      <4>a. j \in 1 .. F
        BY <1>a
      <4>1. last - j \in at .. last /\ last - j # last /\ last - (last - j) = j
        BY <1>a, <1>b, <4>a
      <4> QED
        BY <1>4, <1>6, <4>1
    <3> QED
      BY <3>1 DEF WholeShort
  <2>3. ASSUME NEW i \in Shorts
        PROVE  WholeShort(i, slots[i].name)'
    <3>1. WholeShort(i, slots[i].name) /\ slots'[i] = slots[i] /\ i \in 1 .. L
      BY <1>2, <1>10, <1>11 DEF Whole
    <3>2. PICK m : m = slots[i].name
      OBVIOUS
    <3>3. ASSUME NEW j \in 1 .. Fragments[m]
          PROVE  i - j > 0 /\ slots'[i - j] = Frag(m, j)
      <4>1. i - j > 0 /\ slots[i - j] = Frag(m, j)
        BY <3>1, <3>2 DEF WholeShort
      <4>2. i - j \in 1 .. L
        BY <3>1, <4>1
      <4> QED
        BY <1>5, <4>1, <4>2, SlotFields
    <3> QED
      BY <3>1, <3>2, <3>3 DEF WholeShort
  <2> QED
    BY <1>1, <1>3, <1>8, <1>10, <2>1, <2>2, <2>3 DEF Whole
<1>14. DosAlone'
  <2> SUFFICES ASSUME NEW i \in Shorts', Fragments[slots'[i].name] = 0, i > 1,
                      slots'[i - 1].kind = "frag"
               PROVE  FALSE
    BY DEF DosAlone
  <2>1. i \in Shorts /\ slots'[i] = slots[i] /\ i - 1 \in 1 .. L
    BY <1>1, <1>3, <1>4, <1>8, <1>10, <1>11
  <2>2. slots[i - 1].kind # "frag"
    BY <1>2, <2>1 DEF DosAlone
  <2>3. i - 1 \in at .. last
    BY <1>7, <2>1, <2>2
  <2>4. i - 1 # last
    BY <1>8
  <2>a. i \in 1 .. L
    BY <1>10, <2>1
  <2>5. i \in at .. last
    BY <1>b, <2>a, <2>3, <2>4
  <2> QED
    BY <1>5, <1>10, <2>1, <2>5 DEF Shorts
<1>15. OnceEach'
  <2>1. \A i \in Shorts : slots[i].name # n
    BY <1>2 DEF Listed
  <2>2. \A i \in Shorts : slots'[i] # slots'[last]
    BY <1>8, <1>11, <2>1
  <2> QED
    BY <1>2, <1>10, <1>11, <2>2 DEF OnceEach
<1>16. SlotsComeBack'
  <2> SUFFICES ASSUME NEW i \in 1 .. L, slots'[i].kind = "frag"
               PROVE  \/ FollowedByRest(slots', i)
                      \/ slots'[i].name \in Trailing /\ StartsName(slots'[i])
    BY <1>1, <1>3 DEF SlotsComeBack, FollowedByRest, StartsName
  <2>1. CASE i \in at .. last
    <3>1. /\ i \in at .. (last - 1) /\ slots'[i].name = n /\ slots'[i].order = last - i
          /\ i + 1 \in at .. last /\ i < L
      BY <1>4, <1>8, <1>9, <2>1
    <3>2. slots'[i + 1] = IF i + 1 = last THEN Short(n) ELSE Frag(n, last - (i + 1))
      BY <1>6, <3>1
    <3>3. (last - i = 1 <=> i + 1 = last) /\ last - (i + 1) = (last - i) - 1
      BY <1>4
    <3>4. slots'[i + 1] = IF slots'[i].order = 1 THEN Short(slots'[i].name)
                          ELSE Frag(slots'[i].name, slots'[i].order - 1)
      BY <3>1, <3>2, <3>3
    <3> QED
      BY <1>3, <3>1, <3>4 DEF FollowedByRest
  <2>2. CASE i \notin at .. last
    <3>1. slots'[i] = slots[i]
      BY <1>7, <2>2
    <3>2. FollowedByRest(slots, i) => FollowedByRest(slots', i)
      <4> SUFFICES ASSUME FollowedByRest(slots, i)
                   PROVE  FollowedByRest(slots', i)
        OBVIOUS
      <4>1. i < L /\ i + 1 \in 1 .. L
        BY <1>3 DEF FollowedByRest
      <4>2. slots[i + 1].kind \in {"frag", "short"}
        BY SlotFields DEF FollowedByRest
      <4>3. slots'[i + 1] = slots[i + 1]
        BY <1>5, <4>1, <4>2
      <4> QED
        BY <1>3, <3>1, <4>1, <4>3 DEF FollowedByRest
    <3> QED
      BY <1>2, <1>3, <2>2, <3>1, <3>2 DEF SlotsComeBack
  <2> QED
    BY <2>1, <2>2
<1> QED
  BY <1>1, <1>2, <1>12, <1>13, <1>14, <1>15, <1>16 DEF DirInv

\* What dirent_remove takes away: the short entry and the fragments behind it,
\* but for a last one that strchop has hidden.
LEMMA RemovedSlots ==
  ASSUME DirInv, RemoveEntry
  PROVE  \E n \in request : \E len \in Nat :
           /\ n \in Names /\ Fragments[n] \in Nat
           /\ len <= Fragments[n]
           /\ len < Fragments[n] => len + 1 = Fragments[n] /\ n \in Trailing /\ len > 0
           /\ d \in Shorts /\ slots[d] = Short(n)
           /\ \A i \in DOMAIN slots :
                IF i \in (d - len) .. d
                THEN /\ slots'[i] = Deleted
                     /\ i # d => slots[i] = Frag(n, d - i)
                ELSE slots'[i] = slots[i]
           /\ DOMAIN slots' = DOMAIN slots /\ slots' \in Seq(SlotValues)
<1>1. /\ pc = "rm" /\ d <= Len(slots) /\ slots[d].kind = "short"
      /\ slots \in Seq(SlotValues) /\ Whole /\ request \subseteq Names
  BY DEF RemoveEntry, DirInv
<1>2. /\ d \in 1 .. Len(slots) /\ d \in Shorts
      /\ slots[d].name \in Names /\ slots[d] = Short(slots[d].name)
      /\ vfat = Long(slots[d].name)
      /\ slots[d].name \in request
  BY <1>1, EntryRead DEF RemoveEntry
<1>3. PICK n \in request : n = slots[d].name /\ n \in Names /\ Fragments[n] \in Nat
  BY <1>2, FragmentsNat
<1>4. PICK len : len = Len(Chopped(Long(n)))
  OBVIOUS
<1>5. len = IF n \in Trailing THEN Fragments[n] - 1 ELSE Fragments[n]
  BY <1>3, <1>4, ChoppedLong
<1>6. n \in Trailing => Fragments[n] > 1
  OBVIOUS
<1>7. /\ len \in Nat /\ len <= Fragments[n]
      /\ len < Fragments[n] => len + 1 = Fragments[n] /\ n \in Trailing /\ len > 0
  BY <1>3, <1>5, <1>6
<1>8. slots' = [i \in DOMAIN slots |->
                  IF i \in (d - len) .. d THEN Deleted ELSE slots[i]]
  BY <1>2, <1>3, <1>4 DEF RemoveEntry, Zapped
<1>9. ASSUME NEW i \in (d - len) .. d, i # d
      PROVE  slots[i] = Frag(n, d - i)
  <2>1. d - i \in 1 .. Fragments[n] /\ d - (d - i) = i
    BY <1>2, <1>3, <1>7, <1>9
  <2> QED
    BY <1>1, <1>2, <1>3, <2>1 DEF Whole, WholeShort
<1>10. slots' \in Seq(SlotValues) /\ DOMAIN slots' = DOMAIN slots
  <2>1. PICK m \in Nat : DOMAIN slots = 1 .. m
    BY <1>1
  <2>2. \A i \in 1 .. m : slots[i] \in SlotValues
    BY <1>1, <2>1
  <2>3. slots' \in [1 .. m -> SlotValues]
    BY <1>8, <2>1, <2>2, SlotsAre
  <2> QED
    BY <2>1, <2>3
<1> QED
  BY <1>2, <1>3, <1>7, <1>8, <1>9, <1>10
LEMMA RemoveEntryStep == ASSUME DirInv, RemoveEntry PROVE DirInv'
<1>1. PICK n \in request, len \in Nat :
        /\ n \in Names /\ Fragments[n] \in Nat
        /\ len <= Fragments[n]
        /\ len < Fragments[n] => len + 1 = Fragments[n] /\ n \in Trailing /\ len > 0
        /\ d \in Shorts /\ slots[d] = Short(n)
        /\ \A i \in DOMAIN slots :
             IF i \in (d - len) .. d
             THEN /\ slots'[i] = Deleted
                  /\ i # d => slots[i] = Frag(n, d - i)
             ELSE slots'[i] = slots[i]
        /\ DOMAIN slots' = DOMAIN slots /\ slots' \in Seq(SlotValues)
  BY RemovedSlots
<1>2. /\ pc = "rm" /\ pc' = "rm" /\ request' = request /\ present' = present
      /\ d' = d + 1 /\ vfat' = <<>>
      /\ slots \in Seq(SlotValues)
      /\ Whole /\ DosAlone /\ OnceEach /\ SlotsComeBack /\ Walk
      /\ present \subseteq Names /\ request \subseteq Names
  BY DEF RemoveEntry, DirInv
<1>3. PICK L \in Nat : L = Len(slots) /\ DOMAIN slots = 1 .. L /\ Len(slots') = L
  BY <1>1, <1>2
<1>4. PICK e : e = d /\ e \in 1 .. L /\ e \in Shorts
  BY <1>1, <1>3 DEF Shorts
<1>5. PICK Z : Z = (e - len) .. e
  OBVIOUS
<1>6. \A i \in 1 .. L :
        IF i \in Z THEN slots'[i] = Deleted ELSE slots'[i] = slots[i]
  BY <1>1, <1>3, <1>4, <1>5
<1>7. \A i \in 1 .. L : i \in Z /\ i # e => slots[i] = Frag(n, e - i)
  BY <1>1, <1>3, <1>4, <1>5
<1>8. /\ slots[e].kind = "short" /\ slots[e].name = n
      /\ Deleted.kind = "deleted"
      /\ \A i \in 1 .. L : i \in Z /\ i # e =>
           /\ slots[i].kind = "frag" /\ slots[i].name = n /\ slots[i].order = e - i
  <2>1. slots[e] = Short(n)
    BY <1>1, <1>4
  <2> QED
    BY <1>7, <2>1, SlotFields
<1>9. Shorts' = Shorts \ {e} /\ Shorts \subseteq 1 .. L
  <2>1. \A i \in 1 .. L : slots'[i].kind = "short" <=> slots[i].kind = "short" /\ i # e
    <3> TAKE i \in 1 .. L
    <3>1. e \in Z
      BY <1>4, <1>5
    <3> QED
      BY <1>6, <1>8, <3>1
  <2> QED
    BY <1>1, <1>3, <2>1 DEF Shorts
<1>10. \A i \in Shorts' : slots'[i] = slots[i] /\ i \in Shorts /\ i # e /\ i \in 1 .. L
  <2> TAKE i \in Shorts'
  <2>1. i \in Shorts /\ i # e /\ i \in 1 .. L /\ slots[i].kind = "short"
    BY <1>9 DEF Shorts
  <2>2. i \notin Z
    BY <1>8, <2>1
  <2> QED
    BY <1>6, <2>1, <2>2
<1>11. ASSUME NEW i \in 1 .. L, slots'[i].kind = "frag"
       PROVE  i \notin Z /\ slots'[i] = slots[i]
  BY <1>6, <1>8, <1>11
<1>12. Whole'
  <2>1. ASSUME NEW i \in 1 .. L, slots'[i].kind = "frag"
        PROVE  WholeFrag(i, slots[i].name, slots[i].order)'
    <3>1. PICK m, k : m = slots[i].name /\ k = slots[i].order
      OBVIOUS
    <3>2. i \notin Z /\ WholeFrag(i, m, k) /\ k \in Nat /\ k > 0
          /\ slots[i].kind = "frag"
      <4>1. i \notin Z /\ slots[i].kind = "frag" /\ slots[i] \in SlotValues
        BY <1>2, <1>3, <1>11, <2>1
      <4>2. WholeFrag(i, m, k)
        BY <1>2, <1>3, <3>1, <4>1 DEF Whole
      <4>3. m \in Names /\ k \in 1 .. Fragments[m]
        BY <3>1, <4>1, SlotKinds, SlotFields
      <4>4. Fragments[m] \in Nat
        BY <4>3
      <4> QED
        BY <4>1, <4>2, <4>3, <4>4
    <3>3. ASSUME NEW j \in 0 .. (Fragments[m] - k)
          PROVE  i - j > 0 /\ slots'[i - j] = Frag(m, k + j)
      <4>1. i - j > 0 /\ slots[i - j] = Frag(m, k + j)
        BY <3>2 DEF WholeFrag
      <4>2. i - j \in 1 .. L
        BY <4>1
      <4>3. i - j \notin Z
        <5> SUFFICES ASSUME i - j \in Z
                     PROVE  FALSE
          OBVIOUS
        <5>1. i - j # e
          BY <1>8, <4>1, SlotFields
        <5>2. k + j = e - (i - j)
          BY <1>8, <4>1, <4>2, <5>1, SlotFields
        <5>3. i = e - k /\ i <= e
          BY <1>4, <3>2, <5>2
        <5>4. i - j >= e - len
          BY <1>5, <4>2
        <5>5. i >= e - len
          BY <1>4, <5>4
        <5> QED
          BY <1>4, <1>5, <3>2, <5>3, <5>5
      <4> QED
        BY <1>6, <4>1, <4>2, <4>3
    <3>4. slots'[i].name = m /\ slots'[i].order = k
      BY <1>11, <2>1, <3>1
    <3> QED
      BY <3>3, <3>4 DEF WholeFrag
  <2>2. ASSUME NEW i \in Shorts'
        PROVE  WholeShort(i, slots[i].name)'
    <3>1. PICK m : m = slots[i].name
      OBVIOUS
    <3>2. WholeShort(i, m) /\ i \in 1 .. L /\ i # e
      BY <1>2, <1>10, <3>1 DEF Whole
    <3>3. ASSUME NEW j \in 1 .. Fragments[m]
          PROVE  i - j > 0 /\ slots'[i - j] = Frag(m, j)
      <4>1. i - j > 0 /\ slots[i - j] = Frag(m, j)
        BY <3>2 DEF WholeShort
      <4>2. i - j \in 1 .. L
        BY <3>2, <4>1
      <4>3. i - j \notin Z
        <5> SUFFICES ASSUME i - j \in Z
                     PROVE  FALSE
          OBVIOUS
        <5>1. i - j # e
          BY <1>8, <4>1, SlotFields
        <5>2. j = e - (i - j)
          BY <1>8, <4>1, <4>2, <5>1, SlotFields
        <5> QED
          BY <1>4, <3>2, <5>2
      <4> QED
        BY <1>6, <4>1, <4>2, <4>3
    <3>4. slots'[i].name = m
      BY <1>10, <3>1
    <3> QED
      BY <3>3, <3>4 DEF WholeShort
  <2> QED
    BY <1>1, <1>3, <2>1, <2>2 DEF Whole
<1>13. DosAlone'
  <2> SUFFICES ASSUME NEW i \in Shorts', Fragments[slots'[i].name] = 0, i > 1,
                      slots'[i - 1].kind = "frag"
               PROVE  FALSE
    BY DEF DosAlone
  <2>1. i \in Shorts /\ slots'[i] = slots[i] /\ i - 1 \in 1 .. L
    BY <1>10
  <2>2. slots[i - 1].kind = "frag"
    BY <1>11, <2>1
  <2> QED
    BY <1>2, <2>1, <2>2 DEF DosAlone
<1>14. OnceEach'
  BY <1>2, <1>10 DEF OnceEach
<1>15. SlotsComeBack'
  <2> SUFFICES ASSUME NEW i \in 1 .. L, slots'[i].kind = "frag"
               PROVE  \/ FollowedByRest(slots', i)
                      \/ slots'[i].name \in Trailing /\ StartsName(slots'[i])
    BY <1>1, <1>3 DEF SlotsComeBack, FollowedByRest, StartsName
  <2>1. i \notin Z /\ slots'[i] = slots[i] /\ slots[i].kind = "frag"
    BY <1>11
  <2>2. PICK m, k : /\ m \in Names /\ k \in 1 .. Fragments[m]
                    /\ slots[i].name = m /\ slots[i].order = k
    <3>1. slots[i] \in SlotValues
      BY <1>2, <1>3
    <3> QED
      BY <2>1, <3>1, SlotKinds, SlotFields
  <2>3. CASE m \in Trailing /\ StartsName(slots[i])
    BY <2>1, <2>2, <2>3 DEF StartsName
  <2>4. CASE ~ (m \in Trailing /\ StartsName(slots[i]))
    <3>1. FollowedByRest(slots, i)
      BY <1>2, <1>3, <2>1, <2>2, <2>4 DEF SlotsComeBack
    <3>2. i < L /\ i + 1 \in 1 .. L
      BY <1>3, <3>1 DEF FollowedByRest
    <3>3. slots[i + 1] = IF k = 1 THEN Short(m) ELSE Frag(m, k - 1)
      BY <2>2, <3>1 DEF FollowedByRest
    <3>4. i + 1 \notin Z
      <4> SUFFICES ASSUME i + 1 \in Z
                   PROVE  FALSE
        OBVIOUS
      <4>1. i + 1 = e - len
        <5>1. ~ (i >= e - len /\ i <= e) /\ i + 1 >= e - len /\ i + 1 <= e
          BY <1>4, <1>5, <2>1
        <5> QED
          BY <1>4, <5>1
      <4>2. CASE len = 0
        <5>1. i + 1 = e /\ e - 1 = i
          BY <1>4, <4>1, <4>2
        <5>2. k = 1 /\ m = n
          BY <1>8, <3>3, <5>1, SlotFields
        <5>3. Fragments[n] = 0
          BY <1>1, <4>2
        <5> QED
          BY <2>2, <5>2, <5>3
      <4>3. CASE len # 0
        <5>1. i + 1 # e /\ e - (i + 1) = len
          BY <1>4, <4>1, <4>3
        <5>2. slots[i + 1].kind = "frag" /\ slots[i + 1].name = n /\ slots[i + 1].order = len
          BY <1>8, <3>2, <5>1
        <5>3. k # 1 /\ m = n /\ k - 1 = len
          BY <3>3, <5>2, SlotFields
        <5>4. len + 1 = k
          BY <2>2, <5>3, FragmentsNat
        <5>5. len < Fragments[n]
          BY <1>1, <2>2, <5>3, <5>4
        <5>6. n \in Trailing /\ k = Fragments[n]
          BY <1>1, <5>4, <5>5
        <5> QED
          BY <2>2, <2>4, <5>3, <5>6 DEF StartsName
      <4> QED
        BY <4>2, <4>3
    <3>5. slots'[i + 1] = slots[i + 1]
      BY <1>6, <3>2, <3>4
    <3> QED
      BY <1>3, <2>1, <3>1, <3>5 DEF FollowedByRest
  <2> QED
    BY <2>3, <2>4
<1>16. Walk'
  <2>1. d' \in 1 .. (Len(slots') + 1)
    BY <1>2, <1>3, <1>4
  <2>2. vfat' = ReadBefore(d)'
    <3>1. e \in Z /\ (e + 1) - 1 = e
      BY <1>4, <1>5
    <3>2. slots'[e].kind # "frag"
      BY <1>4, <1>6, <1>8, <3>1
    <3> QED
      BY <1>2, <1>4, <3>1, <3>2 DEF ReadBefore
  <2>3. present' \subseteq Listed'
    <3> SUFFICES ASSUME NEW p \in present
                 PROVE  p \in Listed'
      BY <1>2
    <3>1. PICK i \in Shorts : slots[i].name = p
      BY <1>2 DEF Walk, Listed
    <3>2. i # e
      BY <1>2, <1>8, <3>1 DEF Walk
    <3>3. i \in Shorts' /\ slots'[i] = slots[i]
      BY <1>9, <1>10, <3>2
    <3> QED
      BY <3>1, <3>3 DEF Listed
  <2>4. \A i \in Shorts' :
          slots'[i].name \in present \/ (i >= e + 1 /\ slots'[i].name \in request)
    <3> TAKE i \in Shorts'
    <3>1. i \in Shorts /\ slots'[i] = slots[i] /\ i \in 1 .. L /\ i # e
      BY <1>10
    <3>2. i >= e => i >= e + 1
      BY <1>4, <3>1
    <3> QED
      BY <1>2, <1>4, <3>1, <3>2 DEF Walk
  <2> QED
    BY <1>2, <1>4, <2>1, <2>2, <2>3, <2>4 DEF Walk
<1> QED
  BY <1>1, <1>2, <1>12, <1>13, <1>14, <1>15, <1>16 DEF DirInv

----------------------------------------------------------------------------
(* The theorems.                                                           *)

LEMMA NextDir == DirInv /\ [Next]_vars => DirInv'
<1> SUFFICES ASSUME DirInv, [Next]_vars
             PROVE  DirInv'
  OBVIOUS
<1>1. ASSUME NEW n \in Names, AddStart(n) PROVE DirInv'
  BY <1>1, AddStartStep
<1>2. ASSUME NEW names \in SUBSET Names, RmStart(names) PROVE DirInv'
  BY <1>2, RmStartStep
<1>3. CASE Add
  BY <1>3, GrowStep, ImportStep DEF Add
<1>4. CASE Remove
  BY <1>4, PassSlotStep, RemoveEntryStep, KeepEntryStep, RmDoneStep DEF Remove
<1>5. CASE UNCHANGED vars
  <2>1. UNCHANGED <<slots, present, request, d, vfat, pc>>
    BY <1>5 DEF vars
  <2>2. ReadBefore(d)' = ReadBefore(d)
    BY <2>1 DEF ReadBefore
  <2>3. Shorts' = Shorts /\ Listed' = Listed
    BY <2>1, SlotsStay
  <2>4. Walk => Walk'
    BY <2>1, <2>2, <2>3 DEF Walk
  <2> QED
    BY <2>1, <2>3, <2>4, SlotsStay DEF DirInv
<1> QED
  BY <1>1, <1>2, <1>3, <1>4, <1>5 DEF Next

\* At every step the directory consists of whole names, of what is left of names
\* with a blank end and of free slots, and a removal has read what stands before
\* the slot it is at.
THEOREM WholeNames == Spec => []DirInv
<1> QED
  BY InitDir, NextDir, PTL DEF Spec

\* Between commands the directory lists the names it should, each once, and
\* dirent_read_name reads each in full, whatever additions and removals there
\* have been.
THEOREM NamesReadInFull == Spec => []ListsWhatIsThere
<1>1. DirInv => ListsWhatIsThere
  <2> SUFFICES ASSUME DirInv, pc = "idle"
               PROVE  /\ {slots[i].name : i \in Shorts} = present
                      /\ \A i \in Shorts : VfatBefore(i) = Long(slots[i].name)
                      /\ \A i, j \in Shorts : slots[i] = slots[j] => i = j
    BY DEF ListsWhatIsThere
  <2>1. slots \in Seq(SlotValues) /\ Whole /\ DosAlone /\ OnceEach /\ Listed = present
    BY DEF DirInv
  <2>2. ASSUME NEW i \in Shorts
        PROVE  VfatBefore(i) = Long(slots[i].name)
    <3>1. i \in 1 .. Len(slots)
      BY <2>1 DEF Shorts
    <3> QED
      BY <2>1, <3>1, ReadFromStart, ReadInFull
  <2> QED
    BY <2>1, <2>2 DEF Listed, OnceEach
<1> QED
  BY <1>1, WholeNames, PTL

\* A removal leaves no fragment without the rest of its name, but for a last one
\* that is blank.
THEOREM NoFragmentLeft == Spec => []SlotsComeBack
<1>1. DirInv => SlotsComeBack
  BY DEF DirInv
<1> QED
  BY <1>1, WholeNames, PTL

\* No addition writes over a slot in use, and no removal takes a slot of a name
\* that it does not match.
THEOREM OthersUntouched == Spec => NothingElseLost
<1> DEFINE Spared == \A i \in DOMAIN slots : Live(slots[i]) /\ slots'[i] # slots[i] =>
                       /\ pc = "rm"
                       /\ slots'[i] = Deleted
                       /\ slots[i].name \in request
<1>1. DirInv /\ [Next]_vars => [Spared]_vars
  <2> SUFFICES ASSUME DirInv, Next, NEW i \in DOMAIN slots,
                      Live(slots[i]), slots'[i] # slots[i]
               PROVE  /\ pc = "rm"
                      /\ slots'[i] = Deleted
                      /\ slots[i].name \in request
    OBVIOUS
  <2>1. slots' # slots
    OBVIOUS
  <2>2. slots \in Seq(SlotValues)
    BY DEF DirInv
  <2>3. ASSUME NEW n \in request, Grow(n) PROVE FALSE
    <3>1. NewCluster \in Seq(SlotValues)
      BY SlotsAre DEF NewCluster
    <3>2. i \in 1 .. Len(slots) /\ Len(slots) \in Nat
      BY <2>2
    <3>3. (slots \o NewCluster)[i] = slots[i]
      BY <2>2, <3>1, <3>2, ConcatProperties
    <3> QED
      BY <2>3, <3>3 DEF Grow
  <2>4. ASSUME NEW n \in request, Import(n) PROVE FALSE
    BY <2>4, ImportSlots DEF Live
  <2>5. CASE RemoveEntry
    <3>1. PICK n \in request, len \in Nat :
            /\ slots[d] = Short(n)
            /\ \A x \in DOMAIN slots :
                 IF x \in (d - len) .. d
                 THEN /\ slots'[x] = Deleted
                      /\ x # d => slots[x] = Frag(n, d - x)
                 ELSE slots'[x] = slots[x]
      BY <2>5, RemovedSlots
    <3>2. slots'[i] = Deleted /\ slots[i].name = n
      BY <3>1, SlotFields
    <3> QED
      BY <2>5, <3>2 DEF RemoveEntry
  <2> QED
    BY <2>1, <2>3, <2>4, <2>5
    DEF Next, Add, Remove, AddStart, RmStart, PassSlot, KeepEntry, RmDone
<1>2. Spec => [][Spared]_vars
  <2>1. Spec => [][Next]_vars
    BY PTL DEF Spec
  <2> HIDE DEF Spared
  <2> QED
    BY <1>1, <2>1, WholeNames, PTL
<1> QED
  BY <1>2 DEF NothingElseLost
=============================================================================
