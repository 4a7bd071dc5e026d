---------------------------- MODULE FormatProofs ----------------------------
(***************************************************************************)
(* Proofs about Format, for every disk, every list of partitions and every *)
(* size of sector: where command_format puts the partitions, and what it   *)
(* zeroes of them.  They do not share a sector, none reaches past the end  *)
(* of the disk, and each is zeroed before a volume is laid out in it; the  *)
(* volume stays what it was made as, and its root directory is empty.      *)
(***************************************************************************)
EXTENDS Format, FiniteSetTheorems, TLAPS

-----------------------------------------------------------------------------
(* Arithmetic.                                                             *)

\* Whole sectors, and the bytes that are left.
LEMMA Quotient ==
  ASSUME NEW n \in Nat, NEW d \in Nat \ {0}
  PROVE  n \div d \in Nat /\ (n \div d) * d <= n /\ n < (n \div d) * d + d
BY SMT

\* What is left is less than a sector.
LEMMA Remainder ==
  ASSUME NEW n \in Int, NEW d \in Nat \ {0}
  PROVE  n % d \in Nat /\ n % d < d
BY SMT

\* A number that is small enough does not wrap.
LEMMA NoWrapping ==
  ASSUME NEW n \in Nat, NEW d \in Nat \ {0}, n < d
  PROVE  n % d = n
BY SMT

\* Whole sectors in bytes.
LEMMA Scaled ==
  ASSUME NEW a \in Nat, NEW b \in Nat, NEW d \in Nat \ {0}
  PROVE  /\ a * d \in Nat /\ a <= a * d
         /\ (a + b) * d = a * d + b * d
         /\ (a * d <= b * d) => a <= b
BY SMT

\* The constants that the arithmetic is about.
LEMMA ConstantsAreNumbers ==
  /\ SectorSize \in Nat \ {0} /\ Word \in Nat \ {0} /\ Big \in Nat \ {0}
  /\ Word <= Big
  /\ NPart \in 1 .. 4
<1>1. SectorSize \in Nat \ {0} /\ Word \in Nat \ {0} /\ Big \in Nat \ {0}
  BY GeometryAssumption
<1>2. Word <= Big
  <2> SUFFICES ASSUME Big < Word PROVE FALSE
    BY <1>1
  <2> QED
    BY <1>1, NoWrapping, GeometryAssumption
<1> QED
  BY <1>1, <1>2, FormatAssumption

\* What is stored in 32 bits fits in them.
LEMMA U32IsSmall ==
  ASSUME NEW n \in Int
  PROVE  U32(n) \in 0 .. Word - 1 /\ (n \in Nat /\ n < Word => U32(n) = n)
BY Remainder, NoWrapping, ConstantsAreNumbers DEF U32

\* A sum over the partitions is a number, and is the sum without one of them
\* and that one.
LEMMA SumIsNat ==
  ASSUME NEW f \in [Parts -> Nat], NEW S \in SUBSET Parts
  PROVE  Sum4(f, S) \in Nat
<1>1. \A p \in S : f[p] \in Nat
  OBVIOUS
<1> QED
  BY <1>1 DEF Sum4

\* The sum over the partitions before the next one.
LEMMA SumOfNext ==
  ASSUME NEW f \in [Parts -> Nat], NEW p \in Parts
  PROVE  /\ Sum4(f, 0 .. p) = Sum4(f, 0 .. p - 1) + f[p]
         /\ Sum4(f, 0 .. p) <= Sum4(f, Parts)
<1>1. p \in 0 .. 3 /\ p < NPart
  BY ConstantsAreNumbers DEF Parts
<1>2. \A q \in Parts : f[q] \in Nat
  OBVIOUS
<1>3. \A q \in 0 .. 3 : q \in Parts <=> q < NPart
  BY ConstantsAreNumbers DEF Parts
<1>4. CASE p = 0
  BY <1>1, <1>2, <1>3, <1>4, ConstantsAreNumbers DEF Sum4
<1>5. CASE p = 1
  BY <1>1, <1>2, <1>3, <1>5, ConstantsAreNumbers DEF Sum4
<1>6. CASE p = 2
  BY <1>1, <1>2, <1>3, <1>6, ConstantsAreNumbers DEF Sum4
<1>7. CASE p = 3
  BY <1>1, <1>2, <1>3, <1>7, ConstantsAreNumbers DEF Sum4
<1> QED
  BY <1>1, <1>4, <1>5, <1>6, <1>7

\* What is shared out among some partitions is no more than what there was.
LEMMA SumOfShared ==
  ASSUME NEW f \in [Parts -> Nat], NEW S \in SUBSET Parts, NEW n \in Nat,
         \A p \in S : f[p] = 0
  PROVE  LET g == [p \in Parts |-> IF p \in S THEN n ELSE f[p]]
         IN  /\ Count(S) \in Nat /\ (S # {} => Count(S) > 0)
             /\ Sum4(g, Parts) = Sum4(f, Parts) + Count(S) * n
<1> DEFINE g == [p \in Parts |-> IF p \in S THEN n ELSE f[p]]
           One(p) == IF p \in S THEN 1 ELSE 0
           k == One(0) + One(1) + One(2) + One(3)
<1>1. \A q \in 0 .. 3 : q \in Parts <=> q < NPart
  BY ConstantsAreNumbers DEF Parts
<1>2. \A q \in Parts : f[q] \in Nat /\ g[q] = IF q \in S THEN n ELSE f[q]
  OBVIOUS
<1>3. Count(S) = k
  BY DEF Count, Sum4
<1>4. k \in Nat /\ k <= 4
  OBVIOUS
<1>5. S # {} => k > 0
  <2> SUFFICES ASSUME NEW p \in S PROVE k > 0
    OBVIOUS
  <2>1. p \in {0, 1, 2, 3}
    BY ConstantsAreNumbers DEF Parts
  <2> QED
    BY <2>1
<1>6. Sum4(g, Parts) = Sum4(f, Parts) + k * n
  <2> DEFINE F(p) == IF p \in Parts THEN f[p] ELSE 0
             G(p) == IF p \in Parts THEN g[p] ELSE 0
             N(p) == IF p \in S THEN n ELSE 0
  <2>1. \A p \in 0 .. 3 : F(p) \in Nat /\ N(p) \in Nat /\ G(p) = F(p) + N(p)
    BY <1>2
  <2>2. k * n = N(0) + N(1) + N(2) + N(3)
    BY SMT
  <2>3. Sum4(g, Parts) = G(0) + G(1) + G(2) + G(3)
    BY DEF Sum4
  <2>4. Sum4(f, Parts) = F(0) + F(1) + F(2) + F(3)
    BY DEF Sum4
  <2> HIDE DEF F, G, N, k, g
  <2> QED
    BY <2>1, <2>2, <2>3, <2>4
<1> QED
  BY <1>3, <1>4, <1>5, <1>6
-----------------------------------------------------------------------------
(* What changes the layout.                                                *)

\* While the partitions are placed, and while none is being formatted.
Placing == {"default", "share", "fit", "place"}
BetweenPartitions == Placing \cup {"begin", "done", "died"}

\* While a partition is being formatted, cur is its number.
TypeInv == TypeOK /\ (pc \notin BetweenPartitions => cur \in Parts)

\* Once the partitions are placed, none is moved.
LEMMA LayoutStays ==
  ASSUME TypeInv, [Next]_vars, pc \notin Placing
  PROVE  /\ TypeInv' /\ pc' \notin Placing
         /\ UNCHANGED <<ask, total, used, size, first, last, next>>
<1> USE DEF TypeInv, TypeOK, Placing, BetweenPartitions, Stages, args, layout
<1>0. /\ NPart \in 1 .. 4 /\ Parts = 0 .. NPart - 1
      /\ cur \in Parts => cur \in 0 .. NPart /\ cur + 1 \in 0 .. NPart
  BY ConstantsAreNumbers DEF Parts
<1>1. CASE Begin
  <2>1. /\ UNCHANGED <<ask, total, used, size, first, last, next>>
        /\ cur \in Parts
        /\ (cur' = cur + 1 /\ pc' = pc) \/ (cur' = cur /\ pc' = "zero")
    BY <1>1 DEF Begin
  <2>2. pc = "begin"
    BY <1>1 DEF Begin
  <2> QED
    BY <2>1, <2>2, <1>0
<1>2. CASE ZeroChunk
  BY <1>2 DEF ZeroChunk
<1>3. CASE ZeroEnd
  BY <1>3 DEF ZeroEnd
<1>4. CASE Entry
  BY <1>4 DEF Entry
<1>5. CASE WriteLoader
  BY <1>5 DEF WriteLoader
<1>6. CASE MakeBoot
  BY <1>6 DEF MakeBoot, Die
<1>7. CASE ZeroRoot
  BY <1>7 DEF ZeroRoot, Die
<1>8. CASE GrowFat
  BY <1>8 DEF GrowFat
<1>9. CASE MarkFat
  BY <1>9 DEF MarkFat, Die
<1>10. CASE WriteBoot
  BY <1>10 DEF WriteBoot
<1>11. CASE WriteTable
  BY <1>11 DEF WriteTable
<1>12. CASE Close
  BY <1>12, <1>0 DEF Close
<1>13. CASE Summary
  BY <1>13 DEF Summary
<1>14. CASE UNCHANGED vars
  BY <1>14 DEF vars
<1> QED
  BY <1>1, <1>2, <1>3, <1>4, <1>5, <1>6, <1>7, <1>8, <1>9, <1>10, <1>11, <1>12,
     <1>13, <1>14 DEF Next, Default, Share, Fit, Place

\* The quantities with which command_format computes are numbers.
LEMMA LayoutIsNumbers ==
  ASSUME TypeInv
  PROVE  /\ Left \in Nat /\ Needed \in Nat /\ Total(Parts) \in Nat
         /\ Unsized # {} => Count(Unsized) \in Nat \ {0}
         /\ Needed > total => Excess \in Nat
                              /\ Excess * SectorSize >= Needed - total
                              /\ Excess * SectorSize < Needed - total + SectorSize
         /\ 0 \in Parts
         /\ \A p \in Parts : Sectors(p) \in 0 .. Word - 1
<1> USE DEF TypeInv, TypeOK
<1>1. Total(Parts) \in Nat /\ Total({p \in Parts : used[p]}) \in Nat
  BY SumIsNat DEF Total
<1>2. Left \in Nat /\ Needed \in Nat
  BY <1>1, Remainder, ConstantsAreNumbers DEF Left, Needed
<1>3. ASSUME Unsized # {} PROVE Count(Unsized) \in Nat \ {0}
  <2>1. Unsized \in SUBSET Parts /\ \A p \in Unsized : size[p] = 0
    BY DEF Unsized
  <2>2. size \in [Parts -> Nat] /\ 0 \in Nat
    OBVIOUS
  <2> QED
    BY <1>3, <2>1, <2>2, SumOfShared
<1>4. ASSUME Needed > total
      PROVE  /\ Excess \in Nat
             /\ Excess * SectorSize >= Needed - total
             /\ Excess * SectorSize < Needed - total + SectorSize
  <2> DEFINE n == Needed - total + SectorSize - 1
  <2>1. n \in Nat
    BY <1>2, <1>4, ConstantsAreNumbers
  <2>2. Excess \in Nat /\ Excess * SectorSize <= n /\ n < Excess * SectorSize + SectorSize
    BY <2>1, Quotient, ConstantsAreNumbers DEF Excess
  <2> QED
    BY <1>2, <2>2, ConstantsAreNumbers
<1>5. 0 \in Parts
  BY ConstantsAreNumbers DEF Parts
<1>6. \A p \in Parts : Sectors(p) \in 0 .. Word - 1
  BY U32IsSmall, Quotient, ConstantsAreNumbers DEF Sectors
<1> QED
  BY <1>1, <1>2, <1>3, <1>4, <1>5, <1>6

\* The steps that change the layout keep it of its type.
LEMMA LayoutStepTypes ==
  ASSUME TypeInv, Default \/ Share \/ Fit \/ Place
  PROVE  TypeInv'
<1> USE DEF TypeInv, TypeOK, Placing, BetweenPartitions, Stages, args
<1>1. CASE Default
  BY <1>1, LayoutIsNumbers DEF Default
<1>2. CASE Share
  <2>1. ASSUME Unsized # {} PROVE Left \div Count(Unsized) \in Nat
    BY <2>1, LayoutIsNumbers, Quotient
  <2>2. size' \in [Parts -> Nat]
    BY <1>2, <2>1 DEF Share
  <2> QED
    BY <1>2, <2>2 DEF Share
<1>3. CASE Fit
  <2>1. ASSUME Needed > total PROVE (size[0] - Excess * SectorSize) % Big \in Nat
    <3>1. Excess * SectorSize \in Int /\ size[0] \in Nat
      BY <2>1, LayoutIsNumbers, ConstantsAreNumbers
    <3> QED
      BY <3>1, Remainder, ConstantsAreNumbers
  <2>2. size' \in [Parts -> Nat]
    BY <1>3, <2>1 DEF Fit
  <2>3. 0 \in 0 .. NPart
    BY ConstantsAreNumbers
  <2> QED
    BY <1>3, <2>2, <2>3 DEF Fit
<1>4. CASE Place
  <2>1. CASE cur \in Parts
    <3>1. next + Sectors(cur) - 1 \in Int /\ next + Sectors(cur) \in Int
      BY <2>1, LayoutIsNumbers
    <3>2. U32(next + Sectors(cur) - 1) \in 0 .. Word - 1 /\ After(cur) \in 0 .. Word - 1
      BY <3>1, U32IsSmall DEF After
    <3>3. cur + 1 \in 0 .. NPart
      BY <2>1, ConstantsAreNumbers DEF Parts
    <3>4. /\ first' \in [Parts -> 0 .. Word - 1] /\ last' \in [Parts -> 0 .. Word - 1]
          /\ next' \in 0 .. Word - 1
      BY <1>4, <2>1, <3>2 DEF Place
    <3> QED
      BY <1>4, <2>1, <3>3, <3>4 DEF Place
  <2>2. CASE cur \notin Parts
    <3>1. 0 \in 0 .. NPart
      BY ConstantsAreNumbers
    <3> QED
      BY <1>4, <2>2, <3>1 DEF Place
  <2> QED
    BY <2>1, <2>2
<1> QED
  BY <1>1, <1>2, <1>3, <1>4

\* The program starts with a layout of its type.
LEMMA InitTypes == Init => TypeInv
<1> SUFFICES ASSUME Init PROVE TypeInv
  OBVIOUS
<1>1. total \in Nat /\ ask \in [Parts -> Ask]
  BY FormatAssumption DEF Init
<1>2. used \in [Parts -> BOOLEAN] /\ size \in [Parts -> Nat]
  BY <1>1 DEF Init, Ask
<1>3. 0 \in 0 .. NPart /\ 0 \in 0 .. Word - 1
  BY ConstantsAreNumbers
<1> QED
  BY <1>1, <1>2, <1>3 DEF Init, TypeInv, TypeOK, BetweenPartitions, Placing, Stages

\* Every step keeps the type invariant.
LEMMA NextTypes == TypeInv /\ [Next]_vars => TypeInv'
<1> SUFFICES ASSUME TypeInv, [Next]_vars PROVE TypeInv'
  OBVIOUS
<1>1. CASE pc \notin Placing
  BY <1>1, LayoutStays
<1>2. CASE Default \/ Share \/ Fit \/ Place
  BY <1>2, LayoutStepTypes
<1>3. CASE UNCHANGED vars
  BY <1>3 DEF vars, args, layout, TypeInv, TypeOK
<1>4. CASE pc \in Placing /\ Next /\ ~(Default \/ Share \/ Fit \/ Place)
  BY <1>4 DEF Placing, Next, Begin, ZeroChunk, ZeroEnd, Entry, WriteLoader, MakeBoot,
     ZeroRoot, GrowFat, MarkFat, WriteBoot, WriteTable, Close, Summary
<1> QED
  BY <1>1, <1>2, <1>3, <1>4

\* The layout is made of numbers of the width the code gives them, whatever is
\* asked for (main.c:505-633).
THEOREM TypeCorrect == Spec => []TypeOK
<1>1. Init => TypeInv
  BY InitTypes
<1>2. TypeInv /\ [Next]_vars => TypeInv'
  BY NextTypes
<1>3. TypeInv => TypeOK
  BY DEF TypeInv
<1> QED
  BY <1>1, <1>2, <1>3, PTL DEF Spec
-----------------------------------------------------------------------------
(* The partitions do not overlap.                                          *)

\* The sectors of the partitions can be counted in 32 bits.
Countable == \A p \in Placed : first[p] + Sectors(p) < Word

\* While they are being placed, those that have a place end before the next.
ApartInv ==
  /\ TypeInv /\ PartitionsApart
  /\ pc = "place" /\ Countable => \A p \in Placed : Sectors(p) > 0 => last[p] < next

\* A partition is placed behind those that have been placed (main.c:616-633).
LEMMA PlaceApart ==
  ASSUME ApartInv, Place
  PROVE  ApartInv'
<1> USE DEF ApartInv
<1>1. TypeInv' /\ IsLaidOut /\ pc = "place" /\ size' = size
  BY LayoutStepTypes DEF Place, IsLaidOut, layout
<1>2. \A p \in Parts : Sectors(p)' = Sectors(p)
  BY <1>1 DEF Sectors
<1>3. CASE cur \in Parts /\ size[cur] # 0
  <2>1. /\ pc' = "place" /\ cur' = cur + 1 /\ next' = After(cur)
        /\ first' = [first EXCEPT ![cur] = next]
        /\ last' = [last EXCEPT ![cur] = U32(next + Sectors(cur) - 1)]
    BY <1>3 DEF Place
  <2>2. /\ cur \in 0 .. NPart - 1 /\ \A p \in Parts : p \in Nat
        /\ first[cur] \in Nat /\ last[cur] \in Nat /\ next \in Nat
    BY <1>3, ConstantsAreNumbers DEF Parts, TypeInv, TypeOK
  <2>3. Placed' = Placed \cup {cur} /\ \A p \in Placed : p < cur
    <3>1. \A p \in Parts : p < cur + 1 <=> (p < cur \/ p = cur)
      BY <2>2
    <3>2. Placed = {p \in Parts : size[p] # 0 /\ p < cur}
      BY <1>1 DEF Placed
    <3>3. Placed' = {p \in Parts : size[p] # 0 /\ p < cur + 1}
      BY <1>1, <2>1 DEF Placed
    <3> QED
      BY <1>3, <3>1, <3>2, <3>3
  <2>4. /\ first'[cur] = next /\ last'[cur] = U32(next + Sectors(cur) - 1)
        /\ \A p \in Placed : p \in Parts /\ first'[p] = first[p] /\ last'[p] = last[p]
    BY <1>3, <2>1, <2>3, <2>2 DEF TypeInv, TypeOK, Placed
  <2> SUFFICES ASSUME Countable'
               PROVE  /\ \A p, q \in Placed' : p < q /\ Sectors(p) > 0 => last'[p] < first'[q]
                      /\ \A p \in Placed' : Sectors(p) > 0 => last'[p] < next'
    <3>1. \A p \in Placed' : p \in Parts
      BY <2>3, <1>3 DEF Placed
    <3> QED
      BY <1>1, <1>2, <2>1, <3>1 DEF PartitionsApart, Countable
  <2>5. next + Sectors(cur) < Word
    <3>1. \A p \in Placed' : p \in Parts
      BY <1>3, <2>3 DEF Placed
    <3>2. \A p \in Placed' : first'[p] + Sectors(p) < Word
      BY <1>2, <3>1 DEF Countable
    <3> QED
      BY <2>3, <2>4, <3>2
  <2>6. Countable
    BY <1>2, <2>3, <2>4 DEF Countable
  <2>7. Sectors(cur) \in Nat /\ \A p \in Parts : Sectors(p) \in Nat
    BY <1>3, LayoutIsNumbers
  <2>8. /\ next' = next + Sectors(cur)
        /\ Sectors(cur) > 0 => last'[cur] = next + Sectors(cur) - 1
    <3>1. U32(next + Sectors(cur)) = next + Sectors(cur)
      <4>1. next + Sectors(cur) \in Nat
        BY <2>2, <2>7
      <4> QED
        BY <4>1, <2>5, U32IsSmall
    <3>2. ASSUME Sectors(cur) > 0
          PROVE  U32(next + Sectors(cur) - 1) = next + Sectors(cur) - 1
      <4>1. next + Sectors(cur) - 1 \in Nat /\ next + Sectors(cur) - 1 < Word
        BY <2>2, <2>5, <2>7, <3>2, ConstantsAreNumbers
      <4> QED
        BY <4>1, U32IsSmall
    <3> QED
      BY <2>1, <2>4, <3>1, <3>2 DEF After
  <2>9. \A p \in Placed : Sectors(p) > 0 => last[p] < next
    BY <1>1, <2>6
  <2>10. \A p, q \in Placed : p < q /\ Sectors(p) > 0 => last[p] < first[q]
    BY <1>1, <2>6 DEF PartitionsApart, Countable
  <2>11. \A p \in Placed' : Sectors(p) > 0 => last'[p] < next'
    <3> SUFFICES ASSUME NEW p \in Placed', Sectors(p) > 0 PROVE last'[p] < next'
      OBVIOUS
    <3>1. CASE p = cur
      BY <3>1, <2>2, <2>7, <2>8
    <3>2. CASE p \in Placed
      <4>1. last'[p] < next /\ last'[p] \in Nat
        BY <3>2, <2>4, <2>9 DEF TypeInv, TypeOK
      <4> QED
        BY <4>1, <2>2, <2>7, <2>8
    <3> QED
      BY <3>1, <3>2, <2>3
  <2>12. \A p, q \in Placed' : p < q /\ Sectors(p) > 0 => last'[p] < first'[q]
    <3> SUFFICES ASSUME NEW p \in Placed', NEW q \in Placed', p < q, Sectors(p) > 0
                 PROVE  last'[p] < first'[q]
      OBVIOUS
    <3>1. p # cur
      <4>1. q = cur \/ q < cur
        BY <2>3
      <4>2. q \in Nat /\ p \in Nat
        BY <2>2, <2>3, <1>3 DEF Placed
      <4> QED
        BY <4>1, <4>2, <2>2
    <3>2. p \in Placed
      BY <3>1, <2>3
    <3> QED
      BY <3>2, <2>3, <2>4, <2>9, <2>10
  <2> QED
    BY <2>11, <2>12
<1>4. CASE ~(cur \in Parts /\ size[cur] # 0)
  <2>1. UNCHANGED <<first, last, next>>
    BY <1>4 DEF Place
  <2>2. Placed' = Placed
    <3>1. CASE cur \in Parts
      <4>1. cur' = cur + 1 /\ pc' = pc /\ size[cur] = 0
        BY <1>4, <3>1 DEF Place
      <4>2. cur \in Nat /\ \A p \in Parts : p \in Nat
        BY <3>1, ConstantsAreNumbers DEF Parts
      <4> QED
        BY <1>1, <4>1, <4>2 DEF Placed
    <3>2. CASE cur \notin Parts
      <4>1. pc' = "begin" /\ cur = NPart
        BY <3>2, ConstantsAreNumbers DEF Place, TypeInv, TypeOK, Parts
      <4>2. \A p \in Parts : p < cur
        BY <4>1, ConstantsAreNumbers DEF Parts
      <4> QED
        BY <1>1, <4>1, <4>2 DEF Placed
    <3> QED
      BY <3>1, <3>2
  <2>3. Countable' <=> Countable
    BY <1>2, <2>1, <2>2 DEF Countable, Placed
  <2>4. IsLaidOut'
    BY <1>1 DEF Place, IsLaidOut
  <2> QED
    BY <1>1, <1>2, <2>1, <2>2, <2>3, <2>4 DEF PartitionsApart, Countable, Placed
<1> QED
  BY <1>3, <1>4

\* No step makes two partitions share a sector.
LEMMA ApartSteps == ApartInv /\ [Next]_vars => ApartInv'
<1> SUFFICES ASSUME ApartInv, [Next]_vars PROVE ApartInv'
  OBVIOUS
<1>1. TypeInv' /\ TypeInv
  BY NextTypes DEF ApartInv
<1>2. CASE pc \notin Placing
  <2>1. pc' \notin Placing /\ UNCHANGED <<size, first, last, next>>
    BY <1>1, <1>2, LayoutStays
  <2>2. Placed' = Placed
    BY <1>2, <2>1 DEF Placed, Placing
  <2>3. \A p \in Parts : Sectors(p)' = Sectors(p)
    BY <2>1 DEF Sectors
  <2> QED
    BY <1>1, <1>2, <2>1, <2>2, <2>3
       DEF ApartInv, PartitionsApart, Countable, IsLaidOut, Placing, Placed
<1>3. CASE Place
  BY <1>3, PlaceApart
<1>4. CASE Default \/ Share
  BY <1>1, <1>4 DEF Default, Share, ApartInv, PartitionsApart, IsLaidOut
<1>5. CASE Fit
  <2>1. pc' = "place" /\ cur' = 0
    BY <1>5 DEF Fit
  <2>2. Placed' = {}
    <3>1. \A p \in Parts : ~(p < 0)
      BY DEF Parts
    <3> QED
      BY <2>1, <3>1 DEF Placed
  <2> QED
    BY <1>1, <2>2 DEF ApartInv, PartitionsApart
<1>6. CASE UNCHANGED vars
  <2>1. UNCHANGED <<size, first, last, next, pc, cur>>
    BY <1>6 DEF vars, args, layout
  <2> QED
    BY <1>1, <2>1 DEF ApartInv, PartitionsApart, Countable, IsLaidOut, Placed, Sectors
<1>7. CASE pc \in Placing /\ Next /\ ~(Default \/ Share \/ Fit \/ Place)
  BY <1>7 DEF Placing, Next, Begin, ZeroChunk, ZeroEnd, Entry, WriteLoader, MakeBoot,
     ZeroRoot, GrowFat, MarkFat, WriteBoot, WriteTable, Close, Summary
<1> QED
  BY <1>2, <1>3, <1>4, <1>5, <1>6, <1>7

\* No partition shares a sector with an earlier one, whatever was asked for
\* (main.c:616-633).
THEOREM PartitionsStayApart == Spec => []PartitionsApart
<1>1. Init => ApartInv
  <2> SUFFICES ASSUME Init PROVE ApartInv
    OBVIOUS
  <2>1. ~IsLaidOut /\ pc # "place"
    BY DEF Init, IsLaidOut
  <2> QED
    BY <2>1, InitTypes DEF ApartInv, PartitionsApart
<1>2. ApartInv /\ [Next]_vars => ApartInv'
  BY ApartSteps
<1>3. ApartInv => PartitionsApart
  BY DEF ApartInv
<1> QED
  BY <1>1, <1>2, <1>3, PTL DEF Spec
-----------------------------------------------------------------------------
(* The partitions fit on the disk.                                         *)

WholeSectors == \A p \in Parts : size[p] # 0 => SectorSize <= size[p]

\* The sizes fit, or those of the partitions other than 0 do, with two sectors
\* to spare.
Shrinkable == Total(Parts) <= total \/ Total(Parts) + 2 * SectorSize <= total + size[0]

\* What is known of the sizes after each part of command_format.
Asked == /\ used = [p \in Parts |-> ask[p].used]
         /\ size = [p \in Parts |-> ask[p].size]

\* What the sizes are known to be when they have been asked for.
Shareable ==
  /\ WholeSectors /\ Total(Parts) < Big
  /\ \A p \in Parts : size[p] # 0 => used[p]
  /\ IF Unsized = {} THEN Shrinkable
     ELSE Total(Parts) = total \/ Total(Parts) + SectorSize * Count(Unsized) <= total

Fittable == WholeSectors /\ Total(Parts) < Big /\ Shrinkable

Fitting == WholeSectors /\ Total(Parts) <= total

InsideInv ==
  /\ TypeInv
  /\ Fits /\ total < Word
       => /\ pc \in {"default", "share", "fit"} => next = 0
          /\ pc = "default" => Asked
          /\ pc = "share" => Shareable
          /\ pc = "fit" => Fittable
          /\ IsLaidOut => Fitting /\ InsideDisk
          /\ pc = "place" => next * SectorSize <= Total(0 .. cur - 1)

\* The sum after partition 0 got another size.
LEMMA SumOfChanged ==
  ASSUME NEW f \in [Parts -> Nat], NEW n \in Nat
  PROVE  /\ Sum4([f EXCEPT ![0] = n], Parts) = Sum4(f, Parts) - f[0] + n
         /\ f[0] <= Sum4(f, Parts)
<1> DEFINE F(p) == IF p \in Parts THEN f[p] ELSE 0
           g == [f EXCEPT ![0] = n]
           G(p) == IF p \in Parts THEN g[p] ELSE 0
<1>1. 0 \in Parts
  BY ConstantsAreNumbers DEF Parts
<1>2. \A p \in 0 .. 3 : F(p) \in Nat /\ G(p) = IF p = 0 THEN n ELSE F(p)
  BY <1>1
<1>3. Sum4(f, Parts) = F(0) + F(1) + F(2) + F(3) /\ F(0) = f[0]
  BY <1>1 DEF Sum4
<1>4. Sum4(g, Parts) = G(0) + G(1) + G(2) + G(3)
  BY DEF Sum4
<1> HIDE DEF F, G, g
<1>5. Sum4(g, Parts) = Sum4(f, Parts) - f[0] + n /\ f[0] <= Sum4(f, Parts)
  BY <1>2, <1>3, <1>4
<1> QED
  BY <1>5 DEF g

\* Partitions that are not used count for nothing.
LEMMA SumOfUsed ==
  ASSUME NEW f \in [Parts -> Nat], NEW S \in SUBSET Parts, \A p \in Parts \ S : f[p] = 0
  PROVE  Sum4(f, S) = Sum4(f, Parts)
<1> DEFINE F(p) == IF p \in Parts THEN f[p] ELSE 0
           G(p) == IF p \in S THEN f[p] ELSE 0
<1>1. \A p \in 0 .. 3 : F(p) = G(p)
  OBVIOUS
<1>2. Sum4(f, Parts) = F(0) + F(1) + F(2) + F(3) /\ Sum4(f, S) = G(0) + G(1) + G(2) + G(3)
  BY DEF Sum4
<1> HIDE DEF F, G
<1> QED
  BY <1>1, <1>2

\* The sizes that are asked for leave something to share out.
LEMMA DefaultInside ==
  ASSUME TypeInv, Fits, total < Word, Asked, Default
  PROVE  Shareable'
<1> USE DEF TypeInv, TypeOK
<1> DEFINE sizes == [p \in Parts |-> ask[p].size]
           bare  == {p \in Parts : ask[p].used /\ ask[p].size = 0}
<1>1. /\ \A p \in Parts : size[p] # 0 => used[p] /\ SectorSize <= size[p]
      /\ SectorSize <= total /\ Sum4(size, Parts) < Big
      /\ IF bare = {} THEN Sum4(size, Parts) <= total
                           \/ Sum4(size, Parts) + 2 * SectorSize <= total + size[0]
         ELSE Sum4(size, Parts) = total
              \/ Sum4(size, Parts) + SectorSize * Count(bare) <= total
  <2>1. 0 \in Parts
    BY LayoutIsNumbers
  <2> QED
    BY <2>1 DEF Fits, Asked
<1>2. Unsized = bare
  BY DEF Unsized, Asked
<1>3. total' = total
  BY DEF Default, args
<1>4. CASE \E p \in Parts : used[p]
  <2>1. UNCHANGED <<used, size, total>>
    BY <1>3, <1>4 DEF Default
  <2>2. Shareable
    BY <1>1, <1>2 DEF Shareable, WholeSectors, Shrinkable, Total
  <2> QED
    BY <2>1, <2>2 DEF Shareable, WholeSectors, Shrinkable, Total, Unsized, Count
<1>5. CASE ~ \E p \in Parts : used[p]
  <2>1. 0 \in Parts /\ total \in Nat
    BY LayoutIsNumbers
  <2>2. used' = [used EXCEPT ![0] = TRUE] /\ size' = [size EXCEPT ![0] = total]
    BY <1>5 DEF Default
  <2>3. \A p \in Parts : size[p] = 0
    BY <1>1, <1>5
  <2>4. Sum4(size, Parts) = 0
    BY <2>3 DEF Sum4
  <2>5. Sum4(size', Parts) = total
    <3>1. Sum4(size', Parts) = Sum4(size, Parts) - size[0] + total
      BY <2>1, <2>2, SumOfChanged
    <3> QED
      BY <3>1, <2>1, <2>3, <2>4
  <2>6. total > 0 /\ total < Big
    BY <1>1, ConstantsAreNumbers
  <2>7. \A p \in Parts : size'[p] = IF p = 0 THEN total ELSE 0
    BY <2>2, <2>3
  <2>8. Unsized' = {}
    BY <1>5, <2>1, <2>2, <2>6, <2>7 DEF Unsized
  <2>9. Total(Parts)' = total
    BY <2>5 DEF Total
  <2>10. Shrinkable'
    BY <1>3, <2>1, <2>9 DEF Shrinkable
  <2>11. WholeSectors'
    BY <1>1, <2>7 DEF WholeSectors
  <2>12. \A p \in Parts : size'[p] # 0 => used'[p]
    BY <2>1, <2>2, <2>7
  <2> QED
    BY <2>6, <2>8, <2>9, <2>10, <2>11, <2>12 DEF Shareable
<1> QED
  BY <1>4, <1>5

\* The sizes that are shared out can be cut down to the disk.
LEMMA ShareInside ==
  ASSUME TypeInv, total < Word, Shareable, Share
  PROVE  Fittable'
<1> USE DEF TypeInv, TypeOK
<1>1. total' = total /\ total \in Nat
  BY DEF Share, args
<1>2. CASE Unsized = {} \/ Left = 0
  <2>1. size' = size
    BY <1>2 DEF Share
  <2>2. Shrinkable
    <3>1. CASE Unsized = {}
      BY <3>1 DEF Shareable
    <3>2. CASE Unsized # {} /\ Left = 0
      <4>1. Count(Unsized) \in Nat \ {0} /\ Total(Parts) \in Nat
        BY <3>2, LayoutIsNumbers
      <4>2. SectorSize * Count(Unsized) \in Nat
        BY <4>1, ConstantsAreNumbers
      <4> QED
        BY <3>2, <4>1, <4>2, <1>1 DEF Shareable, Shrinkable
    <3> QED
      BY <1>2, <3>1, <3>2
  <2> QED
    BY <1>1, <2>1, <2>2 DEF Shareable, Fittable, WholeSectors, Shrinkable, Total
<1>3. CASE Unsized # {} /\ Left # 0
  <2> DEFINE k == Count(Unsized)
             n == Left \div k
             t == Total(Parts)
  <2>1. k \in Nat \ {0} /\ t \in Nat /\ Left \in Nat
    BY <1>3, LayoutIsNumbers
  <2>2. n \in Nat /\ n * k <= Left /\ Left < n * k + k
    BY <2>1, Quotient
  <2>3. Total({p \in Parts : used[p]}) = t
    <3>1. size \in [Parts -> Nat] /\ {p \in Parts : used[p]} \in SUBSET Parts
      OBVIOUS
    <3>2. \A p \in Parts \ {p \in Parts : used[p]} : size[p] = 0
      BY DEF Shareable
    <3> QED
      BY <3>1, <3>2, SumOfUsed DEF Total
  <2>4. SectorSize * k \in Nat
    BY <2>1, ConstantsAreNumbers
  <2>5. t <= total
    BY <1>1, <1>3, <2>1, <2>4 DEF Shareable
  <2>6. Left = total - t
    <3>1. total - t \in Nat /\ total - t < Big
      BY <1>1, <2>1, <2>5, ConstantsAreNumbers
    <3> QED
      BY <2>3, <3>1, NoWrapping, ConstantsAreNumbers DEF Left
  <2>7. SectorSize * k <= Left
    BY <1>1, <1>3, <2>1, <2>4, <2>6 DEF Shareable
  <2>8. SectorSize <= n
    <3> HIDE DEF n, k
    <3> SUFFICES ASSUME n < SectorSize PROVE FALSE
      BY <2>2, ConstantsAreNumbers
    <3>1. n + 1 \in Nat /\ SectorSize - (n + 1) \in Nat
      BY <2>2, ConstantsAreNumbers
    <3>2. (n + 1) * k + (SectorSize - (n + 1)) * k = SectorSize * k
      BY <2>1, <3>1, ConstantsAreNumbers, Scaled
    <3>3. (n + 1) * k = n * k + k /\ (SectorSize - (n + 1)) * k \in Nat /\ n * k \in Nat
      BY <2>1, <2>2, <3>1, Scaled
    <3> QED
      BY <2>1, <2>2, <2>4, <2>7, <3>2, <3>3
  <2>9. size' = [p \in Parts |-> IF p \in Unsized THEN n ELSE size[p]]
    BY <1>3 DEF Share
  <2>10. Sum4(size', Parts) = Sum4(size, Parts) + k * n
    <3>1. \A p \in Unsized : size[p] = 0
      BY DEF Unsized
    <3>2. Unsized \in SUBSET Parts /\ size \in [Parts -> Nat]
      BY DEF Unsized
    <3> QED
      BY <2>2, <2>9, <3>1, <3>2, SumOfShared
  <2>11. k * n = n * k /\ k * n \in Nat
    BY <2>1, <2>2
  <2>12. Total(Parts)' = t + k * n
    BY <2>10 DEF Total
  <2>13. Total(Parts)' <= total
    <3> HIDE DEF n, k, t
    <3> QED
      BY <1>1, <2>1, <2>2, <2>6, <2>11, <2>12
  <2>14. WholeSectors'
    <3> HIDE DEF n
    <3> QED
      BY <2>8, <2>9 DEF Shareable, WholeSectors
  <2>15. Total(Parts)' \in Nat
    BY <2>1, <2>11, <2>12
  <2>16. Total(Parts)' < Big
    BY <1>1, <2>13, <2>15, ConstantsAreNumbers
  <2> QED
    BY <1>1, <2>13, <2>14, <2>16 DEF Fittable, Shrinkable
<1> QED
  BY <1>2, <1>3

\* One partition gives up what is too much, and keeps a sector.
LEMMA FitInside ==
  ASSUME TypeInv, Fits, total < Word, Fittable, next = 0, Fit
  PROVE  /\ Fitting' /\ InsideDisk'
         /\ pc' = "place" /\ (next * SectorSize <= Total(0 .. cur - 1))'
<1> USE DEF TypeInv, TypeOK
<1> DEFINE t == Total(Parts)
<1>1. /\ total' = total /\ total \in Nat /\ pc' = "place" /\ cur' = 0 /\ next' = 0
      /\ t \in Nat /\ 0 \in Parts
  BY LayoutIsNumbers DEF Fit, args
<1>2. Needed = t
  BY <1>1, NoWrapping, ConstantsAreNumbers DEF Needed, Fittable
<1>3. Fitting'
  <2>1. CASE Needed <= total
    <3>1. size' = size
      BY <1>1, <1>2, <2>1 DEF Fit
    <3>2. t <= total
      BY <1>2, <2>1
    <3> QED
      BY <1>1, <3>1, <3>2 DEF Fitting, Fittable, WholeSectors, Total
  <2>2. CASE Needed > total
    <3> DEFINE e == Excess * SectorSize
               n == size[0] - e
    <3>1. /\ e \in Nat /\ e >= t - total /\ e < t - total + SectorSize
          /\ size[0] \in Nat
      BY <1>1, <1>2, <2>2, LayoutIsNumbers, ConstantsAreNumbers
    <3>2. t + 2 * SectorSize <= total + size[0]
      BY <1>1, <1>2, <2>2 DEF Fittable, Shrinkable
    <3>3. n \in Nat /\ SectorSize <= n
      <4> HIDE DEF t, e
      <4> QED
        BY <1>1, <3>1, <3>2, ConstantsAreNumbers
    <3>4. size[0] <= t
      BY SumOfChanged DEF Total
    <3>5. n < Big
      <4> HIDE DEF t, e
      <4>1. t < Big
        BY DEF Fittable, t
      <4> QED
        BY <1>1, <3>1, <3>3, <3>4, <4>1, ConstantsAreNumbers
    <3>6. size' = [size EXCEPT ![0] = n]
      <4>1. n % Big = n
        BY <3>3, <3>5, NoWrapping, ConstantsAreNumbers
      <4> QED
        BY <2>2, <4>1 DEF Fit
    <3>7. Sum4(size', Parts) = t - size[0] + n
      BY <3>3, <3>6, SumOfChanged DEF Total
    <3>8. Total(Parts)' <= total
      <4>1. t - size[0] + n <= total
        <5> HIDE DEF t, e
        <5> QED
          BY <1>1, <3>1
      <4> QED
        BY <3>7, <4>1 DEF Total
    <3>9. WholeSectors'
      <4> HIDE DEF n
      <4> QED
        BY <3>3, <3>6 DEF Fittable, WholeSectors
    <3> QED
      BY <1>1, <3>8, <3>9 DEF Fitting
  <2> QED
    BY <1>1, <1>2, <2>1, <2>2
<1>4. Placed' = {}
  <2>1. \A p \in Parts : ~(p < 0)
    BY DEF Parts
  <2> QED
    BY <1>1, <2>1 DEF Placed
<1>5. InsideDisk'
  BY <1>4 DEF InsideDisk
<1>6. (next * SectorSize <= Total(0 .. cur - 1))'
  <2>1. 0 .. cur' - 1 = {}
    BY <1>1
  <2>2. Total(0 .. cur - 1)' = 0
    BY <2>1 DEF Total, Sum4
  <2>3. next' * SectorSize = 0
    BY <1>1, ConstantsAreNumbers
  <2> QED
    BY <2>2, <2>3
<1> QED
  BY <1>1, <1>3, <1>5, <1>6

\* Partition cur is placed behind the others, and still inside the disk.
LEMMA PlaceInside ==
  ASSUME TypeInv, Fits, total < Word, Fitting, InsideDisk, Place,
         next * SectorSize <= Total(0 .. cur - 1)
  PROVE  /\ Fitting' /\ InsideDisk' /\ pc' \in {"place", "begin"}
         /\ (pc = "place" => next * SectorSize <= Total(0 .. cur - 1))'
<1> USE DEF TypeInv, TypeOK
<1>1. /\ size' = size /\ total' = total /\ ask' = ask /\ pc = "place"
      /\ pc' \in {"place", "begin"} /\ total \in Nat /\ next \in Nat
  BY DEF Place, args
<1>2. Fitting'
  BY <1>1 DEF Fitting, WholeSectors, Total
<1>3. \A p \in Placed : first[p] <= last[p] /\ (last[p] + 1) * SectorSize <= total
  BY <1>1 DEF InsideDisk, IsLaidOut
<1>4. CASE cur \in Parts /\ size[cur] # 0
  <2> DEFINE k == size[cur] \div SectorSize
             before == Total(0 .. cur - 1)
  <2>1. /\ cur \in 0 .. NPart - 1 /\ \A p \in Parts : p \in Nat
        /\ size[cur] \in Nat /\ SectorSize <= size[cur]
    BY <1>4 DEF Parts, Fitting, WholeSectors
  <2>2. /\ before \in Nat /\ Total(0 .. cur) = before + size[cur]
        /\ before + size[cur] <= total
    <3>1. 0 .. cur - 1 \in SUBSET Parts
      BY <2>1, ConstantsAreNumbers DEF Parts
    <3>2. Sum4(size, 0 .. cur - 1) \in Nat /\ Sum4(size, Parts) \in Nat
      BY <3>1, SumIsNat
    <3>3. /\ Sum4(size, 0 .. cur) = Sum4(size, 0 .. cur - 1) + size[cur]
          /\ Sum4(size, 0 .. cur) <= Sum4(size, Parts)
      BY <1>4, SumOfNext
    <3> QED
      BY <1>1, <2>1, <3>2, <3>3 DEF Total, Fitting
  <2>3. k \in Nat /\ k * SectorSize <= size[cur] /\ size[cur] < k * SectorSize + SectorSize
    BY <2>1, Quotient, ConstantsAreNumbers
  <2>4. k > 0
    <3> HIDE DEF k
    <3> SUFFICES ASSUME k = 0 PROVE FALSE
      BY <2>3
    <3> QED
      BY <2>1, <2>3, ConstantsAreNumbers
  <2>5. (next + k) * SectorSize <= before + size[cur]
    <3> HIDE DEF k, before
    <3>1. /\ (next + k) * SectorSize = next * SectorSize + k * SectorSize
          /\ next * SectorSize \in Nat /\ k * SectorSize \in Nat
      BY <1>1, <2>3, Scaled, ConstantsAreNumbers
    <3>2. next * SectorSize <= before
      BY DEF before
    <3> QED
      BY <2>1, <2>2, <2>3, <3>1, <3>2
  <2>6. next + k \in Nat /\ next + k <= total /\ (next + k) * SectorSize <= total
    <3> HIDE DEF k, before
    <3>1. next + k \in Nat
      BY <1>1, <2>3
    <3>2. next + k <= (next + k) * SectorSize /\ (next + k) * SectorSize \in Nat
      BY <3>1, Scaled, ConstantsAreNumbers
    <3> QED
      BY <1>1, <2>1, <2>2, <2>5, <3>1, <3>2
  <2>7. Sectors(cur) = k
    <3>1. k < Word
      <4> HIDE DEF k
      <4> QED
        BY <1>1, <2>3, <2>6, ConstantsAreNumbers
    <3> QED
      BY <2>3, <3>1, U32IsSmall DEF Sectors
  <2>8. U32(next + k) = next + k /\ U32(next + k - 1) = next + k - 1
    <3> HIDE DEF k
    <3>1. next + k < Word /\ next + k - 1 \in Nat /\ next + k - 1 < Word
      BY <1>1, <2>3, <2>4, <2>6, ConstantsAreNumbers
    <3> QED
      BY <2>6, <3>1, U32IsSmall
  <2>9. /\ pc' = "place" /\ cur' = cur + 1 /\ next' = next + k
        /\ first' = [first EXCEPT ![cur] = next]
        /\ last' = [last EXCEPT ![cur] = next + k - 1]
    BY <1>4, <2>7, <2>8 DEF Place, After
  <2> HIDE DEF k, before
  <2>10. Placed' = Placed \cup {cur}
    <3>1. \A p \in Parts : p < cur + 1 <=> (p < cur \/ p = cur)
      BY <2>1
    <3>2. Placed = {p \in Parts : size[p] # 0 /\ p < cur}
      BY <1>1 DEF Placed
    <3>3. Placed' = {p \in Parts : size[p] # 0 /\ p < cur + 1}
      BY <1>1, <2>9 DEF Placed
    <3>4. \A p \in Parts : size[p] # 0 /\ p < cur + 1
                             <=> (size[p] # 0 /\ p < cur) \/ p = cur
      BY <1>4, <3>1
    <3> QED
      BY <1>4, <3>2, <3>3, <3>4, Zenon
  <2>11. /\ first'[cur] = next /\ last'[cur] = next + k - 1
         /\ \A p \in Placed : p # cur /\ first'[p] = first[p] /\ last'[p] = last[p]
    <3>1. \A p \in Placed : p \in Parts /\ p < cur /\ p \in Nat
      BY <1>1, <2>1 DEF Placed
    <3> QED
      BY <1>4, <2>1, <2>9, <3>1
  <2>12. first'[cur] <= last'[cur] /\ (last'[cur] + 1) * SectorSize <= total
    <3>1. next + k - 1 + 1 = next + k /\ next <= next + k - 1
      BY <1>1, <2>3, <2>4
    <3> QED
      BY <2>6, <2>11, <3>1
  <2>13. \A p \in Placed' : first'[p] <= last'[p] /\ (last'[p] + 1) * SectorSize <= total
    BY <1>3, <2>10, <2>11, <2>12
  <2>14. InsideDisk'
    BY <1>1, <2>13 DEF InsideDisk
  <2>15. (next * SectorSize <= Total(0 .. cur - 1))'
    <3>1. cur' - 1 = cur
      BY <2>1, <2>9
    <3>2. Total(0 .. cur - 1)' = before + size[cur]
      BY <1>1, <2>2, <3>1 DEF Total
    <3> QED
      BY <2>5, <2>9, <3>2
  <2> QED
    BY <1>1, <1>2, <2>14, <2>15
<1>5. CASE ~(cur \in Parts /\ size[cur] # 0)
  <2>1. UNCHANGED <<first, last, next>>
    BY <1>5 DEF Place
  <2>2. CASE cur \in Parts
    <3>1. cur' = cur + 1 /\ pc' = pc /\ size[cur] = 0
      BY <1>5, <2>2 DEF Place
    <3>2. cur \in Nat /\ \A p \in Parts : p \in Nat
      BY <2>2, ConstantsAreNumbers DEF Parts
    <3>3. Placed' = Placed
      BY <1>1, <3>1, <3>2 DEF Placed
    <3>4. Total(0 .. cur - 1)' = Total(0 .. cur - 1)
      <4>1. 0 .. cur - 1 \in SUBSET Parts
        BY <2>2, ConstantsAreNumbers DEF Parts
      <4>2. Sum4(size, 0 .. cur - 1) \in Nat
        BY <4>1, SumIsNat
      <4>3. Sum4(size, 0 .. cur) = Sum4(size, 0 .. cur - 1) + size[cur]
        BY <2>2, SumOfNext
      <4>4. cur' - 1 = cur
        BY <3>1, <3>2
      <4> QED
        BY <1>1, <3>1, <4>2, <4>3, <4>4 DEF Total
    <3> QED
      BY <1>1, <1>2, <1>3, <2>1, <3>3, <3>4 DEF InsideDisk
  <2>3. CASE cur \notin Parts
    <3>1. pc' = "begin" /\ cur = NPart
      BY <2>3, ConstantsAreNumbers DEF Place, Parts
    <3>2. \A p \in Parts : p < cur
      BY <3>1, ConstantsAreNumbers DEF Parts
    <3>3. Placed' = Placed
      BY <1>1, <3>1, <3>2 DEF Placed
    <3> QED
      BY <1>1, <1>2, <1>3, <2>1, <3>1, <3>3 DEF InsideDisk
  <2> QED
    BY <2>2, <2>3
<1> QED
  BY <1>4, <1>5

\* Every step keeps the layout inside the disk.
LEMMA InsideSteps == InsideInv /\ [Next]_vars => InsideInv'
<1> SUFFICES ASSUME InsideInv, [Next]_vars PROVE InsideInv'
  OBVIOUS
<1>1. TypeInv' /\ TypeInv
  BY NextTypes DEF InsideInv
<1>2. UNCHANGED args
  BY DEF Next, vars, Default, Share, Fit, Place, Begin, ZeroChunk, ZeroEnd, Entry,
     WriteLoader, MakeBoot, ZeroRoot, GrowFat, MarkFat, WriteBoot, WriteTable, Close,
     Summary, Die
<1>3. UNCHANGED <<ask, total>> /\ (Fits' <=> Fits)
  BY <1>2 DEF args, Fits
<1> SUFFICES ASSUME Fits, total < Word
             PROVE  /\ pc' \in {"default", "share", "fit"} => next' = 0
                    /\ (pc = "default" => Asked)'
                    /\ (pc = "share" => Shareable)'
                    /\ (pc = "fit" => Fittable)'
                    /\ (IsLaidOut => Fitting /\ InsideDisk)'
                    /\ (pc = "place" => next * SectorSize <= Total(0 .. cur - 1))'
  BY <1>1, <1>3 DEF InsideInv
<1> USE DEF InsideInv
<1>4. CASE pc \notin Placing
  <2>1. pc' \notin Placing /\ UNCHANGED <<size, first, last, next>>
    BY <1>1, <1>4, LayoutStays
  <2>2. Placed' = Placed
    BY <1>4, <2>1 DEF Placed, Placing
  <2>3. IsLaidOut
    BY <1>4 DEF IsLaidOut, Placing
  <2>4. Fitting' /\ InsideDisk'
    BY <1>3, <2>1, <2>2, <2>3 DEF Fitting, WholeSectors, Total, InsideDisk
  <2> QED
    BY <2>1, <2>4 DEF Placing
<1>5. CASE Default
  <2>1. pc = "default" /\ pc' = "share" /\ next' = next
    BY <1>5 DEF Default
  <2>2. Shareable'
    BY <1>1, <1>5, <2>1, DefaultInside
  <2> QED
    BY <2>1, <2>2 DEF IsLaidOut
<1>6. CASE Share
  <2>1. pc = "share" /\ pc' = "fit" /\ next' = next
    BY <1>6 DEF Share
  <2>2. Fittable'
    BY <1>1, <1>6, <2>1, ShareInside
  <2> QED
    BY <2>1, <2>2 DEF IsLaidOut
<1>7. CASE Fit
  <2>1. pc = "fit"
    BY <1>7 DEF Fit
  <2> QED
    BY <1>1, <1>7, <2>1, FitInside
<1>8. CASE Place
  <2>1. pc = "place" /\ IsLaidOut
    BY <1>8 DEF Place, IsLaidOut
  <2>2. /\ Fitting' /\ InsideDisk' /\ pc' \in {"place", "begin"}
        /\ (pc = "place" => next * SectorSize <= Total(0 .. cur - 1))'
    BY <1>1, <1>8, <2>1, PlaceInside
  <2> QED
    BY <2>2
<1>9. CASE UNCHANGED vars
  <2>1. UNCHANGED <<ask, total, used, size, first, last, next, pc, cur>>
    BY <1>9 DEF vars, args, layout
  <2> QED
    BY <1>3, <2>1 DEF Asked, Shareable, Fittable, Fitting, WholeSectors, Shrinkable, Total,
       Count, Unsized, InsideDisk, IsLaidOut, Placed
<1>10. CASE pc \in Placing /\ Next /\ ~(Default \/ Share \/ Fit \/ Place)
  BY <1>10 DEF Placing, Next, Begin, ZeroChunk, ZeroEnd, Entry, WriteLoader, MakeBoot,
     ZeroRoot, GrowFat, MarkFat, WriteBoot, WriteTable, Close, Summary
<1> QED
  BY <1>4, <1>5, <1>6, <1>7, <1>8, <1>9, <1>10

\* If what is asked for can be had, every partition has a sector at least, and
\* none reaches past the end of the disk, also if partition 0 has had to give
\* up sectors (main.c:544-633).
THEOREM PartitionsInside == Spec => []InsideDisk
<1>1. Init => InsideInv
  <2> SUFFICES ASSUME Init PROVE InsideInv
    OBVIOUS
  <2>1. pc = "default" /\ Asked /\ next = 0 /\ ~IsLaidOut
    BY DEF Init, Asked, IsLaidOut
  <2> QED
    BY <2>1, InitTypes DEF InsideInv
<1>2. InsideInv /\ [Next]_vars => InsideInv'
  BY InsideSteps
<1>3. InsideInv => InsideDisk
  BY DEF InsideInv, InsideDisk
<1> QED
  BY <1>1, <1>2, <1>3, PTL DEF Spec
-----------------------------------------------------------------------------
(* A partition is zeroed.                                                  *)

\* The first n sectors of the volume are blank.
Blank(n) == \A s \in Span(disk.offset, n) : s \in DOMAIN img /\ img[s] = Zero

\* The sectors that have to be blank when the entry is made.
ZeroDue ==
  LET all == disk.last - disk.first
  IN  IF ask[cur].zero \/ all < Chunk THEN all ELSE Chunk

\* Either what is due is done, and the loop goes on, or nothing has been written,
\* or everything before zap.sector has.
Zeroing ==
  /\ disk.offset \in Nat /\ disk.first \in Nat /\ disk.last \in Nat
  /\ disk.first <= disk.last /\ disk.last * SectorSize < Word
  /\ \/ Blank(ZeroDue)
     \/ zap.sector = disk.first /\ zap.chunk = Chunk /\ ~zap.jumped
     \/ /\ ask[cur].zero /\ zap.sector \in disk.first .. disk.last
        /\ zap.chunk \in Nat \ {0}
        /\ Blank(zap.sector - disk.first)

CoverInv ==
  /\ InsideInv
  /\ pad \in Nat
  /\ Sane => /\ pc = "zero" => Zeroing
             /\ pc = "entry" => Blank(ZeroDue)

\* A sector of the disk is found where its number says.
LEMMA FarIsNear ==
  ASSUME NEW n \in Nat, n * SectorSize < Word
  PROVE  Far(n) = n /\ U32(n) = n /\ n < Word
<1>1. n <= n * SectorSize /\ n * SectorSize \in Nat
  BY Scaled, ConstantsAreNumbers
<1>2. n < Word
  BY <1>1, ConstantsAreNumbers
<1>3. U32(n) = n /\ U32(n * SectorSize) = n * SectorSize
  BY <1>1, <1>2, U32IsSmall
<1>4. (n * SectorSize) \div SectorSize = n
  <2> DEFINE m == n * SectorSize
             q == m \div SectorSize
  <2>1. q \in Nat /\ q * SectorSize <= m /\ m < q * SectorSize + SectorSize
    BY <1>1, Quotient, ConstantsAreNumbers
  <2>2. (q + 1) * SectorSize = q * SectorSize + SectorSize
    BY <2>1, Scaled, ConstantsAreNumbers
  <2>3. q <= n
    <3> HIDE DEF q
    <3> QED
      BY <2>1, Scaled, ConstantsAreNumbers
  <2>4. ~(q + 1 <= n)
    <3> HIDE DEF q
    <3>1. ASSUME q + 1 <= n PROVE (q + 1) * SectorSize <= n * SectorSize
      <4>1. n = (q + 1) + (n - (q + 1)) /\ n - (q + 1) \in Nat /\ q + 1 \in Nat
        BY <2>1, <3>1
      <4>2. n * SectorSize = (q + 1) * SectorSize + (n - (q + 1)) * SectorSize
        BY <4>1, Scaled, ConstantsAreNumbers
      <4>3. (n - (q + 1)) * SectorSize \in Nat /\ (q + 1) * SectorSize \in Nat
        BY <4>1, Scaled, ConstantsAreNumbers
      <4> QED
        BY <4>2, <4>3
    <3>2. q * SectorSize \in Nat
      BY <2>1, Scaled, ConstantsAreNumbers
    <3> QED
      BY <1>1, <2>1, <2>2, <3>1, <3>2, ConstantsAreNumbers
  <2> QED
    BY <2>1, <2>3, <2>4
<1> QED
  BY <1>2, <1>3, <1>4 DEF Far

\* The disk is small enough for its sectors to be counted in bytes.
LEMMA SaneIsSmall ==
  ASSUME total \in Nat, Sane
  PROVE  total < Word /\ Fits
<1>1. RootZero \in Nat \ {0}
  BY FormatAssumption
<1>2. SectorSize * RootZero \in Nat \ {0}
  BY <1>1, ConstantsAreNumbers
<1>3. total + SectorSize * RootZero <= Word
  BY DEF Sane, InReach
<1> QED
  BY <1>2, <1>3, ConstantsAreNumbers DEF Sane

\* The zeroing of a partition starts within the disk.
LEMMA BeginZeroes ==
  ASSUME CoverInv, Sane, Begin, pc' = "zero"
  PROVE  /\ Zeroing'
         /\ disk'.first = first[cur] /\ disk'.mbr = Mbr(cur)
         /\ disk'.offset = first[cur] + Mbr(cur)
         /\ disk'.last \in first[cur] .. last[cur]
<1>1. /\ cur \in Parts /\ size[cur] # 0 /\ pc = "begin" /\ cur' = cur
      /\ zap' = [sector |-> first[cur], chunk |-> Chunk, jumped |-> FALSE]
      /\ disk'.offset = Mbr(cur) + Far(first[cur]) /\ disk'.first = first[cur]
      /\ disk'.mbr = Mbr(cur)
      /\ disk'.last = IF U32(last[cur] - first[cur]) > Slack THEN U32(last[cur] - Slack)
                      ELSE last[cur]
  BY DEF Begin, NoDisk
<1>2. InsideInv /\ TypeOK /\ total < Word /\ Fits /\ pad \in Nat
  BY SaneIsSmall DEF CoverInv, InsideInv, TypeInv, TypeOK
<1>3. cur \in Placed /\ InsideDisk /\ IsLaidOut
  BY <1>1, <1>2 DEF InsideInv, Placed, IsLaidOut
<1>4. first[cur] <= last[cur] /\ (last[cur] + 1) * SectorSize <= total
  BY <1>2, <1>3 DEF InsideDisk
<1>5. /\ first[cur] \in Nat /\ last[cur] \in Nat /\ total \in Nat /\ Slack \in Nat
      /\ last[cur] < Word /\ first[cur] < Word
  BY <1>1, <1>2, FormatAssumption, ConstantsAreNumbers DEF TypeOK
<1>6. PICK f \in Nat, l \in Nat : f = first[cur] /\ l = last[cur]
  BY <1>5
<1>6a. f <= l /\ l < Word /\ Word \in Nat
  BY <1>4, <1>5, <1>6, ConstantsAreNumbers
<1>7. (l + 1) * SectorSize = l * SectorSize + SectorSize /\ l * SectorSize \in Nat
  BY Scaled, ConstantsAreNumbers
<1>8. l * SectorSize < Word
  BY <1>2, <1>4, <1>5, <1>6, <1>7, ConstantsAreNumbers
<1>9. U32(l - f) = l - f
  <2>1. l - f \in Nat /\ l - f < Word
    BY <1>6a
  <2> QED
    BY <2>1, U32IsSmall
<1>10. PICK e \in Nat : e = disk'.last /\ f <= e /\ e <= l
  <2>1. CASE l - f > Slack
    <3>1. l - Slack \in Nat /\ l - Slack < Word /\ f <= l - Slack /\ l - Slack <= l
      BY <1>5, <1>6a, <2>1
    <3>2. disk'.last = l - Slack
      BY <1>1, <1>6, <1>9, <2>1, <3>1, U32IsSmall
    <3> QED
      BY <3>1, <3>2
  <2>2. CASE ~(l - f > Slack)
    <3>1. disk'.last = l /\ f <= l
      BY <1>1, <1>4, <1>6, <1>9, <2>2
    <3> QED
      BY <3>1
  <2> QED
    BY <2>1, <2>2
<1>11. e * SectorSize < Word /\ f * SectorSize < Word
  <2>1. l - e \in Nat /\ l = e + (l - e) /\ e - f \in Nat /\ e = f + (e - f)
    BY <1>10
  <2>2. /\ l * SectorSize = e * SectorSize + (l - e) * SectorSize
        /\ e * SectorSize = f * SectorSize + (e - f) * SectorSize
        /\ (l - e) * SectorSize \in Nat /\ (e - f) * SectorSize \in Nat
        /\ e * SectorSize \in Nat /\ f * SectorSize \in Nat
    BY <2>1, Scaled, ConstantsAreNumbers
  <2> QED
    BY <1>8, <2>2, ConstantsAreNumbers
<1>12. Far(f) = f
  BY <1>11, FarIsNear
<1>13. Mbr(cur) \in Nat
  <2>1. ask[cur].loader \in Nat /\ MinLoader \in Nat
    BY <1>1, <1>2, FormatAssumption DEF TypeOK, Ask
  <2> QED
    BY <1>2, <2>1 DEF Mbr, LoaderSectors
<1>14. disk'.offset \in Nat /\ disk'.offset = f + Mbr(cur) /\ disk'.first = f
  BY <1>1, <1>6, <1>12, <1>13
<1>15. Zeroing'
  BY <1>1, <1>6, <1>10, <1>11, <1>14 DEF Zeroing
<1>16. disk'.last \in first[cur] .. last[cur]
  BY <1>6, <1>10
<1> QED
  BY <1>1, <1>6, <1>14, <1>15, <1>16

\* What is blank stays blank while zeroes are written, and what is written is.
LEMMA ZeroesStay ==
  ASSUME NEW S, Write(S, Zero), disk' = disk, NEW n, Blank(n)
  PROVE  Blank(n)'
BY DEF Write, Blank, Span

\* A sector that has been zeroed holds zeroes.
LEMMA ZeroesWritten ==
  ASSUME NEW S, Write(S, Zero)
  PROVE  \A s \in S : s \in DOMAIN img' /\ img'[s] = Zero
BY DEF Write

\* One turn of the loop.
LEMMA ZeroChunkCovers ==
  ASSUME CoverInv, Sane, ZeroChunk
  PROVE  Zeroing' /\ (pc' = "entry" => Blank(ZeroDue)')
<1>1. /\ pc = "zero" /\ ~ZeroDone /\ Zeroing
      /\ UNCHANGED <<cur, disk, ask>> /\ pc' \in {"zero", "entry"}
      /\ Write(Zeroed, Zero)
  BY DEF ZeroChunk, CoverInv, args
<1>2. ZeroDue' = ZeroDue
  BY <1>1 DEF ZeroDue
<1>3. /\ disk.offset \in Nat /\ disk.first \in Nat /\ disk.last \in Nat
      /\ disk.first <= disk.last /\ disk.last * SectorSize < Word
  BY <1>1 DEF Zeroing
<1>4. ASSUME Blank(ZeroDue) PROVE Zeroing' /\ (pc' = "entry" => Blank(ZeroDue)')
  <2>1. PICK n : n = ZeroDue
    OBVIOUS
  <2>2. Blank(n)'
    BY <1>1, <1>4, <2>1, ZeroesStay
  <2>3. Blank(ZeroDue)'
    BY <1>2, <2>1, <2>2
  <2> QED
    BY <1>1, <1>3, <2>3 DEF Zeroing
<1>5. CASE ~Blank(ZeroDue)
  <2>1. /\ zap.sector \in disk.first .. disk.last
        /\ \/ zap.sector = disk.first /\ zap.chunk = Chunk /\ ~zap.jumped
           \/ ask[cur].zero
        /\ zap.chunk \in Nat \ {0}
        /\ Blank(zap.sector - disk.first)
    <3>1. Chunk \in Nat \ {0}
      BY FormatAssumption
    <3>2. CASE zap.sector = disk.first /\ zap.chunk = Chunk /\ ~zap.jumped
      <4>1. zap.sector - disk.first = 0 /\ Span(disk.offset, 0) = {}
        BY <1>3, <3>2 DEF Span
      <4> QED
        BY <1>3, <3>1, <3>2, <4>1 DEF Blank
    <3>3. CASE ask[cur].zero /\ zap.sector \in disk.first .. disk.last
               /\ zap.chunk \in Nat \ {0} /\ Blank(zap.sector - disk.first)
      BY <3>3
    <3> QED
      BY <1>1, <1>5, <3>2, <3>3 DEF Zeroing
  <2>2. PICK o \in Nat, f \in Nat, l \in Nat, z \in Nat, k \in Nat \ {0} :
          /\ o = disk.offset /\ f = disk.first /\ l = disk.last
          /\ z = zap.sector /\ k = zap.chunk
    <3>1. zap.sector \in Nat
      BY <1>3, <2>1
    <3> QED
      BY <1>3, <2>1, <3>1
  <2>3. f <= z /\ z <= l /\ l * SectorSize < Word
    BY <1>3, <2>1, <2>2
  <2>4. l < Word /\ Word \in Nat
    BY <2>3, FarIsNear, ConstantsAreNumbers
  <2>5. U32(l - z) = l - z /\ l - z \in Nat
    <3>1. l - z \in Nat /\ l - z < Word
      BY <2>3, <2>4
    <3> QED
      BY <3>1, U32IsSmall
  <2>6. PICK n \in Nat \ {0} :
          /\ n = ChunkNow /\ (n = l - z \/ n = k)
          /\ U32(z + k) > l => n = l - z
          /\ ~(U32(z + k) > l) => n = k
    <3>1. ChunkNow = IF U32(z + k) > l THEN l - z ELSE k
      BY <2>2, <2>5 DEF ChunkNow
    <3>2. ChunkNow # 0
      BY <1>1 DEF ZeroDone
    <3> QED
      BY <2>5, <3>1, <3>2
  <2>7. Zeroed = Span(o + (z - f), n)
    <3>1. z - f \in Nat /\ (z - f) * SectorSize < Word
      <4>1. z - f \in Nat /\ l = (z - f) + (l - z + f) /\ l - z + f \in Nat
        BY <2>3
      <4>2. /\ l * SectorSize = (z - f) * SectorSize + (l - z + f) * SectorSize
            /\ (z - f) * SectorSize \in Nat /\ (l - z + f) * SectorSize \in Nat
        BY <4>1, Scaled, ConstantsAreNumbers
      <4> QED
        BY <2>3, <2>4, <4>1, <4>2
    <3>2. Far(z - f) = z - f
      BY <3>1, FarIsNear
    <3> QED
      BY <2>2, <2>6, <3>2 DEF Zeroed
  <2>8. Blank(z - f + n)'
    <3>1. Blank(z - f)'
      BY <1>1, <2>1, <2>2, ZeroesStay
    <3>2. \A s \in Span(o, z - f + n) : s \in Span(o, z - f) \/ s \in Span(o + (z - f), n)
      BY <2>3 DEF Span
    <3>3. \A s \in Span(o + (z - f), n) : s \in DOMAIN img' /\ img'[s] = Zero
      BY <1>1, <2>7, ZeroesWritten
    <3> QED
      BY <1>1, <2>2, <3>1, <3>2, <3>3 DEF Blank
  <2>9. \A m \in Int : m <= z - f + n => Blank(m)'
    <3> TAKE m \in Int
    <3> HAVE m <= z - f + n
    <3>1. \A s \in Span(o, m) : s \in Span(o, z - f + n)
      BY <2>3 DEF Span
    <3> QED
      BY <1>1, <2>2, <2>8, <3>1 DEF Blank
  <2>10. PICK c \in Nat \ {0} : c = Chunk
    BY FormatAssumption
  <2>11. ZeroDue = IF ask[cur].zero \/ l - f < c THEN l - f ELSE c
    BY <2>2, <2>10 DEF ZeroDue
  \* A chunk that passes the end of 32 bits is as long as the partition.
  <2>12. \/ n = l - z \/ n >= l - z
         \/ n = k /\ z + n <= l
    <3>1. CASE z + k < Word
      <4>1. U32(z + k) = z + k
        BY <3>1, U32IsSmall
      <4> QED
        BY <2>6, <4>1
    <3>2. CASE z + k >= Word
      BY <2>3, <2>4, <2>6, <3>2
    <3> QED
      BY <2>4, <3>1, <3>2
  <2>13. CASE n >= l - z
    <3>1. Blank(l - f)'
      BY <2>3, <2>9, <2>13
    <3>2. ZeroDue \in Int /\ ZeroDue <= z - f + n
      <4>1. CASE ask[cur].zero \/ l - f < c
        BY <2>3, <2>11, <2>13, <4>1
      <4>2. CASE ~(ask[cur].zero \/ l - f < c)
        <5>1. k = c /\ z = f /\ c <= l - f
          BY <2>1, <2>2, <2>3, <2>10, <4>2
        <5>2. n = l - z \/ n = c
          BY <2>6, <5>1
        <5> QED
          BY <2>3, <2>11, <4>2, <5>1, <5>2
      <4> QED
        BY <4>1, <4>2
    <3>3. PICK m \in Int : m = ZeroDue /\ m <= z - f + n
      BY <3>2
    <3>4. Blank(ZeroDue)'
      BY <1>2, <2>9, <3>3
    <3> QED
      BY <1>1, <1>3, <3>4 DEF Zeroing
  <2>14. CASE n < l - z
    <3>1. n = k /\ z + n <= l
      BY <2>3, <2>12, <2>14
    <3>2. CASE ask[cur].zero
      <4>1. ~MayJump /\ ~MustStop
        BY <3>2 DEF MayJump, MustStop
      <4>2. U32(z + n) = z + n
        BY <2>3, <2>4, <3>1, U32IsSmall
      <4>3. pc' = "zero" /\ zap'.chunk = n /\ zap'.sector = z + n
        BY <1>1, <2>2, <2>6, <4>1, <4>2 DEF ZeroChunk
      <4>4. z + n \in f .. l /\ z + n - f = z - f + n
        BY <2>3, <3>1
      <4>5. Blank(z + n - f)'
        BY <2>8, <4>4
      <4>6. Blank(zap.sector - disk.first)'
        BY <1>1, <2>2, <4>3, <4>5
      <4> QED
        BY <1>1, <1>3, <2>2, <3>2, <4>3, <4>4, <4>6 DEF Zeroing
    <3>3. CASE ~ask[cur].zero
      <4>1. z = f /\ k = c
        BY <2>1, <2>2, <2>10, <3>3
      <4>2. ZeroDue = c /\ c <= z - f + n
        BY <2>3, <2>11, <3>1, <3>3, <4>1
      <4>3. Blank(c)'
        BY <2>9, <4>2
      <4>4. Blank(ZeroDue)'
        BY <1>2, <4>2, <4>3
      <4> QED
        BY <1>1, <1>3, <4>4 DEF Zeroing
    <3> QED
      BY <3>2, <3>3
  <2> QED
    BY <2>3, <2>13, <2>14
<1> QED
  BY <1>4, <1>5

\* When the loop ends, all that is due has been zeroed.
LEMMA ZeroEndCovers ==
  ASSUME CoverInv, Sane, ZeroEnd
  PROVE  Blank(ZeroDue)'
<1>1. /\ pc = "zero" /\ ZeroDone /\ Zeroing /\ UNCHANGED <<cur, disk, ask, img>>
  BY DEF ZeroEnd, CoverInv, args
<1>2. Blank(ZeroDue)
  <2>1. /\ disk.first \in Nat /\ disk.last \in Nat
        /\ disk.first <= disk.last /\ disk.last * SectorSize < Word
    BY <1>1 DEF Zeroing
  <2>2. PICK f \in Nat, l \in Nat : f = disk.first /\ l = disk.last
    BY <2>1
  <2>3. f <= l /\ l < Word /\ l * SectorSize < Word /\ Word \in Nat
    BY <2>1, <2>2, FarIsNear, ConstantsAreNumbers
  <2>4. PICK c \in Nat \ {0} : c = Chunk
    BY FormatAssumption
  <2>5. ASSUME NEW z \in f .. l, z = zap.sector, NEW k \in Nat \ {0}, k = zap.chunk
        PROVE  z = l
    <3>1. l - z \in Nat /\ l - z < Word
      BY <2>3
    <3>2. U32(l - z) = l - z
      BY <3>1, U32IsSmall
    <3>3. ChunkNow = 0
      BY <1>1, <2>2, <2>5 DEF ZeroDone
    <3> QED
      BY <2>2, <2>5, <3>1, <3>2, <3>3 DEF ChunkNow
  <2>6. CASE zap.sector = disk.first /\ zap.chunk = Chunk /\ ~zap.jumped
    <3>1. f = l
      BY <2>2, <2>3, <2>4, <2>5, <2>6
    <3>2. ZeroDue = 0
      BY <2>2, <2>4, <3>1 DEF ZeroDue
    <3>3. Span(disk.offset, 0) = {}
      BY <1>1 DEF Span, Zeroing
    <3> QED
      BY <3>2, <3>3 DEF Blank
  <2>7. CASE ask[cur].zero /\ zap.sector \in disk.first .. disk.last
             /\ zap.chunk \in Nat \ {0} /\ Blank(zap.sector - disk.first)
    <3>1. zap.sector = l
      BY <2>2, <2>5, <2>7
    <3>2. ZeroDue = l - f
      BY <2>2, <2>7 DEF ZeroDue
    <3> QED
      BY <2>2, <2>7, <3>1, <3>2
  <2> QED
    BY <1>1, <2>6, <2>7 DEF Zeroing
<1>3. ZeroDue' = ZeroDue
  BY <1>1 DEF ZeroDue
<1> QED
  BY <1>1, <1>2, <1>3 DEF Blank

\* Every step keeps what is known of the zeroed sectors.
LEMMA CoverSteps == CoverInv /\ [Next]_vars => CoverInv'
<1> SUFFICES ASSUME CoverInv, [Next]_vars PROVE CoverInv'
  OBVIOUS
<1>1. InsideInv' /\ TypeInv
  BY InsideSteps DEF CoverInv, InsideInv
<1>2. UNCHANGED args
  BY DEF Next, vars, Default, Share, Fit, Place, Begin, ZeroChunk, ZeroEnd, Entry,
     WriteLoader, MakeBoot, ZeroRoot, GrowFat, MarkFat, WriteBoot, WriteTable, Close,
     Summary, Die
<1>3. UNCHANGED <<ask, total, pad>> /\ pad' \in Nat
  BY <1>2 DEF args, CoverInv
<1>4. CASE pc' \notin {"zero", "entry"}
  BY <1>1, <1>3, <1>4 DEF CoverInv
<1>5. CASE Begin \/ ZeroChunk \/ ZeroEnd
  <2>1. pc \notin Placing
    BY <1>5 DEF Begin, ZeroChunk, ZeroEnd, Placing
  <2>2. UNCHANGED size
    BY <1>1, <2>1, LayoutStays
  <2>3. Sane' <=> Sane
    BY <1>3, <2>2 DEF Sane, Fits, Roomy, Mbr, Sectors, InReach
  <2>4. Begin => pc' \in {"begin", "zero"}
    BY DEF Begin
  <2>5. ZeroEnd => pc' = "entry"
    BY DEF ZeroEnd
  <2> QED
    BY <1>1, <1>3, <1>5, <2>3, <2>4, <2>5, BeginZeroes, ZeroChunkCovers, ZeroEndCovers
       DEF CoverInv
<1>6. CASE UNCHANGED vars
  BY <1>1, <1>6 DEF vars, args, layout, CoverInv, Sane, Fits, Roomy, Mbr, Sectors,
     InReach, Zeroing, Blank, ZeroDue
<1>7. CASE Next /\ ~(Begin \/ ZeroChunk \/ ZeroEnd)
  <2>1. pc' \notin {"zero", "entry"}
    BY <1>7 DEF Next, Default, Share, Fit, Place, Entry, WriteLoader, MakeBoot,
       ZeroRoot, GrowFat, MarkFat, WriteBoot, WriteTable, Close, Summary, Die
  <2> QED
    BY <1>4, <2>1
<1> QED
  BY <1>5, <1>6, <1>7

\* Nothing is due before the layout is made.
LEMMA InitCovers == Init => CoverInv
<1> SUFFICES ASSUME Init PROVE CoverInv
  OBVIOUS
<1>1. pc = "default" /\ Asked /\ next = 0 /\ ~IsLaidOut /\ pad \in Nat
  BY FormatAssumption DEF Init, Asked, IsLaidOut
<1>2. InsideInv
  BY <1>1, InitTypes DEF InsideInv
<1> QED
  BY <1>1, <1>2 DEF CoverInv

\* When a partition gets its entry in the table, everything that was to be
\* zeroed has been, whatever the lengths of the partition and of a chunk:
\* all of it but its last sector with zero, else the first chunk
\* (command.c:767-838).
THEOREM PartitionsZeroed == Spec => []ZeroCovers
<1>1. Init => CoverInv
  BY InitCovers
<1>2. CoverInv /\ [Next]_vars => CoverInv'
  BY CoverSteps
<1>3. CoverInv => ZeroCovers
  BY DEF CoverInv, ZeroCovers, Blank, ZeroDue
<1> QED
  BY <1>1, <1>2, <1>3, PTL DEF Spec
-----------------------------------------------------------------------------
(* A volume that has been formatted stays.                                 *)

\* A partition is as long as its size says.
Extents ==
  IsLaidOut => \A p \in Placed : last[p] = U32(first[p] + Sectors(p) - 1)

\* The sectors S belong to partition p and hold c.
Keeps(p, S, c) == \A s \in S : s \in 0 .. last[p] /\ s \in DOMAIN img /\ img[s] = c

\* The sectors of the root directory of an empty volume.
RootSize(b, os) == IF os = 32 THEN b.spc ELSE b.rootSectors

\* The volume m of partition p, of type os, is where its entry says, and whole.
Whole(p, m, os) ==
  /\ table[p] # Empty /\ table[p].os = os /\ Far(table[p].lba) = m.offset
  /\ m.boot.spc # 0 /\ Keeps(p, {m.offset}, BootRec(m.boot))
  /\ os # NotFat
       => /\ FatType(m.boot, os) = os
          /\ Keeps(p, FatSectors(m.offset, m.boot), FatOf(p, os))
          /\ TotalClusters(m.boot) > 0
               => Keeps(p, RootFrom(m.offset, m.boot, RootSize(m.boot, os)), Zero)

\* Partition p holds the volume that was made in it.
Kept(p) == p \in Parts /\ size[p] # 0 /\ Whole(p, made[p], ask[p].os)

\* The partition that is being formatted.
AtWork ==
  /\ size[cur] # 0
  /\ disk.first = first[cur] /\ disk.mbr = Mbr(cur)
  /\ disk.offset = first[cur] + Mbr(cur)
  /\ disk.last \in first[cur] .. last[cur]
  /\ pc = "zero" => zap.sector \in Nat /\ zap.chunk \in Nat

\* The steps at which the entry of the partition has been made.
Entered == {"loader", "record", "root", "grow", "mark", "boot", "table", "close"}

\* Its entry, beside those of the volumes before it.
EntryMade ==
  /\ DOMAIN disk.parts = Parts /\ disk.parts[cur] = NewEntry
  /\ \A p \in DOMAIN made : disk.parts[p] = table[p]
  /\ pc = "close" => table = disk.parts

\* The fields of a boot record.
BootFields == [spc : Nat \ {0}, reserved : Nat, fats : Nat, rootSectors : Nat, total : Nat,
               fat16 : Nat, fat32 : Nat]

\* The sectors per cluster that a volume of a type may have.
SpcsOf(os) == {Spc[os][k] : k \in 0 .. Cardinality(Steps[os])}

\* Its boot record, as long as nothing is said of the FAT.
BootMade(b) ==
  /\ b \in BootFields /\ b.reserved = Reserved /\ b.fats = 2
  /\ b.rootSectors = IF ask[cur].os \in {12, 16} THEN RootSectors ELSE 0
  /\ b.total = U32(SectorCount - disk.mbr)
  /\ b.spc \in SpcsOf(ask[cur].os)

\* The sectors of a FAT for as many clusters as the partition has room for.
FirstFat(b) == FatBytes(ask[cur].os, SectorCount \div b.spc) \div SectorSize

\* The partition has room for the two FATs and the root directory.
HasRoom(b) == disk.mbr <= SectorCount /\ SectorRootDir(b) + b.rootSectors <= b.total

\* The FAT only grows by a sector, if there is room for it at all.
FatMade(b) ==
  LET F == FatSizeSectors(b) IN
  /\ F \in Nat \ {0} /\ F * SectorSize <= Word
  /\ ask[cur].os = 32 => b.fat16 = 0
  /\ FirstFat(b) \in 1 .. F
  /\ HasRoom(b) => F <= FirstFat(b) + 1
  /\ pc = "root" => F = FirstFat(b)
  /\ pc \in {"boot", "table", "close"} => HasRoom(b)

\* What has been zeroed behind the first FATs.
RootMade(b) ==
  \A k \in 0 .. RootZero - 1 :
    LET s == disk.offset + Far(Reserved + 2 * FirstFat(b) + k)
    IN  s \in DOMAIN img /\ img[s] = Zero

\* The volume being made, in memory and on the disk.
VolumeMade ==
  LET b == disk.boot.of
  IN  /\ disk.boot = BootRec(b) /\ BootMade(b)
      /\ ask[cur].os = NotFat => pc \in {"boot", "table", "close"}
      /\ ask[cur].os # NotFat
           => /\ FatMade(b)
              /\ pc # "root" => RootMade(b)
      /\ pc \in {"table", "close"} => disk.offset \in DOMAIN img /\ img[disk.offset] = BootRec(b)

\* What is known on a disk whose offsets do not wrap.
Keeping ==
  /\ DOMAIN table = Parts
  /\ \A p \in DOMAIN made : p < cur /\ Kept(p)
  /\ pc \notin BetweenPartitions => AtWork
  /\ pc \in Entered => EntryMade
  /\ pc \in Entered \ {"loader", "record"} => VolumeMade

\* The inductive invariant: the volumes that have been formatted are kept.
KeepInv ==
  /\ CoverInv /\ ApartInv /\ Extents
  /\ pc \in Placing => DOMAIN made = {} /\ table = NoTable
  /\ Sane => Keeping

\* Every step keeps partitions as long as their sizes say.
LEMMA ExtentsStay ==
  ASSUME TypeInv, [Next]_vars, Extents
  PROVE  Extents'
<1> USE DEF TypeInv, TypeOK
<1>1. CASE pc \notin Placing
  <2>1. pc' \notin Placing /\ UNCHANGED <<size, first, last>>
    BY <1>1, LayoutStays
  <2>2. Placed' = Placed /\ IsLaidOut
    BY <1>1, <2>1 DEF Placed, Placing, IsLaidOut
  <2> QED
    BY <2>1, <2>2 DEF Extents, Sectors
<1>2. CASE Place
  <2>1. /\ pc = "place" /\ IsLaidOut /\ size' = size /\ \A p \in Parts : p \in Nat
        /\ cur \in Nat /\ \A p \in Parts : Sectors(p)' = Sectors(p)
    BY <1>2, ConstantsAreNumbers DEF Place, IsLaidOut, Parts, Sectors
  <2>2. CASE cur \in Parts /\ size[cur] # 0
    <3>1. /\ pc' = "place" /\ cur' = cur + 1
          /\ first' = [first EXCEPT ![cur] = next]
          /\ last' = [last EXCEPT ![cur] = U32(next + Sectors(cur) - 1)]
      BY <1>2, <2>2 DEF Place
    <3> SUFFICES ASSUME NEW p \in Placed'
                 PROVE  last'[p] = U32(first'[p] + Sectors(p)' - 1)
      BY DEF Extents
    <3>2. p \in Parts /\ size[p] # 0 /\ p < cur + 1
      BY <2>1, <3>1 DEF Placed
    <3>3. CASE p = cur
      BY <2>1, <2>2, <3>1, <3>2, <3>3
    <3>4. CASE p # cur
      <4>1. p < cur /\ p \in Placed
        BY <2>1, <3>2, <3>4 DEF Placed
      <4>2. first'[p] = first[p] /\ last'[p] = last[p]
        BY <3>1, <3>2, <3>4
      <4> QED
        BY <2>1, <3>2, <4>1, <4>2 DEF Extents
    <3> QED
      BY <3>3, <3>4
  <2>3. CASE ~(cur \in Parts /\ size[cur] # 0)
    <3>1. UNCHANGED <<first, last>>
      BY <1>2, <2>3 DEF Place
    <3>2. Placed' \subseteq Placed
      <4>1. CASE cur \in Parts
        <5>1. cur' = cur + 1 /\ pc' = pc /\ size[cur] = 0
          BY <1>2, <2>3, <4>1 DEF Place
        <5> QED
          BY <2>1, <5>1 DEF Placed
      <4>2. CASE cur \notin Parts
        <5>1. cur = NPart /\ \A p \in Parts : p < cur
          BY <4>2, ConstantsAreNumbers DEF Parts
        <5> QED
          BY <2>1, <5>1 DEF Placed
      <4> QED
        BY <4>1, <4>2
    <3>3. \A p \in Placed : p \in Parts
      BY DEF Placed
    <3> QED
      BY <2>1, <3>1, <3>2, <3>3 DEF Extents
  <2> QED
    BY <2>2, <2>3
<1>3. CASE Default \/ Share
  BY <1>3 DEF Default, Share, Extents, IsLaidOut
<1>4. CASE Fit
  <2>1. pc' = "place" /\ cur' = 0
    BY <1>4 DEF Fit
  <2>2. Placed' = {}
    <3>1. \A p \in Parts : ~(p < 0)
      BY DEF Parts
    <3> QED
      BY <2>1, <3>1 DEF Placed
  <2> QED
    BY <2>2 DEF Extents
<1>5. CASE UNCHANGED vars
  <2>1. UNCHANGED <<size, first, last, pc, cur>>
    BY <1>5 DEF vars, args, layout
  <2> QED
    BY <2>1 DEF Extents, IsLaidOut, Placed, Sectors
<1>6. CASE pc \in Placing /\ Next /\ ~(Default \/ Share \/ Fit \/ Place)
  BY <1>6 DEF Placing, Next, Begin, ZeroChunk, ZeroEnd, Entry, WriteLoader, MakeBoot,
     ZeroRoot, GrowFat, MarkFat, WriteBoot, WriteTable, Close, Summary
<1> QED
  BY <1>1, <1>2, <1>3, <1>4, <1>5, <1>6

\* The sectors of a partition, and those of the ones before it.
LEMMA Extent ==
  ASSUME CoverInv, ApartInv, Extents, Sane, pc \notin Placing,
         NEW p \in Parts, size[p] # 0
  PROVE  /\ first[p] \in Nat /\ last[p] \in Nat /\ first[p] <= last[p]
         /\ last[p] = first[p] + Sectors(p) - 1
         /\ (last[p] + 1) * SectorSize <= total
         /\ Mbr(p) \in Nat /\ first[p] + Mbr(p) + 1 <= last[p]
         /\ \A q \in Parts : q < p /\ size[q] # 0 => last[q] < first[p]
<1>1. /\ InsideInv /\ TypeInv /\ TypeOK /\ total < Word /\ Fits /\ pad \in Nat
      /\ IsLaidOut /\ pc # "place" /\ Placed = {q \in Parts : size[q] # 0}
  BY SaneIsSmall DEF CoverInv, InsideInv, TypeInv, TypeOK, IsLaidOut, Placing, Placed
<1>2. ASSUME NEW q \in Parts, size[q] # 0
      PROVE  /\ first[q] \in Nat /\ last[q] \in Nat /\ first[q] <= last[q]
             /\ last[q] = first[q] + Sectors(q) - 1 /\ Sectors(q) \in Nat \ {0}
             /\ (last[q] + 1) * SectorSize <= total
             /\ first[q] + Sectors(q) < Word
  <2>1. first[q] <= last[q] /\ (last[q] + 1) * SectorSize <= total
    BY <1>1, <1>2 DEF InsideInv, InsideDisk
  <2>2. last[q] = U32(first[q] + Sectors(q) - 1)
    BY <1>1, <1>2 DEF Extents
  <2>3. PICK f \in 0 .. Word - 1, l \in 0 .. Word - 1, n \in 0 .. Word - 1 :
          f = first[q] /\ l = last[q] /\ n = Sectors(q)
    BY <1>1, LayoutIsNumbers DEF TypeOK
  <2>4. f <= l /\ (l + 1) * SectorSize <= total /\ l = U32(f + n - 1)
    BY <2>1, <2>2, <2>3
  <2>5. l + 1 < Word
    <3>1. l + 1 <= (l + 1) * SectorSize /\ (l + 1) * SectorSize \in Nat
      BY Scaled, ConstantsAreNumbers
    <3> QED
      BY <1>1, <2>4, <3>1, ConstantsAreNumbers DEF TypeOK
  <2>6. CASE f + n = 0
    <3>1. U32(f + n - 1) = Word - 1
      <4>1. f + n - 1 = -1 /\ (-1) % Word = Word - 1
        BY <2>6, ConstantsAreNumbers
      <4> QED
        BY <4>1 DEF U32
    <3> QED
      BY <2>4, <2>5, <3>1, ConstantsAreNumbers
  <2>7. CASE f + n - 1 \in 0 .. Word - 1
    <3>1. l = f + n - 1
      BY <2>4, <2>7, U32IsSmall, ConstantsAreNumbers
    <3> QED
      BY <2>3, <2>4, <2>5, <3>1, ConstantsAreNumbers
  <2>8. CASE f + n - 1 >= Word
    <3>1. U32(f + n - 1) = f + n - 1 - Word
      <4>1. f + n - 1 - Word \in 0 .. Word - 1
        BY <2>8, ConstantsAreNumbers
      <4> QED
        BY <4>1, <2>8, ConstantsAreNumbers DEF U32
    <3> QED
      BY <2>4, <3>1, ConstantsAreNumbers
  <2> QED
    BY <2>6, <2>7, <2>8, ConstantsAreNumbers
<1>3. Mbr(p) \in Nat /\ Mbr(p) + 2 <= Sectors(p)
  <2>1. ask[p].loader \in Nat /\ MinLoader \in Nat
    BY <1>1, FormatAssumption DEF TypeOK, Ask
  <2> QED
    BY <1>1, <2>1 DEF Mbr, LoaderSectors, Sane, Roomy
<1>4. first[p] + Mbr(p) + 1 <= last[p]
  BY <1>2, <1>3
<1>5. ASSUME NEW q \in Parts, q < p, size[q] # 0
      PROVE  last[q] < first[p]
  <2>1. \A r \in Placed : first[r] + Sectors(r) < Word
    BY <1>1, <1>2
  <2>2. Sectors(q) > 0
    BY <1>2, <1>5
  <2> QED
    BY <1>1, <1>5, <2>1, <2>2 DEF ApartInv, PartitionsApart
<1> QED
  BY <1>2, <1>3, <1>4, <1>5

\* What is written behind a partition leaves what it holds.
LEMMA KeptStays ==
  ASSUME NEW p \in DOMAIN made, Kept(p), UNCHANGED <<ask, size, last>>,
         made'[p] = made[p], table'[p] = table[p],
         \A s \in DOMAIN img : s \in 0 .. last[p] => s \in DOMAIN img' /\ img'[s] = img[s]
  PROVE  Kept(p)'
<1>1. PICK m, os : m = made[p] /\ os = ask[p].os
  OBVIOUS
<1>2. p \in Parts /\ size[p] # 0 /\ Whole(p, m, os)
  BY <1>1 DEF Kept
<1>3. \A S, c : Keeps(p, S, c) => Keeps(p, S, c)'
  BY DEF Keeps
<1>4. Whole(p, m, os)'
  <2>1. /\ table'[p] # Empty /\ table'[p].os = os /\ Far(table'[p].lba) = m.offset
        /\ m.boot.spc # 0 /\ Keeps(p, {m.offset}, BootRec(m.boot))'
    BY <1>2, <1>3 DEF Whole
  <2>2. ASSUME os # NotFat
        PROVE  /\ FatType(m.boot, os) = os
               /\ Keeps(p, FatSectors(m.offset, m.boot), FatOf(p, os))'
               /\ TotalClusters(m.boot) > 0
                    => Keeps(p, RootFrom(m.offset, m.boot, RootSize(m.boot, os)), Zero)'
    BY <1>2, <1>3, <2>2 DEF Whole
  <2> QED
    BY <2>1, <2>2 DEF Whole
<1> QED
  BY <1>1, <1>2, <1>4 DEF Kept

\* The numbers of the partition that is being formatted.
LEMMA WorkNumbers ==
  ASSUME KeepInv, Sane, pc \notin BetweenPartitions
  PROVE  /\ cur \in Parts /\ size[cur] # 0
         /\ first[cur] \in Nat /\ last[cur] \in Nat /\ Mbr(cur) \in Nat
         /\ disk.first = first[cur] /\ disk.mbr = Mbr(cur)
         /\ disk.offset = first[cur] + Mbr(cur)
         /\ disk.last \in first[cur] .. last[cur]
         /\ disk.offset + 1 <= last[cur]
         /\ (last[cur] + 1) * SectorSize <= total
         /\ total + SectorSize * RootZero <= Word
         /\ last[cur] + 1 < Word
         /\ SectorCount = disk.last - disk.first + 1
         /\ NewEntry = [os |-> ask[cur].os, lba |-> disk.offset,
                        count |-> U32(SectorCount - disk.mbr)]
         /\ \A p \in DOMAIN made : /\ p \in Parts /\ p # cur /\ last[p] \in Nat
                                   /\ last[p] < first[cur]
<1>1. cur \in Parts /\ AtWork /\ pc \notin Placing /\ total \in Nat
  BY DEF KeepInv, Keeping, CoverInv, InsideInv, TypeInv, TypeOK, BetweenPartitions
<1>2. /\ first[cur] \in Nat /\ last[cur] \in Nat /\ Mbr(cur) \in Nat
      /\ first[cur] + Mbr(cur) + 1 <= last[cur]
      /\ (last[cur] + 1) * SectorSize <= total
      /\ \A q \in Parts : q < cur /\ size[q] # 0 => last[q] < first[cur]
  BY <1>1, Extent DEF KeepInv, Keeping, AtWork
<1>3. total + SectorSize * RootZero <= Word
  BY DEF Sane, InReach
<1>4. last[cur] + 1 < Word
  <2>1. /\ last[cur] + 1 <= (last[cur] + 1) * SectorSize
        /\ (last[cur] + 1) * SectorSize \in Nat
    BY <1>2, Scaled, ConstantsAreNumbers
  <2>2. total < Word
    BY <1>1, SaneIsSmall
  <2> QED
    BY <1>1, <1>2, <2>1, <2>2, ConstantsAreNumbers
<1>5. PICK f \in Nat, l \in Nat, m \in Nat, e \in Nat :
        /\ f = first[cur] /\ l = last[cur] /\ m = Mbr(cur) /\ e = disk.last
        /\ f <= e /\ e <= l /\ f + m + 1 <= l /\ l + 1 < Word
  BY <1>1, <1>2, <1>4 DEF AtWork
<1>6. SectorCount = disk.last - disk.first + 1
  <2>1. e - f + 1 \in Nat /\ e - f + 1 < Word
    BY <1>5, ConstantsAreNumbers
  <2> QED
    BY <1>1, <1>5, <2>1, U32IsSmall DEF SectorCount, AtWork
<1>7. U32(disk.first + disk.mbr) = disk.offset
  <2>1. f + m \in Nat /\ f + m < Word
    BY <1>5, ConstantsAreNumbers
  <2> QED
    BY <1>1, <1>5, <2>1, U32IsSmall DEF AtWork
<1>8. ASSUME NEW p \in DOMAIN made
      PROVE  p \in Parts /\ p # cur /\ last[p] \in Nat /\ last[p] < first[cur]
  <2>1. p < cur /\ p \in Parts /\ size[p] # 0
    BY <1>8 DEF KeepInv, Keeping, Kept
  <2>2. last[p] \in Nat
    BY <1>1, <2>1, Extent DEF KeepInv
  <2>3. p \in Int /\ cur \in Int
    BY <1>1, <2>1, ConstantsAreNumbers DEF Parts
  <2> QED
    BY <1>2, <2>1, <2>2, <2>3
<1> QED
  BY <1>1, <1>2, <1>3, <1>4, <1>5, <1>6, <1>7, <1>8 DEF AtWork, NewEntry

\* A write to the partition being formatted leaves the volumes of the others.
LEMMA WriteSpares ==
  ASSUME KeepInv, Sane, pc \notin BetweenPartitions,
         NEW S, NEW c, Write(S, c), \A s \in S : s \in Nat /\ first[cur] <= s,
         UNCHANGED <<ask, size, last>>, NEW p \in DOMAIN made, made'[p] = made[p]
  PROVE  Kept(p)' /\ table' = table
<1>1. /\ last[p] \in Nat /\ first[cur] \in Nat /\ last[p] < first[cur]
      /\ p \in Parts
  BY WorkNumbers
<1>2. 0 \notin S
  BY <1>1
<1>3. table' = table
  BY <1>2 DEF Write
<1>4. \A s \in DOMAIN img : s \in 0 .. last[p] => s \in DOMAIN img' /\ img'[s] = img[s]
  <2>1. \A s \in S : s \notin 0 .. last[p]
    BY <1>1
  <2> QED
    BY <2>1 DEF Write
<1>5. Kept(p)
  BY DEF KeepInv, Keeping
<1> QED
  BY <1>3, <1>4, <1>5, KeptStays

\* What stays the same while a partition is formatted.
Frame == UNCHANGED <<ask, pad, total, size, first, last, made, cur>>

\* The partition being formatted stays where it is.
LEMMA WorkStays ==
  ASSUME AtWork, Frame, pc' # "zero", disk'.first = disk.first, disk'.mbr = disk.mbr,
         disk'.offset = disk.offset, disk'.last = disk.last
  PROVE  AtWork' /\ SectorCount' = SectorCount /\ NewEntry' = NewEntry
BY DEF AtWork, Frame, Mbr, SectorCount, NewEntry

\* Its entry stays when only sectors are written.
LEMMA EntryStays ==
  ASSUME EntryMade, AtWork, Frame, disk' = disk, pc # "close", pc' \notin {"close", "zero"},
         \A p \in DOMAIN made : table'[p] = table[p]
  PROVE  EntryMade'
<1>1. NewEntry' = NewEntry
  BY WorkStays
<1> QED
  BY <1>1 DEF EntryMade, Frame

\* The next partition starts behind the volumes that are kept.
LEMMA BeginKeeps ==
  ASSUME KeepInv, Sane, Begin
  PROVE  Keeping'
<1>1. /\ pc = "begin" /\ cur \in Parts
      /\ UNCHANGED <<ask, pad, total, used, size, first, last, next, img, table, made>>
  BY DEF Begin, args, layout
<1>2. \A p \in DOMAIN made : p < cur /\ Kept(p)'
  <2>1. \A p \in DOMAIN made : p < cur /\ Kept(p)
    BY DEF KeepInv, Keeping
  <2> QED
    BY <1>1, <2>1, KeptStays
<1>3. DOMAIN table' = Parts
  BY <1>1 DEF KeepInv, Keeping
<1>4. CASE size[cur] = 0
  <2>1. pc' = "begin" /\ cur' = cur + 1
    BY <1>1, <1>4 DEF Begin
  <2>2. \A p \in DOMAIN made : p < cur + 1
    <3>1. cur \in Int /\ \A p \in DOMAIN made : p \in Int
      BY <1>1, ConstantsAreNumbers DEF KeepInv, Keeping, Kept, Parts
    <3> QED
      BY <1>2, <3>1
  <2> QED
    BY <1>1, <1>2, <1>3, <2>1, <2>2 DEF Keeping, BetweenPartitions, Entered
<1>5. CASE size[cur] # 0
  <2>1. /\ pc' = "zero" /\ cur' = cur
        /\ zap' = [sector |-> first[cur], chunk |-> Chunk, jumped |-> FALSE]
    BY <1>1, <1>5 DEF Begin
  <2>2. first[cur] \in Nat /\ Chunk \in Nat
    BY <1>1, FormatAssumption, ConstantsAreNumbers
       DEF KeepInv, CoverInv, InsideInv, TypeInv, TypeOK
  <2>3. /\ disk'.first = first[cur] /\ disk'.mbr = Mbr(cur)
        /\ disk'.offset = first[cur] + Mbr(cur)
        /\ disk'.last \in first[cur] .. last[cur]
    BY <2>1, BeginZeroes DEF KeepInv
  <2>4. AtWork'
    BY <1>1, <1>5, <2>1, <2>2, <2>3 DEF AtWork, Mbr
  <2> QED
    BY <1>1, <1>2, <1>3, <2>1, <2>4 DEF Keeping, BetweenPartitions, Entered
<1> QED
  BY <1>4, <1>5

\* The zeroing never reaches the volumes before.
LEMMA ZeroKeeps ==
  ASSUME KeepInv, Sane, ZeroChunk \/ ZeroEnd
  PROVE  Keeping'
<1>1. /\ pc = "zero" /\ pc' \in {"zero", "entry"} /\ Frame /\ disk' = disk
  BY DEF ZeroChunk, ZeroEnd, Frame, args, layout
<1>2. pc \notin BetweenPartitions /\ AtWork
  BY <1>1 DEF BetweenPartitions, Placing, KeepInv, Keeping
<1>3. /\ disk.offset \in Nat /\ first[cur] <= disk.offset /\ first[cur] \in Nat
      /\ disk.first \in Nat /\ disk.last \in Nat
  BY <1>2, WorkNumbers
<1>4. /\ \A n \in Int : U32(n) \in Nat /\ Far(n) \in Nat
      /\ zap.sector \in Nat /\ zap.chunk \in Nat
  <2>1. \A n \in Int : U32(n) \in Nat
    BY U32IsSmall, ConstantsAreNumbers
  <2>2. \A n \in Int : Far(n) \in Nat
    <3> TAKE n \in Int
    <3>1. U32(n) * SectorSize \in Int
      BY <2>1, ConstantsAreNumbers
    <3> QED
      BY <2>1, <3>1, Quotient, ConstantsAreNumbers DEF Far
  <2> QED
    BY <1>1, <1>2, <2>1, <2>2 DEF AtWork
<1>5. CASE ZeroEnd
  <2>1. UNCHANGED <<img, table>> /\ pc' = "entry"
    BY <1>5 DEF ZeroEnd
  <2>2. \A p \in DOMAIN made : p < cur /\ Kept(p)
    BY DEF KeepInv, Keeping
  <2>3. \A p \in DOMAIN made' : p < cur' /\ Kept(p)'
    BY <1>1, <2>1, <2>2, KeptStays DEF Frame
  <2>4. AtWork'
    BY <1>1, <1>2, <2>1, WorkStays
  <2> QED
    BY <1>1, <2>1, <2>3, <2>4 DEF Keeping, KeepInv, BetweenPartitions, Entered
<1>6. CASE ZeroChunk
  <2>1. ChunkNow \in Nat
    BY <1>3, <1>4 DEF ChunkNow
  <2>2. Write(Zeroed, Zero)
    BY <1>6 DEF ZeroChunk
  <2>3. \A s \in Zeroed : s \in Nat /\ first[cur] <= s
    <3>1. Far(zap.sector - disk.first) \in Nat
      BY <1>3, <1>4
    <3> QED
      BY <1>3, <2>1, <3>1 DEF Zeroed, Span
  <2>4. \A p \in DOMAIN made' : p < cur' /\ Kept(p)'
    <3>1. \A p \in DOMAIN made : p < cur
      BY DEF KeepInv, Keeping
    <3> QED
      BY <1>1, <1>2, <2>2, <2>3, <3>1, WriteSpares DEF Frame
  <2>5. DOMAIN table' = Parts
    BY <2>2 DEF Write, NoTable, KeepInv, Keeping
  <2>6. AtWork'
    <3>1. pc' = "zero" => zap'.sector \in Nat /\ zap'.chunk \in Nat
      <4>1. /\ U32(disk.last - 1) \in Nat /\ U32(zap.sector + ChunkNow) \in Nat
        BY <1>3, <1>4, <2>1
      <4>2. CASE MustStop
        BY <1>6, <4>2 DEF ZeroChunk
      <4>3. CASE ~MustStop
        BY <1>6, <2>1, <4>1, <4>3 DEF ZeroChunk
      <4> QED
        BY <4>2, <4>3
    <3> QED
      BY <1>1, <1>2, <3>1 DEF AtWork, Frame, Mbr
  <2> QED
    BY <1>1, <2>4, <2>5, <2>6 DEF Keeping, BetweenPartitions, Entered
<1> QED
  BY <1>5, <1>6

\* The new entry leaves those of the volumes before as they were read.
LEMMA EntryKeeps ==
  ASSUME KeepInv, Sane, Entry
  PROVE  Keeping'
<1>1. /\ pc = "entry" /\ pc' = "loader" /\ Frame
      /\ disk' = [disk EXCEPT !.parts = NewTable] /\ UNCHANGED <<img, table>>
  BY DEF Entry, Frame, args, layout
<1>2. /\ pc \notin BetweenPartitions /\ AtWork /\ DOMAIN table = Parts
      /\ \A p \in DOMAIN made : p < cur /\ Kept(p)
  BY <1>1 DEF BetweenPartitions, Placing, KeepInv, Keeping
<1>3. cur \in Parts /\ \A p \in DOMAIN made : p \in Parts /\ p # cur
  BY <1>2, WorkNumbers
<1>4. \A p \in DOMAIN made' : p < cur' /\ Kept(p)'
  BY <1>1, <1>2, KeptStays DEF Frame
<1>5. AtWork' /\ NewEntry' = NewEntry
  BY <1>1, <1>2, WorkStays
<1>6. EntryMade'
  BY <1>1, <1>2, <1>3, <1>5 DEF EntryMade, NewTable, Frame
<1> QED
  BY <1>1, <1>2, <1>4, <1>5, <1>6 DEF Keeping, BetweenPartitions, Entered

\* A boot loader is written inside the partition.
LEMMA LoaderKeeps ==
  ASSUME KeepInv, Sane, WriteLoader
  PROVE  Keeping'
<1>1. /\ pc = "loader" /\ pc' = "record" /\ Frame /\ disk' = disk
  BY DEF WriteLoader, Frame, args, layout
<1>2. /\ pc \notin BetweenPartitions /\ AtWork /\ EntryMade /\ DOMAIN table = Parts
      /\ \A p \in DOMAIN made : p < cur /\ Kept(p)
  BY <1>1 DEF BetweenPartitions, Placing, KeepInv, Keeping, Entered
<1>3. PICK n : Write(Span(Far(disk.first), n), Loader(cur)) /\ n \in Nat
  <2>1. ask[cur].loader \in Nat
    BY <1>2, WorkNumbers DEF KeepInv, CoverInv, InsideInv, TypeInv, TypeOK, Ask
  <2> QED
    BY <2>1 DEF WriteLoader
<1>4. Far(disk.first) = first[cur] /\ first[cur] \in Nat
  <2>1. /\ first[cur] \in Nat /\ last[cur] \in Nat /\ first[cur] <= last[cur]
        /\ disk.first = first[cur] /\ (last[cur] + 1) * SectorSize <= total
        /\ total < Word /\ total \in Nat
    BY <1>2, WorkNumbers, SaneIsSmall DEF KeepInv, CoverInv, InsideInv, TypeInv, TypeOK
  <2>2. PICK f \in Nat, g \in Nat : f = first[cur] /\ last[cur] + 1 = f + g
    <3>1. last[cur] + 1 - first[cur] \in Nat
      BY <2>1
    <3>2. last[cur] + 1 = first[cur] + (last[cur] + 1 - first[cur])
      BY <2>1
    <3> QED
      BY <2>1, <3>1, <3>2
  <2>3. (f + g) * SectorSize = f * SectorSize + g * SectorSize
        /\ f * SectorSize \in Nat /\ g * SectorSize \in Nat
    BY Scaled, ConstantsAreNumbers
  <2>4. f * SectorSize < Word
    BY <2>1, <2>2, <2>3, ConstantsAreNumbers
  <2> QED
    BY <2>1, <2>2, <2>4, FarIsNear
<1>5. \A s \in Span(Far(disk.first), n) : s \in Nat /\ first[cur] <= s
  BY <1>3, <1>4 DEF Span
<1>6. \A p \in DOMAIN made : Kept(p)' /\ table' = table
  BY <1>1, <1>2, <1>3, <1>5, WriteSpares DEF Frame
<1>7. DOMAIN table' = Parts
  BY <1>2, <1>3 DEF Write, NoTable
<1>8. AtWork'
  BY <1>1, <1>2, WorkStays
<1>9. EntryMade'
  <2>1. \A p \in DOMAIN made : table'[p] = table[p]
    BY <1>6
  <2> QED
    BY <1>1, <1>2, <2>1, EntryStays
<1> QED
  BY <1>1, <1>2, <1>6, <1>7, <1>8, <1>9 DEF Keeping, BetweenPartitions, Entered, Frame
-----------------------------------------------------------------------------
(* The arithmetic of a volume.                                             *)

\* The sectors of a volume that belong to no cluster.
LEMMA VolumeNumbers ==
  /\ Reserved \in Nat \ {0} /\ RootSectors \in Nat \ {0} /\ RootZero \in Nat \ {0}
  /\ 16 <= SectorSize /\ 8 * (Reserved + RootSectors) <= Word
  /\ RootSectors + 2 <= RootZero
BY FormatAssumption, VolumeAssumption

\* The sizes of clusters.
LEMMA SpcNumbers ==
  ASSUME NEW os \in Types, NEW n \in SpcsOf(os)
  PROVE  /\ n \in Nat \ {0} /\ (Big \div Word) % n = 0
         /\ 64 * n <= Word /\ n + 2 <= RootZero
BY FormatAssumption, VolumeAssumption DEF SpcsOf

\* A product grows with its factor.
LEMMA Times ==
  ASSUME NEW a \in Nat, NEW b \in Nat, NEW c \in Nat, a <= b
  PROVE  a * c \in Nat /\ b * c \in Nat /\ a * c <= b * c
<1>1. PICK d \in Nat : b = a + d
  <2>1. b - a \in Nat /\ b = a + (b - a)
    OBVIOUS
  <2> QED
    BY <2>1
<1>2. (a + d) * c = a * c + d * c /\ a * c \in Nat /\ d * c \in Nat
  OBVIOUS
<1> QED
  BY <1>1, <1>2

\* A quotient is what it is.
LEMMA DivIs ==
  ASSUME NEW n \in Nat, NEW d \in Nat \ {0}, NEW q \in Nat, NEW r \in Nat,
         n = q * d + r, r < d
  PROVE  n \div d = q
<1>1. PICK k \in Nat : k = n \div d /\ k * d <= n /\ n < k * d + d
  BY Quotient
<1>2. ~(k + 1 <= q)
  <2> SUFFICES ASSUME k + 1 <= q PROVE FALSE
    OBVIOUS
  <2>1. (k + 1) * d <= q * d /\ (k + 1) * d = k * d + d /\ k * d \in Nat /\ q * d \in Nat
    BY Times, Scaled
  <2> QED
    BY <1>1, <2>1
<1>3. ~(q + 1 <= k)
  <2> SUFFICES ASSUME q + 1 <= k PROVE FALSE
    OBVIOUS
  <2>1. (q + 1) * d <= k * d /\ (q + 1) * d = q * d + d /\ k * d \in Nat /\ q * d \in Nat
    BY Times, Scaled
  <2> QED
    BY <1>1, <2>1
<1>4. k = q
  BY <1>2, <1>3
<1> QED
  BY <1>1, <1>4

\* A quotient grows with what is divided.
LEMMA DivGrows ==
  ASSUME NEW a \in Nat, NEW b \in Nat, NEW d \in Nat \ {0}, a <= b
  PROVE  a \div d <= b \div d /\ a \div d \in Nat /\ b \div d \in Nat /\ a \div d <= a
<1>1. PICK i \in Nat : i = a \div d /\ i * d <= a
  BY Quotient
<1>2. PICK j \in Nat : j = b \div d /\ b < j * d + d
  BY Quotient
<1>3. ~(j + 1 <= i)
  <2> SUFFICES ASSUME j + 1 <= i PROVE FALSE
    OBVIOUS
  <2>1. (j + 1) * d <= i * d /\ (j + 1) * d = j * d + d /\ i * d \in Nat /\ j * d \in Nat
    BY Times, Scaled
  <2> QED
    BY <1>1, <1>2, <2>1
<1>4. i <= i * d /\ i * d \in Nat
  BY Scaled
<1> QED
  BY <1>1, <1>2, <1>3, <1>4

\* The bytes of a FAT do not wrap for as many clusters as a disk has.
LEMMA FatBytesNumbers ==
  ASSUME NEW os, NEW n \in Nat
  PROVE  /\ FatBytes(os, n) \in 0 .. Word - 1
         /\ 4 * n < Word =>
              FatBytes(os, n) = IF os = 12 THEN n + n \div 2
                                ELSE IF os = 16 THEN 2 * n ELSE 4 * n
<1>1. n \div 2 \in Nat /\ n \div 2 <= n
  BY DivGrows
<1>2. n + n \div 2 \in Nat /\ 2 * n \in Nat /\ 4 * n \in Nat
  BY <1>1
<1>3. n + n \div 2 <= 4 * n /\ 2 * n <= 4 * n
  BY <1>1
<1>4. Word \in Nat
  BY ConstantsAreNumbers
<1>5. 4 * n < Word => n + n \div 2 < Word /\ 2 * n < Word
  BY <1>1, <1>3, <1>4
<1>6. /\ U32(n + n \div 2) \in 0 .. Word - 1 /\ U32(2 * n) \in 0 .. Word - 1
      /\ U32(4 * n) \in 0 .. Word - 1
  BY <1>2, U32IsSmall
<1>7. 4 * n < Word => /\ U32(n + n \div 2) = n + n \div 2 /\ U32(2 * n) = 2 * n
                      /\ U32(4 * n) = 4 * n
  BY <1>2, <1>5, U32IsSmall
<1> QED
  BY <1>6, <1>7 DEF FatBytes

\* A FAT of more clusters is not shorter.
LEMMA FatBytesGrow ==
  ASSUME NEW os, NEW a \in Nat, NEW b \in Nat, a <= b, 4 * b < Word
  PROVE  FatBytes(os, a) <= FatBytes(os, b)
<1>1. 4 * a < Word
  BY ConstantsAreNumbers
<1>2. a \div 2 <= b \div 2 /\ a \div 2 \in Nat /\ b \div 2 \in Nat
  BY DivGrows
<1> QED
  BY <1>1, <1>2, FatBytesNumbers

\* A FAT one sector longer than the first one holds every cluster.
LEMMA LongFatHolds ==
  ASSUME NEW b \in BootFields, NEW os, NEW n \in Nat, 16 * n <= Word, b.total <= n,
         SectorRootDir(b) + b.rootSectors <= b.total,
         NEW F \in Nat, F = FatSizeSectors(b),
         F = FatBytes(os, n \div b.spc) \div SectorSize + 1
  PROVE  FatHolds(b, os)
<1> DEFINE d == b.total - (SectorRootDir(b) + b.rootSectors)
           e == n \div b.spc
           t == TotalClusters(b)
<1>1. /\ b.total \in Nat /\ b.spc \in Nat \ {0} /\ b.rootSectors \in Nat /\ b.fats \in Nat
      /\ b.reserved \in Nat
  BY DEF BootFields
<1>2. SectorRootDir(b) \in Nat
  <2>1. b.fats * F \in Nat
    BY <1>1
  <2> QED
    BY <1>1, <2>1 DEF SectorRootDir
<1>3. d \in Nat /\ d <= n /\ d < Word
  BY <1>1, <1>2, ConstantsAreNumbers
<1>4. t = d \div b.spc
  <2> HIDE DEF d
  <2>1. d < Big /\ d \div b.spc \in Nat /\ d \div b.spc <= d
    BY <1>1, <1>3, DivGrows, ConstantsAreNumbers
  <2>2. d % Big = d
    BY <1>3, <2>1, NoWrapping, ConstantsAreNumbers
  <2>3. U32(d \div b.spc) = d \div b.spc
    <3>1. d \div b.spc < Word
      BY <1>3, <2>1, ConstantsAreNumbers
    <3> QED
      BY <2>1, <3>1, U32IsSmall
  <2>4. SectorCountData(b) = d
    BY <2>2 DEF SectorCountData, d
  <2> QED
    BY <1>1, <2>3, <2>4 DEF TotalClusters
<1>5. t <= e /\ t \in Nat /\ e \in Nat /\ e <= n
  <2> HIDE DEF d
  <2> QED
    BY <1>1, <1>3, <1>4, DivGrows
<1> HIDE DEF t, e, d
<1>6. 4 * e < Word
  BY <1>5, ConstantsAreNumbers
<1>7. FatBytes(os, t) <= FatBytes(os, e)
  BY <1>5, <1>6, FatBytesGrow
<1>8. PICK x \in Nat : x = FatBytes(os, e)
  BY <1>5, FatBytesNumbers
<1>9. PICK y \in Nat : y = x \div SectorSize /\ x < y * SectorSize + SectorSize
  BY <1>8, Quotient, ConstantsAreNumbers
<1>10. F = y + 1 /\ (y + 1) * SectorSize = y * SectorSize + SectorSize
  BY <1>8, <1>9, Scaled, ConstantsAreNumbers DEF e
<1>11. FatBytes(os, t) <= F * SectorSize
  <2>1. FatBytes(os, t) \in Nat /\ y * SectorSize \in Nat
    BY <1>5, FatBytesNumbers, ConstantsAreNumbers
  <2> QED
    BY <1>7, <1>8, <1>9, <1>10, <2>1, ConstantsAreNumbers
<1> QED
  BY <1>11 DEF FatHolds, t

\* What leaves no remainder.
LEMMA Divides ==
  ASSUME NEW n \in Nat, NEW d \in Nat \ {0}, n % d = 0
  PROVE  n = (n \div d) * d /\ n \div d \in Nat
<1>1. n = d * (n \div d)
  BY SMT
<1>2. n \div d \in Nat
  BY Quotient
<1> QED
  BY <1>1, <1>2

\* The remainder of whole sectors and less than another.
LEMMA RemainderIs ==
  ASSUME NEW q \in Nat, NEW r \in Nat, NEW d \in Nat \ {0}, r < d
  PROVE  (q * d + r) % d = r
BY SMT

\* The clusters of a volume that has no room for them are so many that some
\* are beyond the partition: the numbers wrap.
LEMMA WrappedCount ==
  ASSUME NEW n \in Nat \ {0}, (Big \div Word) % n = 0, 64 * n <= Word,
         NEW total_ \in 0 .. Word - 1, NEW x \in Nat, 4 * x <= Word,
         total_ < x \/ 16 * total_ >= 15 * Word
  PROVE  LET T == U32(((total_ - x) % Big) \div n)
         IN  T \in Nat /\ Word <= 4 * (T * n)
<1> DEFINE D == (total_ - x) % Big
           T == U32(D \div n)
<1>1. PICK W \in Nat \ {0} : W = Word
  BY ConstantsAreNumbers
<1>2. ASSUME x <= total_ PROVE T \in Nat /\ Word <= 4 * (T * n)
  <2>1. PICK d \in Nat : d = total_ - x
    BY <1>2
  <2>2. d < Word /\ d < Big /\ 16 * total_ >= 15 * Word
    BY <1>1, <1>2, <2>1, ConstantsAreNumbers
  <2>3. D = d
    BY <2>1, <2>2, NoWrapping, ConstantsAreNumbers
  <2>4. PICK q \in Nat : q = d \div n /\ q * n <= d /\ d < q * n + n /\ q <= d
    BY Quotient, DivGrows
  <2>5. T = q
    <3>1. q < Word
      BY <1>1, <2>2, <2>4
    <3> QED
      BY <2>3, <2>4, <3>1, U32IsSmall
  <2>6. PICK m \in Nat : m = q * n
    BY SMT
  <2>7. W <= 4 * m
    BY <1>1, <2>1, <2>2, <2>4, <2>6
  <2> HIDE DEF T
  <2> QED
    BY <1>1, <2>5, <2>6, <2>7
<1>3. ASSUME total_ < x PROVE T \in Nat /\ Word <= 4 * (T * n)
  <2>1. PICK y \in Nat \ {0} : total_ - x = 0 - y /\ 4 * y <= W
    <3>1. x - total_ \in Nat \ {0} /\ total_ - x = 0 - (x - total_) /\ 4 * (x - total_) <= W
      BY <1>1, <1>3
    <3> QED
      BY <3>1
  <2>2. PICK B \in Nat \ {0}, q \in Nat \ {0} : B = Big /\ Big \div Word = q /\ B = q * W
    <3>1. Big = (Big \div Word) * Word /\ Big \div Word \in Nat
      BY GeometryAssumption, Divides, ConstantsAreNumbers
    <3>2. Big \div Word # 0
      BY <3>1, ConstantsAreNumbers
    <3> QED
      BY <1>1, <3>1, <3>2, ConstantsAreNumbers
  <2>3. PICK k \in Nat \ {0} : q = k * n
    <3>1. q = (q \div n) * n /\ q \div n \in Nat
      BY <2>2, Divides
    <3>2. PICK h \in Nat : h = q \div n /\ q = h * n
      BY <3>1
    <3>3. h # 0
      BY <3>2
    <3> QED
      BY <3>2, <3>3
  <2>4. PICK c \in Nat : y <= c * n /\ c * n < y + n /\ c <= y
    <3>1. PICK a \in Nat : a * n <= y + (n - 1) /\ y + (n - 1) < a * n + n
      <4>1. PICK v \in Nat : v = y + (n - 1)
        OBVIOUS
      <4> QED
        BY <4>1, Quotient
    <3>2. PICK z \in Nat : z = a * n
      BY SMT
    <3>3. ~(y + 1 <= a)
      <4> SUFFICES ASSUME y + 1 <= a PROVE FALSE
        OBVIOUS
      <4>1. (y + 1) * n <= a * n /\ (y + 1) * n = y * n + n /\ y <= y * n /\ y * n \in Nat
        BY Times, Scaled
      <4> QED
        BY <3>1, <3>2, <4>1
    <3>4. y <= a * n /\ a * n < y + n /\ a <= y
      BY <3>1, <3>2, <3>3
    <3> QED
      BY <3>4
  <2>5. PICK m \in Nat : m = c * n
    BY SMT
  <2>6. y < B
    BY <1>1, <2>1, <2>2, ConstantsAreNumbers
  <2>7. D = B - y
    BY <2>1, <2>2, <2>6 
  <2>8. PICK w \in Nat : w = W * k
    BY <1>1, SMT
  <2>9. W <= w /\ B = w * n
    <3>1. W <= W * k
      BY <1>1, <2>3, Scaled
    <3>2. (k * n) * W = (W * k) * n
      BY <1>1, <2>3
    <3> QED
      BY <2>2, <2>3, <2>8, <3>1, <3>2
  <2>10. c <= W /\ 4 * c <= W
    BY <1>1, <2>1, <2>4
  <2>11. D \div n = w - c
    <3>1. w - c \in Nat /\ m - y \in Nat /\ m - y < n
      BY <1>1, <2>4, <2>5, <2>9, <2>10
    <3>2. (w - c) * n = w * n - c * n
      BY <2>8
    <3>3. B - y = (w - c) * n + (m - y) /\ B - y \in Nat
      BY <2>5, <2>6, <2>9, <3>2
    <3> QED
      BY <2>7, <3>1, <3>3, DivIs
  <2>12. T = W - c
    <3>1. PICK h \in Nat : k = h + 1
      <4>1. k - 1 \in Nat /\ k = (k - 1) + 1
        OBVIOUS
      <4> QED
        BY <4>1
    <3>2. w - c = h * W + (W - c)
      BY <2>8, <3>1
    <3>3. W - c \in Nat /\ W - c < W
      <4>1. c # 0
        BY <2>4
      <4> QED
        BY <1>1, <2>10, <4>1
    <3>4. (h * W + (W - c)) % W = W - c
      BY <1>1, <3>3, RemainderIs
    <3> QED
      BY <1>1, <2>11, <3>2, <3>4 DEF U32
  <2>13. W <= 4 * (T * n)
    <3>1. W - c \in Nat
      BY <2>10
    <3>2. PICK z \in Nat : z = (W - c) * n /\ W - c <= z
      BY <3>1, Scaled
    <3> HIDE DEF T
    <3> QED
      BY <2>10, <2>12, <3>2
  <2> HIDE DEF T
  <2> QED
    BY <1>1, <2>10, <2>12, <2>13
<1>4. T \in Nat /\ Word <= 4 * (T * n)
  <2> HIDE DEF T
  <2> QED
    BY <1>2, <1>3
<1> QED
  BY <1>4

\* Among so many clusters there is one whose sectors are beyond the partition.
LEMMA BeyondCluster ==
  ASSUME NEW n \in Nat \ {0}, 64 * n <= Word, NEW T \in Nat, Word <= 4 * (T * n),
         NEW e \in Nat, 16 * e <= Word, NEW g \in Nat, 4 * g <= Word
  PROVE  \E j \in Nat : j + 2 < T /\ U32(g + U32(j) * n) >= e
<1>1. PICK W \in Nat \ {0} : W = Word
  BY ConstantsAreNumbers
<1>2. PICK h \in Nat : 16 * h <= W /\ W < 16 * h + 16
  <2>1. W \div 16 \in Nat /\ 16 * (W \div 16) <= W /\ W < 16 * (W \div 16) + 16
    OBVIOUS
  <2> QED
    BY <2>1
<1>3. PICK k \in Nat : k * n <= h /\ h < k * n + n
  BY Quotient
<1>4. PICK j \in Nat, z \in Nat : j = k + 1 /\ z = j * n /\ h < z /\ z <= h + n /\ j <= z
  <2>1. (k + 1) * n = k * n + n /\ (k + 1) * n \in Nat /\ k + 1 <= (k + 1) * n /\ k * n \in Nat
    BY Scaled
  <2>2. h < (k + 1) * n /\ (k + 1) * n <= h + n
    BY <1>3, <2>1
  <2> QED
    BY <2>1, <2>2
<1>5. ~(T <= j + 2)
  <2> SUFFICES ASSUME T <= j + 2 PROVE FALSE
    OBVIOUS
  <2>1. T * n <= (j + 2) * n /\ T * n \in Nat
    BY Times
  <2>2. (j + 2) * n = z + 2 * n
    BY <1>4
  <2>3. PICK y \in Nat : y = T * n
    BY <2>1
  <2>4. y <= h + 3 * n
    BY <1>4, <2>1, <2>2, <2>3
  <2> QED
    BY <1>1, <1>2, <2>3, <2>4
<1>6. U32(j) = j /\ U32(g + z) = g + z
  <2>1. z < W /\ g + z < W /\ j < W
    BY <1>1, <1>2, <1>4
  <2> QED
    BY <1>1, <2>1, U32IsSmall
<1>7. g + z >= e
  BY <1>1, <1>2, <1>4
<1> QED
  BY <1>4, <1>5, <1>6, <1>7

\* The numbers of the FAT, while there is one.
LEMMA FatNumbers ==
  ASSUME KeepInv, Sane, pc \in Entered \ {"loader", "record"}, ask[cur].os # NotFat,
         NEW b, b = disk.boot.of
  PROVE  /\ ask[cur].os \in {12, 16, 32} /\ FatType(b, ask[cur].os) = ask[cur].os
         /\ disk.parts[cur].os = ask[cur].os
         /\ b \in BootFields /\ FatSizeSectors(b) \in Nat \ {0} /\ 16 * FatSizeSectors(b) <= Word
         /\ SectorRootDir(b) = Reserved + 2 * FatSizeSectors(b)
         /\ b.rootSectors \in Nat /\ b.rootSectors <= RootSectors
         /\ (ask[cur].os = 32 => b.rootSectors = 0)
         /\ b.total = U32(SectorCount - disk.mbr)
         /\ b.spc \in Nat \ {0} /\ (Big \div Word) % b.spc = 0
         /\ 64 * b.spc <= Word /\ b.spc + 2 <= RootZero
         /\ FirstFat(b) \in Nat
         /\ SectorCount \in Nat \ {0} /\ 16 * (last[cur] + 1) <= Word
<1>1. /\ pc \notin BetweenPartitions /\ VolumeMade /\ EntryMade /\ TypeOK /\ total \in Nat
  BY DEF KeepInv, Keeping, BetweenPartitions, Placing, Entered, CoverInv, InsideInv,
     TypeInv, TypeOK
<1>2. cur \in Parts /\ NewEntry.os = ask[cur].os
  BY <1>1, WorkNumbers DEF NewEntry
<1>3. ask[cur].os \in {12, 16, 32}
  BY <1>1, <1>2 DEF TypeOK, Ask, Types
<1>4. BootMade(b) /\ FatMade(b) /\ disk.parts[cur] = NewEntry
  BY <1>1 DEF VolumeMade, EntryMade
<1>5. /\ b \in BootFields /\ b.reserved = Reserved /\ b.fats = 2
      /\ b.total = U32(SectorCount - disk.mbr) /\ b.spc \in SpcsOf(ask[cur].os)
      /\ b.rootSectors = IF ask[cur].os \in {12, 16} THEN RootSectors ELSE 0
  BY <1>4 DEF BootMade
<1>6. /\ b.spc \in Nat \ {0} /\ (Big \div Word) % b.spc = 0
      /\ 64 * b.spc <= Word /\ b.spc + 2 <= RootZero
  <2>1. ask[cur].os \in Types
    BY <1>3 DEF Types
  <2> QED
    BY <1>5, <2>1, SpcNumbers
<1>7. FatSizeSectors(b) \in Nat \ {0} /\ FatSizeSectors(b) * SectorSize <= Word
  BY <1>4 DEF FatMade
<1>8. 16 * FatSizeSectors(b) <= Word
  <2>1. PICK F \in Nat : F = FatSizeSectors(b)
    BY <1>7
  <2>2. 16 * F <= SectorSize * F /\ SectorSize * F = F * SectorSize /\ F * SectorSize \in Nat
    BY VolumeNumbers, Times, ConstantsAreNumbers
  <2> QED
    BY <1>7, <2>1, <2>2, ConstantsAreNumbers
<1>9. FatType(b, ask[cur].os) = ask[cur].os
  BY <1>3, <1>4 DEF FatType, FatMade
<1>10. SectorCount \in Nat \ {0} /\ last[cur] \in Nat
  <2>1. /\ first[cur] \in Nat /\ last[cur] \in Nat /\ disk.first = first[cur]
        /\ disk.last \in first[cur] .. last[cur]
        /\ SectorCount = disk.last - disk.first + 1
    BY <1>1, WorkNumbers
  <2> QED
    BY <2>1
<1>11. FirstFat(b) \in Nat
  <2>1. PICK n \in Nat : n = SectorCount \div b.spc
    BY <1>6, <1>10, Quotient
  <2>2. FatBytes(ask[cur].os, n) \in Nat
    BY FatBytesNumbers
  <2> QED
    BY <2>1, <2>2, Quotient, ConstantsAreNumbers DEF FirstFat
<1>12. 16 * (last[cur] + 1) <= Word
  <2>1. PICK n \in Nat : n = last[cur] + 1
    BY <1>10
  <2>2. n * SectorSize <= total /\ total + SectorSize * RootZero <= Word
    BY <1>1, <2>1, WorkNumbers
  <2>3. 16 * n <= SectorSize * n /\ SectorSize * n = n * SectorSize /\ n * SectorSize \in Nat
    BY VolumeNumbers, Times, ConstantsAreNumbers
  <2>4. SectorSize * RootZero \in Nat
    BY VolumeNumbers, ConstantsAreNumbers
  <2> QED
    BY <1>1, <2>1, <2>2, <2>3, <2>4, ConstantsAreNumbers
<1>13. SectorRootDir(b) = Reserved + 2 * FatSizeSectors(b)
  BY <1>5 DEF SectorRootDir
<1>14. /\ b.rootSectors \in Nat /\ b.rootSectors <= RootSectors
       /\ (ask[cur].os = 32 => b.rootSectors = 0)
  BY <1>5, VolumeNumbers
<1> QED
  BY <1>2, <1>3, <1>4, <1>5, <1>6, <1>7, <1>8, <1>9, <1>10, <1>11, <1>12, <1>13, <1>14

\* Where the partition ends, as fat_format takes it from the table.
LEMMA EntryEnd ==
  ASSUME KeepInv, Sane, pc \in Entered \ {"loader"}
  PROVE  /\ U32(disk.parts[cur].lba + disk.parts[cur].count) = disk.last + 1
         /\ disk.mbr <= SectorCount => U32(SectorCount - disk.mbr) = SectorCount - disk.mbr
         /\ SectorCount < disk.mbr => U32(SectorCount - disk.mbr) = Word + SectorCount - disk.mbr
<1>1. pc \notin BetweenPartitions /\ EntryMade
  BY DEF KeepInv, Keeping, BetweenPartitions, Placing, Entered
<1>2. PICK W \in Nat \ {0}, f \in Nat, l \in Nat, m \in Nat, e \in Nat, n \in Nat :
        /\ f = first[cur] /\ l = last[cur] /\ m = disk.mbr /\ e = disk.last
        /\ f <= e /\ e <= l /\ f + m + 1 <= l /\ l + 1 < W /\ W = Word
        /\ n = SectorCount /\ n = e - f + 1 /\ disk.offset = f + m
  <2>1. /\ first[cur] \in Nat /\ last[cur] \in Nat /\ Mbr(cur) \in Nat
        /\ disk.first = first[cur] /\ disk.mbr = Mbr(cur)
        /\ disk.offset = first[cur] + Mbr(cur)
        /\ disk.last \in first[cur] .. last[cur]
        /\ disk.offset + 1 <= last[cur] /\ last[cur] + 1 < Word
        /\ SectorCount = disk.last - disk.first + 1
    BY <1>1, WorkNumbers
  <2>2. /\ disk.last \in Nat /\ disk.mbr \in Nat /\ SectorCount \in Nat
        /\ SectorCount = disk.last - first[cur] + 1
        /\ first[cur] <= disk.last /\ disk.last <= last[cur]
        /\ disk.offset = first[cur] + disk.mbr
        /\ first[cur] + disk.mbr + 1 <= last[cur]
    BY <2>1
  <2> QED
    BY <2>1, <2>2, ConstantsAreNumbers
<1>3. m <= n => U32(n - m) = n - m
  <2>1. m <= n => n - m \in Nat /\ n - m < W
    BY <1>2
  <2> QED
    BY <1>2, <2>1, U32IsSmall
<1>4. n < m => U32(n - m) = W + n - m
  <2> SUFFICES ASSUME n < m PROVE U32(n - m) = W + n - m
    OBVIOUS
  <2>1. n - m = 0 - (m - n) /\ m - n \in Nat \ {0} /\ m - n < W
    BY <1>2
  <2>2. PICK k \in Nat \ {0} : k = m - n
    BY <2>1
  <2>3. (0 - k) % W = W - k
    BY <2>1, <2>2
  <2> QED
    BY <1>2, <2>1, <2>2, <2>3 DEF U32
<1>5. disk.parts[cur].lba = f + m /\ disk.parts[cur].count = U32(n - m)
  <2>1. disk.parts[cur] = [os |-> ask[cur].os, lba |-> disk.offset,
                           count |-> U32(SectorCount - disk.mbr)]
    BY <1>1, WorkNumbers DEF EntryMade
  <2>2. /\ disk.parts[cur].lba = disk.offset
        /\ disk.parts[cur].count = U32(SectorCount - disk.mbr)
    BY <2>1
  <2> QED
    BY <1>2, <2>2
<1>6. U32(f + m + U32(n - m)) = e + 1
  <2>1. CASE m <= n
    <3>1. f + m + (n - m) = e + 1 /\ e + 1 < W
      BY <1>2
    <3> QED
      BY <1>2, <1>3, <2>1, <3>1, U32IsSmall
  <2>2. CASE n < m
    <3>1. f + m + (W + n - m) = 1 * W + (e + 1) /\ e + 1 < W /\ e + 1 \in Nat
      BY <1>2
    <3>2. (1 * W + (e + 1)) % W = e + 1
      BY <3>1, RemainderIs
    <3> QED
      BY <1>2, <1>4, <2>2, <3>1, <3>2 DEF U32
  <2> QED
    BY <2>1, <2>2
<1> QED
  BY <1>2, <1>3, <1>4, <1>5, <1>6

\* A partition without room for its FATs is not formatted: some cluster of it
\* would be beyond its end.
LEMMA NoRoomDies ==
  ASSUME KeepInv, Sane, pc = "mark", NEW b, b = disk.boot.of, ~HasRoom(b)
  PROVE  \E c \in 0 .. TotalClusters(b) - 1 :
           ClusterToSector(b, ask[cur].os, c - 2)
             >= U32(disk.parts[cur].lba + disk.parts[cur].count)
<1>1. /\ pc \in Entered \ {"loader", "record"} /\ pc \notin BetweenPartitions
      /\ ask[cur].os # NotFat
  BY DEF Entered, BetweenPartitions, Placing, KeepInv, Keeping, VolumeMade
<1>2. PICK W \in Nat \ {0}, m \in Nat, e \in Nat, n \in Nat :
        /\ W = Word /\ m = disk.mbr /\ e = disk.last /\ n = SectorCount
        /\ 16 * (e + 1) <= W /\ 16 * m <= W
  <2>1. /\ first[cur] \in Nat /\ last[cur] \in Nat /\ disk.mbr \in Nat
        /\ disk.offset = first[cur] + disk.mbr
        /\ disk.last \in first[cur] .. last[cur]
        /\ disk.offset + 1 <= last[cur]
    BY <1>1, WorkNumbers
  <2>2. SectorCount \in Nat /\ 16 * (last[cur] + 1) <= Word
    BY <1>1, FatNumbers
  <2>3. 16 * (disk.last + 1) <= Word /\ 16 * disk.mbr <= Word /\ disk.last \in Nat
    BY <2>1, <2>2, ConstantsAreNumbers
  <2> QED
    BY <2>1, <2>2, <2>3, ConstantsAreNumbers
<1>3. PICK R \in Nat, F \in Nat, r \in Nat, s \in Nat \ {0}, t \in 0 .. Word - 1 :
        /\ R = Reserved /\ F = FatSizeSectors(b) /\ r = b.rootSectors /\ s = b.spc
        /\ t = b.total /\ 16 * F <= W /\ SectorRootDir(b) = R + 2 * F
        /\ 8 * (R + r) <= W /\ 64 * s <= W /\ (Big \div Word) % s = 0
        /\ t = U32(n - m)
  <2>1. U32(n - m) \in 0 .. Word - 1
    BY <1>2, U32IsSmall
  <2>2. 8 * (Reserved + b.rootSectors) <= Word
    BY <1>1, FatNumbers, VolumeNumbers, ConstantsAreNumbers
  <2>3. /\ FatSizeSectors(b) \in Nat /\ b.rootSectors \in Nat /\ b.spc \in Nat \ {0}
        /\ 16 * FatSizeSectors(b) <= Word /\ Reserved \in Nat
        /\ SectorRootDir(b) = Reserved + 2 * FatSizeSectors(b)
        /\ b.total = U32(SectorCount - disk.mbr)
        /\ 64 * b.spc <= Word /\ (Big \div Word) % b.spc = 0
    BY <1>1, FatNumbers, VolumeNumbers
  <2> QED
    BY <1>2, <2>1, <2>2, <2>3
<1>4. PICK x \in Nat : x = R + 2 * F + r /\ 4 * x <= W
  BY <1>2, <1>3
<1>5. t < x \/ 16 * t >= 15 * Word
  <2>1. CASE n < m
    <3>1. t = W + n - m
      BY <1>1, <1>2, <1>3, <2>1, EntryEnd
    <3> QED
      BY <1>2, <3>1
  <2>2. CASE m <= n
    <3>1. ~(SectorRootDir(b) + b.rootSectors <= b.total)
      BY <1>2, <2>2 DEF HasRoom
    <3> QED
      BY <1>2, <1>3, <1>4, <3>1, ConstantsAreNumbers
  <2> QED
    BY <2>1, <2>2
<1>6. PICK T \in Nat : T = TotalClusters(b) /\ Word <= 4 * (T * s)
  <2>1. TotalClusters(b) = U32(((t - x) % Big) \div s)
    BY <1>3, <1>4 DEF TotalClusters, SectorCountData
  <2> DEFINE u == U32(((t - x) % Big) \div s)
  <2>2. u \in Nat /\ Word <= 4 * (u * s)
    <3>1. 64 * s <= Word /\ 4 * x <= Word
      BY <1>2, <1>3, <1>4
    <3> QED
      BY <1>3, <1>5, <3>1, WrappedCount
  <2> HIDE DEF u
  <2>3. TotalClusters(b) = u
    BY <2>1 DEF u
  <2> QED
    BY <2>2, <2>3
<1>7. PICK g \in Nat : g = SectorFirstData(b, ask[cur].os) /\ 4 * g <= Word
  <2>1. SectorFirstData(b, ask[cur].os) \in {R + 2 * F, R + 2 * F + r}
    BY <1>3 DEF SectorFirstData
  <2>2. 4 * (R + 2 * F) <= Word /\ 4 * (R + 2 * F + r) <= Word
    BY <1>2, <1>4
  <2> QED
    BY <2>1, <2>2
<1>8. PICK j \in Nat : j + 2 < T /\ U32(g + U32(j) * s) >= e + 1
  <2>1. PICK i \in Nat : i = e + 1
    OBVIOUS
  <2>2. 64 * s <= Word /\ 16 * i <= Word
    BY <1>2, <1>3, <2>1
  <2>3. \E j \in Nat : j + 2 < T /\ U32(g + U32(j) * s) >= i
    BY <1>3, <1>6, <1>7, <2>2, BeyondCluster
  <2> QED
    BY <2>1, <2>3
<1>9. PICK c \in Nat : c = j + 2 /\ c - 2 = j /\ c \in 0 .. TotalClusters(b) - 1
  BY <1>6, <1>8
<1>10. ClusterToSector(b, ask[cur].os, c - 2) >= e + 1
  BY <1>3, <1>7, <1>8, <1>9 DEF ClusterToSector
<1>11. U32(disk.parts[cur].lba + disk.parts[cur].count) = e + 1
  BY <1>1, <1>2, EntryEnd
<1> QED
  BY <1>9, <1>10, <1>11
-----------------------------------------------------------------------------
(* The volume of the partition that is being formatted.                    *)

\* What MakeBoot makes.
LEMMA NewBootNumbers ==
  ASSUME KeepInv, Sane, pc = "record",
         NEW os \in Types, os = ask[cur].os, NEW n \in Nat, n = SectorCount
  PROVE  /\ NewBoot \in BootFields /\ NewBoot.reserved = Reserved /\ NewBoot.fats = 2
         /\ NewBoot.rootSectors = IF os \in {12, 16} THEN RootSectors ELSE 0
         /\ NewBoot.total = U32(SectorCount - disk.mbr)
         /\ NewBoot.spc \in SpcsOf(os)
         /\ os = 32 => NewBoot.fat16 = 0
         /\ os # NotFat => FatSizeSectors(NewBoot) = FirstFat(NewBoot)
         /\ FirstFat(NewBoot) \in Nat /\ FirstFat(NewBoot) * SectorSize <= Word
<1> DEFINE k == Cardinality({i \in Steps[os] : n * SectorSize >= i})
           spc == Spc[os][k]
           fat == FatBytes(os, n \div spc) \div SectorSize
           c == U32(SectorCount - disk.mbr)
           b == [spc |-> spc, reserved |-> Reserved, fats |-> 2,
                 rootSectors |-> IF os \in {12, 16} THEN RootSectors ELSE 0,
                 total |-> c, fat16 |-> 0, fat32 |-> 0]
<1>1. spc \in SpcsOf(os)
  <2>1. IsFiniteSet(Steps[os])
    BY FormatAssumption
  <2>2. {i \in Steps[os] : n * SectorSize >= i} \subseteq Steps[os]
    OBVIOUS
  <2>3. k \in Nat /\ Cardinality(Steps[os]) \in Nat /\ k <= Cardinality(Steps[os])
    <3> DEFINE S == {i \in Steps[os] : n * SectorSize >= i}
    <3> HIDE DEF S
    <3>1. S \subseteq Steps[os]
      BY <2>2 DEF S
    <3>2. IsFiniteSet(S) /\ Cardinality(S) <= Cardinality(Steps[os])
      BY <2>1, <3>1, FS_Subset
    <3>3. Cardinality(S) \in Nat /\ Cardinality(Steps[os]) \in Nat
      BY <2>1, <3>2, FS_CardinalityType
    <3> QED
      BY <3>2, <3>3 DEF S
  <2> HIDE DEF k
  <2>4. k \in 0 .. Cardinality(Steps[os])
    BY <2>3
  <2> QED
    BY <2>4 DEF SpcsOf
<1>2. spc \in Nat \ {0}
  BY <1>1, SpcNumbers
<1>3. NewBoot = IF os = NotFat THEN b ELSE WithFat(b, os, fat)
  BY DEF NewBoot
<1> HIDE DEF spc
<1>4. PICK e \in Nat : e = n \div spc
  BY <1>2, Quotient
<1>5. PICK x \in 0 .. Word - 1 : x = FatBytes(os, e)
  BY FatBytesNumbers
<1>6. PICK F \in Nat : F = fat /\ F * SectorSize <= x
  BY <1>4, <1>5, Quotient, ConstantsAreNumbers
<1>7. c \in Nat
  <2>1. SectorCount - disk.mbr \in Int
    <3>1. pc \notin BetweenPartitions
      BY DEF BetweenPartitions, Placing
    <3>2. disk.mbr \in Nat
      BY <3>1, WorkNumbers
    <3> QED
      BY <3>2
  <2> HIDE DEF c
  <2> QED
    BY <2>1, U32IsSmall DEF c
<1> HIDE DEF fat, c
<1>8. /\ b \in BootFields /\ b.spc = spc /\ b.reserved = Reserved /\ b.fats = 2
      /\ b.rootSectors = IF os \in {12, 16} THEN RootSectors ELSE 0
      /\ b.total = c /\ b.fat16 = 0 /\ b.fat32 = 0
  BY <1>2, <1>7, VolumeNumbers DEF BootFields
<1> HIDE DEF b
<1>9. /\ NewBoot \in BootFields /\ NewBoot.spc = spc /\ NewBoot.reserved = Reserved
      /\ NewBoot.fats = 2 /\ NewBoot.total = c
      /\ NewBoot.rootSectors = IF os \in {12, 16} THEN RootSectors ELSE 0
      /\ (os = 32 => NewBoot.fat16 = 0)
      /\ (os # NotFat => FatSizeSectors(NewBoot) = fat)
  <2>1. CASE os = NotFat
    <3>1. NewBoot = b
      BY <1>3, <2>1
    <3> QED
      BY <1>8, <2>1, <3>1 DEF NotFat
  <2>2. CASE os # NotFat /\ os = 32
    <3>1. NewBoot = [b EXCEPT !.fat32 = fat]
      BY <1>3, <2>2 DEF WithFat
    <3>2. /\ NewBoot \in BootFields /\ NewBoot.fat32 = fat /\ NewBoot.fat16 = 0
          /\ NewBoot.spc = b.spc /\ NewBoot.reserved = b.reserved
          /\ NewBoot.fats = b.fats /\ NewBoot.total = b.total
          /\ NewBoot.rootSectors = b.rootSectors
      BY <1>6, <1>8, <3>1 DEF BootFields
    <3> QED
      BY <1>8, <3>2 DEF FatSizeSectors
  <2>3. CASE os # NotFat /\ os # 32
    <3>1. NewBoot = [b EXCEPT !.fat16 = fat]
      BY <1>3, <2>3 DEF WithFat
    <3>2. /\ NewBoot \in BootFields /\ NewBoot.fat16 = fat /\ NewBoot.fat32 = 0
          /\ NewBoot.spc = b.spc /\ NewBoot.reserved = b.reserved
          /\ NewBoot.fats = b.fats /\ NewBoot.total = b.total
          /\ NewBoot.rootSectors = b.rootSectors
      BY <1>6, <1>8, <3>1 DEF BootFields
    <3> QED
      BY <1>8, <2>3, <3>2 DEF FatSizeSectors
  <2> QED
    BY <2>1, <2>2, <2>3
<1>10. FirstFat(NewBoot) = fat
  BY <1>9 DEF FirstFat, fat
<1>11. fat * SectorSize <= Word
  <2>1. F * SectorSize \in Nat
    BY ConstantsAreNumbers
  <2> QED
    BY <1>5, <1>6, <2>1, ConstantsAreNumbers
<1> QED
  BY <1>1, <1>6, <1>9, <1>10, <1>11 DEF c

\* How the volume before stay while nothing is written.
LEMMA NothingWritten ==
  ASSUME KeepInv, Sane, pc \in Entered, Frame, UNCHANGED <<img, table>>,
         disk'.first = disk.first, disk'.mbr = disk.mbr, disk'.offset = disk.offset,
         disk'.last = disk.last, disk'.parts = disk.parts,
         pc # "close", pc' \in Entered \ {"close"}
  PROVE  /\ DOMAIN table' = Parts /\ AtWork' /\ EntryMade'
         /\ \A p \in DOMAIN made' : p < cur' /\ Kept(p)'
         /\ SectorCount' = SectorCount /\ pc' \notin BetweenPartitions
<1>1. /\ pc \notin BetweenPartitions /\ pc' \notin BetweenPartitions /\ pc' # "zero"
      /\ AtWork /\ EntryMade /\ DOMAIN table = Parts
      /\ \A p \in DOMAIN made : p < cur /\ Kept(p)
  BY DEF BetweenPartitions, Placing, Entered, KeepInv, Keeping
<1>2. AtWork' /\ SectorCount' = SectorCount /\ NewEntry' = NewEntry
  BY <1>1, WorkStays
<1>3. EntryMade'
  BY <1>1, <1>2 DEF EntryMade, Frame
<1>4. \A p \in DOMAIN made' : p < cur' /\ Kept(p)'
  BY <1>1, KeptStays DEF Frame
<1> QED
  BY <1>1, <1>2, <1>3, <1>4

\* Neither are they disturbed when the program stops.
LEMMA StopKeeps ==
  ASSUME KeepInv, Sane, pc' \in {"died", "done"},
         UNCHANGED <<args, layout, cur, disk, zap, img, table, made>>
  PROVE  Keeping'
<1>1. DOMAIN table = Parts /\ \A p \in DOMAIN made : p < cur /\ Kept(p)
  BY DEF KeepInv, Keeping
<1>2. \A p \in DOMAIN made' : p < cur' /\ Kept(p)'
  BY <1>1, KeptStays DEF args, layout
<1> QED
  BY <1>1, <1>2 DEF Keeping, BetweenPartitions, Entered

\* What is said of a boot record stays true while it does not change.
LEMMA VolumeStays ==
  ASSUME NEW b, Frame, SectorCount' = SectorCount, disk'.mbr = disk.mbr
  PROVE  /\ FirstFat(b)' = FirstFat(b) /\ (HasRoom(b)' <=> HasRoom(b))
         /\ (BootMade(b)' <=> BootMade(b))
BY DEF Frame, FirstFat, HasRoom, BootMade

\* The boot record is made in memory: no volume is disturbed (command.c:960-1085).
LEMMA MakeBootKeeps ==
  ASSUME KeepInv, Sane, MakeBoot
  PROVE  Keeping'
<1>1. /\ pc = "record"
      /\ IF ask[cur].os # NotFat /\ FatSizeSectors(NewBoot) = 0
         THEN Die
         ELSE /\ disk' = [disk EXCEPT !.boot = BootRec(NewBoot)]
              /\ pc' = IF ask[cur].os = NotFat THEN "boot" ELSE "root"
              /\ UNCHANGED <<args, layout, cur, zap, img, table, made>>
  BY DEF MakeBoot
<1>2. CASE ask[cur].os # NotFat /\ FatSizeSectors(NewBoot) = 0
  BY <1>1, <1>2, StopKeeps DEF Die
<1>3. CASE ~(ask[cur].os # NotFat /\ FatSizeSectors(NewBoot) = 0)
  <2>1. /\ pc \notin BetweenPartitions /\ ask[cur].os \in Types /\ SectorCount \in Nat
        /\ disk.mbr \in Nat
    <3>1. pc \notin BetweenPartitions
      BY <1>1 DEF BetweenPartitions, Placing
    <3>2. cur \in Parts /\ ask[cur].os \in Types
      BY <3>1, WorkNumbers DEF KeepInv, CoverInv, InsideInv, TypeInv, TypeOK, Ask
    <3>3. PICK f, l, m \in Nat : /\ f = first[cur] /\ l = last[cur] /\ m = Mbr(cur)
                                /\ disk.first = f /\ disk.mbr = m
                                /\ disk.last \in f .. l
                                /\ SectorCount = disk.last - disk.first + 1
      BY <3>1, WorkNumbers
    <3>4. PICK d \in f .. l : d = disk.last
      BY <3>3
    <3>5. SectorCount \in Nat
      BY <3>3, <3>4
    <3> QED
      BY <3>1, <3>2, <3>3, <3>5
  <2>2. PICK b, os, F : b = NewBoot /\ os = ask[cur].os /\ F = FirstFat(NewBoot)
    OBVIOUS
  <2>3. /\ b \in BootFields /\ b.reserved = Reserved /\ b.fats = 2
        /\ b.rootSectors = IF os \in {12, 16} THEN RootSectors ELSE 0
        /\ b.total = U32(SectorCount - disk.mbr)
        /\ b.spc \in SpcsOf(os)
        /\ os = 32 => b.fat16 = 0
        /\ os # NotFat => FatSizeSectors(b) = FirstFat(b)
        /\ FirstFat(b) \in Nat /\ FirstFat(b) * SectorSize <= Word
    BY <1>1, <2>1, <2>2, NewBootNumbers
  <2>4. /\ disk' = [disk EXCEPT !.boot = BootRec(b)]
        /\ pc' = IF os = NotFat THEN "boot" ELSE "root"
        /\ UNCHANGED <<args, layout, cur, zap, img, table, made>> /\ Frame
    BY <1>1, <1>3, <2>2 DEF Frame, args, layout
  <2>5. /\ disk'.first = disk.first /\ disk'.mbr = disk.mbr /\ disk'.offset = disk.offset
        /\ disk'.last = disk.last /\ disk'.parts = disk.parts /\ disk'.boot = BootRec(b)
    BY <2>4
  <2>6. /\ DOMAIN table' = Parts /\ AtWork' /\ EntryMade'
        /\ \A p \in DOMAIN made' : p < cur' /\ Kept(p)'
        /\ SectorCount' = SectorCount /\ pc' \notin BetweenPartitions
    BY <1>1, <2>4, <2>5, NothingWritten DEF Entered
  <2>7. BootMade(b)'
    <3>1. BootMade(b)
      BY <2>2, <2>3 DEF BootMade
    <3> QED
      BY <2>4, <2>5, <2>6, <3>1, VolumeStays
  <2>8. disk'.boot.of = b
    BY <2>5 DEF BootRec
  <2>9. ask'[cur'].os = os
    BY <2>2, <2>4 DEF Frame
  <2>10. ASSUME os # NotFat PROVE FatMade(b)' /\ pc' = "root"
    <3>1. PICK n \in Nat \ {0} : n = FatSizeSectors(b) /\ n = FirstFat(b) /\ n * SectorSize <= Word
      BY <1>3, <2>2, <2>3, <2>10
    <3>2. pc' = "root"
      BY <2>4, <2>10
    <3>3. FirstFat(b)' = n
      BY <2>4, <2>5, <2>6, <3>1, VolumeStays
    <3>4. FirstFat(b)' \in 1 .. n /\ n <= FirstFat(b)' + 1
      BY <3>1, <3>3
    <3>5. ask'[cur'].os = 32 => b.fat16 = 0
      BY <2>3, <2>9
    <3>6. pc' \notin {"boot", "table", "close"}
      BY <3>2
    <3> QED
      BY <3>1, <3>2, <3>3, <3>4, <3>5, <3>6 DEF FatMade
  <2>11. VolumeMade'
    <3>1. CASE os = NotFat
      BY <2>4, <2>5, <2>7, <2>8, <2>9, <3>1 DEF VolumeMade
    <3>2. CASE os # NotFat
      BY <2>5, <2>7, <2>8, <2>9, <2>10, <3>2 DEF VolumeMade
    <3> QED
      BY <3>1, <3>2
  <2> QED
    BY <2>6, <2>11 DEF Keeping
<1> QED
  BY <1>2, <1>3

\* The type of a volume is that of its partition, so fat_format does not refuse
\* it, and what it zeroes is no other partition's.
LEMMA ZeroRootKeeps ==
  ASSUME KeepInv, Sane, ZeroRoot
  PROVE  Keeping'
<1>1. /\ pc = "root" /\ pc \in Entered \ {"loader", "record"} /\ pc \notin BetweenPartitions
      /\ VolumeMade /\ EntryMade /\ AtWork /\ DOMAIN table = Parts
      /\ \A p \in DOMAIN made : p < cur /\ Kept(p)
  BY DEF ZeroRoot, Entered, BetweenPartitions, Placing, KeepInv, Keeping
<1>2. PICK b, os : b = disk.boot.of /\ os = ask[cur].os
  OBVIOUS
<1>3. os # NotFat /\ BootMade(b) /\ FatMade(b) /\ disk.boot = BootRec(b)
  BY <1>1, <1>2 DEF VolumeMade
<1>4. FatType(b, disk.parts[cur].os) = ask[cur].os
  BY <1>1, <1>2, <1>3, FatNumbers
<1>5. /\ Write(RootZeroed, Zero) /\ pc' = "grow" /\ Frame /\ disk' = disk
  BY <1>2, <1>4 DEF ZeroRoot, Frame, args, layout
<1>6. /\ disk.offset \in Nat /\ first[cur] \in Nat /\ first[cur] <= disk.offset
      /\ \A p \in DOMAIN made : p \in Parts /\ last[p] \in Nat
  BY <1>1, WorkNumbers
<1>7. PICK F \in Nat : F = FatSizeSectors(b) /\ F = FirstFat(b) /\ SectorRootDir(b) = Reserved + 2 * F
  BY <1>1, <1>2, <1>3, FatNumbers DEF FatMade
<1>8. \A n \in Int : Far(n) \in Nat
  <2> TAKE n \in Int
  <2>1. U32(U32(n) * SectorSize) \in Nat
    BY U32IsSmall, ConstantsAreNumbers
  <2> QED
    BY <2>1, Quotient, ConstantsAreNumbers DEF Far
<1>9. RootZeroed = {disk.offset + Far(Reserved + 2 * F + k) : k \in 0 .. RootZero - 1}
  BY <1>2, <1>7 DEF RootZeroed, RootFrom
<1>10. \A s \in RootZeroed : s \in Nat /\ first[cur] <= s
  <2>1. \A k \in 0 .. RootZero - 1 : Far(Reserved + 2 * F + k) \in Nat
    BY <1>8, VolumeNumbers
  <2> QED
    BY <1>6, <1>9, <2>1
<1>11. \A p \in DOMAIN made : Kept(p)' /\ table' = table
  BY <1>1, <1>5, <1>10, WriteSpares DEF Frame
<1>12. DOMAIN table' = Parts
  BY <1>1, <1>5 DEF Write, NoTable
<1>13. AtWork' /\ SectorCount' = SectorCount /\ EntryMade'
  BY <1>1, <1>5, <1>11, WorkStays, EntryStays
<1>14. BootMade(b)' /\ FirstFat(b)' = FirstFat(b) /\ (HasRoom(b)' <=> HasRoom(b))
  BY <1>3, <1>5, <1>13, VolumeStays
<1>15. FatMade(b)'
  BY <1>1, <1>3, <1>5, <1>14 DEF FatMade, Frame
<1>16. RootMade(b)'
  <2>1. \A s \in RootZeroed : s \in DOMAIN img' /\ img'[s] = Zero
    BY <1>5, ZeroesWritten
  <2> QED
    BY <1>5, <1>7, <1>9, <1>14, <2>1 DEF RootMade
<1>17. VolumeMade'
  BY <1>2, <1>3, <1>5, <1>14, <1>15, <1>16 DEF VolumeMade, Frame
<1> QED
  BY <1>1, <1>5, <1>11, <1>12, <1>13, <1>17 DEF Keeping, Frame

\* A FAT grows by a sector, and no more if there is room for it.
LEMMA GrownFat ==
  ASSUME KeepInv, Sane, pc = "grow", NEW b, b = disk.boot.of, NEW os, os = ask[cur].os,
         NEW F \in Nat, F = FatSizeSectors(b), ~FatHolds(b, os)
  PROVE  LET c == WithFat(b, os, F + 1)
         IN  /\ c \in BootFields /\ c.spc = b.spc /\ c.reserved = b.reserved
             /\ c.fats = b.fats /\ c.total = b.total /\ c.rootSectors = b.rootSectors
             /\ os = 32 => c.fat16 = 0
             /\ FatSizeSectors(c) = F + 1 /\ (F + 1) * SectorSize <= Word
             /\ HasRoom(c) => F <= FirstFat(b)
<1> DEFINE c == WithFat(b, os, F + 1)
<1>1. /\ pc \in Entered \ {"loader", "record"} /\ VolumeMade /\ os # NotFat
  BY DEF Entered, KeepInv, Keeping, VolumeMade
<1>2. FatMade(b) /\ b \in BootFields /\ b.fats = 2 /\ b.reserved = Reserved
  BY <1>1 DEF VolumeMade, BootMade
<1>3. os \in {12, 16, 32} /\ b.spc \in Nat \ {0} /\ F # 0
  BY <1>1, FatNumbers
<1>4. /\ c \in BootFields /\ c.spc = b.spc /\ c.reserved = b.reserved
      /\ c.fats = b.fats /\ c.total = b.total /\ c.rootSectors = b.rootSectors
      /\ os = 32 => c.fat16 = 0
      /\ FatSizeSectors(c) = F + 1
  <2>1. CASE os = 32
    <3>1. c = [b EXCEPT !.fat32 = F + 1]
      BY <2>1 DEF WithFat
    <3>2. b.fat16 = 0
      BY <1>2, <2>1 DEF FatMade
    <3> HIDE DEF c
    <3>3. /\ c \in BootFields /\ c.fat32 = F + 1 /\ c.fat16 = 0
          /\ c.spc = b.spc /\ c.reserved = b.reserved
          /\ c.fats = b.fats /\ c.total = b.total /\ c.rootSectors = b.rootSectors
      BY <1>2, <3>1, <3>2 DEF BootFields
    <3> QED
      BY <3>3 DEF FatSizeSectors
  <2>2. CASE os # 32
    <3>1. c = [b EXCEPT !.fat16 = F + 1]
      BY <2>2 DEF WithFat
    <3> HIDE DEF c
    <3>2. /\ c \in BootFields /\ c.fat16 = F + 1
          /\ c.spc = b.spc /\ c.reserved = b.reserved
          /\ c.fats = b.fats /\ c.total = b.total /\ c.rootSectors = b.rootSectors
      BY <1>2, <3>1 DEF BootFields
    <3> QED
      BY <2>2, <3>2 DEF FatSizeSectors
  <2> QED
    BY <2>1, <2>2
<1>5. (F + 1) * SectorSize <= Word
  <2>1. TotalClusters(b) \in Nat
    <3>1. SectorCountData(b) \in Nat
      <4>1. b.total - (SectorRootDir(b) + b.rootSectors) \in Int
        BY <1>1, <1>2, FatNumbers, VolumeNumbers DEF BootFields
      <4> QED
        BY <4>1, Remainder, ConstantsAreNumbers DEF SectorCountData
    <3>2. SectorCountData(b) \div b.spc \in Nat
      BY <1>3, <3>1, Quotient
    <3> QED
      BY <1>3, <3>2, U32IsSmall DEF TotalClusters
  <2>2. FatBytes(os, TotalClusters(b)) \in 0 .. Word - 1
    BY <2>1, FatBytesNumbers
  <2>3. ~(FatBytes(os, TotalClusters(b)) <= F * SectorSize)
    BY DEF FatHolds
  <2>4. PICK w \in Nat : Word = w * SectorSize
    BY Divides, GeometryAssumption, ConstantsAreNumbers
  <2>5. F * SectorSize \in Nat /\ F * SectorSize < w * SectorSize
    BY <2>2, <2>3, <2>4, ConstantsAreNumbers
  <2>6. ~(w <= F)
    BY <2>5, Times, ConstantsAreNumbers
  <2>7. F + 1 <= w
    BY <2>6
  <2> QED
    BY <2>4, <2>7, Times, ConstantsAreNumbers
<1>6. ASSUME HasRoom(c) PROVE F <= FirstFat(b)
  <2>1. PICK R \in Nat, r \in Nat, n \in Nat, t \in Nat, m \in Nat, g \in Nat :
          /\ R = Reserved /\ r = b.rootSectors /\ n = SectorCount /\ t = b.total
          /\ m = disk.mbr /\ g = FirstFat(b) /\ 16 * n <= Word
    <3>1. b.rootSectors \in Nat /\ b.total \in Nat /\ Reserved \in Nat
      BY <1>2, VolumeNumbers DEF BootFields
    <3>2. SectorCount \in Nat /\ FirstFat(b) \in Nat /\ 16 * (last[cur] + 1) <= Word
      BY <1>1, FatNumbers
    <3>3. /\ first[cur] \in Nat /\ last[cur] \in Nat /\ disk.mbr \in Nat
          /\ disk.first = first[cur] /\ disk.last \in first[cur] .. last[cur]
          /\ SectorCount = disk.last - disk.first + 1
      <4>1. pc \notin BetweenPartitions
        BY DEF BetweenPartitions, Placing
      <4> QED
        BY <4>1, WorkNumbers
    <3>4. 16 * SectorCount <= Word
      BY <3>2, <3>3, ConstantsAreNumbers
    <3> QED
      BY <3>1, <3>2, <3>3, <3>4
  <2>2. SectorRootDir(c) = R + 2 * (F + 1) /\ SectorRootDir(b) = R + 2 * F
    BY <1>2, <1>4, <2>1 DEF SectorRootDir
  <2>3. m <= n /\ R + 2 * (F + 1) + r <= t
    BY <1>4, <1>6, <2>1, <2>2 DEF HasRoom
  <2>4. R + 2 * F + r <= t
    BY <2>1, <2>3
  <2>5. HasRoom(b)
    BY <2>1, <2>2, <2>3, <2>4 DEF HasRoom
  <2>6. F <= g + 1
    BY <1>2, <2>1, <2>5 DEF FatMade
  <2>7. t = n - m
    <3>1. U32(n - m) = n - m
      BY <1>1, <2>1, <2>3, EntryEnd
    <3> QED
      BY <1>1, <2>1, <3>1, FatNumbers
  <2>8. F # g + 1
    <3> SUFFICES ASSUME F = g + 1 PROVE FALSE
      OBVIOUS
    <3>1. F = FatBytes(os, n \div b.spc) \div SectorSize + 1
      BY <2>1 DEF FirstFat
    <3>2. b.total <= n /\ SectorRootDir(b) + b.rootSectors <= b.total
      BY <2>1, <2>2, <2>4, <2>7
    <3> QED
      BY <1>2, <2>1, <3>1, <3>2, LongFatHolds
  <2> QED
    BY <2>1, <2>6, <2>8
<1> HIDE DEF c
<1>7. /\ c \in BootFields /\ c.spc = b.spc /\ c.reserved = b.reserved
      /\ c.fats = b.fats /\ c.total = b.total /\ c.rootSectors = b.rootSectors
      /\ os = 32 => c.fat16 = 0
      /\ FatSizeSectors(c) = F + 1 /\ (F + 1) * SectorSize <= Word
      /\ HasRoom(c) => F <= FirstFat(b)
  BY <1>4, <1>5, <1>6
<1> QED
  BY <1>7 DEF c

\* The FAT grows by a sector at most once, if the partition has room for it;
\* without room it may go on growing (fat.c:3265-3420).
LEMMA GrowKeeps ==
  ASSUME KeepInv, Sane, GrowFat
  PROVE  Keeping'
<1>1. /\ pc = "grow" /\ pc \in Entered \ {"loader", "record"} /\ VolumeMade
      /\ Frame /\ UNCHANGED <<img, table>> /\ pc' \in {"grow", "mark"}
  BY DEF GrowFat, Entered, KeepInv, Keeping, Frame, args, layout
<1>2. PICK b, os, F : b = disk.boot.of /\ os = ask[cur].os /\ F = FatSizeSectors(b)
  OBVIOUS
<1>3. /\ os # NotFat /\ BootMade(b) /\ FatMade(b) /\ RootMade(b) /\ disk.boot = BootRec(b)
  BY <1>1, <1>2 DEF VolumeMade
<1>4. /\ FatType(b, disk.parts[cur].os) = os /\ F \in Nat \ {0} /\ FirstFat(b) \in Nat
  BY <1>1, <1>2, <1>3, FatNumbers
<1>5. CASE FatHolds(b, os)
  <2>1. pc' = "mark" /\ disk' = disk
    BY <1>2, <1>4, <1>5 DEF GrowFat
  <2>2. /\ DOMAIN table' = Parts /\ AtWork' /\ EntryMade'
        /\ \A p \in DOMAIN made' : p < cur' /\ Kept(p)'
        /\ SectorCount' = SectorCount /\ pc' \notin BetweenPartitions
    BY <1>1, <2>1, NothingWritten DEF Entered
  <2>3. /\ FirstFat(b)' = FirstFat(b) /\ (HasRoom(b)' <=> HasRoom(b)) /\ BootMade(b)'
    BY <1>1, <1>3, <2>1, <2>2, VolumeStays
  <2>4. FatMade(b)' /\ RootMade(b)'
    BY <1>1, <1>3, <2>1, <2>3 DEF FatMade, RootMade, Frame
  <2>5. VolumeMade'
    BY <1>1, <1>2, <1>3, <2>1, <2>3, <2>4 DEF VolumeMade, Frame
  <2> QED
    BY <2>2, <2>5 DEF Keeping
<1>6. CASE ~FatHolds(b, os)
  <2>1. PICK c : c = WithFat(b, os, F + 1)
    OBVIOUS
  <2>2. pc' = "grow" /\ disk' = [disk EXCEPT !.boot = BootRec(c)]
    BY <1>1, <1>2, <1>4, <1>6, <2>1 DEF GrowFat
  <2>3. /\ c \in BootFields /\ c.spc = b.spc /\ c.reserved = b.reserved
        /\ c.fats = b.fats /\ c.total = b.total /\ c.rootSectors = b.rootSectors
        /\ os = 32 => c.fat16 = 0
        /\ FatSizeSectors(c) = F + 1 /\ (F + 1) * SectorSize <= Word
        /\ HasRoom(c) => F <= FirstFat(b)
    BY <1>1, <1>2, <1>4, <1>6, <2>1, GrownFat
  <2>4. /\ disk'.first = disk.first /\ disk'.mbr = disk.mbr /\ disk'.offset = disk.offset
        /\ disk'.last = disk.last /\ disk'.parts = disk.parts /\ disk'.boot = BootRec(c)
        /\ disk'.boot.of = c
    BY <2>2 DEF BootRec
  <2>5. /\ DOMAIN table' = Parts /\ AtWork' /\ EntryMade'
        /\ \A p \in DOMAIN made' : p < cur' /\ Kept(p)'
        /\ SectorCount' = SectorCount /\ pc' \notin BetweenPartitions
    BY <1>1, <2>2, <2>4, NothingWritten DEF Entered
  <2>6. /\ FirstFat(c)' = FirstFat(c) /\ (HasRoom(c)' <=> HasRoom(c))
        /\ (BootMade(c)' <=> BootMade(c))
    BY <1>1, <2>4, <2>5, VolumeStays
  <2>7. FirstFat(c) = FirstFat(b)
    BY <2>3 DEF FirstFat
  <2>8. BootMade(c)'
    BY <1>3, <2>3, <2>6 DEF BootMade
  <2>9. FatMade(c)'
    <3>1. FirstFat(b) \in 1 .. F
      BY <1>2, <1>3 DEF FatMade
    <3>2. HasRoom(c)' => F + 1 <= FirstFat(b) + 1
      BY <1>4, <2>3, <2>6
    <3>3. FirstFat(b) \in 1 .. F + 1 /\ F + 1 \in Nat \ {0}
      BY <1>4, <3>1
    <3>4. ask'[cur'].os = os
      BY <1>1, <1>2 DEF Frame
    <3> QED
      BY <2>2, <2>3, <2>6, <2>7, <3>2, <3>3, <3>4 DEF FatMade
  <2>10. RootMade(c)'
    BY <1>1, <1>3, <2>4, <2>6, <2>7 DEF RootMade
  <2>11. VolumeMade'
    BY <1>1, <1>2, <1>3, <2>2, <2>4, <2>8, <2>9, <2>10 DEF VolumeMade, Frame
  <2> QED
    BY <2>5, <2>11 DEF Keeping
<1> QED
  BY <1>5, <1>6

\* The FAT is written behind the volumes before, or, without room for it, the
\* program dies at a cluster beyond the partition (fat.c:3422-3520).
LEMMA MarkKeeps ==
  ASSUME KeepInv, Sane, MarkFat
  PROVE  Keeping'
<1>1. /\ pc = "mark" /\ pc \in Entered \ {"loader", "record"} /\ VolumeMade
  BY DEF MarkFat, Entered, KeepInv, Keeping
<1>2. PICK b : b = disk.boot.of
  OBVIOUS
<1>3. /\ ask[cur].os # NotFat /\ BootMade(b) /\ FatMade(b) /\ RootMade(b)
      /\ disk.boot = BootRec(b)
  BY <1>1, <1>2 DEF VolumeMade
<1>4. CASE pc' = "died"
  <2>1. UNCHANGED <<args, layout, cur, disk, zap, img, table, made>>
    BY <1>4 DEF MarkFat, Die
  <2> QED
    BY <1>4, <2>1, StopKeeps
<1>5. CASE pc' # "died"
  <2>1. /\ pc' = "boot" /\ Frame /\ disk' = disk /\ UNCHANGED <<img, table>>
        /\ HasRoom(b)
    BY <1>1, <1>2, <1>5, NoRoomDies DEF MarkFat, Die, Frame, args, layout
  <2>2. /\ DOMAIN table' = Parts /\ AtWork' /\ EntryMade'
        /\ \A p \in DOMAIN made' : p < cur' /\ Kept(p)'
        /\ SectorCount' = SectorCount /\ pc' \notin BetweenPartitions
    BY <1>1, <2>1, NothingWritten DEF Entered
  <2>3. /\ FirstFat(b)' = FirstFat(b) /\ (HasRoom(b)' <=> HasRoom(b)) /\ BootMade(b)'
    BY <1>3, <2>1, <2>2, VolumeStays
  <2>4. FatMade(b)' /\ RootMade(b)'
    BY <1>1, <1>3, <2>1, <2>3 DEF FatMade, RootMade, Frame
  <2>5. VolumeMade'
    BY <1>1, <1>2, <1>3, <2>1, <2>3, <2>4 DEF VolumeMade, Frame
  <2> QED
    BY <2>2, <2>5 DEF Keeping
<1> QED
  BY <1>4, <1>5

\* Sectors of the partition, and those just behind it, are found where their
\* numbers say.
LEMMA NearEnd ==
  ASSUME total \in Nat, NEW e \in Nat, e * SectorSize <= total,
         total + SectorSize * RootZero <= Word,
         NEW n \in Nat, n <= e, NEW k \in 0 .. RootZero - 1
  PROVE  Far(n + k) = n + k
<1>1. n * SectorSize <= e * SectorSize /\ n * SectorSize \in Nat /\ e * SectorSize \in Nat
  BY Times, ConstantsAreNumbers
<1>2. (k + 1) * SectorSize <= RootZero * SectorSize
      /\ (k + 1) * SectorSize = k * SectorSize + SectorSize
      /\ k * SectorSize \in Nat /\ RootZero * SectorSize = SectorSize * RootZero
      /\ RootZero * SectorSize \in Nat
  <2>1. k \in Nat /\ k + 1 \in Nat /\ k + 1 <= RootZero /\ RootZero \in Nat
    BY VolumeNumbers
  <2> QED
    BY <2>1, Times, Scaled, ConstantsAreNumbers
<1>3. (n + k) * SectorSize = n * SectorSize + k * SectorSize /\ n + k \in Nat
  BY Scaled, VolumeNumbers, ConstantsAreNumbers
<1>4. (n + k) * SectorSize < Word
  BY <1>1, <1>2, <1>3, ConstantsAreNumbers
<1> QED
  BY <1>3, <1>4, FarIsNear

\* Where the FATs and the root directory of a finished volume are.
LEMMA RoomNumbers ==
  ASSUME KeepInv, Sane, pc \in {"boot", "table", "close"}, ask[cur].os # NotFat,
         NEW b, b = disk.boot.of
  PROVE  LET F == FatSizeSectors(b)
             G == FirstFat(b)
         IN  /\ F \in Nat \ {0} /\ G \in 1 .. F /\ F <= G + 1
             /\ b.total + disk.offset = disk.last + 1
             /\ Reserved + 2 * F + b.rootSectors <= b.total
             /\ \A k \in 0 .. F - 1 : Far(Reserved + k) = Reserved + k
             /\ \A k \in 0 .. RootZero - 1 :
                  /\ Far(Reserved + 2 * F + k) = Reserved + 2 * F + k
                  /\ Far(Reserved + 2 * G + k) = Reserved + 2 * G + k
<1>1. /\ pc \in Entered \ {"loader", "record"} /\ pc \notin BetweenPartitions
      /\ VolumeMade /\ total \in Nat
  BY DEF Entered, BetweenPartitions, Placing, KeepInv, Keeping, CoverInv, InsideInv,
     TypeInv, TypeOK
<1>2. FatMade(b) /\ BootMade(b)
  BY <1>1 DEF VolumeMade
<1>3. PICK F \in Nat \ {0}, G \in Nat, R \in Nat \ {0}, r \in Nat, Z \in Nat \ {0} :
        /\ F = FatSizeSectors(b) /\ G = FirstFat(b) /\ R = Reserved /\ r = b.rootSectors
        /\ SectorRootDir(b) = R + 2 * F /\ Z = RootZero
  BY <1>1, FatNumbers, VolumeNumbers
<1>4. G \in 1 .. F /\ F <= G + 1 /\ disk.mbr <= SectorCount /\ R + 2 * F + r <= b.total
  BY <1>2, <1>3 DEF FatMade, HasRoom
<1>5. PICK f \in Nat, l \in Nat, m \in Nat, d \in Nat, n \in Nat :
        /\ f = first[cur] /\ l = last[cur] /\ m = disk.mbr /\ d = disk.last
        /\ n = SectorCount /\ n = d - f + 1 /\ d <= l /\ m <= n /\ disk.offset = f + m
  <2>1. /\ first[cur] \in Nat /\ last[cur] \in Nat /\ Mbr(cur) \in Nat
        /\ disk.first = first[cur] /\ disk.mbr = Mbr(cur)
        /\ disk.offset = first[cur] + Mbr(cur)
        /\ disk.last \in first[cur] .. last[cur]
        /\ SectorCount = disk.last - disk.first + 1
    BY <1>1, WorkNumbers
  <2>2. /\ SectorCount \in Nat /\ disk.mbr \in Nat /\ disk.last \in Nat
        /\ disk.last <= last[cur] /\ SectorCount = disk.last - first[cur] + 1
        /\ disk.offset = first[cur] + disk.mbr
    BY <2>1
  <2> QED
    BY <1>4, <2>1, <2>2
<1>6. b.total = n - m /\ b.total + disk.offset = d + 1
  <2>1. b.total = U32(n - m) /\ U32(n - m) = n - m
    BY <1>1, <1>2, <1>5, EntryEnd DEF BootMade
  <2> QED
    BY <1>5, <2>1
<1>7. PICK t \in Nat, e \in Nat : t = n - m /\ e = l + 1 /\ t <= e /\ R + 2 * F + r <= t
  <2>1. n - m \in Nat /\ l + 1 \in Nat /\ n - m <= l + 1
    BY <1>5
  <2> QED
    BY <1>4, <1>6, <2>1
<1>8. /\ e * SectorSize <= total /\ total + SectorSize * RootZero <= Word
  BY <1>1, <1>5, <1>7, WorkNumbers
<1>9. \A k \in 0 .. F - 1 : Far(R + k) = R + k
  <2> TAKE k \in 0 .. F - 1
  <2>1. R + k \in Nat /\ R + k <= e /\ 0 \in 0 .. RootZero - 1 /\ R + k + 0 = R + k
    BY <1>3, <1>7
  <2> QED
    BY <1>1, <1>8, <2>1, NearEnd
<1>10. \A k \in 0 .. RootZero - 1 : /\ Far(R + 2 * F + k) = R + 2 * F + k
                                    /\ Far(R + 2 * G + k) = R + 2 * G + k
  <2>1. R + 2 * F \in Nat /\ R + 2 * F <= e /\ R + 2 * G \in Nat /\ R + 2 * G <= e
    BY <1>3, <1>4, <1>7
  <2> QED
    BY <1>1, <1>8, <2>1, NearEnd
<1> QED
  BY <1>3, <1>4, <1>5, <1>6, <1>9, <1>10

\* The two sectors of the boot record are before the root directory.
LEMMA WriteBootKeeps ==
  ASSUME KeepInv, Sane, WriteBoot
  PROVE  Keeping'
<1>1. /\ pc = "boot" /\ pc \in Entered \ {"loader", "record"} /\ pc \notin BetweenPartitions
      /\ VolumeMade /\ EntryMade /\ AtWork /\ DOMAIN table = Parts
      /\ \A p \in DOMAIN made : p < cur /\ Kept(p)
      /\ Write({disk.offset, disk.offset + 1}, disk.boot)
      /\ pc' = "table" /\ Frame /\ disk' = disk
  BY DEF WriteBoot, Entered, BetweenPartitions, Placing, KeepInv, Keeping, Frame, args, layout
<1>2. PICK b : b = disk.boot.of /\ disk.boot = BootRec(b) /\ BootMade(b)
  BY <1>1 DEF VolumeMade
<1>3. /\ disk.offset \in Nat /\ first[cur] \in Nat /\ first[cur] <= disk.offset
  BY <1>1, WorkNumbers
<1>4. \A s \in {disk.offset, disk.offset + 1} : s \in Nat /\ first[cur] <= s
  BY <1>3
<1>5. \A p \in DOMAIN made : Kept(p)' /\ table' = table
  BY <1>1, <1>4, WriteSpares DEF Frame
<1>6. DOMAIN table' = Parts
  BY <1>1 DEF Write, NoTable
<1>7. AtWork' /\ SectorCount' = SectorCount /\ EntryMade'
  BY <1>1, <1>5, WorkStays, EntryStays
<1>8. BootMade(b)' /\ FirstFat(b)' = FirstFat(b) /\ (HasRoom(b)' <=> HasRoom(b))
  BY <1>1, <1>2, <1>7, VolumeStays
<1>9. disk.offset \in DOMAIN img' /\ img'[disk.offset] = BootRec(b)
  BY <1>1, <1>2 DEF Write
<1>10. ASSUME ask[cur].os # NotFat PROVE FatMade(b)' /\ RootMade(b)'
  <2>1. FatMade(b) /\ RootMade(b)
    BY <1>1, <1>2, <1>10 DEF VolumeMade
  <2>2. FatMade(b)'
    BY <1>1, <1>8, <2>1 DEF FatMade, Frame
  <2>3. PICK G \in Nat \ {0} : /\ G = FirstFat(b)
          /\ \A k \in 0 .. RootZero - 1 : Far(Reserved + 2 * G + k) = Reserved + 2 * G + k
    <3>1. PICK F \in Nat : F = FatSizeSectors(b) /\ FirstFat(b) \in 1 .. F
      BY <1>1, <1>2, <1>10, RoomNumbers
    <3>2. \A k \in 0 .. RootZero - 1 :
            Far(Reserved + 2 * FirstFat(b) + k) = Reserved + 2 * FirstFat(b) + k
      BY <1>1, <1>2, <1>10, RoomNumbers
    <3> QED
      BY <3>1, <3>2
  <2>4. ASSUME NEW k \in 0 .. RootZero - 1
        PROVE  LET s == disk.offset + Far(Reserved + 2 * G + k)
               IN  s \in DOMAIN img' /\ img'[s] = Zero
    <3>1. PICK s \in Nat : s = disk.offset + Far(Reserved + 2 * G + k)
                           /\ s # disk.offset /\ s # disk.offset + 1
      <4>1. disk.offset + Far(Reserved + 2 * G + k) = disk.offset + (Reserved + 2 * G + k)
        BY <2>3
      <4>2. Reserved \in Nat \ {0} /\ k \in Nat
        BY VolumeNumbers
      <4>3. PICK o \in Nat, R \in Nat \ {0} : o = disk.offset /\ R = Reserved
        BY <1>3, <4>2
      <4>4. /\ o + (R + 2 * G + k) \in Nat /\ o + (R + 2 * G + k) # o
            /\ o + (R + 2 * G + k) # o + 1
        BY <4>2
      <4> QED
        BY <4>1, <4>3, <4>4
    <3>2. s \in DOMAIN img /\ img[s] = Zero
      BY <2>1, <2>3, <3>1 DEF RootMade
    <3>3. s \in DOMAIN img' /\ img'[s] = Zero
      BY <1>1, <3>1, <3>2 DEF Write
    <3> QED
      BY <3>1, <3>3
  <2>5. RootMade(b)'
    BY <1>1, <1>8, <2>3, <2>4 DEF RootMade
  <2> QED
    BY <2>2, <2>5
<1>11. VolumeMade'
  <2>1. disk'.boot = BootRec(b) /\ disk'.boot.of = b /\ ask'[cur'].os = ask[cur].os
    BY <1>1, <1>2 DEF Frame
  <2> QED
    BY <1>1, <1>8, <1>9, <1>10, <2>1 DEF VolumeMade
<1> QED
  BY <1>1, <1>5, <1>6, <1>7, <1>11 DEF Keeping, Frame

\* The table that is written has the entries of the volumes before, as they
\* were read before sector 0 could be cleared.
LEMMA WriteTableKeeps ==
  ASSUME KeepInv, Sane, WriteTable
  PROVE  Keeping'
<1>1. /\ pc = "table" /\ pc \in Entered \ {"loader", "record"} /\ pc \notin BetweenPartitions
      /\ VolumeMade /\ EntryMade /\ AtWork
      /\ \A p \in DOMAIN made : p < cur /\ Kept(p)
      /\ table' = disk.parts /\ pc' = "close" /\ Frame /\ disk' = disk /\ img' = img
  BY DEF WriteTable, Entered, BetweenPartitions, Placing, KeepInv, Keeping, Frame, args, layout
<1>2. DOMAIN table' = Parts /\ \A p \in DOMAIN made : table'[p] = table[p]
  BY <1>1 DEF EntryMade
<1>3. \A p \in DOMAIN made' : p < cur' /\ Kept(p)'
  BY <1>1, <1>2, KeptStays DEF Frame
<1>4. AtWork' /\ SectorCount' = SectorCount /\ NewEntry' = NewEntry
  BY <1>1, WorkStays
<1>5. EntryMade'
  BY <1>1, <1>4 DEF EntryMade, Frame
<1>6. PICK b : b = disk.boot.of /\ disk.boot = BootRec(b) /\ BootMade(b)
  BY <1>1 DEF VolumeMade
<1>7. BootMade(b)' /\ FirstFat(b)' = FirstFat(b) /\ (HasRoom(b)' <=> HasRoom(b))
  BY <1>1, <1>4, <1>6, VolumeStays
<1>8. VolumeMade'
  <2>1. disk'.boot = BootRec(b) /\ disk'.boot.of = b /\ ask'[cur'].os = ask[cur].os
    BY <1>1, <1>6 DEF Frame
  <2>2. ASSUME ask[cur].os # NotFat PROVE FatMade(b)' /\ RootMade(b)'
    <3>1. FatMade(b) /\ RootMade(b)
      BY <1>1, <1>6, <2>2 DEF VolumeMade
    <3> QED
      BY <1>1, <1>7, <3>1 DEF FatMade, RootMade, Frame
  <2>3. disk.offset \in DOMAIN img /\ img[disk.offset] = BootRec(b)
    BY <1>1, <1>6 DEF VolumeMade
  <2> QED
    BY <1>1, <1>7, <2>1, <2>2, <2>3 DEF VolumeMade
<1> QED
  BY <1>1, <1>2, <1>3, <1>4, <1>5, <1>8 DEF Keeping

\* What is in a finished volume when its FAT has been written.
LEMMA VolumeWhole ==
  ASSUME KeepInv, Sane, Close,
         NEW p \in Parts, p = cur, NEW b, b = disk.boot.of, NEW os, os = ask[cur].os,
         NEW o \in Nat, o = disk.offset, NEW l \in Nat, l = last[cur]
  PROVE  /\ table' = table
         /\ \A s \in IF os = NotFat THEN {} ELSE FatSectors(o, b) : s \in Nat /\ o < s
         /\ o \in 0 .. l /\ o \in DOMAIN img' /\ img'[o] = BootRec(b)
         /\ os # NotFat
              => /\ FatType(b, os) = os
                 /\ \A s \in FatSectors(o, b) :
                      s \in 0 .. l /\ s \in DOMAIN img' /\ img'[s] = FatOf(p, os)
                 /\ TotalClusters(b) > 0
                      => \A s \in RootFrom(o, b, RootSize(b, os)) :
                           s \in 0 .. l /\ s \in DOMAIN img' /\ img'[s] = Zero
<1> DEFINE S == IF os = NotFat THEN {} ELSE FatSectors(o, b)
<1>1. /\ pc = "close" /\ pc \in Entered \ {"loader", "record"} /\ pc \notin BetweenPartitions
      /\ VolumeMade /\ Write(S, FatOf(p, os))
  BY DEF Close, Entered, BetweenPartitions, Placing, KeepInv, Keeping
<1>2. disk.boot = BootRec(b) /\ BootMade(b) /\ o \in DOMAIN img /\ img[o] = BootRec(b)
  BY <1>1 DEF VolumeMade
<1>3. o + 1 <= l
  BY <1>1, WorkNumbers
<1>4. CASE os = NotFat
  <2>1. S = {}
    BY <1>4
  <2>2. table' = table /\ o \in DOMAIN img' /\ img'[o] = BootRec(b)
    BY <1>1, <1>2, <2>1 DEF Write
  <2> QED
    BY <1>3, <1>4, <2>2
<1>5. CASE os # NotFat
  <2>1. FatMade(b) /\ RootMade(b) /\ FatType(b, os) = os /\ b.fats = 2 /\ b.reserved = Reserved
    BY <1>1, <1>2, <1>5, FatNumbers DEF VolumeMade, BootMade
  <2>2. PICK F \in Nat \ {0}, G \in Nat \ {0}, R \in Nat \ {0}, r \in Nat, t \in Nat, z \in Nat, n \in Nat \ {0} :
          /\ F = FatSizeSectors(b) /\ G = FirstFat(b) /\ R = Reserved /\ r = b.rootSectors
          /\ t = b.total /\ z = RootZero /\ n = b.spc
          /\ G <= F /\ F <= G + 1 /\ R + 2 * F + r <= t /\ t + o <= l + 1
          /\ r + 2 <= z /\ n + 2 <= z /\ (os = 32 => r = 0)
          /\ SectorRootDir(b) = R + 2 * F
    <3>1. /\ FatSizeSectors(b) \in Nat \ {0} /\ FirstFat(b) \in 1 .. FatSizeSectors(b)
          /\ FatSizeSectors(b) <= FirstFat(b) + 1
          /\ b.total + o = disk.last + 1
          /\ Reserved + 2 * FatSizeSectors(b) + b.rootSectors <= b.total
      BY <1>1, <1>5, RoomNumbers
    <3>2. /\ b.rootSectors \in Nat /\ b.spc \in Nat \ {0} /\ b.spc + 2 <= RootZero
          /\ b.rootSectors <= RootSectors /\ b \in BootFields
          /\ (os = 32 => b.rootSectors = 0)
          /\ SectorRootDir(b) = Reserved + 2 * FatSizeSectors(b)
      BY <1>1, <1>5, FatNumbers
    <3>3. disk.last \in Nat /\ disk.last <= l
      <4>1. first[cur] \in Nat /\ disk.last \in first[cur] .. last[cur]
        BY <1>1, WorkNumbers
      <4> QED
        BY <4>1
    <3>4. b.total \in Nat
      BY <3>2 DEF BootFields
    <3>5. /\ FirstFat(b) \in Nat \ {0} /\ FirstFat(b) <= FatSizeSectors(b)
          /\ b.total + o <= l + 1 /\ b.rootSectors + 2 <= RootZero
      BY <3>1, <3>2, <3>3, <3>4, VolumeNumbers
    <3>6. Reserved \in Nat \ {0} /\ RootZero \in Nat
      BY VolumeNumbers
    <3> QED
      BY <3>1, <3>2, <3>4, <3>5, <3>6
  <2>3. /\ \A k \in 0 .. F - 1 : Far(R + k) = R + k
        /\ \A k \in 0 .. z - 1 : /\ Far(R + 2 * F + k) = R + 2 * F + k
                                 /\ Far(R + 2 * G + k) = R + 2 * G + k
    BY <1>1, <1>5, <2>2, RoomNumbers
  <2>4. \A s \in S : \E k \in 0 .. F - 1 : s = o + (R + k)
    BY <1>5, <2>1, <2>2, <2>3 DEF FatSectors
  <2>5. \A s \in S : s \in Nat /\ o < s /\ s < o + (R + F) /\ s <= l
    <3> SUFFICES ASSUME NEW s \in S PROVE s \in Nat /\ o < s /\ s < o + (R + F) /\ s <= l
      OBVIOUS
    <3>1. PICK k \in 0 .. F - 1 : s = o + (R + k)
      BY <2>4
    <3> HIDE DEF S
    <3> QED
      BY <2>2, <3>1
  <2>6. table' = table
    <3>1. 0 \notin S
      <4> HIDE DEF S
      <4> QED
        BY <2>5
    <3> QED
      BY <1>1, <3>1 DEF Write
  <2>7. o \in DOMAIN img' /\ img'[o] = BootRec(b)
    <3> HIDE DEF S
    <3>1. o \notin S
      BY <2>5
    <3> QED
      BY <1>1, <1>2, <3>1 DEF Write
  <2>8. \A s \in S : s \in 0 .. l /\ s \in DOMAIN img' /\ img'[s] = FatOf(p, os)
    <3> HIDE DEF S
    <3> QED
      BY <1>1, <2>5 DEF Write
  <2>9. ASSUME TotalClusters(b) > 0, NEW s \in RootFrom(o, b, RootSize(b, os))
        PROVE  s \in 0 .. l /\ s \in DOMAIN img' /\ img'[s] = Zero
    <3>1. PICK q \in Nat : q = RootSize(b, os) /\ (q = n \/ q = r) /\ (os = 32 => q = n)
                           /\ (os # 32 => q = r)
      BY <2>2 DEF RootSize
    <3>2. PICK k \in 0 .. q - 1 : s = o + (R + 2 * F + k)
      <4>1. PICK k \in 0 .. q - 1 : s = o + Far(SectorRootDir(b) + k)
        BY <2>9, <3>1 DEF RootFrom
      <4>2. k \in 0 .. z - 1
        BY <2>2, <3>1
      <4>3. Far(SectorRootDir(b) + k) = R + 2 * F + k
        BY <2>2, <2>3, <4>2
      <4> QED
        BY <4>1, <4>3
    <3>3. PICK j \in 0 .. z - 1 : R + 2 * F + k = R + 2 * G + j
      <4>1. PICK i \in 0 .. 1 : F = G + i
        <5>1. F - G \in 0 .. 1 /\ F = G + (F - G)
          BY <2>2
        <5> QED
          BY <5>1
      <4>2. 2 * i + k \in 0 .. z - 1 /\ R + 2 * F + k = R + 2 * G + (2 * i + k)
        BY <2>2, <3>1, <4>1
      <4> QED
        BY <4>2
    <3>4. s \in DOMAIN img /\ img[s] = Zero
      <4>1. s = disk.offset + Far(Reserved + 2 * FirstFat(b) + j) /\ j \in 0 .. RootZero - 1
        BY <2>2, <2>3, <3>2, <3>3
      <4> QED
        BY <2>1, <4>1 DEF RootMade
    <3>5. s \in Nat /\ s \notin S
      <4> HIDE DEF S
      <4>1. s \in Nat /\ ~(s < o + (R + F))
        BY <2>2, <3>2
      <4> QED
        BY <2>5, <4>1
    <3>6. s <= l
      <4>1. CASE os # 32
        BY <2>2, <3>1, <3>2, <4>1
      <4>2. CASE os = 32
        <5>1. PICK d \in Nat : d = t - (R + 2 * F + r)
          <6>1. t - (R + 2 * F + r) \in Nat
            BY <2>2
          <6> QED
            BY <6>1
        <5>2. d < Word
          <6>1. t < Word
            <7>1. o \in Nat /\ l + 1 < Word /\ Word \in Nat
              BY <1>1, WorkNumbers, ConstantsAreNumbers
            <7> QED
              BY <2>2, <7>1
          <6> QED
            BY <2>2, <5>1, <6>1, ConstantsAreNumbers
        <5>3. SectorCountData(b) = d
          <6>1. d < Big
            BY <5>2, ConstantsAreNumbers
          <6>2. SectorCountData(b) = d % Big
            BY <2>2, <5>1 DEF SectorCountData
          <6> QED
            BY <6>1, <6>2, NoWrapping, ConstantsAreNumbers
        <5>4. PICK c \in Nat : c = d \div n /\ c * n <= d /\ c <= d
          BY Quotient, DivGrows
        <5>5. TotalClusters(b) = c
          <6>1. c < Word
            BY <5>2, <5>4, ConstantsAreNumbers
          <6> QED
            BY <2>2, <5>3, <5>4, <6>1, U32IsSmall DEF TotalClusters
        <5>6. n <= d
          <6>1. 1 <= c
            BY <2>9, <5>5
          <6>2. 1 * n <= c * n /\ c * n \in Nat /\ 1 * n = n
            BY <6>1, Times
          <6> QED
            BY <5>4, <6>2
        <5> QED
          BY <2>2, <3>1, <3>2, <4>2, <5>1, <5>6
      <4> QED
        BY <4>1, <4>2
    <3>7. s \in DOMAIN img' /\ img'[s] = Zero
      <4> HIDE DEF S
      <4> QED
        BY <1>1, <3>4, <3>5 DEF Write
    <3> QED
      BY <3>5, <3>6, <3>7
  <2>10. \A s \in S : s \in Nat /\ o < s
    <3> HIDE DEF S
    <3> QED
      BY <2>5
  <2> QED
    BY <1>3, <1>5, <2>1, <2>6, <2>7, <2>8, <2>9, <2>10
<1> QED
  BY <1>4, <1>5

\* The volume that has been formatted becomes one of those that are kept.
LEMMA CloseKeeps ==
  ASSUME KeepInv, Sane, Close
  PROVE  Keeping'
<1>1. PICK p, b, os, o, l : p = cur /\ b = disk.boot.of /\ os = ask[cur].os /\ o = disk.offset
                            /\ l = last[cur]
  OBVIOUS
<1>2. /\ pc = "close" /\ pc \in Entered \ {"loader", "record"} /\ pc \notin BetweenPartitions
      /\ VolumeMade /\ EntryMade /\ AtWork /\ DOMAIN table = Parts
      /\ \A q \in DOMAIN made : q < p /\ Kept(q)
      /\ pc' = "begin" /\ cur' = p + 1
      /\ UNCHANGED <<ask, size, last>>
      /\ Write(IF os = NotFat THEN {} ELSE FatSectors(o, b), FatOf(p, os))
  BY <1>1 DEF Close, Entered, BetweenPartitions, Placing, KeepInv, Keeping, args, layout
<1>3. /\ p \in Parts /\ o \in Nat /\ l \in Nat /\ first[cur] \in Nat /\ first[cur] <= o
      /\ size[p] # 0 /\ o + 1 <= l
  BY <1>1, <1>2, WorkNumbers
<1>4. /\ table' = table
      /\ \A s \in IF os = NotFat THEN {} ELSE FatSectors(o, b) : s \in Nat /\ o < s
      /\ o \in 0 .. l /\ o \in DOMAIN img' /\ img'[o] = BootRec(b)
      /\ os # NotFat
           => /\ FatType(b, os) = os
              /\ \A s \in FatSectors(o, b) :
                   s \in 0 .. l /\ s \in DOMAIN img' /\ img'[s] = FatOf(p, os)
              /\ TotalClusters(b) > 0
                   => \A s \in RootFrom(o, b, RootSize(b, os)) :
                        s \in 0 .. l /\ s \in DOMAIN img' /\ img'[s] = Zero
  BY <1>1, <1>3, VolumeWhole
<1>5. PICK m : m.offset = o /\ m.boot = b /\ made' = [q \in DOMAIN made \cup {p} |->
                                                       IF q = p THEN m ELSE made[q]]
  <2> DEFINE m == [offset |-> o, boot |-> b, entry |-> disk.parts[cur],
                   first |-> disk.first, last |-> disk.last]
  <2>1. made' = [q \in DOMAIN made \cup {p} |-> IF q = p THEN m ELSE made[q]]
    BY <1>1 DEF Close
  <2>2. m.offset = o /\ m.boot = b
    OBVIOUS
  <2> HIDE DEF m
  <2> QED
    BY <2>1, <2>2
<1>6. \A q \in DOMAIN made : q # p /\ q \in Parts
  BY <1>1, <1>2, WorkNumbers
<1>7. ASSUME NEW q \in DOMAIN made PROVE Kept(q)'
  <2>1. made'[q] = made[q]
    BY <1>5, <1>6
  <2>2. PICK S : S = (IF os = NotFat THEN {} ELSE FatSectors(o, b))
    OBVIOUS
  <2>3. Write(S, FatOf(p, os)) /\ \A s \in S : s \in Nat /\ first[cur] <= s
    <3>1. \A s \in S : s \in Nat /\ o < s
      BY <1>4, <2>2
    <3>2. \A s \in S : s \in Nat /\ first[cur] <= s
      BY <1>3, <3>1
    <3> QED
      BY <1>2, <2>2, <3>2
  <2> QED
    BY <1>2, <2>1, <2>3, WriteSpares
<1>8. Kept(p)'
  <2>1. made'[p] = m
    BY <1>5
  <2>2. table'[p] = NewEntry
    BY <1>1, <1>2, <1>4 DEF EntryMade
  <2>3. PICK c : NewEntry = [os |-> os, lba |-> o, count |-> c] /\ c = U32(SectorCount - disk.mbr)
    BY <1>1, <1>2, WorkNumbers
  <2>4. table'[p] # Empty
    <3> SUFFICES ASSUME table'[p] = Empty PROVE FALSE
      OBVIOUS
    <3>1. o = 0 /\ c = 0
      BY <2>2, <2>3 DEF Empty
    <3>2. disk.mbr = 0 /\ SectorCount \in Nat \ {0}
      <4>1. /\ first[cur] \in Nat /\ disk.mbr \in Nat /\ disk.offset = first[cur] + disk.mbr
            /\ disk.first = first[cur] /\ disk.last \in first[cur] .. last[cur]
            /\ last[cur] \in Nat
            /\ SectorCount = disk.last - disk.first + 1
        BY <1>2, WorkNumbers
      <4>2. PICK f \in Nat, k \in Nat, d \in Nat :
              /\ f = first[cur] /\ k = disk.mbr /\ d = disk.last /\ f <= d
              /\ o = f + k /\ SectorCount = d - f + 1
        <5>1. disk.last \in Nat /\ first[cur] <= disk.last
          BY <4>1
        <5> QED
          BY <1>1, <4>1, <5>1
      <4>3. k = 0 /\ d - f + 1 \in Nat \ {0}
        <5>1. f + k = 0
          BY <3>1, <4>2
        <5> QED
          BY <4>2, <5>1
      <4> QED
        BY <4>2, <4>3
    <3>3. U32(SectorCount - disk.mbr) = SectorCount - disk.mbr
      <4>1. disk.mbr <= SectorCount
        BY <3>2
      <4> QED
        BY <1>2, <4>1, EntryEnd
    <3>4. SectorCount - disk.mbr = SectorCount
      BY <3>2
    <3> QED
      BY <2>3, <3>1, <3>2, <3>3, <3>4
  <2>5. table'[p].os = os /\ table'[p].lba = o
    BY <2>2, <2>3
  <2>6. Far(o) = o
    <3>1. PICK e \in Nat : e = l + 1
      BY <1>3
    <3>2. e * SectorSize <= total /\ total + SectorSize * RootZero <= Word /\ total \in Nat
      BY <1>1, <1>2, <3>1, WorkNumbers DEF KeepInv, CoverInv, InsideInv, TypeInv, TypeOK
    <3>3. o <= e /\ 0 \in 0 .. RootZero - 1 /\ o + 0 = o
      BY <1>3, <3>1, VolumeNumbers
    <3> QED
      BY <1>3, <3>1, <3>2, <3>3, NearEnd
  <2>7. last'[p] = l
    BY <1>1, <1>2
  <2>8. b.spc # 0
    BY <1>1, <1>2 DEF VolumeMade, BootMade, BootFields
  <2>9. Keeps(p, {o}, BootRec(b))'
    BY <1>4, <2>7 DEF Keeps
  <2>10. ASSUME os # NotFat
         PROVE  /\ Keeps(p, FatSectors(o, b), FatOf(p, os))'
                /\ TotalClusters(b) > 0 => Keeps(p, RootFrom(o, b, RootSize(b, os)), Zero)'
    BY <1>4, <2>7, <2>10 DEF Keeps
  <2>11. Whole(p, m, os)'
    BY <1>4, <1>5, <2>4, <2>5, <2>6, <2>8, <2>9, <2>10 DEF Whole
  <2>12. ask'[p].os = os /\ size'[p] # 0
    BY <1>1, <1>2, <1>3
  <2> QED
    BY <1>3, <2>1, <2>11, <2>12 DEF Kept
<1>9. \A q \in DOMAIN made' : q < p + 1 /\ Kept(q)'
  <2>1. \A q \in Parts : q \in Int
    BY ConstantsAreNumbers DEF Parts
  <2>2. DOMAIN made' = DOMAIN made \cup {p}
    BY <1>5
  <2>3. \A q \in DOMAIN made : q < p + 1
    BY <1>2, <1>3, <1>6, <2>1
  <2>4. p < p + 1
    BY <1>3, <2>1
  <2> QED
    BY <1>7, <1>8, <2>2, <2>3, <2>4
<1> QED
  BY <1>2, <1>4, <1>9 DEF Keeping, BetweenPartitions, Entered

\* Opening the volumes again writes nothing.
LEMMA SummaryKeeps ==
  ASSUME KeepInv, Sane, Summary
  PROVE  Keeping'
<1>1. pc' \in {"died", "done"} /\ UNCHANGED <<args, layout, cur, disk, zap, img, table, made>>
  BY DEF Summary
<1> QED
  BY <1>1, StopKeeps

\* While the partitions are placed nothing is written.
LEMMA PlacingKeeps ==
  ASSUME KeepInv, table = NoTable, pc \in Placing, [Next]_vars
  PROVE  /\ DOMAIN made' = {} /\ table' = NoTable
         /\ pc' \in Placing \cup {"begin"} /\ Keeping'
<1>1. made' = made /\ table' = table /\ pc' \in Placing \cup {"begin"}
  BY DEF Next, vars, Placing, Default, Share, Fit, Place, Begin, ZeroChunk, ZeroEnd, Entry,
     WriteLoader, MakeBoot, ZeroRoot, GrowFat, MarkFat, WriteBoot, WriteTable, Close, Summary
<1>2. DOMAIN made = {}
  BY DEF KeepInv
<1>3. DOMAIN table' = Parts
  BY <1>1 DEF NoTable
<1>4. pc' \in BetweenPartitions /\ pc' \notin Entered
  BY <1>1 DEF Placing, BetweenPartitions, Entered
<1> QED
  BY <1>1, <1>2, <1>3, <1>4 DEF Keeping

\* Every step keeps the volumes that have been formatted.
LEMMA KeepSteps == KeepInv /\ [Next]_vars => KeepInv'
<1> SUFFICES ASSUME KeepInv, [Next]_vars PROVE KeepInv'
  OBVIOUS
<1>1. CoverInv' /\ ApartInv' /\ Extents' /\ TypeInv
  BY CoverSteps, ApartSteps, ExtentsStay DEF KeepInv, ApartInv
<1>2. UNCHANGED args
  BY DEF Next, vars, Default, Share, Fit, Place, Begin, ZeroChunk, ZeroEnd, Entry,
     WriteLoader, MakeBoot, ZeroRoot, GrowFat, MarkFat, WriteBoot, WriteTable, Close,
     Summary, Die
<1>3. CASE pc \in Placing
  <2>1. table = NoTable
    BY <1>3 DEF KeepInv
  <2> QED
    BY <1>1, <1>3, <2>1, PlacingKeeps DEF KeepInv
<1>4. CASE pc \notin Placing
  <2>1. pc' \notin Placing /\ UNCHANGED <<ask, total, used, size, first, last, next>>
    BY <1>1, <1>4, LayoutStays
  <2>2. Sane' <=> Sane
    BY <1>2, <2>1 DEF args, Sane, Fits, Roomy, Mbr, Sectors, InReach
  <2>3. ASSUME Sane PROVE Keeping'
    <3>1. CASE UNCHANGED vars
      <4>1. Keeping
        BY <2>3 DEF KeepInv
      <4>2. UNCHANGED <<ask, total, pad, used, size, first, last, next, pc, cur, disk, zap,
                        img, table, made>>
        BY <3>1 DEF vars, args, layout
      <4>3. \A p \in DOMAIN made' : p < cur' /\ Kept(p)'
        BY <4>1, <4>2, KeptStays DEF Keeping
      <4>4. /\ AtWork' <=> AtWork
            /\ EntryMade' <=> EntryMade
            /\ VolumeMade' <=> VolumeMade
        BY <4>2 DEF AtWork, EntryMade, VolumeMade, Mbr, NewEntry, SectorCount, BootMade,
           FatMade, RootMade, FirstFat, HasRoom
      <4> QED
        BY <4>1, <4>2, <4>3, <4>4 DEF Keeping
    <3>2. CASE Next
      BY <1>4, <2>3, <3>2, BeginKeeps, ZeroKeeps, EntryKeeps, LoaderKeeps, MakeBootKeeps,
         ZeroRootKeeps, GrowKeeps, MarkKeeps, WriteBootKeeps, WriteTableKeeps, CloseKeeps,
         SummaryKeeps DEF Next, Default, Share, Fit, Place, Placing
    <3> QED
      BY <3>1, <3>2
  <2> QED
    BY <1>1, <2>1, <2>2, <2>3 DEF KeepInv
<1> QED
  BY <1>3, <1>4

\* Before the first volume there is none to keep.
LEMMA InitKeeps == Init => KeepInv
<1> SUFFICES ASSUME Init PROVE KeepInv
  OBVIOUS
<1>1. pc = "default" /\ made = <<>> /\ table = NoTable /\ ~IsLaidOut
  BY DEF Init, IsLaidOut
<1>2. CoverInv
  BY InitCovers
<1>3. ApartInv
  BY <1>1, InitTypes DEF ApartInv, PartitionsApart
<1>4. Extents
  BY <1>1 DEF Extents
<1>5. DOMAIN made = {}
  BY <1>1
<1>6. Keeping
  BY <1>1, <1>5 DEF Keeping, NoTable, BetweenPartitions, Placing, Entered
<1> QED
  BY <1>1, <1>2, <1>3, <1>4, <1>5, <1>6 DEF KeepInv

\* A kept volume is found where its entry says.
LEMMA KeptIsFound ==
  ASSUME NEW p \in DOMAIN made, Kept(p)
  PROVE  /\ Query({p}) = made[p].offset
         /\ img[made[p].offset] = BootRec(made[p].boot)
         /\ table[p].os = ask[p].os
<1>1. PICK m, os : m = made[p] /\ os = ask[p].os
  OBVIOUS
<1>2. /\ p \in Parts /\ table[p] # Empty /\ table[p].os = os /\ Far(table[p].lba) = m.offset
      /\ m.boot.spc # 0 /\ m.offset \in DOMAIN img /\ img[m.offset] = BootRec(m.boot)
  BY <1>1 DEF Kept, Whole, Keeps
<1>3. Viable(Far(table[p].lba))
  <2>1. BootRec(m.boot).kind = "boot" /\ BootRec(m.boot).of = m.boot
    BY DEF BootRec
  <2> QED
    BY <1>2, <2>1 DEF Viable
<1>4. {q \in {p} : table[q] # Empty /\ Viable(Far(table[q].lba))} = {p}
  BY <1>2, <1>3
<1>5. Min({p}) = p
  <2>1. p \in Int
    BY <1>2, ConstantsAreNumbers DEF Parts
  <2> QED
    BY <2>1 DEF Min
<1>6. Query({p}) = Far(table[p].lba)
  BY <1>4, <1>5 DEF Query
<1> QED
  BY <1>1, <1>2, <1>6

\* Every volume that format has made is found where its entry says, is opened as
\* what it was made as, and keeps its boot record and its FAT, while the ones
\* after it are formatted and whatever stops the program (command.c:767-1160,
\* fat.c:3265-3520).
THEOREM VolumesStayWhole == Spec => []VolumesKept
<1>1. KeepInv => VolumesKept
  <2> SUFFICES ASSUME KeepInv, Sane, NEW p \in DOMAIN made
               PROVE  /\ Query({p}) = made[p].offset
                      /\ img[made[p].offset] = BootRec(made[p].boot)
                      /\ ask[p].os # NotFat
                           => /\ FatType(img[made[p].offset].of, table[p].os) = ask[p].os
                              /\ \A s \in FatSectors(made[p].offset, made[p].boot) :
                                   img[s] = FatOf(p, ask[p].os)
    BY DEF VolumesKept
  <2>1. Kept(p)
    BY DEF KeepInv, Keeping
  <2>2. /\ Query({p}) = made[p].offset /\ img[made[p].offset] = BootRec(made[p].boot)
        /\ table[p].os = ask[p].os
    BY <2>1, KeptIsFound
  <2>3. img[made[p].offset].of = made[p].boot
    BY <2>2 DEF BootRec
  <2> QED
    BY <2>1, <2>2, <2>3 DEF Kept, Whole, Keeps
<1> QED
  BY <1>1, InitKeeps, KeepSteps, PTL DEF Spec

\* The root directory of every volume is blank, whatever was on the disk, though
\* it is zeroed where it would be with the first FATs, and the FATs may then
\* grow by a sector each (fat.c:3372, fat.c:3422).
THEOREM RootsStayEmpty == Spec => []RootEmpty
<1>1. KeepInv => RootEmpty
  <2> SUFFICES ASSUME KeepInv, Sane, NEW p \in DOMAIN made, ask[p].os # NotFat,
                      TotalClusters(made[p].boot) > 0
               PROVE  \A s \in RootFrom(made[p].offset, made[p].boot,
                                        RootSize(made[p].boot, ask[p].os)) :
                        img[s] = Zero
    BY DEF RootEmpty, RootSize
  <2>1. Kept(p)
    BY DEF KeepInv, Keeping
  <2> QED
    BY <2>1 DEF Kept, Whole, Keeps
<1> QED
  BY <1>1, InitKeeps, KeepSteps, PTL DEF Spec
=============================================================================
