--------------------------- MODULE FatEntryProofs ---------------------------
(***************************************************************************)
(* Proofs about FatEntry, for every geometry: each entry of the FAT is a   *)
(* cell of its own, and the FAT is large enough for the entries in use.    *)
(***************************************************************************)
EXTENDS FatEntry, TLAPS

\* What is needed of a state to reason about its entries.
Loaded ==
  /\ type \in {12, 16, 32}
  /\ FatBytes \in Nat \ {0}
  /\ fat \in [0 .. (FatBytes - 1) -> 0 .. 255]

----------------------------------------------------------------------------
(* Arithmetic.                                                             *)

\* A number and its quotient and remainder by 256.
LEMMA LastByte ==
  ASSUME NEW w \in Nat
  PROVE  /\ w \div 256 \in Nat /\ w % 256 \in Nat /\ w % 256 <= 255
         /\ w = (w % 256) + 256 * (w \div 256)
BY SMT

\* The number that has the bytes a, b, c and d, the lowest first.
Join(a, b, c, d) == a + 256 * b + 65536 * c + 16777216 * d

\* ByteOf finds the bytes of a number that is given byte by byte.
LEMMA BytesOfJoin ==
  ASSUME NEW a \in Nat, NEW b \in Nat, NEW c \in Nat, NEW d \in Nat,
         a <= 255, b <= 255, c <= 255, d <= 255
  PROVE  /\ ByteOf(Join(a, b, c, d), 0) = a /\ ByteOf(Join(a, b, c, d), 1) = b
         /\ ByteOf(Join(a, b, c, d), 2) = c /\ ByteOf(Join(a, b, c, d), 3) = d
<1> DEFINE w == a + 256 * b + 65536 * c + 16777216 * d
<1>1. w % 256 = a /\ w \div 256 = b + 256 * c + 65536 * d
  BY SMT
<1>2. w \div 65536 = c + 256 * d /\ w \div 16777216 = d
  BY SMT
<1>3. (b + 256 * c + 65536 * d) % 256 = b /\ (c + 256 * d) % 256 = c /\ d % 256 = d
  BY SMT
<1> QED
  BY <1>1, <1>2, <1>3, SMT DEF ByteOf, Join

\* Splitting a number of 32 bits in bytes and joining them gives it back.
LEMMA FourBytes ==
  ASSUME NEW w \in Nat, w <= 268435455
  PROVE  /\ \A k \in 0 .. 3 : ByteOf(w, k) \in Nat /\ ByteOf(w, k) <= 255
         /\ w = ByteOf(w, 0) + 256 * ByteOf(w, 1) + 65536 * ByteOf(w, 2)
                  + 16777216 * ByteOf(w, 3)
<1> DEFINE q == w \div 256  r == q \div 256
           a == w % 256  b == q % 256  c == r % 256  d == r \div 256
<1>1. q \in Nat /\ a \in Nat /\ a <= 255 /\ w = a + 256 * q
  BY LastByte, SMT
<1>2. r \in Nat /\ b \in Nat /\ b <= 255 /\ q = b + 256 * r
  BY <1>1, LastByte, SMT
<1>3. c \in Nat /\ d \in Nat /\ c <= 255 /\ r = c + 256 * d
  BY <1>2, LastByte, SMT
<1> HIDE DEF q, r, a, b, c, d
<1>4. w = a + 256 * b + 65536 * c + 16777216 * d /\ d <= 255
  BY <1>1, <1>2, <1>3, SMT
<1>5. w = Join(a, b, c, d)
  BY <1>4, SMT DEF Join
<1>6. /\ ByteOf(Join(a, b, c, d), 0) = a /\ ByteOf(Join(a, b, c, d), 1) = b
      /\ ByteOf(Join(a, b, c, d), 2) = c /\ ByteOf(Join(a, b, c, d), 3) = d
  BY <1>1, <1>2, <1>3, <1>4, BytesOfJoin, SMT
<1>7. /\ ByteOf(w, 0) = a /\ ByteOf(w, 1) = b
      /\ ByteOf(w, 2) = c /\ ByteOf(w, 3) = d
  BY <1>5, <1>6, SMT
<1>8. \A k \in 0 .. 3 : k = 0 \/ k = 1 \/ k = 2 \/ k = 3
  BY SMT
<1> QED
  BY <1>1, <1>2, <1>3, <1>4, <1>7, <1>8, SMT

\* The same for 16 bits and two bytes.
LEMMA TwoBytes ==
  ASSUME NEW w \in Nat, w <= 65535
  PROVE  w = ByteOf(w, 0) + 256 * ByteOf(w, 1)
<1>1. (w \div 256) % 256 = w \div 256
  BY SMT
<1> QED
  BY <1>1, LastByte, SMT DEF ByteOf

\* An even entry of FAT12 has a byte and the lower half of the next.  Storing v
\* in it gives v back, and keeps the other half for whoever reads it.
LEMMA EvenEntry ==
  ASSUME NEW a \in Nat, NEW b \in Nat, NEW v \in Nat, NEW x \in Nat,
         a <= 255, b <= 255, v <= 4095,
         NEW w, w = (v % 4096) + 4096 * ((a + 256 * b) \div 4096)
  PROVE  /\ w \in Nat /\ w <= 65535
         /\ (ByteOf(w, 0) + 256 * ByteOf(w, 1)) % 4096 = v
         /\ (ByteOf(w, 1) + 256 * x) \div 16 = (b + 256 * x) \div 16
<1> DEFINE b0 == b % 16  b1 == b \div 16  v0 == v % 256  v1 == v \div 256
<1>1. b0 \in Nat /\ b1 \in Nat /\ b0 <= 15 /\ b1 <= 15 /\ b = b0 + 16 * b1
  BY SMT
<1>2. v0 \in Nat /\ v1 \in Nat /\ v0 <= 255 /\ v1 <= 15 /\ v = v0 + 256 * v1
  BY SMT
<1> HIDE DEF b0, b1, v0, v1
<1>3. (a + 256 * b) \div 4096 = b1 /\ v % 4096 = v
  BY <1>1, SMT
<1>4. w = v0 + 256 * (v1 + 16 * b1)
  BY <1>1, <1>2, <1>3, SMT
<1>5. w \in Nat /\ w <= 65535
  BY <1>1, <1>2, <1>4, SMT
<1>6. ByteOf(w, 0) = v0 /\ ByteOf(w, 1) = v1 + 16 * b1
  <2>1. v1 + 16 * b1 \in Nat /\ v1 + 16 * b1 <= 255
    BY <1>1, <1>2, SMT
  <2>2. w = Join(v0, v1 + 16 * b1, 0, 0)
    BY <1>2, <1>4, <2>1, SMT DEF Join
  <2> QED
    BY <1>2, <2>1, <2>2, BytesOfJoin, SMT
<1>7. (v0 + 256 * (v1 + 16 * b1)) % 4096 = v
  BY <1>1, <1>2, SMT
<1>8. (v1 + 16 * b1 + 256 * x) \div 16 = b1 + 16 * x
  BY <1>1, <1>2, SMT
<1>9. (b0 + 16 * b1 + 256 * x) \div 16 = b1 + 16 * x
  BY <1>1, SMT
<1> QED
  BY <1>1, <1>2, <1>5, <1>6, <1>7, <1>8, <1>9, SMT

\* An odd entry of FAT12 has the upper half of a byte, and the next byte.
LEMMA OddEntry ==
  ASSUME NEW a \in Nat, NEW b \in Nat, NEW v \in Nat, NEW x \in Nat,
         a <= 255, b <= 255, v <= 4095, x <= 255,
         NEW w, w = 16 * v + ((a + 256 * b) % 16)
  PROVE  /\ w \in Nat /\ w <= 65535
         /\ (ByteOf(w, 0) + 256 * ByteOf(w, 1)) \div 16 = v
         /\ (x + 256 * ByteOf(w, 0)) % 4096 = (x + 256 * a) % 4096
<1> DEFINE a0 == a % 16  a1 == a \div 16  v0 == v % 16  v1 == v \div 16
<1>1. a0 \in Nat /\ a1 \in Nat /\ a0 <= 15 /\ a1 <= 15 /\ a = a0 + 16 * a1
  BY SMT
<1>2. v0 \in Nat /\ v1 \in Nat /\ v0 <= 15 /\ v1 <= 255 /\ v = v0 + 16 * v1
  BY SMT
<1> HIDE DEF a0, a1, v0, v1
<1>3. (a + 256 * b) % 16 = a0
  BY <1>1, SMT
<1>4. w = (a0 + 16 * v0) + 256 * v1
  BY <1>1, <1>2, <1>3, SMT
<1>5. w \in Nat /\ w <= 65535
  BY <1>1, <1>2, <1>4, SMT
<1>6. ByteOf(w, 0) = a0 + 16 * v0 /\ ByteOf(w, 1) = v1
  <2>1. a0 + 16 * v0 \in Nat /\ a0 + 16 * v0 <= 255
    BY <1>1, <1>2, SMT
  <2>2. w = Join(a0 + 16 * v0, v1, 0, 0)
    BY <1>2, <1>4, <2>1, SMT DEF Join
  <2> QED
    BY <1>2, <2>1, <2>2, BytesOfJoin, SMT
<1>7. ((a0 + 16 * v0) + 256 * v1) \div 16 = v
  BY <1>1, <1>2, SMT
<1>8. (x + 256 * (a0 + 16 * v0)) % 4096 = x + 256 * a0
  BY <1>1, <1>2, SMT
<1>9. (x + 256 * (a0 + 16 * a1)) % 4096 = x + 256 * a0
  BY <1>1, SMT
<1>10. (x + 256 * ByteOf(w, 0)) % 4096 = (x + 256 * a) % 4096
  BY <1>1, <1>6, <1>8, <1>9
<1> QED
  BY <1>5, <1>6, <1>7, <1>10

\* What Packed makes of v for an odd entry of FAT12.
OddWord(a, b, v) == 16 * v + ((a + 256 * b) % 16)

\* The half of a shared byte that is not the odd entry's is kept, whatever is
\* stored: the bits that an entry has no room for are lost, not spilled.
LEMMA OddKeepsOther ==
  ASSUME NEW a \in Nat, NEW b \in Nat, NEW v \in Nat, NEW x \in Nat,
         a <= 255, b <= 255, x <= 255
  PROVE  (x + 256 * ByteOf(OddWord(a, b, v), 0)) % 4096 = (x + 256 * a) % 4096
<1> DEFINE a0 == a % 16  a1 == a \div 16  v0 == v % 16  v1 == v \div 16
<1>1. a0 \in Nat /\ a1 \in Nat /\ a0 <= 15 /\ a1 <= 15 /\ a = a0 + 16 * a1
  BY SMT
<1>2. v0 \in Nat /\ v1 \in Nat /\ v0 <= 15 /\ v = v0 + 16 * v1
  BY SMT
<1> HIDE DEF a0, a1, v0, v1
<1>3. (a + 256 * b) % 16 = a0
  BY <1>1, SMT
<1>4. (16 * v + a0) % 256 = a0 + 16 * v0
  BY <1>1, <1>2, SMT
<1>5. (x + 256 * (a0 + 16 * v0)) % 4096 = x + 256 * a0
  BY <1>1, <1>2, SMT
<1>6. (x + 256 * (a0 + 16 * a1)) % 4096 = x + 256 * a0
  BY <1>1, SMT
<1>7. (x + 256 * a) % 4096 = x + 256 * a0
  BY <1>1, <1>6
<1>8. ByteOf(OddWord(a, b, v), 0) = a0 + 16 * v0
  BY <1>3, <1>4 DEF ByteOf, OddWord
<1> QED
  BY <1>5, <1>7, <1>8

----------------------------------------------------------------------------
(* Where entries are.                                                      *)

\* An entry that fits does not wrap around.
LEMMA PlaceIsOffset ==
  ASSUME Loaded, NEW c \in Nat, Fits(c)
  PROVE  /\ Place(c) = Offset(c)
         /\ Offset(c) \in Nat
         /\ Offset(c) .. (Offset(c) + EntryBytes - 1) \subseteq DOMAIN fat
<1>1. Offset(c) \in Nat
  BY DEF Offset, Loaded
<1>2. EntryBytes \in {2, 4} /\ Offset(c) + EntryBytes <= FatBytes
  BY DEF Fits, EntryBytes
<1>3. Offset(c) % FatBytes = Offset(c)
  <2>1. \A a \in Nat, b \in Nat \ {0} : a < b => a % b = a
    BY SMT
  <2> QED
    BY <1>1, <1>2, <2>1 DEF Loaded
<1>4. DOMAIN fat = 0 .. (FatBytes - 1)
  BY DEF Loaded
<1>5. Offset(c) .. (Offset(c) + EntryBytes - 1) \subseteq 0 .. (FatBytes - 1)
  BY <1>1, <1>2, SMT DEF Loaded
<1> QED
  BY <1>1, <1>3, <1>4, <1>5 DEF Place

\* Setting an entry that fits changes its own bytes and no other.
LEMMA SetBytes ==
  ASSUME Loaded, NEW c \in Nat, Fits(c), NEW v, ClusterNextSet(c, v)
  PROVE  /\ DOMAIN fat' = DOMAIN fat
         /\ \A i \in DOMAIN fat :
              fat'[i] = IF i \in Offset(c) .. (Offset(c) + EntryBytes - 1)
                        THEN ByteOf(Packed(c, v), i - Offset(c)) ELSE fat[i]
BY PlaceIsOffset DEF ClusterNextSet

\* The number that is in the bytes f from place p on.
ReadEntry(t, odd, f, p) ==
  IF t = 12
  THEN IF odd THEN (f[p] + 256 * f[p + 1]) \div 16
              ELSE (f[p] + 256 * f[p + 1]) % 4096
  ELSE IF t = 16 THEN f[p] + 256 * f[p + 1]
  ELSE (f[p] + 256 * f[p + 1]) + 65536 * ((f[p + 2] + 256 * f[p + 3]) % 4096)

\* cluster_next reads an entry that fits from its place ...
LEMMA NextReads ==
  ASSUME Loaded, NEW c \in Nat, Fits(c)
  PROVE  ClusterNext(c) = ReadEntry(type, c % 2 = 1, fat, Offset(c))
<1>1. /\ Place(c) = Offset(c) /\ Offset(c) \in Nat
      /\ Offset(c) .. (Offset(c) + EntryBytes - 1) \subseteq DOMAIN fat
  BY PlaceIsOffset, SMT
<1>2. Offset(c) \in DOMAIN fat /\ Offset(c) + 1 \in DOMAIN fat
  BY <1>1, SMT DEF EntryBytes
<1>3. type = 32 => Offset(c) + 2 \in DOMAIN fat /\ (Offset(c) + 2) + 1 \in DOMAIN fat
  BY <1>1, SMT DEF EntryBytes
<1>4. Word(Place(c)) = fat[Offset(c)] + 256 * fat[Offset(c) + 1]
  BY <1>1, <1>2, SMT DEF Word, Byte
<1>5. type = 32 => Word(Place(c) + 2) = fat[Offset(c) + 2] + 256 * fat[Offset(c) + 3]
  <2>1. (Offset(c) + 2) + 1 = Offset(c) + 3
    BY <1>1, SMT
  <2> QED
    BY <1>1, <1>3, <2>1, SMT DEF Word, Byte
<1> QED
  BY <1>4, <1>5, SMT DEF ClusterNext, ClusterNext12, ReadEntry, Loaded

\* ... also after a write.
LEMMA NextReadsAfter ==
  ASSUME Loaded, NEW c \in Nat, Fits(c), UNCHANGED <<type, fatSectors>>,
         DOMAIN fat' = DOMAIN fat
  PROVE  ClusterNext(c)' = ReadEntry(type, c % 2 = 1, fat', Offset(c))
<1>1. /\ Place(c) = Offset(c) /\ Offset(c) \in Nat
      /\ Offset(c) .. (Offset(c) + EntryBytes - 1) \subseteq DOMAIN fat
  BY PlaceIsOffset, SMT
<1>2. Offset(c) \in DOMAIN fat' /\ Offset(c) + 1 \in DOMAIN fat'
  BY <1>1, SMT DEF EntryBytes
<1>3. type = 32 => Offset(c) + 2 \in DOMAIN fat' /\ (Offset(c) + 2) + 1 \in DOMAIN fat'
  BY <1>1, SMT DEF EntryBytes
<1>4. Place(c)' = Offset(c)
  BY <1>1, SMT DEF Place, Offset, FatBytes
<1>5. Word(Place(c))' = fat'[Offset(c)] + 256 * fat'[Offset(c) + 1]
  BY <1>2, <1>4, SMT DEF Word, Byte
<1>6. type = 32 => Word(Place(c) + 2)' = fat'[Offset(c) + 2] + 256 * fat'[Offset(c) + 3]
  <2>1. (Offset(c) + 2) + 1 = Offset(c) + 3
    BY <1>1, SMT
  <2> QED
    BY <1>3, <1>4, <2>1, SMT DEF Word, Byte
<1> QED
  BY <1>5, <1>6, SMT DEF ClusterNext, ClusterNext12, ReadEntry, Loaded

\* cluster_next returns what cluster_next_set has stored.
THEOREM ReadBack ==
  ASSUME Loaded, NEW c \in Nat, Fits(c), NEW v \in Nat, v <= MaxValue,
         ClusterNextSet(c, v), UNCHANGED <<type, fatSectors>>
  PROVE  ClusterNext(c)' = v
<1> DEFINE p == Offset(c)  w == Packed(c, v)
<1>1. /\ Place(c) = p /\ p \in Nat
      /\ p .. (p + EntryBytes - 1) \subseteq DOMAIN fat
  BY PlaceIsOffset
<1>2. ClusterNext(c)' = ReadEntry(type, c % 2 = 1, fat', p)
  BY SetBytes, NextReadsAfter
<1>3. p \in DOMAIN fat /\ p + 1 \in DOMAIN fat
  BY <1>1, SMT DEF EntryBytes
<1>4. fat'[p] = ByteOf(w, 0) /\ fat'[p + 1] = ByteOf(w, 1)
  <2>1. /\ p \in p .. (p + EntryBytes - 1) /\ p + 1 \in p .. (p + EntryBytes - 1)
        /\ p - p = 0 /\ (p + 1) - p = 1
    BY <1>1, SMT DEF EntryBytes
  <2> QED
    BY <1>3, <2>1, SetBytes
<1>5. CASE type = 12
  <2> DEFINE a == fat[p]  b == fat[p + 1]
  <2>1. a \in Nat /\ b \in Nat /\ a <= 255 /\ b <= 255 /\ v <= 4095
    <3>1. DOMAIN fat = 0 .. (FatBytes - 1) /\ \A i \in DOMAIN fat : fat[i] \in 0 .. 255
      BY DEF Loaded
    <3>2. a \in 0 .. 255 /\ b \in 0 .. 255
      BY <1>3, <3>1
    <3>3. v <= 4095
      BY <1>5, SMT DEF MaxValue
    <3> HIDE DEF a, b
    <3> QED
      BY <3>2, <3>3, SMT
  <2>2. Word(Place(c)) = a + 256 * b
    BY <1>1, <1>3 DEF Word, Byte
  <2> HIDE DEF a, b, p
  <2>3. CASE c % 2 = 1
    <3>1. w = 16 * v + ((a + 256 * b) % 16)
      BY <1>5, <2>2, <2>3 DEF Packed
    <3>2. (ByteOf(w, 0) + 256 * ByteOf(w, 1)) \div 16 = v
      BY <2>1, <3>1, OddEntry
    <3> QED
      BY <1>2, <1>4, <1>5, <2>3, <3>2, SMT DEF ReadEntry
  <2>4. CASE c % 2 # 1
    <3>1. w = (v % 4096) + 4096 * ((a + 256 * b) \div 4096)
      BY <1>5, <2>2, <2>4 DEF Packed
    <3>2. (ByteOf(w, 0) + 256 * ByteOf(w, 1)) % 4096 = v
      BY <2>1, <3>1, EvenEntry
    <3> QED
      BY <1>2, <1>4, <1>5, <2>4, <3>2, SMT DEF ReadEntry
  <2> QED
    BY <2>3, <2>4
<1>6. CASE type = 16
  <2>1. w = v /\ v <= 65535
    BY <1>6, SMT DEF Packed, MaxValue
  <2>2. w = ByteOf(w, 0) + 256 * ByteOf(w, 1)
    BY <2>1, TwoBytes
  <2> QED
    BY <1>2, <1>4, <1>6, <2>1, <2>2, SMT DEF ReadEntry
<1>7. CASE type = 32
  <2>1. w = v /\ v <= 268435455
    BY <1>7, SMT DEF Packed, MaxValue
  <2>2. fat'[p + 2] = ByteOf(w, 2) /\ fat'[p + 3] = ByteOf(w, 3)
    <3>1. /\ p + 2 \in p .. (p + EntryBytes - 1) /\ p + 3 \in p .. (p + EntryBytes - 1)
          /\ (p + 2) - p = 2 /\ (p + 3) - p = 3
      BY <1>1, <1>7, SMT DEF EntryBytes
    <3> QED
      BY <1>1, <3>1, SetBytes, SMT
  <2> DEFINE b0 == ByteOf(w, 0)  b1 == ByteOf(w, 1)
             b2 == ByteOf(w, 2)  b3 == ByteOf(w, 3)
  <2>3. /\ b0 \in Nat /\ b1 \in Nat /\ b2 \in Nat /\ b3 \in Nat
        /\ b0 <= 255 /\ b1 <= 255 /\ b2 <= 255
        /\ v = b0 + 256 * b1 + 65536 * b2 + 16777216 * b3
    BY <2>1, FourBytes, SMT
  <2>4. ReadEntry(type, c % 2 = 1, fat', p) = (b0 + 256 * b1) + 65536 * ((b2 + 256 * b3) % 4096)
    BY <1>4, <1>7, <2>2, SMT DEF ReadEntry
  <2> HIDE DEF b0, b1, b2, b3
  <2>5. (b2 + 256 * b3) % 4096 = b2 + 256 * b3
    BY <2>1, <2>3, SMT
  <2> QED
    BY <1>2, <2>3, <2>4, <2>5, SMT
<1> QED
  BY <1>5, <1>6, <1>7, SMT DEF Loaded

\* Two entries of FAT12 overlap only if they are an even one and the next.
LEMMA OffsetsApart ==
  ASSUME NEW c \in Nat, NEW d \in Nat, c < d, type \in {12, 16, 32},
         ~ (type = 12 /\ c % 2 = 0 /\ d = c + 1)
  PROVE  Offset(c) + EntryBytes <= Offset(d)
<1>1. CASE type = 12
  <2>1. \A a \in Nat : /\ a \div 2 \in Nat /\ a % 2 \in {0, 1}
                        /\ a = 2 * (a \div 2) + (a % 2)
    BY SMT
  <2> DEFINE k == c \div 2  l == d \div 2
  <2>2. k \in Nat /\ l \in Nat /\ c = 2 * k + (c % 2) /\ d = 2 * l + (d % 2)
    BY <2>1
  <2>3. c % 2 \in {0, 1} /\ d % 2 \in {0, 1}
    BY <2>1
  <2> HIDE DEF k, l
  <2>4. c + k + 2 <= d + l
    BY <1>1, <2>2, <2>3, SMT
  <2> QED
    BY <1>1, <2>4, SMT DEF Offset, EntryBytes, k, l
<1>2. CASE type # 12
  BY <1>2, SMT DEF Offset, EntryBytes
<1> QED
  BY <1>1, <1>2

\* cluster_next_set changes no entry but the one it is given.
THEOREM NeighboursUntouched ==
  ASSUME Loaded, NEW c \in Nat, NEW d \in Nat, c # d, Fits(c), Fits(d),
         NEW v \in Nat,
         ClusterNextSet(c, v), UNCHANGED <<type, fatSectors>>
  PROVE  ClusterNext(d)' = ClusterNext(d)
<1> DEFINE p == Offset(c)  q == Offset(d)  w == Packed(c, v)
<1>1. /\ Place(c) = p /\ p \in Nat /\ p .. (p + EntryBytes - 1) \subseteq DOMAIN fat
      /\ q \in Nat /\ q .. (q + EntryBytes - 1) \subseteq DOMAIN fat
  BY PlaceIsOffset
<1>2. ClusterNext(d)' = ReadEntry(type, d % 2 = 1, fat', q)
  BY SetBytes, NextReadsAfter
<1>3. ClusterNext(d) = ReadEntry(type, d % 2 = 1, fat, q)
  BY NextReads
<1>4. \A i \in DOMAIN fat : fat[i] \in Nat /\ fat[i] <= 255
  <2>1. fat \in [0 .. (FatBytes - 1) -> 0 .. 255]
    BY DEF Loaded
  <2>2. \A i \in DOMAIN fat : fat[i] \in 0 .. 255
    BY <2>1
  <2>3. \A b \in 0 .. 255 : b \in Nat /\ b <= 255
    BY SMT
  <2> QED
    BY <2>2, <2>3
<1>5. \A i \in q .. (q + EntryBytes - 1) :
        fat'[i] = IF i \in p .. (p + EntryBytes - 1) THEN ByteOf(w, i - p) ELSE fat[i]
  BY <1>1, SetBytes
<1> DEFINE Apart == p + EntryBytes <= q \/ q + EntryBytes <= p
<1>6. CASE Apart
  <2>1. \A i \in q .. (q + EntryBytes - 1) : fat'[i] = fat[i]
    BY <1>1, <1>5, <1>6, SMT DEF EntryBytes
  <2>2. fat'[q] = fat[q] /\ fat'[q + 1] = fat[q + 1]
    BY <1>1, <2>1, SMT DEF EntryBytes
  <2>3. type = 32 => fat'[q + 2] = fat[q + 2] /\ fat'[q + 3] = fat[q + 3]
    BY <1>1, <2>1, SMT DEF EntryBytes
  <2> QED
    BY <1>2, <1>3, <2>2, <2>3, SMT DEF ReadEntry, Loaded
<1>7. CASE type = 12 /\ c % 2 = 0 /\ d = c + 1
  <2>1. q = p + 1 /\ d % 2 = 1 /\ EntryBytes = 2
    BY <1>7, SMT DEF Offset, EntryBytes
  <2> DEFINE a == fat[p]  b == fat[p + 1]  x == fat[q + 1]
  <2>2. p \in DOMAIN fat /\ p + 1 \in DOMAIN fat /\ q + 1 \in DOMAIN fat
    BY <1>1, <2>1, SMT
  <2>3. a \in Nat /\ b \in Nat /\ x \in Nat /\ a <= 255 /\ b <= 255
    BY <1>4, <2>2
  <2>4. fat'[q] = ByteOf(w, 1) /\ fat'[q + 1] = x
    BY <1>1, <1>5, <2>1, SMT
  <2>5. w = (v % 4096) + 4096 * ((a + 256 * b) \div 4096)
    <3>1. Word(Place(c)) = a + 256 * b
      BY <1>1, <2>2 DEF Word, Byte
    <3> QED
      BY <1>7, <3>1, SMT DEF Packed
  <2>6. (ByteOf(w, 1) + 256 * x) \div 16 = (b + 256 * x) \div 16
    <3> DEFINE u == v % 4096
    <3>1. u \in Nat /\ u <= 4095 /\ u % 4096 = u
      BY SMT
    <3>2. w = (u % 4096) + 4096 * ((a + 256 * b) \div 4096)
      BY <2>5, <3>1
    <3> HIDE DEF a, b, x, w, u
    <3> QED
      BY <2>3, <3>1, <3>2, EvenEntry
  <2>7. ClusterNext(d)' = (ByteOf(w, 1) + 256 * x) \div 16
    BY <1>2, <1>7, <2>1, <2>4, SMT DEF ReadEntry
  <2>8. ClusterNext(d) = (b + 256 * x) \div 16
    BY <1>3, <1>7, <2>1, SMT DEF ReadEntry
  <2> QED
    BY <2>6, <2>7, <2>8
<1>8. CASE type = 12 /\ d % 2 = 0 /\ c = d + 1
  <2>1. p = q + 1 /\ c % 2 = 1 /\ EntryBytes = 2
    BY <1>8, SMT DEF Offset, EntryBytes
  <2> DEFINE a == fat[p]  b == fat[p + 1]  x == fat[q]
  <2>2. p \in DOMAIN fat /\ p + 1 \in DOMAIN fat /\ q \in DOMAIN fat
    BY <1>1, <2>1, SMT
  <2>3. /\ a \in Nat /\ b \in Nat /\ x \in Nat
        /\ a <= 255 /\ b <= 255 /\ x <= 255
    BY <1>4, <2>2
  <2>4. fat'[q] = x /\ fat'[q + 1] = ByteOf(w, 0)
    BY <1>1, <1>5, <2>1, SMT
  <2>5. w = 16 * v + ((a + 256 * b) % 16)
    <3>1. Word(Place(c)) = a + 256 * b
      BY <1>1, <2>2 DEF Word, Byte
    <3> QED
      BY <1>8, <2>1, <3>1, SMT DEF Packed
  <2>6. (x + 256 * ByteOf(w, 0)) % 4096 = (x + 256 * a) % 4096
    <3> HIDE DEF a, b, x, w
    <3>1. w = OddWord(a, b, v)
      BY <2>5 DEF OddWord
    <3> QED
      BY <2>3, <3>1, OddKeepsOther
  <2>7. ClusterNext(d)' = (x + 256 * ByteOf(w, 0)) % 4096
    BY <1>2, <1>8, <2>4, SMT DEF ReadEntry
  <2>8. ClusterNext(d) = (x + 256 * a) % 4096
    BY <1>3, <1>8, <2>1, SMT DEF ReadEntry
  <2> QED
    BY <2>6, <2>7, <2>8
<1>9. c < d \/ d < c
  OBVIOUS
<1>10. c < d => Apart \/ (type = 12 /\ c % 2 = 0 /\ d = c + 1)
  BY OffsetsApart DEF Loaded
<1>11. d < c => Apart \/ (type = 12 /\ d % 2 = 0 /\ c = d + 1)
  BY OffsetsApart DEF Loaded
<1> QED
  BY <1>6, <1>7, <1>8, <1>9, <1>10, <1>11

----------------------------------------------------------------------------
(* The behaviours of FatEntry.                                             *)

\* TypeOK, and once the FAT is read it can address the full disk.
IInv == TypeOK /\ (pc # "size" => ~FatTooSmall)

\* Whatever number is stored, ByteOf gives bytes.
LEMMA BytesAreBytes ==
  ASSUME NEW w \in Int, NEW k \in Int
  PROVE  ByteOf(w, k) \in 0 .. 255
BY SMT DEF ByteOf

\* The word that is stored is a number, wherever the entry is.
LEMMA PackedIsInt ==
  ASSUME Loaded, NEW c \in Int, NEW v \in Int
  PROVE  Packed(c, v) \in Int /\ Place(c) \in Nat
<1>1. Place(c) \in Nat
  BY SMT DEF Place, Offset, Loaded
<1>2. fat \in [0 .. (FatBytes - 1) -> 0 .. 255]
  BY DEF Loaded
<1>3. \A i : Byte(i) \in Int
  <2>1. \A i \in DOMAIN fat : fat[i] \in 0 .. 255
    BY <1>2
  <2>2. 0 .. 255 \subseteq Int /\ 0 \in Int
    BY SMT
  <2> QED
    BY <2>1, <2>2 DEF Byte
<1>4. Word(Place(c)) \in Int
  BY <1>1, <1>3, SMT DEF Word
<1> QED
  BY <1>1, <1>4, SMT DEF Packed

\* cluster_next_set leaves bytes in the FAT.
LEMMA SetKeepsBytes ==
  ASSUME Loaded, NEW c \in Int, NEW v \in Int, ClusterNextSet(c, v)
  PROVE  fat' \in [0 .. (FatBytes - 1) -> 0 .. 255]
<1> DEFINE w == Packed(c, v)  p == Place(c)
<1>1. w \in Int /\ p \in Nat
  BY PackedIsInt
<1>2. fat \in [0 .. (FatBytes - 1) -> 0 .. 255] /\ DOMAIN fat = 0 .. (FatBytes - 1)
  BY DEF Loaded
<1>3. \A i \in DOMAIN fat : ByteOf(w, i - p) \in 0 .. 255
  <2> SUFFICES ASSUME NEW i \in DOMAIN fat
               PROVE  ByteOf(w, i - p) \in 0 .. 255
    OBVIOUS
  <2>1. i - p \in Int
    BY <1>1, <1>2, SMT DEF Loaded
  <2> QED
    BY <1>1, <2>1, BytesAreBytes
<1>4. fat' = [i \in DOMAIN fat |-> IF i \in p .. (p + EntryBytes - 1)
                                  THEN ByteOf(w, i - p) ELSE fat[i]]
  BY DEF ClusterNextSet
<1> QED
  BY <1>2, <1>3, <1>4

\* A FAT that reaches the start of the entry after the last one has room for
\* every entry, with the exception that EveryEntryFits makes.
LEMMA RoomForEntries ==
  ASSUME type \in {12, 16, 32}, NEW t \in Int, NEW b \in Int, Offset(t) <= b,
         NEW c \in 0 .. (t - 1)
  PROVE  \/ Offset(c) + EntryBytes <= b
         \/ type = 12 /\ c % 2 = 0 /\ c = t - 1 /\ b = Offset(t)
<1>1. CASE type = 12
  <2>1. \A a \in Nat : /\ a \div 2 \in Nat /\ a % 2 \in {0, 1}
                        /\ a = 2 * (a \div 2) + (a % 2)
    BY SMT
  <2>2. c \in Nat /\ t \in Nat /\ c < t
    BY SMT
  <2> DEFINE k == c \div 2  l == t \div 2
  <2>3. k \in Nat /\ l \in Nat /\ c = 2 * k + (c % 2) /\ t = 2 * l + (t % 2)
    BY <2>1, <2>2
  <2>4. c % 2 \in {0, 1} /\ t % 2 \in {0, 1}
    BY <2>1, <2>2
  <2>5. t + l <= b
    BY <1>1 DEF Offset
  <2> HIDE DEF k, l
  <2>6. c + k + 2 <= b \/ (c % 2 = 0 /\ c = t - 1 /\ b = t + l)
    BY <2>2, <2>3, <2>4, <2>5, SMT
  <2> QED
    BY <1>1, <2>6 DEF Offset, EntryBytes, k, l
<1>2. CASE type # 12
  BY <1>2, SMT DEF Offset, EntryBytes
<1> QED
  BY <1>1, <1>2

\* The sizes of a volume are numbers.
LEMMA GeometryIsInt ==
  ASSUME TypeOK
  PROVE  TotalClusters \in Int /\ FatBytes \in Nat \ {0}
<1>1. FatBytes \in Nat \ {0}
  BY SectorSizeAssumption, SMT DEF FatBytes, TypeOK
<1> DEFINE n == sectorCount
                  - (Reserved + 2 * fatSectors + (IF type = 32 THEN 0 ELSE RootDirSectors))
<1>2. n \in Int
  BY ReservedAssumption, SMT DEF TypeOK
<1>3. \A a \in Int, b \in Nat \ {0} : a \div b \in Int
  BY SMT
<1> HIDE DEF n
<1>4. n \div SectorsPerCluster \in Int
  BY <1>2, <1>3, SectorsPerClusterAssumption
<1> QED
  BY <1>1, <1>4 DEF TotalClusters, n

\* Once the FAT is read, its entries can be reasoned about.
LEMMA LoadedByType ==
  ASSUME TypeOK, pc # "size"
  PROVE  Loaded
BY GeometryIsInt DEF TypeOK, Loaded

\* The inductive invariant is preserved by every step.
LEMMA StepKeepsIInv ==
  ASSUME IInv, [Next]_vars
  PROVE  IInv'
<1>1. TotalClusters \in Int
  BY GeometryIsInt DEF IInv, TypeOK
<1>2. CASE GrowFat
  BY <1>2, SMT DEF GrowFat, IInv, TypeOK, volume
<1>3. CASE ReadFat
  <2>1. UNCHANGED <<type, sectorCount, fatSectors, cluster>> /\ pc' = "format" /\ ~FatTooSmall
    BY <1>3 DEF ReadFat, volume
  <2>2. FatBytes' = FatBytes /\ FatTooSmall' = FatTooSmall
    BY <2>1 DEF FatBytes, FatTooSmall, TotalClusters, Offset
  <2>3. PICK stale \in {0, 255} : fat' = [i \in 0 .. (FatBytes - 1) |-> stale]
    BY <1>3 DEF ReadFat
  <2>4. stale \in 0 .. 255
    BY SMT
  <2>5. fat' \in [0 .. (FatBytes - 1) -> 0 .. 255]
    BY <2>3, <2>4
  <2> QED
    BY <2>1, <2>2, <2>5 DEF IInv, TypeOK
<1> DEFINE Sets == /\ pc # "size" /\ pc' # "size"
                   /\ \E c, v \in Int : ClusterNextSet(c, v)
                   /\ UNCHANGED <<type, sectorCount, fatSectors>>
                   /\ cluster' \in Nat /\ pc' \in {"format", "ready"}
<1>4. CASE Sets
  <2>1. PICK c \in Int, v \in Int : ClusterNextSet(c, v)
    BY <1>4
  <2>2. Loaded
    BY <1>4, LoadedByType DEF IInv
  <2>3. fat' \in [0 .. (FatBytes - 1) -> 0 .. 255]
    BY <2>1, <2>2, SetKeepsBytes
  <2>4. FatBytes' = FatBytes /\ FatTooSmall' = FatTooSmall
    BY <1>4 DEF FatBytes, FatTooSmall, TotalClusters, Offset
  <2> QED
    BY <1>4, <2>3, <2>4 DEF IInv, TypeOK
<1>5. CASE FormatEntry
  <2>1. EndMark \in Int /\ cluster \in Int /\ cluster + 1 \in Nat
    BY SMT DEF IInv, TypeOK, EndMark
  <2>2. Sets
    BY <1>5, <2>1 DEF FormatEntry, volume
  <2> QED
    BY <1>4, <2>2
<1>6. CASE FormatDone
  BY <1>6 DEF FormatDone, volume, IInv, TypeOK, FatBytes, FatTooSmall, TotalClusters, Offset
<1>7. ASSUME NEW c \in Used, NEW v \in Values, Use(c, v)
      PROVE  IInv'
  <2>1. c \in Int /\ v \in Int
    <3>1. EndMark \in Int /\ TotalClusters - 1 \in Int
      BY <1>1, SMT DEF EndMark, IInv, TypeOK
    <3>2. \A d \in 2 .. (TotalClusters - 1) : d \in Int
      BY <1>1, SMT
    <3> QED
      BY <3>1, <3>2, SMT DEF Used, Values
  <2>2. Sets
    BY <1>7, <2>1 DEF Use, volume, IInv, TypeOK
  <2> QED
    BY <1>4, <2>2
<1>8. CASE UNCHANGED vars
  BY <1>8 DEF vars, volume, IInv, TypeOK, FatBytes, FatTooSmall, TotalClusters, Offset
<1> QED
  BY <1>2, <1>3, <1>5, <1>6, <1>7, <1>8 DEF Next

\* The inductive invariant holds in every state.
THEOREM Invariance == Spec => []IInv
<1>1. Init => IInv
  <2> SUFFICES ASSUME Init PROVE IInv
    OBVIOUS
  <2>1. sectorCount \in Nat
    BY SectorCountsAssumption DEF Init
  <2>2. fatSectors \in Int
    <3>1. sectorCount \div SectorsPerCluster \in Nat
      BY <2>1, SectorsPerClusterAssumption, SMT
    <3>2. FirstFatBytes(type, sectorCount) \in Nat
      <4> DEFINE n == sectorCount \div SectorsPerCluster
      <4>1. (3 * n) \div 2 \in Nat /\ 2 * n \in Nat /\ 4 * n \in Nat
        BY <3>1, SMT
      <4> QED
        BY <4>1 DEF Init, FirstFatBytes
    <3>3. fatSectors = FirstFatBytes(type, sectorCount) \div SectorSize
      BY DEF Init
    <3> QED
      BY <3>2, <3>3, SectorSizeAssumption, SMT
  <2>3. fatSectors \in Nat \ {0}
    BY <2>2, SMT DEF Init
  <2> QED
    BY <2>1, <2>3, SMT DEF Init, IInv, TypeOK
<1>2. IInv /\ [Next]_vars => IInv'
  BY StepKeepsIInv
<1> QED
  BY <1>1, <1>2, PTL DEF Spec

\* Every variable has its type; the FAT holds bytes, as many as its sectors have.
THEOREM TypeCorrect == Spec => []TypeOK
<1>1. IInv => TypeOK
  BY DEF IInv
<1> QED
  BY <1>1, Invariance, PTL

\* fat_format makes the FAT of every volume large enough for its entries, but
\* for the last one of some FAT12 volumes.
THEOREM EntriesFit == Spec => []EveryEntryFits
<1>1. IInv => EveryEntryFits
  <2> SUFFICES ASSUME IInv, pc # "size", NEW c \in 0 .. (TotalClusters - 1)
               PROVE  Fits(c) \/ (type = 12 /\ c % 2 = 0 /\ c = TotalClusters - 1
                                   /\ FatBytes = Offset(TotalClusters))
    BY DEF EveryEntryFits
  <2>1. TotalClusters \in Int /\ FatBytes \in Int /\ type \in {12, 16, 32}
    BY GeometryIsInt DEF IInv, TypeOK
  <2>2. Offset(TotalClusters) \in Int
    BY <2>1, SMT DEF Offset
  <2>3. Offset(TotalClusters) <= FatBytes
    BY <2>1, <2>2, SMT DEF IInv, FatTooSmall
  <2> QED
    BY <2>1, <2>3, RoomForEntries DEF Fits
<1> QED
  BY <1>1, Invariance, PTL

\* What is set is what is read, in every state of every volume.
THEOREM SetIsRead == Spec => WhatIsSetIsRead
<1>1. IInv /\ [Next]_vars =>
        [\A c \in Used, v \in Values :
           Use(c, v) /\ Fits(c) /\ v \in 0 .. MaxValue => ClusterNext(c)' = v]_vars
  <2> SUFFICES ASSUME IInv, NEW c \in Used, NEW v \in Values,
                      Use(c, v), Fits(c), v \in 0 .. MaxValue
               PROVE  ClusterNext(c)' = v
    OBVIOUS
  <2>1. pc # "size" /\ ClusterNextSet(c, v) /\ UNCHANGED <<type, fatSectors>>
    BY DEF Use, volume
  <2>2. Loaded
    BY <2>1, LoadedByType DEF IInv
  <2>3. c \in Nat
    <3>1. TotalClusters \in Int
      BY GeometryIsInt DEF IInv, TypeOK
    <3>2. \A d \in 2 .. (TotalClusters - 1) : d \in Nat
      BY <3>1, SMT
    <3> QED
      BY <3>2 DEF Used
  <2>4. v \in Nat /\ v <= MaxValue
    <3>1. MaxValue \in Int
      BY SMT DEF MaxValue
    <3> QED
      BY <3>1, SMT
  <2> QED
    BY <2>1, <2>2, <2>3, <2>4, ReadBack
<1> QED
  BY <1>1, Invariance, PTL DEF Spec, WhatIsSetIsRead

----------------------------------------------------------------------------
(* Each entry is a cell of its own.                                        *)

\* Any number of a FAT is a natural number.
LEMMA NextIsNat ==
  ASSUME Loaded, NEW c \in Nat
  PROVE  ClusterNext(c) \in Nat
<1>1. Place(c) \in Nat
  BY PackedIsInt, SMT
<1>2. \A i : Byte(i) \in Nat
  <2>1. fat \in [0 .. (FatBytes - 1) -> 0 .. 255] /\ DOMAIN fat = 0 .. (FatBytes - 1)
    BY DEF Loaded
  <2>2. \A i \in DOMAIN fat : fat[i] \in 0 .. 255
    BY <2>1
  <2>3. 0 .. 255 \subseteq Nat /\ 0 \in Nat
    BY SMT
  <2> QED
    BY <2>2, <2>3 DEF Byte
<1>3. \A i : Word(i) \in Nat
  BY <1>2, SMT DEF Word
<1>4. \A w \in Nat : w % 4096 \in Nat /\ w \div 16 \in Nat
  BY SMT
<1>5. Word(Place(c)) \in Nat /\ Word(Place(c) + 2) % 4096 \in Nat
  BY <1>3, <1>4
<1> HIDE DEF ClusterNext
<1>6. \A n \in Nat, m \in Nat : n + 65536 * m \in Nat
  BY SMT
<1> QED
  BY <1>4, <1>5, <1>6 DEF ClusterNext, ClusterNext12

NextsAreNat == \A c \in Nat : ClusterNext(c) \in Nat

LEMMA LoadedNext == Loaded => NextsAreNat
BY NextIsNat DEF NextsAreNat

\* A write to the entry that sticks out of the FAT is to its last byte, which is
\* no other entry's.
LEMMA LastEntryApart ==
  ASSUME Loaded, NEW c \in Nat, type = 12, c % 2 = 0, FatBytes = Offset(c + 1),
         NEW d \in Nat, d < c, Fits(d), NEW v \in Nat,
         ClusterNextSet(c, v), UNCHANGED <<type, fatSectors>>
  PROVE  ClusterNext(d)' = ClusterNext(d)
<1> DEFINE p == Offset(c)  q == Offset(d)
<1>1. q + EntryBytes <= p /\ q \in Nat /\ p \in Nat
  <2>1. ~ (d % 2 = 0 /\ c = d + 1)
    BY SMT
  <2>2. q + EntryBytes <= p
    BY <2>1, OffsetsApart
  <2>3. p \in Nat /\ q \in Nat
    BY SMT DEF Offset
  <2> QED
    BY <2>2, <2>3
<1>2. Place(c) = p
  <2>1. p < FatBytes
    BY SMT DEF Offset
  <2>2. \A m \in Nat, b \in Nat \ {0} : m < b => m % b = m
    BY SMT
  <2> QED
    BY <1>1, <2>1, <2>2 DEF Place, Loaded
<1>3. \A i \in DOMAIN fat : i < p => fat'[i] = fat[i]
  BY <1>1, <1>2, SMT DEF ClusterNextSet, Loaded
<1>4. DOMAIN fat' = DOMAIN fat
  BY DEF ClusterNextSet
<1>5. q \in DOMAIN fat /\ q + 1 \in DOMAIN fat /\ q < p /\ q + 1 < p
  BY <1>1, PlaceIsOffset, SMT DEF EntryBytes
<1>6. fat'[q] = fat[q] /\ fat'[q + 1] = fat[q + 1]
  BY <1>3, <1>5
<1> QED
  BY <1>4, <1>6, NextReads, NextReadsAfter DEF ReadEntry

\* The clusters that have an entry of their own in the FAT.
Entered == {d \in 0 .. (TotalClusters - 1) : Fits(d)}

\* The FAT as FatCells sees it.
Seen == IF pc = "size" THEN <<>> ELSE [c \in Entered |-> ClusterNext(c)]

LEMMA EnteredAreNat == IInv => Entered \subseteq Nat
<1>1. IInv => TotalClusters \in Int
  BY GeometryIsInt DEF IInv
<1>2. \A t \in Int : 0 .. (t - 1) \subseteq Nat
  BY SMT
<1> QED
  BY <1>1, <1>2 DEF Entered

LEMMA LoadedIfRead == IInv /\ pc # "size" => Loaded
BY LoadedByType DEF IInv

\* A call of cluster_next_set on an entry of the volume sets at most its cell.
LEMMA SetIsOneCell ==
  ASSUME IInv, pc # "size", pc' # "size",
         NEW c \in Int, NEW v \in Int, ClusterNextSet(c, v),
         c \in 0 .. (TotalClusters - 1) => v \in Nat,
         c \in 0 .. (TotalClusters - 1) \/ TotalClusters <= 0,
         UNCHANGED <<type, sectorCount, fatSectors>>
  PROVE  \/ Seen' = Seen
         \/ /\ c \in DOMAIN Seen
            /\ Seen'[c] \in Nat
            /\ Seen' = [Seen EXCEPT ![c] = Seen'[c]]
<1>1. Loaded
  BY LoadedByType DEF IInv
<1>2. TotalClusters \in Int /\ FatBytes \in Nat
  BY GeometryIsInt DEF IInv
<1>3. Entered' = Entered /\ FatBytes' = FatBytes
  BY DEF Entered, TotalClusters, Fits, Offset, EntryBytes, FatBytes
<1>4. /\ Seen = [d \in Entered |-> ClusterNext(d)]
      /\ Seen' = [d \in Entered |-> ClusterNext(d)']
  BY <1>3 DEF Seen
<1>5. Loaded'
  BY <1>1, <1>3, SetKeepsBytes DEF Loaded
<1>6. \A d \in Entered : d \in Nat /\ d < TotalClusters /\ Fits(d)
  BY <1>2, SMT DEF Entered
<1>7. CASE c \in Entered
  <2>1. c \in Nat /\ v \in Nat /\ Fits(c)
    BY <1>6, <1>7 DEF Entered
  <2>2. \A d \in Entered : d # c => ClusterNext(d)' = ClusterNext(d)
    BY <1>1, <1>6, <2>1, NeighboursUntouched
  <2>3. ClusterNext(c)' \in Nat
    <3>1. Loaded' => NextsAreNat'
      BY LoadedNext, PTL
    <3> QED
      BY <1>5, <2>1, <3>1 DEF NextsAreNat
  <2>4. Seen'[c] = ClusterNext(c)' /\ c \in DOMAIN Seen
    BY <1>4, <1>7
  <2>5. Seen' = [Seen EXCEPT ![c] = Seen'[c]]
    <3> HIDE DEF Seen
    <3> QED
      BY <1>4, <1>7, <2>2, <2>4
  <2> QED
    BY <2>3, <2>4, <2>5
<1>8. CASE c \notin Entered /\ c \in 0 .. (TotalClusters - 1)
  <2>1. c \in Nat /\ v \in Nat /\ c < TotalClusters /\ ~ Fits(c)
    BY <1>2, <1>8, SMT DEF Entered
  <2>2. Offset(TotalClusters) <= FatBytes
    <3>1. Offset(TotalClusters) \in Int
      BY <1>2, SMT DEF Offset
    <3> QED
      BY <1>2, <3>1, SMT DEF IInv, FatTooSmall
  <2>3. type = 12 /\ c % 2 = 0 /\ c = TotalClusters - 1 /\ FatBytes = Offset(TotalClusters)
    BY <1>2, <1>8, <2>1, <2>2, RoomForEntries DEF Fits, IInv, TypeOK
  <2>4. TotalClusters = c + 1
    BY <1>2, <2>3, SMT
  <2>5. \A d \in Entered : d < c
    <3>1. \A d \in Entered : d \in Nat /\ d < c + 1 /\ d # c
      BY <1>6, <1>8, <2>4
    <3> QED
      BY <2>1, <3>1, SMT
  <2>6. \A d \in Entered : ClusterNext(d)' = ClusterNext(d)
    BY <1>1, <1>6, <2>1, <2>3, <2>4, <2>5, LastEntryApart
  <2> QED
    BY <1>4, <2>6
<1>9. CASE TotalClusters <= 0
  <2>1. Entered = {}
    BY <1>2, <1>6, <1>9, SMT
  <2> QED
    BY <1>4, <2>1
<1> QED
  BY <1>7, <1>8, <1>9

\* The FAT in bytes implements FatCells: it is read once, and then each call of
\* cluster_next_set sets one number, or none.
THEOREM BytesImplementCells == Spec => ImplementsCells
<1>1. Init => Cells!Init
  BY DEF Init, Cells!Init
<1>2. IInv /\ [Next]_vars => [Cells!Next]_Seen
  <2> SUFFICES ASSUME IInv, [Next]_vars PROVE [Cells!Next]_Seen
    OBVIOUS
  <2> DEFINE Stays == Seen' = Seen
             Sets(c) == /\ c \in DOMAIN Seen
                        /\ Seen'[c] \in Nat
                        /\ Seen' = [Seen EXCEPT ![c] = Seen'[c]]
  <2>1. TotalClusters \in Int /\ pc \in {"size", "format", "ready"} /\ cluster \in Nat
    BY GeometryIsInt DEF IInv, TypeOK
  <2>2. Stays => [Cells!Next]_Seen
    OBVIOUS
  <2>3. \A c : Sets(c) => [Cells!Next]_Seen
    BY DEF Cells!Next, Cells!Set, Seen, Entered
  <2>4. CASE GrowFat
    BY <2>4 DEF GrowFat, Seen
  <2>5. CASE ReadFat
    <3>1. Seen = <<>> /\ IInv' /\ pc' # "size"
      BY <2>5, StepKeepsIInv DEF ReadFat, Seen
    <3>2. Seen' = [c \in Entered' |-> ClusterNext(c)']
      BY <3>1 DEF Seen
    <3>3. Loaded'
      <4>1. IInv' /\ (pc # "size")' => Loaded'
        BY LoadedIfRead, PTL
      <4> QED
        BY <3>1, <4>1
    <3>4. \A c \in Entered' : ClusterNext(c)' \in Nat
      <4>1. Loaded' => NextsAreNat'
        BY LoadedNext, PTL
      <4>2. Entered' \subseteq Nat
        <5>1. IInv' => (Entered \subseteq Nat)'
          BY EnteredAreNat, PTL
        <5> QED
          BY <3>1, <5>1
      <4> QED
        BY <3>3, <4>1, <4>2 DEF NextsAreNat
    <3>5. Seen' \in [DOMAIN Seen' -> Nat]
      BY <3>2, <3>4
    <3>6. Cells!Read
      BY <3>1, <3>5 DEF Cells!Read, Seen, Entered
    <3> QED
      BY <3>6 DEF Cells!Next
  <2>6. CASE FormatEntry
    <3>1. cluster \in 0 .. (TotalClusters - 1)
      BY <2>1, <2>6, SMT DEF FormatEntry
    <3>2. EndMark \in Nat
      BY DEF EndMark, IInv, TypeOK
    <3>3. PICK v \in Nat : ClusterNextSet(cluster, v)
      BY <2>6, <3>2 DEF FormatEntry
    <3>4. pc # "size" /\ pc' # "size" /\ UNCHANGED <<type, sectorCount, fatSectors>>
      BY <2>6 DEF FormatEntry, volume
    <3>5. Stays \/ Sets(cluster)
      BY <2>1, <3>1, <3>3, <3>4, SetIsOneCell
    <3> QED
      BY <2>2, <2>3, <3>5
  <2>7. CASE FormatDone \/ UNCHANGED vars
    <3>1. /\ UNCHANGED <<type, sectorCount, fatSectors, fat>>
          /\ pc' = "size" <=> pc = "size"
      BY <2>7 DEF FormatDone, volume, vars
    <3>2. Stays
      BY <3>1 DEF Seen, Entered, TotalClusters, Fits, Offset, EntryBytes, FatBytes,
                  ClusterNext, ClusterNext12, Word, Byte, Place
    <3> QED
      BY <2>2, <3>2
  <2>8. ASSUME NEW c \in Used, NEW v \in Values, Use(c, v)
        PROVE  [Cells!Next]_Seen
    <3>1. pc # "size" /\ pc' # "size" /\ UNCHANGED <<type, sectorCount, fatSectors>>
          /\ ClusterNextSet(c, v)
      BY <2>8 DEF Use, volume
    <3>2. c \in Int /\ (c \in 0 .. (TotalClusters - 1) \/ TotalClusters <= 0)
      <4>1. c = 0 \/ c \in 2 .. (TotalClusters - 1)
        BY DEF Used
      <4> QED
        BY <2>1, <4>1, SMT
    <3>3. v \in Int /\ (TotalClusters > 0 => v \in Nat)
      <4>1. EndMark \in Nat
        BY DEF EndMark, IInv, TypeOK
      <4> QED
        BY <2>1, <4>1, SMT DEF Values
    <3>4. c \in 0 .. (TotalClusters - 1) => v \in Nat
      BY <2>1, <3>3, SMT
    <3>5. Stays \/ Sets(c)
      BY <3>1, <3>2, <3>3, <3>4, SetIsOneCell
    <3> QED
      BY <2>2, <2>3, <3>5
  <2> QED
    BY <2>4, <2>5, <2>6, <2>7, <2>8 DEF Next
<1> QED
  BY <1>1, <1>2, Invariance, PTL DEF Spec, ImplementsCells, Cells!Spec, Seen, Entered
=============================================================================
