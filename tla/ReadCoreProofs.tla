--------------------------- MODULE ReadCoreProofs ---------------------------
(***************************************************************************)
(* The conversions keep their promises for every mask and size, every word *)
(* width and every base of the units, and the inspector for every dump of  *)
(* every table.                                                            *)
(***************************************************************************)
EXTENDS ReadCore, Caps, DataTheorems

-----------------------------------------------------------------------------
(* Netmasks. *)

\* The mask of a prefix is its first p bits, 0 and the full width included.
LEMMA MaskOfPrefix ==
    ASSUME NEW p \in PrefixLengths
    PROVE  PrefixToNetmask(p) = [b \in Bits |-> b <= p]
<1> USE WidthAssumption DEF PrefixLengths
<1>1. CASE p = 0
  <2>1. PrefixToNetmask(p) = [b \in Bits |-> FALSE]
    BY <1>1 DEF PrefixToNetmask
  <2>2. \A b \in Bits : (b <= p) = FALSE
    BY <1>1 DEF Bits
  <2> QED
    BY <2>1, <2>2
<1>2. CASE p = Width
  <2>1. 0 % Width = 0
    OBVIOUS
  <2>2. PrefixToNetmask(p) = ShiftLeft(0)
    BY <1>2 DEF PrefixToNetmask
  <2> QED
    BY <1>2, <2>1, <2>2 DEF ShiftLeft, Bits
<1>3. CASE p # 0 /\ p # Width
  <2>1. Width - p \in 0 .. Width - 1
    BY <1>3
  <2>2. (Width - p) % Width = Width - p
    BY <2>1
  <2>3. PrefixToNetmask(p) = ShiftLeft(Width - p)
    BY <1>3 DEF PrefixToNetmask
  <2> QED
    BY <2>1, <2>2, <2>3 DEF ShiftLeft, Bits
<1> QED
  BY <1>1, <1>2, <1>3

\* leading_ones counts at most the bits of the word, and these are its first ones.
LEMMA LeadingOnesAreFirst ==
    ASSUME NEW m
    PROVE  /\ LeadingOnes(m) \in PrefixLengths
           /\ {n \in Bits : \A b \in 1 .. n : m[b]} = 1 .. LeadingOnes(m)
<1> DEFINE S == {n \in Bits : \A b \in 1 .. n : m[b]}
<1>1. Width \in Nat /\ S \subseteq 1 .. Width
  BY WidthAssumption DEF Bits
<1>2. \A n \in S : 1 .. n \subseteq S
  BY WidthAssumption DEF Bits
<1>3. LeadingOnes(m) = Cardinality(S)
  BY DEF LeadingOnes
<1> HIDE DEF S
<1>4. Cardinality(S) \in 0 .. Width /\ S = 1 .. Cardinality(S)
  BY <1>1, <1>2, InitialSegment
<1> QED
  BY <1>3, <1>4 DEF PrefixLengths, S

\* A mask is contiguous when it is its own leading ones and nothing else.
LEMMA ContiguousIsPrefix ==
    ASSUME NEW m \in Masks
    PROVE  Contiguous(m) <=> m = [b \in Bits |-> b <= LeadingOnes(m)]
<1> DEFINE k == LeadingOnes(m)
<1>0. Bits = 1 .. Width /\ Width \in Nat /\ k \in Nat /\ k <= Width
  BY LeadingOnesAreFirst, WidthAssumption DEF Bits, PrefixLengths
<1>1. \A n \in Bits : (\A b \in 1 .. n : m[b]) <=> n \in 1 .. k
  BY LeadingOnesAreFirst
<1> HIDE DEF k
<1>2. ASSUME m = [b \in Bits |-> b <= k] PROVE Contiguous(m)
  <2> SUFFICES ASSUME NEW b \in Bits, NEW c \in Bits, b < c, m[c] PROVE m[b]
    BY DEF Contiguous
  <2>1. m[c] = (c <= k) /\ m[b] = (b <= k)
    BY <1>2, Zenon
  <2>2. c <= k
    BY <2>1
  <2>3. b <= k
    BY <1>0, <2>2
  <2> QED
    BY <2>1, <2>3
<1>3. ASSUME Contiguous(m) PROVE m = [b \in Bits |-> b <= k]
  <2>1. ASSUME NEW b \in Bits, b <= k PROVE m[b] = TRUE
    <3>1. b \in 1 .. b /\ b \in 1 .. k
      BY <1>0, <2>1
    <3>2. m[b]
      BY <1>1, <3>1
    <3> QED
      BY <3>2 DEF Masks
  <2>2. ASSUME NEW b \in Bits, ~(b <= k) PROVE m[b] = FALSE
    <3>1. ASSUME m[b] PROVE FALSE
      <4>1. ASSUME NEW c \in 1 .. b PROVE m[c]
        <5>1. c \in Bits /\ (c < b \/ c = b)
          BY <1>0
        <5> QED
          BY <1>3, <3>1, <5>1 DEF Contiguous
      <4>2. b \in 1 .. k
        BY <1>1, <4>1
      <4> QED
        BY <1>0, <2>2, <4>2
    <3>2. m[b] \in BOOLEAN
      BY DEF Masks
    <3> QED
      BY <3>1, <3>2
  <2>3. ASSUME NEW b \in Bits PROVE m[b] = (b <= k)
    <3>1. CASE b <= k
      <4>1. (b <= k) = TRUE
        BY <3>1, Zenon
      <4> QED
        BY <2>1, <3>1, <4>1, Zenon
    <3>2. CASE ~(b <= k)
      <4>1. (b <= k) = FALSE
        BY <3>2
      <4> QED
        BY <2>2, <3>2, <4>1, Zenon
    <3> QED
      BY <3>1, <3>2, Zenon
  <2>4. m = [b \in Bits |-> m[b]]
    BY DEF Masks
  <2> QED
    BY <2>3, <2>4, Zenon
<1> QED
  BY <1>2, <1>3 DEF k

\* netmask_to_prefix compares the mask with the one its ones reconstruct.
LEMMA PrefixIsLeadingOnes ==
    ASSUME NEW m \in Masks
    PROVE  NetmaskToPrefix(m) = IF Contiguous(m) THEN LeadingOnes(m) ELSE None
<1> DEFINE k == LeadingOnes(m)
<1>1. k \in PrefixLengths
  BY LeadingOnesAreFirst
<1>2. PrefixToNetmask(k) = IF k = 0 THEN [b \in Bits |-> FALSE] ELSE ShiftLeft(Width - k)
  BY <1>1, WidthAssumption DEF PrefixToNetmask, PrefixLengths
<1>3. PrefixToNetmask(k) = [b \in Bits |-> b <= k]
  BY <1>1, MaskOfPrefix
<1>4. NetmaskToPrefix(m) = IF m = PrefixToNetmask(k) THEN k ELSE None
  BY <1>2 DEF NetmaskToPrefix
<1> QED
  BY <1>3, <1>4, ContiguousIsPrefix

\* Every mask that is written, for any prefix a lease may carry, the ones beyond the
\* width included, is read as that prefix cut to the width (netcore.rs:115-142).
LEMMA WrittenIsRead == WrittenMaskIsRead
<1>1. ASSUME NEW p \in 0 .. Width + 2
      PROVE  NetmaskToPrefix(PrefixToNetmask(p)) = IF p > Width THEN Width ELSE p
  <2> DEFINE q == IF p > Width THEN Width ELSE p
             m == [b \in Bits |-> b <= q]
  <2>0. Width \in Nat /\ Bits = 1 .. Width /\ q \in 0 .. Width
    BY WidthAssumption DEF Bits
  <2>1. PrefixToNetmask(p) = m
    <3>1. q \in PrefixLengths /\ PrefixToNetmask(p) = PrefixToNetmask(q)
      BY WidthAssumption DEF PrefixLengths, PrefixToNetmask
    <3> QED
      BY <3>1, MaskOfPrefix
  <2> HIDE DEF q
  <2>2. m \in Masks /\ \A b \in Bits : m[b] = (b <= q)
    <3>1. \A b \in Bits : (b <= q) \in BOOLEAN
      BY <2>0
    <3> QED
      BY <3>1, Zenon DEF Masks
  <2> HIDE DEF m
  <2>3. Contiguous(m)
    <3>1. \A b, c \in Bits : b < c /\ c <= q => b <= q
      BY <2>0
    <3> QED
      BY <2>2, <3>1 DEF Contiguous
  <2>4. {n \in Bits : \A b \in 1 .. n : m[b]} = 1 .. q
    <3>1. \A n \in Bits : (\A b \in 1 .. n : m[b]) <=> n <= q
      <4> SUFFICES ASSUME NEW n \in Bits PROVE (\A b \in 1 .. n : m[b]) <=> n <= q
        OBVIOUS
      <4>1. n \in 1 .. n /\ \A b \in 1 .. n : b \in Bits /\ (n <= q => b <= q)
        BY <2>0
      <4> QED
        BY <2>2, <4>1
    <3> QED
      BY <2>0, <3>1
  <2>5. Cardinality(1 .. q) = q
    BY <2>0, FS_Interval
  <2>6. LeadingOnes(m) = q
    BY <2>4, <2>5 DEF LeadingOnes
  <2> QED
    BY <2>1, <2>2, <2>3, <2>6, PrefixIsLeadingOnes DEF q
<1> QED
  BY <1>1 DEF WrittenMaskIsRead

\* Every mask a file may hold, canonical or not, converts to a prefix exactly when
\* it is contiguous, and back to itself; and what is written is read (netcore.rs:115-142).
THEOREM MasksConvert ==
    ASSUME mask \in Masks
    PROVE  ConversionsAgree
<1> DEFINE k == LeadingOnes(mask)
<1>0. k \in PrefixLengths /\ k # None
  BY LeadingOnesAreFirst, PrefixAssumption
<1>1. NetmaskToPrefix(mask) = IF Contiguous(mask) THEN k ELSE None
  BY PrefixIsLeadingOnes
<1>2. ASSUME Contiguous(mask)
      PROVE  k = Cardinality({b \in Bits : mask[b]}) /\ PrefixToNetmask(k) = mask
  <2>1. mask = [b \in Bits |-> b <= k]
    BY <1>2, ContiguousIsPrefix
  <2>2. {b \in Bits : mask[b]} = 1 .. k
    <3>1. \A b \in Bits : mask[b] = (b <= k)
      BY <2>1, Zenon
    <3>2. {b \in Bits : mask[b]} = {b \in Bits : b <= k}
      BY <3>1
    <3>3. {b \in Bits : b <= k} = 1 .. k
      BY <1>0, WidthAssumption DEF Bits, PrefixLengths
    <3> QED
      BY <3>2, <3>3
  <2>3. Cardinality(1 .. k) = k
    BY <1>0, WidthAssumption, FS_Interval DEF PrefixLengths
  <2>4. PrefixToNetmask(k) = mask
    BY <1>0, <2>1, MaskOfPrefix
  <2> QED
    BY <2>2, <2>3, <2>4
<1> QED
  BY <1>0, <1>1, <1>2, WrittenIsRead DEF ConversionsAgree

-----------------------------------------------------------------------------
(* Storage. *)

\* Multiplication by a natural number keeps the order.
LEMMA TimesMonotone ==
    ASSUME NEW a \in Nat, NEW b \in Nat, NEW c \in Nat, a <= b
    PROVE  a * c <= b * c
<1> DEFINE d == b - a
<1>1. d \in Nat /\ b = a + d
  OBVIOUS
<1>2. d * c \in Nat
  BY <1>1
<1>3. b * c = a * c + d * c
  BY <1>1
<1> QED
  BY <1>2, <1>3

\* A number below 101 times another is at most 100 times it, rounded down.
LEMMA QuotientBound ==
    ASSUME NEW n \in Nat, NEW d \in Nat \ {0}, n < 101 * d
    PROVE  n \div d \in 0 .. 100
<1> DEFINE q == n \div d
<1>1. q \in Nat /\ q * d <= n
  OBVIOUS
<1>2. ASSUME q >= 101
      PROVE  FALSE
  <2>1. 101 * d <= q * d
    BY <1>1, <1>2, TimesMonotone
  <2> QED
    BY <1>1, <2>1
<1> QED
  BY <1>1, <1>2

\* If no more blocks are available than there are, free space does not exceed the
\* total, used and free add up to it and the percentage is one.
LEMMA OneDiskAddsUp ==
    ASSUME NEW bsize \in Nat, NEW blocks \in Nat, NEW bavail \in Nat,
           bavail <= blocks
    PROVE  AddsUp(bsize, blocks, bavail)
<1> DEFINE s == StorageFrom(bsize, blocks, bavail)
<1>1. /\ blocks * bsize \in Nat /\ bavail * bsize \in Nat
      /\ bavail * bsize <= blocks * bsize
  BY TimesMonotone
<1>2. s.total \in Nat /\ s.free \in Nat /\ s.free <= s.total
  BY <1>1, SizesAssumption DEF StorageFrom, Saturated
<1>3. s.used \in Nat /\ s.used + s.free = s.total
  BY <1>2 DEF StorageFrom, Minus
<1>4. ASSUME s.total > 0
      PROVE  Percent(s) \in 0 .. 100
  <2>1. s.used <= s.total
    BY <1>2, <1>3
  <2>2. /\ 200 * s.used + s.total \in Nat /\ 2 * s.total \in Nat \ {0}
        /\ 200 * s.used + s.total < 101 * (2 * s.total)
    BY <1>2, <1>3, <1>4, <2>1
  <2> HIDE DEF s
  <2> QED
    BY <2>2, QuotientBound DEF Percent
<1> QED
  BY <1>2, <1>3, <1>4 DEF AddsUp

\* Whatever the size of a block and of a word, saturation cannot break the storage
\* tab or the boot self-test (sys.rs:359-367, gui.rs:180-192, selftest.rs:67-73).
THEOREM StorageConsistent ==
    ASSUME size \in Nat
    PROVE  StorageAddsUp
BY OneDiskAddsUp, BlocksAssumption DEF StorageAddsUp

-----------------------------------------------------------------------------
(* Sizes. *)

\* Rounding to the nearest misses by half a unit at most.
LEMMA RoundNear ==
    ASSUME NEW n \in Nat, NEW d \in Nat \ {0}
    PROVE  /\ RoundHalfEven(n, d) \in Nat
           /\ 2 * (RoundHalfEven(n, d) * d) <= 2 * n + d
           /\ 2 * n <= 2 * (RoundHalfEven(n, d) * d) + d
<1> DEFINE q == n \div d
           r == n % d
<1>1. q \in Nat /\ r \in Nat /\ r < d /\ n = q * d + r
  OBVIOUS
<1>2. RoundHalfEven(n, d) = IF 2 * r > d \/ (2 * r = d /\ q % 2 = 1) THEN q + 1 ELSE q
  BY DEF RoundHalfEven
<1>3. (q + 1) * d = q * d + d /\ q * d \in Nat
  BY <1>1
<1> HIDE DEF q, r
<1>4. CASE RoundHalfEven(n, d) = q + 1 /\ 2 * r >= d
  BY <1>1, <1>3, <1>4
<1>5. CASE RoundHalfEven(n, d) = q /\ 2 * r <= d
  BY <1>1, <1>3, <1>5
<1> QED
  BY <1>1, <1>2, <1>4, <1>5

\* ... and keeps the order.
LEMMA RoundMonotone ==
    ASSUME NEW n \in Nat, NEW m \in Nat, NEW d \in Nat \ {0}, n <= m
    PROVE  RoundHalfEven(n, d) <= RoundHalfEven(m, d)
<1> DEFINE q == n \div d
           r == n % d
           p == m \div d
           s == m % d
<1>1. /\ q \in Nat /\ r \in Nat /\ r < d /\ n = q * d + r
      /\ p \in Nat /\ s \in Nat /\ s < d /\ m = p * d + s
  OBVIOUS
<1>2. /\ RoundHalfEven(n, d) = IF 2 * r > d \/ (2 * r = d /\ q % 2 = 1) THEN q + 1 ELSE q
      /\ RoundHalfEven(m, d) = IF 2 * s > d \/ (2 * s = d /\ p % 2 = 1) THEN p + 1 ELSE p
  BY DEF RoundHalfEven
<1> HIDE DEF q, r, p, s
<1>3. q <= p
  <2>1. ASSUME p + 1 <= q PROVE FALSE
    <3>1. (p + 1) * d <= q * d
      BY <1>1, <2>1, TimesMonotone
    <3>2. (p + 1) * d = p * d + d /\ p * d \in Nat /\ q * d \in Nat
      BY <1>1
    <3> QED
      BY <1>1, <3>1, <3>2
  <2> QED
    BY <1>1, <2>1
<1>4. q = p => r <= s
  BY <1>1
<1>5. CASE q = p
  BY <1>1, <1>2, <1>4, <1>5
<1>6. CASE q + 1 <= p
  BY <1>1, <1>2, <1>6
<1> QED
  BY <1>1, <1>3, <1>5, <1>6

\* The multipliers grow by a factor of K.
LEMMA Multipliers ==
    /\ \A i \in Units : Mult(i) \in Nat \ {0}
    /\ Mult(0) = 1
    /\ \A i \in 0 .. 2 : Mult(i + 1) = K * Mult(i) /\ Mult(i) < Mult(i + 1)
<1>1. K \in Nat /\ K >= 2
  BY SizesAssumption
<1>2. Mult(0) = 1 /\ Mult(1) = K /\ Mult(2) = K * K /\ Mult(3) = K * K * K
  BY DEF Mult
<1>3. K * K \in Nat /\ 2 * K <= K * K
  BY <1>1, TimesMonotone
<1>4. K * K * K \in Nat /\ 2 * (K * K) <= K * (K * K) /\ K * (K * K) = K * K * K
  BY <1>1, <1>3, TimesMonotone
<1> QED
  BY <1>1, <1>2, <1>3, <1>4 DEF Units

\* fmt_bytes stops at the unit in which the size is a number below K.
LEMMA UnitType ==
    ASSUME NEW b \in Nat
    PROVE  LET i == UnitOf(b) IN /\ i \in Units
                                 /\ i = 3 \/ b < Mult(i + 1)
                                 /\ i = 0 \/ b >= Mult(i)
<1> DEFINE P(i) == /\ i = 3 \/ b < Mult(i + 1)
                   /\ i = 0 \/ b >= Mult(i)
<1>1. \A i \in Units : Mult(i) \in Nat
  BY Multipliers
<1>2. \E i \in Units : P(i)
  <2>1. CASE b < Mult(1)
    <3>1. 0 \in Units /\ P(0)
      BY <2>1 DEF Units
    <3> QED
      BY <3>1
  <2>2. CASE b >= Mult(1) /\ b < Mult(2)
    <3>1. 1 \in Units /\ P(1)
      BY <2>2 DEF Units
    <3> QED
      BY <3>1
  <2>3. CASE b >= Mult(2) /\ b < Mult(3)
    <3>1. 2 \in Units /\ P(2)
      BY <2>3 DEF Units
    <3> QED
      BY <3>1
  <2>4. CASE b >= Mult(3)
    <3>1. 3 \in Units /\ P(3)
      BY <2>4 DEF Units
    <3> QED
      BY <3>1
  <2> QED
    BY <1>1, <2>1, <2>2, <2>3, <2>4 DEF Units
<1>3. UnitOf(b) = CHOOSE i \in Units : P(i)
  BY DEF UnitOf
<1> QED
  BY <1>2, <1>3

\* What is printed, scaled up again, is within half a tenth of a unit.
LEMMA PrintedNear ==
    ASSUME NEW b \in Nat
    PROVE  LET t == FmtBytes(b)
               x == t.tenths * Mult(t.unit)
           IN  /\ t.unit = UnitOf(b) /\ t.tenths = RoundHalfEven(10 * b, Mult(UnitOf(b)))
               /\ x \in Nat /\ 2 * x <= 20 * b + Mult(t.unit)
               /\ 20 * b <= 2 * x + Mult(t.unit)
<1> DEFINE M == Mult(UnitOf(b))
<1>1. M \in Nat \ {0}
  BY UnitType, Multipliers
<1>2. /\ FmtBytes(b).unit = UnitOf(b)
      /\ FmtBytes(b).tenths = RoundHalfEven(10 * b, M)
  BY DEF FmtBytes
<1> HIDE DEF M
<1>3. 10 * b \in Nat
  OBVIOUS
<1>4. /\ RoundHalfEven(10 * b, M) \in Nat
      /\ 2 * (RoundHalfEven(10 * b, M) * M) <= 2 * (10 * b) + M
      /\ 2 * (10 * b) <= 2 * (RoundHalfEven(10 * b, M) * M) + M
  BY <1>1, <1>3, RoundNear
<1>5. RoundHalfEven(10 * b, M) * M \in Nat
  BY <1>1, <1>4
<1> QED
  BY <1>1, <1>2, <1>4, <1>5 DEF M

\* Cutting off and saturating keep the order, and cut off less than a byte.
LEMMA CutMonotone ==
    ASSUME NEW x \in Nat, NEW y \in Nat, x <= y
    PROVE  Saturated(x \div 10) <= Saturated(y \div 10)
BY SizesAssumption DEF Saturated

\* A printed size reads back as what it was, and a larger one never prints as a
\* smaller one, for every size, word and base of the units (sys.rs:67-98).
THEOREM PrintedSizesAreTrue ==
    ASSUME size \in Word
    PROVE  SizesReadBack
<1>0. size \in Nat /\ size + 1 \in Nat /\ Limit \in Nat /\ size <= Limit
  BY SizesAssumption DEF Word
<1> DEFINE X(b) == FmtBytes(b).tenths * Mult(FmtBytes(b).unit)
<1>1. \A b : ParseBytes(FmtBytes(b)) = Saturated(X(b) \div 10)
  BY DEF ParseBytes
<1>2. ReadsBack(size)
  <2> DEFINE x == X(size)
             M == Mult(FmtBytes(size).unit)
  <2>1. x \in Nat /\ 2 * x <= 20 * size + M /\ 20 * size <= 2 * x + M
    BY <1>0, PrintedNear
  <2>2. M \in Nat
    BY <1>0, PrintedNear, UnitType, Multipliers
  <2> HIDE DEF x, M
  <2>3. x \div 10 \in Nat /\ 10 * (x \div 10) <= x /\ x < 10 * (x \div 10) + 10
    BY <2>1
  <2>4. /\ 20 * size <= 20 * Saturated(x \div 10) + M + 20
        /\ 20 * Saturated(x \div 10) <= 20 * size + M
    BY <1>0, <2>1, <2>2, <2>3 DEF Saturated
  <2>5. Saturated(x \div 10) \in Nat
    BY <1>0, <2>3 DEF Saturated
  <2> QED
    BY <1>0, <1>1, <2>2, <2>4, <2>5 DEF ReadsBack, x, M
<1>3. X(size) \in Nat /\ X(size + 1) \in Nat
  BY <1>0, PrintedNear
<1>4. X(size) <= X(size + 1)
  <2> DEFINE i == UnitOf(size)
             j == UnitOf(size + 1)
  <2>1. /\ i \in Units /\ (i = 3 \/ size < Mult(i + 1)) /\ (i = 0 \/ size >= Mult(i))
        /\ j \in Units /\ (j = 3 \/ size + 1 < Mult(j + 1))
        /\ (j = 0 \/ size + 1 >= Mult(j))
    BY <1>0, UnitType
  <2>2. /\ X(size) = RoundHalfEven(10 * size, Mult(i)) * Mult(i)
        /\ X(size + 1) = RoundHalfEven(10 * (size + 1), Mult(j)) * Mult(j)
    BY <1>0, PrintedNear
  <2> HIDE DEF X, i, j
  <2>3. CASE i = j
    <3>1. Mult(i) \in Nat \ {0} /\ 10 * size \in Nat /\ 10 * (size + 1) \in Nat
          /\ 10 * size <= 10 * (size + 1)
      BY <1>0, <2>1, Multipliers
    <3>2. RoundHalfEven(10 * size, Mult(i)) <= RoundHalfEven(10 * (size + 1), Mult(i))
      BY <3>1, RoundMonotone
    <3>3. /\ RoundHalfEven(10 * size, Mult(i)) \in Nat
          /\ RoundHalfEven(10 * (size + 1), Mult(i)) \in Nat
      BY <3>1, RoundNear
    <3> QED
      BY <2>2, <2>3, <3>1, <3>2, <3>3, TimesMonotone
  <2>4. CASE i # j
    <3>1. i \in 0 .. 2 /\ j = i + 1 /\ size + 1 = Mult(j)
      <4>1. /\ Mult(0) = 1 /\ Mult(0) < Mult(1) /\ Mult(1) < Mult(2) /\ Mult(2) < Mult(3)
            /\ Mult(1) \in Nat /\ Mult(2) \in Nat /\ Mult(3) \in Nat
        BY Multipliers DEF Units
      <4> QED
        BY <1>0, <2>1, <2>4, <4>1 DEF Units
    <3>2. /\ Mult(i) \in Nat \ {0} /\ Mult(j) \in Nat \ {0}
      BY <2>1, Multipliers
    <3>3. X(size + 1) = 10 * Mult(j)
      <4>1. RoundHalfEven(10 * Mult(j), Mult(j)) = 10
        <5>1. (10 * Mult(j)) \div Mult(j) = 10 /\ (10 * Mult(j)) % Mult(j) = 0
          BY <3>2
        <5> QED
          BY <3>2, <5>1 DEF RoundHalfEven
      <4> QED
        BY <2>2, <3>1, <4>1
    <3>4. RoundHalfEven(10 * size, Mult(i)) <= 10 * K
      <4>1. RoundHalfEven(10 * Mult(j), Mult(i)) = 10 * K
        <5>1. 10 * Mult(j) = (10 * K) * Mult(i)
          BY <3>1, <3>2, Multipliers, SizesAssumption
        <5>2. /\ ((10 * K) * Mult(i)) \div Mult(i) = 10 * K
              /\ ((10 * K) * Mult(i)) % Mult(i) = 0
          BY <3>2, SizesAssumption
        <5> QED
          BY <3>2, <5>1, <5>2 DEF RoundHalfEven
      <4>2. 10 * size <= 10 * Mult(j) /\ 10 * size \in Nat /\ 10 * Mult(j) \in Nat
        BY <1>0, <3>1, <3>2
      <4> QED
        BY <3>2, <4>1, <4>2, RoundMonotone
    <3>5. RoundHalfEven(10 * size, Mult(i)) * Mult(i) <= (10 * K) * Mult(i)
      <4>1. 10 * size \in Nat
        BY <1>0
      <4>2. RoundHalfEven(10 * size, Mult(i)) \in Nat
        BY <3>2, <4>1, RoundNear
      <4> QED
        BY <3>2, <3>4, <4>2, SizesAssumption, TimesMonotone
    <3>6. (10 * K) * Mult(i) = 10 * Mult(j)
      BY <3>1, <3>2, Multipliers, SizesAssumption
    <3> QED
      BY <2>2, <3>3, <3>5, <3>6
  <2> QED
    BY <2>3, <2>4
<1>5. KeepsOrder(size)
  BY <1>1, <1>3, <1>4, CutMonotone DEF KeepsOrder
<1> QED
  BY <1>2, <1>5 DEF SizesReadBack

-----------------------------------------------------------------------------
(* The capability inspector. *)

Line == [pid : Pid \cup {Nobody}, path : Scheme \cup {Leftover}]

Reader == [cur : Pid \cup {Nobody}, map : [Pid -> Seq(Scheme)]]

LEMMA ReadLineType ==
    ASSUME NEW acc \in Reader, NEW line \in Line
    PROVE  ReadLine(acc, line) \in Reader
<1>1. acc.cur \in Pid \cup {Nobody} /\ acc.map \in [Pid -> Seq(Scheme)]
  BY DEF Reader
<1>2. line.pid \in Pid \cup {Nobody} /\ line.path \in Scheme \cup {Leftover}
  BY DEF Line
<1>3. CASE line.pid # Nobody
  BY <1>3, <1>2 DEF ReadLine, Reader
<1>4. CASE line.pid = Nobody /\ (acc.cur = Nobody \/ SchemeOf(line.path) = Nobody)
  BY <1>4 DEF ReadLine
<1>5. CASE line.pid = Nobody /\ ~(acc.cur = Nobody \/ SchemeOf(line.path) = Nobody)
  <2>1. acc.cur \in Pid /\ line.path \in Scheme
    BY <1>1, <1>5 DEF SchemeOf
  <2> DEFINE v == IF line.path \in ToSet(acc.map[acc.cur]) THEN acc.map[acc.cur]
                  ELSE Append(acc.map[acc.cur], line.path)
  <2>2. acc.map[acc.cur] \in Seq(Scheme)
    BY <1>1, <2>1
  <2>3. v \in Seq(Scheme)
    BY <2>1, <2>2
  <2>4. ReadLine(acc, line) = [acc EXCEPT !.map = [@ EXCEPT ![acc.cur] = v]]
    BY <1>5 DEF ReadLine
  <2> HIDE DEF v
  <2>5. [acc.map EXCEPT ![acc.cur] = v] \in [Pid -> Seq(Scheme)]
    BY <1>1, <2>3
  <2> QED
    BY <2>4, <2>5 DEF Reader
<1> QED
  BY <1>3, <1>4, <1>5

\* f is what capabilities() knows after each line of the dump d.
Reading(f, d) ==
    /\ f \in [0 .. Len(d) -> Reader]
    /\ f[0] = [cur |-> Nobody, map |-> [p \in Pid |-> <<>>]]
    /\ \A i \in 1 .. Len(d) : f[i] = ReadLine(f[i - 1], d[i])

LEMMA CapabilitiesRead ==
    ASSUME NEW d \in Seq(Line)
    PROVE  \E f : Reading(f, d) /\ Capabilities(d) = f[Len(d)].map
<1> DEFINE n      == Len(d)
           x0     == [cur |-> Nobody, map |-> [p \in Pid |-> <<>>]]
           Sol(f) == f = [i \in 0 .. n |-> IF i = 0 THEN x0 ELSE ReadLine(f[i - 1], d[i])]
           step   == [e \in (1 .. n) \X Reader |-> ReadLine(e[2], d[e[1]])]
<1>1. n \in Nat /\ \A i \in 1 .. n : d[i] \in Line
  OBVIOUS
<1>2. x0 \in Reader
  <2>1. <<>> \in Seq(Scheme)
    OBVIOUS
  <2>2. [p \in Pid |-> <<>>] \in [Pid -> Seq(Scheme)]
    BY <2>1
  <2> QED
    BY <2>2 DEF Reader
<1>3. step \in [(1 .. n) \X Reader -> Reader]
  <2>1. \A e \in (1 .. n) \X Reader : ReadLine(e[2], d[e[1]]) \in Reader
    BY <1>1, ReadLineType
  <2> QED
    BY <2>1
<1>4. \A i \in 1 .. n, x \in Reader : step[<<i, x>>] = ReadLine(x, d[i])
  OBVIOUS
<1> HIDE DEF x0
<1>5. PICK f : Recurrence(f, n, Reader, x0, step)
  <2> HIDE DEF n, step
  <2> QED
    BY <1>1, <1>2, <1>3, RecurrenceExists
<1> HIDE DEF step
<1>6. f \in [0 .. n -> Reader] /\ f[0] = x0 /\ \A i \in 1 .. n : f[i] = ReadLine(f[i - 1], d[i])
  <2>1. ASSUME NEW i \in 1 .. n PROVE f[i] = ReadLine(f[i - 1], d[i])
    <3>1. i - 1 \in 0 .. n
      BY <1>1
    <3> QED
      BY <1>4, <1>5, <3>1 DEF Recurrence
  <2> QED
    BY <1>5, <2>1 DEF Recurrence
<1>7. Sol(f)
  <2>1. \A i \in 0 .. n : f[i] = IF i = 0 THEN x0 ELSE ReadLine(f[i - 1], d[i])
    BY <1>1, <1>6
  <2> QED
    BY <1>6, <2>1
<1> DEFINE F == CHOOSE f_1 : Sol(f_1)
<1>8. Sol(F)
  <2> HIDE DEF Sol
  <2> QED
    BY <1>7, Zenon
<1>9. Capabilities(d) = F[n].map
  BY DEF Capabilities, x0
<1> HIDE DEF F
<1>10. F[0] = x0 /\ \A i \in 1 .. n : F[i] = ReadLine(F[i - 1], d[i])
  BY <1>1, <1>8
<1>11. F \in [0 .. n -> Reader]
  <2> DEFINE T == {i \in 0 .. n : F[i] \in Reader}
  <2>1. 0 \in T
    BY <1>1, <1>2, <1>10
  <2>2. ASSUME NEW i \in Nat, i < n, i \in T PROVE i + 1 \in T
    <3>1. i + 1 \in 1 .. n /\ i + 1 \in 0 .. n /\ (i + 1) - 1 = i
      BY <1>1, <2>2
    <3>2. F[i + 1] = ReadLine(F[i], d[i + 1]) /\ F[i] \in Reader
      BY <1>10, <2>2, <3>1
    <3>3. F[i + 1] \in Reader
      BY <1>1, <3>1, <3>2, ReadLineType
    <3> QED
      BY <3>1, <3>3
  <2>3. 0 .. n \subseteq T
    <3> HIDE DEF T
    <3> QED
      BY <1>1, <2>1, <2>2, Upwards
  <2>4. F = [i \in 0 .. n |-> F[i]]
    BY <1>8
  <2> QED
    BY <2>3, <2>4
<1> QED
  BY <1>9, <1>10, <1>11 DEF Reading, x0

\* who[i] is the process line i of the dump d is about: its header, or a line below it.
Owned(who, d) ==
    /\ who \in [1 .. Len(d) -> Pid]
    /\ \A i \in 1 .. Len(d) :
           \/ d[i].pid = who[i] /\ d[i].path = Leftover
           \/ d[i].pid = Nobody /\ i - 1 \in 1 .. Len(d) /\ who[i - 1] = who[i]

\* The lines up to i of process p lead to these schemes.
Reached(who, d, p, i) == {s \in Scheme : \E j \in 1 .. i : who[j] = p /\ d[j].path = s}

\* One line tells of its own process, and of nothing else, what it leads to.
LEMMA OneLine ==
    ASSUME NEW d \in Seq(Line), NEW who, Owned(who, d), NEW i \in 1 .. Len(d), NEW p \in Pid
    PROVE  Reached(who, d, p, i) =
               Reached(who, d, p, i - 1) \cup
               IF who[i] = p /\ d[i].path \in Scheme THEN {d[i].path} ELSE {}
<1>1. i \in Nat /\ i \in 1 .. i /\ 1 .. i = (1 .. (i - 1)) \cup {i}
  OBVIOUS
<1> QED
  BY <1>1 DEF Reached

\* What capabilities() knows of a process when it has read i lines.
Accounted(who, d, acc, i) ==
    /\ acc \in Reader
    /\ i > 0 => acc.cur = who[i]
    /\ \A p \in Pid : /\ IsInjective(acc.map[p])
                      /\ ToSet(acc.map[p]) = Reached(who, d, p, i)

LEMMA LinesAccounted ==
    ASSUME NEW d \in Seq(Line), NEW who, Owned(who, d), NEW f, Reading(f, d)
    PROVE  Accounted(who, d, f[Len(d)], Len(d))
<1> DEFINE n == Len(d)
           T == {i \in 0 .. n : Accounted(who, d, f[i], i)}
<1>1. n \in Nat /\ \A i \in 1 .. n : d[i] \in Line
  OBVIOUS
<1>2. 0 \in T
  <2>1. f[0] \in Reader /\ f[0].map = [p \in Pid |-> <<>>]
    BY <1>1 DEF Reading
  <2>2. IsInjective(<<>>) /\ ToSet(<<>>) = {}
    BY DEF IsInjective, ToSet
  <2>3. ASSUME NEW p \in Pid PROVE Reached(who, d, p, 0) = {}
    BY DEF Reached
  <2>4. \A p \in Pid : f[0].map[p] = <<>>
    BY <2>1, Zenon
  <2>5. ~(0 > 0)
    OBVIOUS
  <2>6. Accounted(who, d, f[0], 0)
    BY <2>1, <2>2, <2>3, <2>4, <2>5, Zenon DEF Accounted
  <2> QED
    BY <1>1, <2>6
<1>3. ASSUME NEW i \in Nat, i < n, i \in T PROVE i + 1 \in T
  <2> DEFINE acc  == f[i]
             line == d[i + 1]
             w    == who[i + 1]
  <2>1. i + 1 \in 1 .. n /\ i + 1 \in 0 .. n /\ (i + 1) - 1 = i /\ i + 1 > 0
    BY <1>1, <1>3
  <2>2. f[i + 1] = ReadLine(acc, line) /\ f[i + 1] \in Reader
    BY <2>1 DEF Reading
  <2>3. Accounted(who, d, acc, i)
    BY <1>3
  <2>4. w \in Pid /\ line \in Line
    BY <1>1, <2>1 DEF Owned
  <2>5. \A p \in Pid : Reached(who, d, p, i + 1) =
             Reached(who, d, p, i) \cup
             IF w = p /\ line.path \in Scheme THEN {line.path} ELSE {}
    BY <2>1, OneLine
  <2>6. \/ line.pid = w /\ line.path = Leftover
        \/ line.pid = Nobody /\ i \in 1 .. n /\ who[i] = w
    BY <2>1 DEF Owned
  <2> HIDE DEF acc, line, w
  <2>7. Accounted(who, d, f[i + 1], i + 1)
    <3>1. CASE line.pid = w /\ line.path = Leftover
      <4>1. w # Nobody /\ line.path \notin Scheme
        BY <2>4, <3>1, CapsAssumption
      <4>2. ReadLine(acc, line) = [acc EXCEPT !.cur = w]
        BY <3>1, <4>1 DEF ReadLine
      <4>3. f[i + 1].cur = w /\ f[i + 1].map = acc.map
        BY <2>2, <2>3, <4>2 DEF Accounted, Reader
      <4>4. \A p \in Pid : Reached(who, d, p, i + 1) = Reached(who, d, p, i)
        BY <2>5, <4>1
      <4> QED
        BY <2>2, <2>3, <4>3, <4>4 DEF Accounted, w
    <3>2. CASE line.pid = Nobody /\ i \in 1 .. n /\ who[i] = w
      <4>1. acc.cur = w /\ w # Nobody /\ acc \in Reader
        BY <2>3, <2>4, <3>2, CapsAssumption DEF Accounted
      <4>2. CASE line.path \notin Scheme
        <5>1. ReadLine(acc, line) = acc
          BY <3>2, <4>1, <4>2 DEF ReadLine, SchemeOf
        <5>2. \A p \in Pid : Reached(who, d, p, i + 1) = Reached(who, d, p, i)
          BY <2>5, <4>2
        <5> QED
          BY <2>2, <2>3, <4>1, <5>1, <5>2 DEF Accounted, w
      <4>3. CASE line.path \in Scheme
        <5> DEFINE old == acc.map[w]
                   v   == IF line.path \in ToSet(old) THEN old ELSE Append(old, line.path)
        <5>1. SchemeOf(line.path) # Nobody
          BY <4>3, CapsAssumption DEF SchemeOf
        <5>2. ReadLine(acc, line) = [acc EXCEPT !.map[w] = v]
          BY <3>2, <4>1, <5>1 DEF ReadLine
        <5>3. old \in Seq(Scheme) /\ IsInjective(old) /\ ToSet(old) = Reached(who, d, w, i)
          BY <2>3, <2>4 DEF Accounted, Reader
        <5>4. IsInjective(v) /\ ToSet(v) = ToSet(old) \cup {line.path}
          <6>1. CASE line.path \in ToSet(old)
            BY <5>3, <6>1
          <6>2. CASE line.path \notin ToSet(old)
            <7>1. v = Append(old, line.path) /\ old \in Seq(Scheme)
              BY <5>3, <6>2
            <7> HIDE DEF v, old
            <7>2. /\ Len(old) \in Nat
                  /\ DOMAIN old = 1 .. Len(old) /\ DOMAIN v = 1 .. Len(old) + 1
                  /\ v[Len(old) + 1] = line.path
                  /\ \A j \in 1 .. Len(old) : v[j] = old[j]
              BY <4>3, <7>1
            <7>3. ToSet(v) = ToSet(old) \cup {line.path}
              BY <7>2 DEF ToSet
            <7>4. \A j \in 1 .. Len(old) : old[j] # line.path
              BY <6>2, <7>2 DEF ToSet
            <7>5. IsInjective(v)
              BY <5>3, <7>2, <7>4 DEF IsInjective
            <7> QED
              BY <7>3, <7>5
          <6> QED
            BY <6>1, <6>2
        <5> HIDE DEF v, old
        <5>5. f[i + 1].cur = w /\ f[i + 1].map = [acc.map EXCEPT ![w] = v]
          BY <2>2, <4>1, <5>2 DEF Reader
        <5>6. acc.map \in [Pid -> Seq(Scheme)]
          BY <4>1 DEF Reader
        <5>7. ASSUME NEW p \in Pid
              PROVE  /\ IsInjective(f[i + 1].map[p])
                     /\ ToSet(f[i + 1].map[p]) = Reached(who, d, p, i + 1)
          <6>1. CASE p = w
            BY <2>4, <2>5, <4>3, <5>3, <5>4, <5>5, <5>6, <6>1
          <6>2. CASE p # w
            <7>1. f[i + 1].map[p] = acc.map[p]
              BY <5>5, <5>6, <6>2
            <7> QED
              BY <2>3, <2>5, <6>2, <7>1 DEF Accounted
          <6> QED
            BY <6>1, <6>2
        <5> QED
          BY <2>2, <5>5, <5>7 DEF Accounted, w
      <4> QED
        BY <4>2, <4>3
    <3> QED
      BY <2>6, <3>1, <3>2
  <2> QED
    BY <2>1, <2>7
<1>4. 0 .. n \subseteq T
  <2> HIDE DEF T
  <2> QED
    BY <1>1, <1>2, <1>3, Upwards
<1> QED
  BY <1>1, <1>4

\* Every line of a dump of the table t tells of a process that runs in t and leads to a
\* scheme this one has open, or to none; and every open scheme is told of.
TellsOf(who, d, t) ==
    /\ \A i \in 1 .. Len(d) : /\ who[i] \in Running(t)
                              /\ d[i].path \in t[who[i]].open \cup {Leftover}
    /\ \A p \in Running(t) : \A s \in t[p].open :
           \E i \in 1 .. Len(d) : who[i] = p /\ d[i].path = s

\* Each process runs in the order somewhere.
LEMMA EveryoneOrdered ==
    ASSUME NEW S, IsFiniteSet(S), NEW order \in SetToSeqs(S)
    PROVE  /\ order \in Seq(S)
           /\ \A p \in S : \E g \in 1 .. Len(order) : order[g] = p
<1> DEFINE m == Cardinality(S)
<1>1. m \in Nat
  BY FS_CardinalityType
<1>2. order \in [1 .. m -> S] /\ \A i, j \in 1 .. m : i # j => order[i] # order[j]
  BY DEF SetToSeqs
<1>3. Cardinality(1 .. m) = m /\ IsFiniteSet(1 .. m)
  BY <1>1, FS_Interval
<1>4. order \in Injection(1 .. m, S)
  BY <1>2 DEF Injection, IsInjective
<1>5. order \in Surjection(1 .. m, S)
  <2> HIDE DEF m
  <2>1. Cardinality(S) = Cardinality(1 .. m)
    BY <1>3 DEF m
  <2> QED
    BY <1>4, <2>1, FS_Injection
<1>6. order \in Seq(S) /\ Len(order) = m
  BY <1>1, <1>2
<1> QED
  BY <1>5, <1>6 DEF Surjection

\* A section: the header of its process, then a line for each of its descriptors.
LEMMA SectionLines ==
    ASSUME NEW p \in Pid, NEW S, S \subseteq Scheme, NEW f \in Fds(S)
    PROVE  /\ Section(p, f) \in Seq(Line)
           /\ Len(Section(p, f)) = Len(f) + 1
           /\ Section(p, f)[1] = Header(p)
           /\ \A k \in 1 .. Len(f) : /\ Section(p, f)[k + 1] = Fd(f[k])
                                     /\ f[k] \in S \cup {Leftover}
           /\ Len(f) \in Nat
           /\ \A s \in S : \E k \in 1 .. Len(f) : f[k] = s
<1>1. PICK m \in 0 .. MaxFds : f \in [1 .. m -> S \cup {Leftover}]
  BY DEF Fds, SeqOf
<1>2. f \in Seq(S \cup {Leftover}) /\ Len(f) = m /\ m \in Nat /\ DOMAIN f = 1 .. m
  BY <1>1, CapsAssumption
<1>3. S \subseteq ToSet(f)
  BY DEF Fds
<1>4. Header(p) \in Line
  BY DEF Header, Line
<1> DEFINE lines == [i \in DOMAIN f |-> Fd(f[i])]
<1>5. lines \in Seq(Line) /\ Len(lines) = m /\ \A k \in 1 .. m : lines[k] = Fd(f[k])
  <2>1. \A k \in 1 .. m : Fd(f[k]) \in Line
    BY <1>1 DEF Fd, Line
  <2> QED
    BY <1>2, <2>1
<1> HIDE DEF lines
<1>6. <<Header(p)>> \in Seq(Line) /\ Len(<<Header(p)>>) = 1 /\ <<Header(p)>>[1] = Header(p)
  <2> DEFINE h == Header(p)
  <2> HIDE DEF h
  <2>1. <<h>> \in Seq(Line) /\ Len(<<h>>) = 1 /\ <<h>>[1] = h
    BY <1>4 DEF h
  <2> QED
    BY <2>1 DEF h
<1> DEFINE one == <<Header(p)>>
<1>7. Section(p, f) = one \o lines
  BY DEF Section, lines
<1> HIDE DEF one
<1>8. /\ one \o lines \in Seq(Line) /\ Len(one \o lines) = m + 1
      /\ (one \o lines)[1] = Header(p)
      /\ \A k \in 1 .. m : (one \o lines)[k + 1] = lines[k]
  BY <1>2, <1>5, <1>6 DEF one
<1>9. \A s \in S : \E k \in 1 .. m : f[k] = s
  BY <1>2, <1>3 DEF ToSet
<1> QED
  BY <1>1, <1>2, <1>5, <1>7, <1>8, <1>9

\* Each line of a dump belongs to the section of one process of the table.
LEMMA DumpTells ==
    ASSUME NEW t \in Tables, NEW d \in Dumps(t)
    PROVE  d \in Seq(Line) /\ \E who : Owned(who, d) /\ TellsOf(who, d, t)
<1> DEFINE R == Running(t)
<1>0. IsFiniteSet(R) /\ R \subseteq Pid /\ \A p \in R : t[p].open \subseteq Scheme
  <2>1. R \subseteq Pid /\ \A p \in R : t[p] \in Process
    BY DEF Running, Tables
  <2> QED
    BY <2>1, CapsAssumption, FS_Subset DEF Process
<1>1. PICK order \in SetToSeqs(R) : d \in {Dump(order, fds) : fds \in Descriptors(t)}
  BY DEF Dumps
<1>2. PICK fds \in Descriptors(t) : d = Dump(order, fds)
  BY <1>1
<1> DEFINE n      == Len(order)
           groups == [i \in DOMAIN order |-> Section(order[i], fds[order[i]])]
           own(g) == fds[order[g]]
           S(g)   == t[order[g]].open
<1> HIDE DEF R
<1>3. order \in Seq(R) /\ \A p \in R : \E g \in 1 .. n : order[g] = p
  BY <1>0, EveryoneOrdered
<1>4. n \in Nat /\ DOMAIN order = 1 .. n /\ \A g \in 1 .. n : order[g] \in R
  BY <1>3
<1>5. ASSUME NEW g \in 1 .. n
      PROVE  /\ groups[g] \in Seq(Line)
             /\ Len(groups[g]) = Len(own(g)) + 1
             /\ groups[g][1] = Header(order[g])
             /\ \A k \in 1 .. Len(own(g)) : /\ groups[g][k + 1] = Fd(own(g)[k])
                                            /\ own(g)[k] \in S(g) \cup {Leftover}
             /\ Len(own(g)) \in Nat
             /\ \A s \in S(g) : \E k \in 1 .. Len(own(g)) : own(g)[k] = s
  <2>1. groups[g] = Section(order[g], own(g))
    BY <1>4
  <2>2. order[g] \in Pid /\ S(g) \subseteq Scheme /\ own(g) \in Fds(S(g))
    BY <1>0, <1>4 DEF Descriptors, R
  <2> HIDE DEF own, S, groups
  <2> QED
    BY <2>1, <2>2, SectionLines
<1>6. groups \in Seq(Seq(Line)) /\ Len(groups) = n
  <2>1. DOMAIN groups = 1 .. n /\ groups = [i \in 1 .. n |-> groups[i]]
    BY <1>4
  <2> QED
    BY <1>4, <1>5, <2>1
<1>7. d = FlattenSeq(groups)
  BY <1>2 DEF Dump
<1> HIDE DEF groups, own, S, n
<1>8. d \in Seq(Line) /\ \E grp, pos : Layout(grp, pos, groups)
  BY <1>6, <1>7, LayoutExists
<1>9. PICK grp, pos : Layout(grp, pos, groups)
  BY <1>8
<1>10. /\ \A i \in 1 .. Len(d) :
              /\ grp[i] \in 1 .. n
              /\ pos[i] \in 1 .. Len(groups[grp[i]])
              /\ d[i] = groups[grp[i]][pos[i]]
              /\ pos[i] # 1 => i - 1 \in 1 .. Len(d) /\ grp[i - 1] = grp[i]
       /\ \A g \in 1 .. n : \A k \in 1 .. Len(groups[g]) :
              \E i \in 1 .. Len(d) : grp[i] = g /\ pos[i] = k
  BY <1>6, <1>7, <1>9 DEF Layout
<1> DEFINE who == [i \in 1 .. Len(d) |-> order[grp[i]]]
<1>11. ASSUME NEW i \in 1 .. Len(d)
       PROVE  \/ d[i].pid = who[i] /\ d[i].path = Leftover
              \/ /\ d[i].pid = Nobody /\ d[i].path \in S(grp[i]) \cup {Leftover}
                 /\ i - 1 \in 1 .. Len(d) /\ who[i - 1] = who[i]
  <2> DEFINE g == grp[i]
  <2>1. g \in 1 .. n /\ pos[i] \in 1 .. Len(groups[g]) /\ d[i] = groups[g][pos[i]]
    BY <1>10
  <2>2. CASE pos[i] = 1
    <3>1. d[i] = Header(order[g])
      BY <1>5, <2>1, <2>2
    <3>2. who[i] = order[g]
      OBVIOUS
    <3> QED
      BY <3>1, <3>2 DEF Header
  <2>3. CASE pos[i] # 1
    <3>1. i - 1 \in 1 .. Len(d) /\ who[i - 1] = who[i]
      BY <1>10, <2>3
    <3>2. pos[i] - 1 \in 1 .. Len(own(g)) /\ (pos[i] - 1) + 1 = pos[i]
      BY <1>5, <2>1, <2>3, SMTT(30)
    <3> HIDE DEF g, who
    <3>3. /\ groups[g][pos[i]] = Fd(own(g)[pos[i] - 1])
          /\ own(g)[pos[i] - 1] \in S(g) \cup {Leftover}
      BY <1>5, <2>1, <3>2
    <3> QED
      BY <2>1, <3>1, <3>3 DEF g, Fd
  <2> QED
    BY <2>2, <2>3
<1>12. \A i \in 1 .. Len(d) : /\ who[i] \in R /\ grp[i] \in 1 .. n
                              /\ S(grp[i]) = t[who[i]].open
  BY <1>4, <1>10 DEF S
<1>13. ASSUME NEW p \in R, NEW s \in t[p].open
       PROVE  \E i \in 1 .. Len(d) : who[i] = p /\ d[i].path = s
  <2>1. PICK g \in 1 .. n : order[g] = p
    BY <1>3
  <2>2. s \in S(g)
    BY <2>1 DEF S
  <2>3. PICK k \in 1 .. Len(own(g)) : own(g)[k] = s
    BY <1>5, <2>2
  <2>4. Len(groups[g]) = Len(own(g)) + 1 /\ Len(own(g)) \in Nat
    BY <1>5
  <2>5. k + 1 \in 1 .. Len(groups[g])
    BY <2>4
  <2>6. PICK i \in 1 .. Len(d) : grp[i] = g /\ pos[i] = k + 1
    BY <1>10, <2>5
  <2>7. d[i] = groups[g][k + 1]
    BY <1>10, <2>6
  <2>8. d[i] = Fd(s)
    BY <1>5, <2>3, <2>7
  <2>9. who[i] = p /\ d[i].path = s
    BY <2>1, <2>6, <2>8 DEF Fd
  <2> QED
    BY <2>9
<1>14. who \in [1 .. Len(d) -> Pid]
  BY <1>0, <1>12
<1> HIDE DEF who
<1>15. Owned(who, d)
  <2>1. ASSUME NEW i \in 1 .. Len(d)
        PROVE  \/ d[i].pid = who[i] /\ d[i].path = Leftover
               \/ d[i].pid = Nobody /\ i - 1 \in 1 .. Len(d) /\ who[i - 1] = who[i]
    BY <1>11
  <2> QED
    BY <1>14, <2>1 DEF Owned
<1>16. TellsOf(who, d, t)
  <2>1. ASSUME NEW i \in 1 .. Len(d) PROVE d[i].path \in t[who[i]].open \cup {Leftover}
    BY <1>11, <1>12
  <2> QED
    BY <1>12, <1>13, <2>1 DEF TellsOf, R
<1> QED
  BY <1>8, <1>15, <1>16

\* What the inspector makes of a dump is what the processes of the table have open.
LEMMA DumpUnderstood ==
    ASSUME NEW t \in Tables, NEW d \in Dumps(t), NEW p \in Pid
    PROVE  /\ IsInjective(Capabilities(d)[p]) /\ Capabilities(d)[p] # Nobody
           /\ t[p] = Nobody => Capabilities(d)[p] = <<>>
           /\ t[p] # Nobody => ToSet(Capabilities(d)[p]) = t[p].open
<1>1. d \in Seq(Line)
  BY DumpTells
<1>2. PICK who : Owned(who, d) /\ TellsOf(who, d, t)
  BY DumpTells
<1>3. PICK f : Reading(f, d) /\ Capabilities(d) = f[Len(d)].map
  BY <1>1, CapabilitiesRead
<1> DEFINE v == Capabilities(d)[p]
<1>4. Accounted(who, d, f[Len(d)], Len(d))
  BY <1>1, <1>2, <1>3, LinesAccounted
<1>5. v \in Seq(Scheme) /\ IsInjective(v) /\ ToSet(v) = Reached(who, d, p, Len(d))
  BY <1>3, <1>4 DEF Accounted, Reader
<1> HIDE DEF v
<1>6. ASSUME t[p] = Nobody PROVE v = <<>>
  <2>1. Reached(who, d, p, Len(d)) = {}
    BY <1>2, <1>6 DEF Reached, TellsOf, Running
  <2>2. DOMAIN v = 1 .. Len(v) /\ Len(v) \in Nat
    BY <1>5
  <2>3. \A i \in DOMAIN v : v[i] \in ToSet(v)
    BY DEF ToSet
  <2>4. ASSUME Len(v) # 0 PROVE FALSE
    <3>1. 1 \in DOMAIN v
      BY <2>2, <2>4
    <3> QED
      BY <1>5, <2>1, <2>3, <3>1
  <2> QED
    BY <1>5, <2>4
<1>7. ASSUME t[p] # Nobody PROVE ToSet(v) = t[p].open
  <2>1. p \in Running(t) /\ t[p].open \subseteq Scheme
    BY <1>7 DEF Running, Tables, Process
  <2>2. Reached(who, d, p, Len(d)) \subseteq t[p].open
    BY <1>2, CapsAssumption DEF Reached, TellsOf
  <2>3. t[p].open \subseteq Reached(who, d, p, Len(d))
    BY <1>2, <2>1 DEF Reached, TellsOf
  <2> QED
    BY <1>5, <2>2, <2>3
<1>8. v # Nobody
  BY <1>5, CapsAssumption
<1> QED
  BY <1>5, <1>6, <1>7, <1>8 DEF v

\* The dump in hand stays one of the table it was taken from, whatever the kernel does.
LEMMA HeldStep == HeldIsDumped /\ [Next]_vars => HeldIsDumped'
<1> SUFFICES ASSUME HeldIsDumped, [Next]_vars PROVE HeldIsDumped'
  OBVIOUS
<1> USE DEF HeldIsDumped
<1>1. CASE ReadIostat
  <2>1. Nothing \in Tables
    BY DEF Nothing, Tables
  <2> QED
    BY <1>1, <2>1 DEF ReadIostat
<1>2. CASE ReadContext
  BY <1>2 DEF ReadContext
<1>3. ASSUME NEW p \in Pid, Start(p) PROVE HeldIsDumped'
  <2>1. PICK S \in SUBSET Scheme : table' = [table EXCEPT ![p] = [born |-> events, open |-> S]]
    BY <1>3 DEF Start
  <2>2. [born |-> events, open |-> S] \in Process
    BY DEF Process
  <2>3. table' \in Tables /\ events' \in Nat
    BY <1>3, <2>1, <2>2 DEF Start, Event, Tables
  <2>4. UNCHANGED <<dump, held>>
    BY <1>3 DEF Start, Kernel
  <2> QED
    BY <2>3, <2>4
<1>4. ASSUME NEW p \in Pid, Stop(p) PROVE HeldIsDumped'
  BY <1>4 DEF Stop, Kernel, Tables
<1>5. ASSUME NEW p \in Pid, NEW s \in Scheme, Open(p, s) PROVE HeldIsDumped'
  <2>1. table[p] \in Process
    BY <1>5 DEF Open, Tables
  <2>2. [table[p] EXCEPT !.open = @ \cup {s}] \in Process
    BY <2>1 DEF Process
  <2>3. table' = [table EXCEPT ![p] = [table[p] EXCEPT !.open = @ \cup {s}]]
    BY <1>5 DEF Open
  <2>4. table' \in Tables /\ events' \in Nat
    BY <1>5, <2>2, <2>3 DEF Open, Event, Tables
  <2>5. UNCHANGED <<dump, held>>
    BY <1>5 DEF Open, Kernel
  <2> QED
    BY <2>4, <2>5
<1>6. CASE UNCHANGED vars
  BY <1>6 DEF vars
<1> QED
  BY <1>1, <1>2, <1>3, <1>4, <1>5, <1>6 DEF Next

\* Whatever starts, stops and opens schemes between the two dumps, and whichever of
\* them cannot be read, a row lists what the first one says that the process of its
\* pid had open: each scheme once, nothing of another process, and nothing if it was
\* not there; and either every process has its row, or none (sys.rs:518-540,
\* sys.rs:587-614).
THEOREM SchemesAreOwn == Spec => OwnSchemes
<1> DEFINE Right(p) == /\ IsInjective(shown'[p])
                       /\ held[p] = Nobody => shown'[p] = <<>>
                       /\ held[p] # Nobody /\ held[p].born = table[p].born
                              => ToSet(shown'[p]) = held[p].open
<1>1. Init => HeldIsDumped
  <2> SUFFICES ASSUME Init PROVE HeldIsDumped
    OBVIOUS
  <2> QED
    BY DEF Init, HeldIsDumped, Tables, Nothing
<1>2. ASSUME HeldIsDumped, ReadContext
      PROVE  /\ Running(shown') \in {{}, Running(table)}
             /\ \A p \in Running(shown') : Right(p)
  <2>1. held \in Tables /\ dump \in Dumps(held)
    BY <1>2 DEF HeldIsDumped, ReadContext
  <2>2. ASSUME NEW p \in Pid
        PROVE  /\ IsInjective(Capabilities(dump)[p]) /\ Capabilities(dump)[p] # Nobody
               /\ held[p] = Nobody => Capabilities(dump)[p] = <<>>
               /\ held[p] # Nobody => ToSet(Capabilities(dump)[p]) = held[p].open
    BY <2>1, DumpUnderstood
  <2>3. PICK listed \in {table, Nothing} :
            shown' = [p \in Pid |-> IF p \in Running(listed) THEN Capabilities(dump)[p]
                                                             ELSE Nobody]
    BY <1>2 DEF ReadContext
  <2>4. \A p \in Running(shown') : p \in Pid /\ shown'[p] = Capabilities(dump)[p]
    BY <2>3 DEF Running
  <2>5. Running(Nothing) = {}
    BY DEF Running, Nothing
  <2>6. Running(shown') = Running(listed)
    BY <2>2, <2>3 DEF Running
  <2> QED
    BY <2>2, <2>4, <2>5, <2>6
<1>3. HeldIsDumped /\ [Next]_vars =>
          [ReadContext =>
              LET rows == Running(shown') IN
              /\ rows \in {{}, Running(table)}
              /\ \A p \in rows : Right(p)]_vars
  BY <1>2
<1> QED
  BY <1>1, <1>3, HeldStep, PTL DEF Spec, OwnSchemes
=============================================================================
