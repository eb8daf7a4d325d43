---------------------------- MODULE DataTheorems ----------------------------
(***************************************************************************)
(* Facts about the data the components are built from: counting up to a    *)
(* number, functions defined by recursion, finite sets of numbers and the  *)
(* concatenation of a sequence of sequences.                               *)
(***************************************************************************)
EXTENDS Integers, SequencesExt, FiniteSetTheorems, TLAPS

-----------------------------------------------------------------------------
(* Natural numbers. *)

\* A non-empty set of natural numbers has a least element.
LEMMA LeastElement ==
    ASSUME NEW T, T \subseteq Nat, T # {}
    PROVE  \E n \in T : \A k \in T : n <= k
<1>1. PICK n \in T : \A k \in T : <<k, n>> \notin OpToRel(<, Nat)
  BY WFMin, NatLessThanWellFounded
<1>2. ASSUME NEW k \in T PROVE n <= k
  <2>1. <<k, n>> \in Nat \X Nat
    OBVIOUS
  <2>2. <<k, n>> \in OpToRel(<, Nat) <=> k < n
    BY <2>1 DEF OpToRel
  <2>3. ~(k < n)
    BY <1>1, <2>2
  <2> QED
    BY <2>1, <2>3
<1> QED
  BY <1>2

\* Induction up to a number, for the set of those that have a property.
LEMMA Upwards ==
    ASSUME NEW n \in Nat, NEW T, 0 \in T,
           \A i \in Nat : i < n /\ i \in T => i + 1 \in T
    PROVE  0 .. n \subseteq T
<1> SUFFICES ASSUME ~(0 .. n \subseteq T) PROVE FALSE
  OBVIOUS
<1>1. (0 .. n) \ T \subseteq Nat /\ (0 .. n) \ T # {}
  OBVIOUS
<1>2. PICK k \in (0 .. n) \ T : \A l \in (0 .. n) \ T : k <= l
  BY <1>1, LeastElement
<1>3. k \in Nat /\ k # 0 /\ k <= n
  BY <1>2
<1>4. k - 1 \in T
  BY <1>2, <1>3
<1>5. k - 1 \in Nat /\ k - 1 < n /\ (k - 1) + 1 = k
  BY <1>3
<1>6. k \in T
  BY <1>4, <1>5
<1> QED
  BY <1>2, <1>6

\* A set of numbers up to w that has, with a number, all those below it, is an
\* interval, as long as it has elements.
LEMMA InitialSegment ==
    ASSUME NEW w \in Nat, NEW S, S \subseteq 1 .. w, \A n \in S : 1 .. n \subseteq S
    PROVE  Cardinality(S) \in 0 .. w /\ S = 1 .. Cardinality(S)
<1>1. \E k \in 0 .. w : S = 1 .. k
  <2>1. CASE 1 .. w \subseteq S
    <3>1. S = 1 .. w
      BY <2>1, Zenon
    <3>2. w \in 0 .. w
      OBVIOUS
    <3> QED
      BY <3>1, <3>2
  <2>2. CASE ~(1 .. w \subseteq S)
    <3>1. (1 .. w) \ S \subseteq Nat /\ (1 .. w) \ S # {}
      BY <2>2
    <3>2. PICK z \in (1 .. w) \ S : \A k \in (1 .. w) \ S : z <= k
      BY <3>1, LeastElement
    <3>3. ASSUME NEW n \in S PROVE n \in 1 .. z - 1
      <4>1. n \in 1 .. w /\ z \in 1 .. w
        OBVIOUS
      <4>2. ~(z <= n)
        BY <4>1, <3>2
      <4> QED
        BY <4>1, <4>2
    <3>4. ASSUME NEW n \in 1 .. z - 1 PROVE n \in S
      <4>1. n \in 1 .. w /\ ~(z <= n)
        OBVIOUS
      <4> QED
        BY <4>1, <3>2
    <3>5. S = 1 .. z - 1
      BY <3>3, <3>4, Zenon
    <3>6. z - 1 \in 0 .. w
      OBVIOUS
    <3> QED
      BY <3>5, <3>6
  <2> QED
    BY <2>1, <2>2
<1>2. PICK k \in 0 .. w : S = 1 .. k
  BY <1>1
<1>3. Cardinality(1 .. k) = k
  BY FS_Interval
<1> QED
  BY <1>2, <1>3

\* f starts with x0 and goes on by step.
Recurrence(f, n, X, x0, step) ==
    /\ f \in [0 .. n -> X]
    /\ f[0] = x0
    /\ \A i \in 1 .. n : f[i] = step[<<i, f[i - 1]>>]

\* A function may be defined by recursion on the numbers up to n.
LEMMA RecurrenceExists ==
    ASSUME NEW n \in Nat, NEW X, NEW x0 \in X, NEW step \in [(1 .. n) \X X -> X]
    PROVE  \E f : Recurrence(f, n, X, x0, step)
<1> DEFINE Good(k, f) == Recurrence(f, k, X, x0, step)
           T == {k \in 0 .. n : \E f : Good(k, f)}
<1> USE DEF Recurrence
<1>1. 0 \in T
  <2> DEFINE f == [i \in 0 .. 0 |-> x0]
  <2>1. Good(0, f)
    OBVIOUS
  <2>2. 0 \in 0 .. n
    OBVIOUS
  <2> QED
    BY <2>1, <2>2
<1>2. ASSUME NEW k \in Nat, k < n, k \in T PROVE k + 1 \in T
  <2>1. PICK f : Good(k, f)
    BY <1>2
  <2> DEFINE g == [i \in 0 .. k + 1 |-> IF i = k + 1 THEN step[<<k + 1, f[k]>>] ELSE f[i]]
  <2>2. k \in 0 .. k /\ k + 1 \in 1 .. n /\ k + 1 \in 0 .. n
    BY <1>2
  <2>3. step[<<k + 1, f[k]>>] \in X
    BY <2>1, <2>2
  <2>4. g \in [0 .. k + 1 -> X]
    BY <2>1, <2>3
  <2>5. g[0] = x0
    BY <2>1
  <2>6. ASSUME NEW i \in 1 .. k + 1 PROVE g[i] = step[<<i, g[i - 1]>>]
    BY <2>1, SMTT(30)
  <2>7. Good(k + 1, g)
    BY <2>4, <2>5, <2>6
  <2> HIDE DEF Good
  <2> QED
    BY <2>2, <2>7
<1>3. n \in T
  <2> HIDE DEF T
  <2>1. 0 .. n \subseteq T
    BY <1>1, <1>2, Upwards
  <2> QED
    BY <2>1
<1> QED
  BY <1>3

-----------------------------------------------------------------------------
(* FlattenSeq: where the elements of each group end up. *)

\* off is where the groups end: a running sum of their lengths.
Offsets(off, groups) ==
    /\ off \in [0 .. Len(groups) -> Nat]
    /\ off[0] = 0
    /\ \A g \in 1 .. Len(groups) : off[g] = off[g - 1] + Len(groups[g])

LEMMA OffsetsExist ==
    ASSUME NEW X, NEW groups \in Seq(Seq(X))
    PROVE  \E off : Offsets(off, groups)
<1> DEFINE n    == Len(groups)
           step == [e \in (1 .. n) \X Nat |-> e[2] + Len(groups[e[1]])]
<1>1. n \in Nat /\ \A g \in 1 .. n : Len(groups[g]) \in Nat
  OBVIOUS
<1>2. step \in [(1 .. n) \X Nat -> Nat]
  BY <1>1
<1>3. \A g \in 1 .. n, x \in Nat : step[<<g, x>>] = x + Len(groups[g])
  OBVIOUS
<1> HIDE DEF step
<1>4. PICK off : Recurrence(off, n, Nat, 0, step)
  <2>1. n \in Nat /\ 0 \in Nat
    BY <1>1
  <2> HIDE DEF n
  <2> QED
    BY <1>2, <2>1, RecurrenceExists
<1>5. ASSUME NEW g \in 1 .. n PROVE off[g] = off[g - 1] + Len(groups[g])
  <2>1. g - 1 \in 0 .. n
    BY <1>1
  <2>2. off[g] = step[<<g, off[g - 1]>>] /\ off[g - 1] \in Nat
    BY <1>4, <2>1 DEF Recurrence
  <2> QED
    BY <1>3, <2>2
<1> QED
  BY <1>4, <1>5 DEF Offsets, Recurrence

\* The ends are in the order of the groups.
LEMMA OffsetsGrow ==
    ASSUME NEW X, NEW groups \in Seq(Seq(X)), NEW off, Offsets(off, groups),
           NEW g \in 0 .. Len(groups), NEW h \in 0 .. Len(groups), g <= h
    PROVE  off[g] <= off[h]
<1> DEFINE n == Len(groups)
           T == {i \in 0 .. n - g : off[g] <= off[g + i]}
<1>1. n \in Nat /\ \A i \in 1 .. n : Len(groups[i]) \in Nat
  OBVIOUS
<1>2. off[g] \in Nat /\ off[h] \in Nat
  BY DEF Offsets
<1>3. 0 \in T
  BY <1>1, <1>2
<1>4. ASSUME NEW i \in Nat, i < n - g, i \in T PROVE i + 1 \in T
  <2>1. g + i + 1 \in 1 .. n /\ (g + i + 1) - 1 = g + i /\ g + i \in 0 .. n
    BY <1>1, <1>4
  <2>2. off[g + i + 1] = off[g + i] + Len(groups[g + i + 1])
    BY <2>1 DEF Offsets
  <2>3. off[g + i] \in Nat /\ Len(groups[g + i + 1]) \in Nat
    BY <1>1, <2>1 DEF Offsets
  <2>4. off[g] <= off[g + i]
    BY <1>4
  <2>5. off[g] <= off[g + i + 1]
    BY <1>2, <2>2, <2>3, <2>4
  <2>6. g + (i + 1) = g + i + 1 /\ i + 1 \in 0 .. n - g
    BY <1>1, <1>4
  <2> QED
    BY <2>5, <2>6
<1>5. 0 .. n - g \subseteq T
  <2>1. n - g \in Nat
    BY <1>1
  <2> HIDE DEF T
  <2> QED
    BY <1>3, <1>4, <2>1, Upwards
<1>6. h - g \in 0 .. n - g /\ g + (h - g) = h
  BY <1>1
<1>7. off[g] <= off[g + (h - g)]
  BY <1>5, <1>6
<1> QED
  BY <1>6, <1>7

\* Each position up to the last end is in one group.
LEMMA OffsetsCover ==
    ASSUME NEW X, NEW groups \in Seq(Seq(X)), NEW off, Offsets(off, groups),
           NEW i \in 1 .. off[Len(groups)]
    PROVE  \E g \in 1 .. Len(groups) : \E k \in 1 .. Len(groups[g]) : i = off[g - 1] + k
<1> DEFINE n == Len(groups)
           T == {g \in 0 .. n : i <= off[g]}
<1>1. n \in Nat /\ n \in 0 .. n /\ \A g \in 1 .. n : Len(groups[g]) \in Nat
  OBVIOUS
<1>2. off \in [0 .. n -> Nat] /\ off[0] = 0 /\ i \in Nat /\ i >= 1 /\ i <= off[n]
  BY <1>1 DEF Offsets
<1>3. T \subseteq Nat /\ n \in T
  BY <1>1, <1>2
<1>4. PICK g \in T : \A h \in T : g <= h
  <2> HIDE DEF T
  <2> QED
    BY <1>3, LeastElement
<1>5. g \in 1 .. n /\ g - 1 \in 0 .. n
  BY <1>1, <1>2
<1>6. ~(i <= off[g - 1])
  BY <1>1, <1>4, <1>5
<1>7. off[g] = off[g - 1] + Len(groups[g])
  BY <1>5 DEF Offsets
<1>8. off[g - 1] \in Nat /\ Len(groups[g]) \in Nat
  BY <1>1, <1>2, <1>5
<1>9. i - off[g - 1] \in 1 .. Len(groups[g]) /\ i = off[g - 1] + (i - off[g - 1])
  BY <1>2, <1>4, <1>6, <1>7, <1>8
<1> QED
  BY <1>5, <1>9

\* What concatenation does, position by position.
LEMMA ConcatPlaces ==
    ASSUME NEW X, NEW s \in Seq(X), NEW t \in Seq(X)
    PROVE  /\ s \o t \in Seq(X)
           /\ Len(s) \in Nat /\ Len(t) \in Nat
           /\ Len(s \o t) = Len(s) + Len(t)
           /\ \A i \in 1 .. Len(t) : (s \o t)[Len(s) + i] = t[i]
           /\ <<>> \o t = t
OBVIOUS

LEMMA ConcatKeeps ==
    ASSUME NEW X, NEW s \in Seq(X), NEW t \in Seq(X)
    PROVE  \A i \in 1 .. Len(s) : (s \o t)[i] = s[i]
OBVIOUS

\* The recursion inside FlattenSeq has a solution, so CHOOSE returns one.
LEMMA FlattenRecursion ==
    ASSUME NEW X, NEW groups \in Seq(Seq(X)), Len(groups) # 0
    PROVE  \E h : /\ h = [i \in 1 .. Len(groups) |->
                             IF i = 1 THEN groups[i] ELSE h[i - 1] \o groups[i]]
                  /\ FlattenSeq(groups) = h[Len(groups)]
<1> DEFINE n      == Len(groups)
           Sol(h) == h = [i \in 1 .. n |-> IF i = 1 THEN groups[i] ELSE h[i - 1] \o groups[i]]
           step   == [e \in (1 .. n) \X Seq(X) |-> e[2] \o groups[e[1]]]
<1>1. n \in Nat /\ <<>> \in Seq(X) /\ \A i \in 1 .. n : groups[i] \in Seq(X)
  OBVIOUS
<1>2. step \in [(1 .. n) \X Seq(X) -> Seq(X)]
  BY <1>1
<1>3. \A i \in 1 .. n, x \in Seq(X) : step[<<i, x>>] = x \o groups[i]
  OBVIOUS
<1>4. PICK f : Recurrence(f, n, Seq(X), <<>>, step)
  <2> HIDE DEF n, step
  <2> QED
    BY <1>1, <1>2, RecurrenceExists
<1> HIDE DEF step
<1>5. f \in [0 .. n -> Seq(X)] /\ \A i \in 1 .. n : f[i] = f[i - 1] \o groups[i]
  <2>1. ASSUME NEW i \in 1 .. n PROVE f[i] = f[i - 1] \o groups[i]
    <3>1. i - 1 \in 0 .. n
      BY <1>1
    <3> QED
      BY <1>3, <1>4, <3>1 DEF Recurrence
  <2> QED
    BY <1>4, <2>1 DEF Recurrence
<1> DEFINE h == [i \in 1 .. n |-> f[i]]
<1>6. ASSUME NEW i \in 1 .. n
      PROVE  h[i] = IF i = 1 THEN groups[i] ELSE h[i - 1] \o groups[i]
  <2>1. CASE i = 1
    <3>1. f[0] = <<>> /\ 1 - 1 = 0
      BY <1>4 DEF Recurrence
    <3>2. f[1] = <<>> \o groups[1] /\ groups[1] \in Seq(X)
      BY <1>1, <1>5, <2>1, <3>1
    <3>3. f[1] = groups[1]
      BY <1>1, <3>2, ConcatPlaces
    <3> QED
      BY <2>1, <3>3
  <2>2. CASE i # 1
    <3>1. i - 1 \in 1 .. n
      BY <1>1, <2>2
    <3> QED
      BY <1>5, <2>2, <3>1
  <2> QED
    BY <2>1, <2>2
<1>7. Sol(h)
  <2> DEFINE r == [i \in 1 .. n |-> IF i = 1 THEN groups[i] ELSE h[i - 1] \o groups[i]]
  <2>1. \A i \in 1 .. n : h[i] = r[i]
    BY <1>6, Zenon
  <2>2. h = [i \in 1 .. n |-> h[i]] /\ r = [i \in 1 .. n |-> r[i]]
    OBVIOUS
  <2> HIDE DEF h, r
  <2>3. h = r
    BY <2>1, <2>2, Zenon
  <2> QED
    BY <2>3 DEF r
<1> HIDE DEF h
<1> DEFINE F == CHOOSE x : Sol(x)
<1>8. Sol(F)
  <2> HIDE DEF Sol
  <2> QED
    BY <1>7, Zenon
<1>9. FlattenSeq(groups) = F[n]
  BY DEF FlattenSeq
<1> HIDE DEF F
<1> QED
  BY <1>8, <1>9

\* The elements of each group stand where the group before it ends.
LEMMA FlattenPlaces ==
    ASSUME NEW X, NEW groups \in Seq(Seq(X)), NEW off, Offsets(off, groups)
    PROVE  /\ FlattenSeq(groups) \in Seq(X)
           /\ Len(FlattenSeq(groups)) = off[Len(groups)]
           /\ \A g \in 1 .. Len(groups) : \A k \in 1 .. Len(groups[g]) :
                  FlattenSeq(groups)[off[g - 1] + k] = groups[g][k]
<1> DEFINE n == Len(groups)
<1>1. n \in Nat /\ \A i \in 1 .. n : groups[i] \in Seq(X)
  OBVIOUS
<1>2. CASE n = 0
  <2>1. FlattenSeq(groups) = groups /\ groups = <<>>
    BY <1>2 DEF FlattenSeq
  <2>2. Len(groups) = off[n]
    BY <1>2 DEF Offsets
  <2> QED
    BY <1>2, <2>1, <2>2
<1>3. CASE n # 0
  <2>1. PICK F : /\ F = [i \in 1 .. n |-> IF i = 1 THEN groups[i] ELSE F[i - 1] \o groups[i]]
                 /\ FlattenSeq(groups) = F[n]
    BY <1>3, FlattenRecursion
  <2> DEFINE Placed(i) ==
               /\ F[i] \in Seq(X)
               /\ Len(F[i]) = off[i]
               /\ \A g \in 1 .. i : \A k \in 1 .. Len(groups[g]) :
                      F[i][off[g - 1] + k] = groups[g][k]
             T == {i \in 0 .. n : i = 0 \/ Placed(i)}
  <2>2. F[1] = groups[1] /\ \A i \in 2 .. n : F[i] = F[i - 1] \o groups[i]
    <3>1. 1 \in 1 .. n
      BY <1>1, <1>3
    <3>2. \A i \in 1 .. n : F[i] = IF i = 1 THEN groups[i] ELSE F[i - 1] \o groups[i]
      BY <2>1, Zenon
    <3>3. ASSUME NEW i \in 2 .. n PROVE i \in 1 .. n /\ i # 1
      OBVIOUS
    <3> QED
      BY <3>1, <3>2, <3>3
  <2>3. ASSUME NEW i \in Nat, i < n, i \in T PROVE i + 1 \in T
    <3>1. i + 1 \in 1 .. n /\ i \in 0 .. n /\ (i + 1) - 1 = i
      BY <1>1, <2>3
    <3>2. groups[i + 1] \in Seq(X) /\ off[i + 1] = off[i] + Len(groups[i + 1])
      BY <1>1, <3>1 DEF Offsets
    <3>3. CASE i = 0
      <4>1. F[1] \in Seq(X) /\ Len(F[1]) = off[1] /\ off[0] = 0
        BY <2>2, <3>2, <3>3 DEF Offsets
      <4>2. ASSUME NEW g \in 1 .. 1, NEW k \in 1 .. Len(groups[g])
            PROVE  F[1][off[g - 1] + k] = groups[g][k]
        <5>1. g = 1 /\ g - 1 = 0
          OBVIOUS
        <5>2. off[g - 1] + k = k
          BY <3>2, <3>3, <4>1, <5>1
        <5> QED
          BY <2>2, <5>1, <5>2
      <4> QED
        BY <3>1, <3>3, <4>1, <4>2
    <3>4. CASE i # 0
      <4>1. Placed(i)
        BY <2>3, <3>4, Zenon
      <4>2. F[i + 1] = F[i] \o groups[i + 1]
        <5>1. i + 1 \in 2 .. n
          BY <3>1, <3>4
        <5> QED
          BY <2>2, <3>1, <5>1
      <4>3. /\ F[i + 1] \in Seq(X) /\ Len(F[i + 1]) = off[i + 1]
            /\ \A k \in 1 .. Len(F[i]) : F[i + 1][k] = F[i][k]
            /\ \A k \in 1 .. Len(groups[i + 1]) :
                   F[i + 1][Len(F[i]) + k] = groups[i + 1][k]
        <5>1. F[i] \in Seq(X) /\ groups[i + 1] \in Seq(X)
          BY <3>2, <4>1
        <5>2. Len(F[i + 1]) = Len(F[i]) + Len(groups[i + 1])
          BY <4>2, <5>1
        <5>3. F[i + 1] \in Seq(X)
          BY <4>2, <5>1
        <5>4. \A k \in 1 .. Len(F[i]) : (F[i] \o groups[i + 1])[k] = F[i][k]
          BY <5>1, ConcatKeeps, Zenon
        <5>5. \A k \in 1 .. Len(groups[i + 1]) :
                  (F[i] \o groups[i + 1])[Len(F[i]) + k] = groups[i + 1][k]
          BY <5>1, ConcatPlaces, Zenon
        <5> QED
          BY <3>2, <4>1, <4>2, <5>2, <5>3, <5>4, <5>5, Zenon
      <4>4. ASSUME NEW g \in 1 .. i + 1, NEW k \in 1 .. Len(groups[g])
            PROVE  F[i + 1][off[g - 1] + k] = groups[g][k]
        <5>1. g \in 1 .. n /\ g - 1 \in 0 .. n /\ g \in 0 .. n
          BY <3>1
        <5>2. off[g - 1] \in Nat /\ off[g] = off[g - 1] + Len(groups[g])
          BY <5>1 DEF Offsets
        <5>3. Len(groups[g]) \in Nat
          BY <1>1, <5>1
        <5>4. CASE g = i + 1
          <6>1. off[g - 1] = Len(F[i])
            BY <3>1, <4>1, <5>4
          <6> QED
            BY <4>3, <5>4, <6>1
        <5>5. CASE g # i + 1
          <6>1. g \in 1 .. i
            BY <5>5
          <6>2. off[g] <= off[i]
            BY <3>1, <5>1, <6>1, OffsetsGrow
          <6>3. off[i] \in Nat
            BY <3>1 DEF Offsets
          <6>4. off[g - 1] + k \in 1 .. Len(F[i])
            BY <4>1, <5>2, <5>3, <6>2, <6>3, SMTT(30)
          <6>5. F[i + 1][off[g - 1] + k] = F[i][off[g - 1] + k]
            BY <4>3, <6>4
          <6> QED
            BY <4>1, <6>1, <6>5
        <5> QED
          BY <5>4, <5>5
      <4> HIDE DEF Placed
      <4>5. Placed(i + 1)
        BY <4>3, <4>4 DEF Placed
      <4> QED
        BY <3>1, <4>5
    <3> QED
      BY <3>3, <3>4
  <2>4. 0 \in T
    BY <1>1
  <2>5. 0 .. n \subseteq T
    <3> HIDE DEF T
    <3> QED
      BY <1>1, <2>3, <2>4, Upwards
  <2>6. Placed(n)
    BY <1>1, <1>3, <2>5, SMTT(30)
  <2> QED
    BY <2>1, <2>6
<1> QED
  BY <1>2, <1>3

\* Element i of the concatenation is element pos[i] of group grp[i]; all of them
\* are there, group after group, each in its own order.
Layout(grp, pos, groups) ==
    LET F == FlattenSeq(groups) IN
    /\ grp \in [1 .. Len(F) -> Nat]
    /\ pos \in [1 .. Len(F) -> Nat]
    /\ \A i \in 1 .. Len(F) :
           /\ grp[i] \in 1 .. Len(groups)
           /\ pos[i] \in 1 .. Len(groups[grp[i]])
           /\ F[i] = groups[grp[i]][pos[i]]
           /\ pos[i] # 1 => i - 1 \in 1 .. Len(F) /\ grp[i - 1] = grp[i] /\ pos[i - 1] = pos[i] - 1
    /\ \A g \in 1 .. Len(groups) : \A k \in 1 .. Len(groups[g]) :
           \E i \in 1 .. Len(F) : grp[i] = g /\ pos[i] = k
    /\ \A i, j \in 1 .. Len(F) :
           i < j => grp[i] < grp[j] \/ (grp[i] = grp[j] /\ pos[i] < pos[j])

LEMMA LayoutExists ==
    ASSUME NEW X, NEW groups \in Seq(Seq(X))
    PROVE  FlattenSeq(groups) \in Seq(X) /\ \E grp, pos : Layout(grp, pos, groups)
<1> DEFINE n == Len(groups)
           F == FlattenSeq(groups)
<1>1. PICK off : Offsets(off, groups)
  BY OffsetsExist
<1>2. /\ F \in Seq(X) /\ Len(F) = off[n]
      /\ \A g \in 1 .. n : \A k \in 1 .. Len(groups[g]) : F[off[g - 1] + k] = groups[g][k]
  BY <1>1, FlattenPlaces
<1> HIDE DEF F
<1>3. n \in Nat /\ Len(F) \in Nat /\ \A g \in 1 .. n : Len(groups[g]) \in Nat
  BY <1>2
<1>4. /\ off \in [0 .. n -> Nat] /\ off[0] = 0
      /\ \A g \in 1 .. n : off[g] = off[g - 1] + Len(groups[g])
  BY <1>1 DEF Offsets
<1> DEFINE At(i, g, k) == g \in 1 .. n /\ k \in 1 .. Len(groups[g]) /\ i = off[g - 1] + k
<1>5. ASSUME NEW i, NEW j, NEW g, NEW h, NEW k, NEW l, At(i, g, k), At(j, h, l), i <= j
      PROVE  g < h \/ (g = h /\ k <= l)
  <2>1. /\ g \in 1 .. n /\ h \in 1 .. n /\ g - 1 \in 0 .. n /\ h - 1 \in 0 .. n
        /\ g \in 0 .. n /\ h \in 0 .. n
    BY <1>3, <1>5, SMTT(30)
  <2>2. off[g - 1] \in Nat /\ off[h - 1] \in Nat /\ off[h] \in Nat
    BY <1>4, <2>1
  <2>3. off[h] = off[h - 1] + Len(groups[h]) /\ Len(groups[h]) \in Nat /\ Len(groups[g]) \in Nat
    BY <1>3, <1>4, <2>1
  <2>4. CASE h < g
    <3>1. h <= g - 1
      BY <2>1, <2>4
    <3>2. off[h] <= off[g - 1]
      BY <1>1, <2>1, <3>1, OffsetsGrow
    <3>3. k \in Nat /\ k >= 1 /\ l <= Len(groups[h]) /\ l \in Nat
      BY <1>5, <2>3
    <3>4. i = off[g - 1] + k /\ j = off[h - 1] + l
      BY <1>5
    <3>5. j <= off[h]
      BY <2>2, <2>3, <3>3, <3>4
    <3>6. off[g - 1] < i
      BY <2>2, <3>3, <3>4
    <3>7. i \in Nat /\ j \in Nat
      <4>1. off[g - 1] + k \in Nat /\ off[h - 1] + l \in Nat
        BY <2>2, <3>3, SMTT(30)
      <4> QED
        BY <3>4, <4>1
    <3>8. ~(i <= j)
      BY <2>2, <3>2, <3>5, <3>6, <3>7
    <3> QED
      BY <1>5, <3>8
  <2>5. CASE g = h
    <3>1. k \in Nat /\ l \in Nat
      BY <1>5, <2>3
    <3>2. i = off[g - 1] + k /\ j = off[g - 1] + l
      BY <1>5, <2>5
    <3> QED
      BY <1>5, <2>2, <2>5, <3>1, <3>2
  <2> QED
    BY <2>1, <2>4, <2>5
<1>6. ASSUME NEW g \in 1 .. n, NEW k \in 1 .. Len(groups[g])
      PROVE  off[g - 1] + k \in 1 .. Len(F)
  <2>1. g - 1 \in 0 .. n /\ g \in 0 .. n /\ n \in 0 .. n /\ g <= n
    BY <1>3
  <2>2. off[g] <= off[n]
    BY <1>1, <2>1, OffsetsGrow
  <2>3. off[g - 1] \in Nat /\ off[n] \in Nat /\ off[g] = off[g - 1] + Len(groups[g])
    BY <1>4, <2>1
  <2> QED
    BY <1>2, <1>3, <2>2, <2>3, SMTT(30)
<1>7. \A i \in 1 .. Len(F) : \E g, k : At(i, g, k)
  <2> SUFFICES ASSUME NEW i \in 1 .. Len(F) PROVE \E g, k : At(i, g, k)
    OBVIOUS
  <2>1. i \in 1 .. off[n]
    BY <1>2
  <2>2. PICK g \in 1 .. n : \E k \in 1 .. Len(groups[g]) : i = off[g - 1] + k
    BY <1>1, <2>1, OffsetsCover
  <2> QED
    BY <2>2
<1> DEFINE Grp(i) == CHOOSE g : \E k : At(i, g, k)
           Pos(i) == CHOOSE k : At(i, Grp(i), k)
           grp == [i \in 1 .. Len(F) |-> Grp(i)]
           pos == [i \in 1 .. Len(F) |-> Pos(i)]
<1> HIDE DEF At
<1>8. \A i \in 1 .. Len(F) : At(i, grp[i], pos[i])
  <2> SUFFICES ASSUME NEW i \in 1 .. Len(F) PROVE At(i, grp[i], pos[i])
    BY Zenon
  <2>1. \E k : At(i, grp[i], k)
    BY <1>7, Zenon
  <2> QED
    BY <2>1, Zenon
<1>9. \A i \in 1 .. Len(F) : grp[i] \in Nat /\ pos[i] \in Nat
  <2> SUFFICES ASSUME NEW i \in 1 .. Len(F) PROVE grp[i] \in Nat /\ pos[i] \in Nat
    BY Zenon
  <2> DEFINE g == grp[i]
             k == pos[i]
  <2>1. At(i, g, k)
    BY <1>8
  <2> HIDE DEF g, k
  <2>2. g \in Nat /\ k \in Nat
    BY <1>3, <2>1 DEF At
  <2> QED
    BY <2>2 DEF g, k
<1>10. grp \in [1 .. Len(F) -> Nat] /\ pos \in [1 .. Len(F) -> Nat]
  <2>1. \A i \in 1 .. Len(F) : Grp(i) \in Nat /\ Pos(i) \in Nat
    BY <1>9
  <2> HIDE DEF Grp, Pos
  <2> QED
    BY <2>1
<1> HIDE DEF grp, pos
<1>11. ASSUME NEW i \in 1 .. Len(F), NEW g, NEW k, At(i, g, k)
       PROVE  grp[i] = g /\ pos[i] = k
  <2>1. At(i, grp[i], pos[i]) /\ i <= i
    BY <1>8
  <2>2. grp[i] < g \/ (grp[i] = g /\ pos[i] <= k)
    BY <1>5, <1>11, <2>1
  <2>3. g < grp[i] \/ (g = grp[i] /\ k <= pos[i])
    BY <1>5, <1>11, <2>1
  <2>4. g \in Nat /\ k \in Nat /\ grp[i] \in Nat /\ pos[i] \in Nat
    BY <1>3, <1>10, <1>11 DEF At
  <2> QED
    BY <2>2, <2>3, <2>4
<1>12. ASSUME NEW i \in 1 .. Len(F)
       PROVE  /\ grp[i] \in 1 .. n
              /\ pos[i] \in 1 .. Len(groups[grp[i]])
              /\ F[i] = groups[grp[i]][pos[i]]
              /\ pos[i] # 1 => /\ i - 1 \in 1 .. Len(F)
                               /\ grp[i - 1] = grp[i]
                               /\ pos[i - 1] = pos[i] - 1
  <2>1. /\ grp[i] \in 1 .. n /\ pos[i] \in 1 .. Len(groups[grp[i]])
        /\ i = off[grp[i] - 1] + pos[i]
    BY <1>8 DEF At
  <2>2. F[i] = groups[grp[i]][pos[i]]
    BY <1>2, <2>1
  <2>3. ASSUME pos[i] # 1
        PROVE  i - 1 \in 1 .. Len(F) /\ grp[i - 1] = grp[i] /\ pos[i - 1] = pos[i] - 1
    <3>1. Len(groups[grp[i]]) \in Nat /\ off[grp[i] - 1] \in Nat
      BY <1>3, <1>4, <2>1, SMTT(30)
    <3>2. /\ pos[i] - 1 \in 1 .. Len(groups[grp[i]])
          /\ i - 1 = off[grp[i] - 1] + (pos[i] - 1)
      <4> DEFINE o == off[grp[i] - 1]
                 p == pos[i]
                 l == Len(groups[grp[i]])
      <4>1. p \in 1 .. l /\ i = o + p /\ p # 1 /\ l \in Nat /\ o \in Nat
        BY <2>1, <2>3, <3>1
      <4> HIDE DEF o, p, l
      <4>2. p - 1 \in 1 .. l /\ i - 1 = o + (p - 1)
        BY <4>1
      <4> QED
        BY <4>2 DEF o, p, l
    <3>3. i - 1 \in 1 .. Len(F)
      BY <1>6, <2>1, <3>2
    <3>4. At(i - 1, grp[i], pos[i] - 1)
      BY <2>1, <3>2 DEF At
    <3> QED
      BY <1>11, <3>3, <3>4
  <2> QED
    BY <2>1, <2>2, <2>3
<1>13. ASSUME NEW g \in 1 .. n, NEW k \in 1 .. Len(groups[g])
       PROVE  \E i \in 1 .. Len(F) : grp[i] = g /\ pos[i] = k
  <2>1. off[g - 1] + k \in 1 .. Len(F) /\ At(off[g - 1] + k, g, k)
    BY <1>6 DEF At
  <2> QED
    BY <1>11, <2>1
<1>14. ASSUME NEW i \in 1 .. Len(F), NEW j \in 1 .. Len(F), i < j
       PROVE  grp[i] < grp[j] \/ (grp[i] = grp[j] /\ pos[i] < pos[j])
  <2>1. At(i, grp[i], pos[i]) /\ At(j, grp[j], pos[j]) /\ i <= j
    BY <1>8, <1>14
  <2>2. grp[i] < grp[j] \/ (grp[i] = grp[j] /\ pos[i] <= pos[j])
    BY <1>5, <2>1
  <2>3. ~(grp[i] = grp[j] /\ pos[i] = pos[j])
    BY <1>3, <1>14, <2>1 DEF At
  <2>4. pos[i] \in Nat /\ pos[j] \in Nat
    BY <1>10
  <2> QED
    BY <2>2, <2>3, <2>4
<1>15. Layout(grp, pos, groups)
  BY <1>10, <1>12, <1>13, <1>14 DEF Layout, F
<1> QED
  BY <1>2, <1>15 DEF F
=============================================================================
