--------------------------- MODULE ProcTabProofs ---------------------------
(***************************************************************************)
(* The process tab keeps its promises for every finite set of processes,   *)
(* applications and filters, and every table the kernel may come up with.  *)
(***************************************************************************)
EXTENDS ProcTab, DataTheorems

-----------------------------------------------------------------------------
(* Sums. *)

\* f[i] is the sum of the first i elements of s.
Running(f, s) ==
    /\ f \in [0 .. Len(s) -> Nat]
    /\ f[0] = 0
    /\ \A i \in 1 .. Len(s) : f[i] = f[i - 1] + s[i]

LEMMA RunningUnique ==
    ASSUME NEW s \in Seq(Nat), NEW f, NEW g, Running(f, s), Running(g, s)
    PROVE  f[Len(s)] = g[Len(s)]
<1> DEFINE T == {i \in 0 .. Len(s) : f[i] = g[i]}
<1> USE DEF Running
<1>1. 0 \in T /\ Len(s) \in Nat
  OBVIOUS
<1>2. ASSUME NEW i \in Nat, i < Len(s), i \in T PROVE i + 1 \in T
  <2>1. i + 1 \in 1 .. Len(s) /\ i + 1 \in 0 .. Len(s) /\ (i + 1) - 1 = i
    BY <1>1, <1>2
  <2>2. f[i + 1] = f[i] + s[i + 1] /\ g[i + 1] = g[i] + s[i + 1]
    BY <2>1
  <2> QED
    BY <1>2, <2>1, <2>2
<1> HIDE DEF T, Running
<1>3. 0 .. Len(s) \subseteq T
  BY <1>1, <1>2, Upwards
<1> QED
  BY <1>1, <1>3 DEF T

\* SumOf is the last of the running sums.
LEMMA SumRuns ==
    ASSUME NEW s \in Seq(Nat)
    PROVE  \E f : Running(f, s) /\ SumOf(s) = f[Len(s)]
<1> DEFINE n      == Len(s)
           Sol(f) == f = [i \in 0 .. n |-> IF i = 0 THEN 0 ELSE f[i - 1] + s[i]]
           step   == [e \in (1 .. n) \X Nat |-> e[2] + s[e[1]]]
<1>1. n \in Nat /\ \A i \in 1 .. n : s[i] \in Nat
  OBVIOUS
<1>2. step \in [(1 .. n) \X Nat -> Nat] /\ 0 \in Nat
  BY <1>1
<1>3. \A i \in 1 .. n, x \in Nat : step[<<i, x>>] = x + s[i]
  OBVIOUS
<1>4. PICK f : Recurrence(f, n, Nat, 0, step)
  <2> HIDE DEF n, step
  <2> QED
    BY <1>1, <1>2, RecurrenceExists
<1> HIDE DEF step
<1>5. f \in [0 .. n -> Nat] /\ f[0] = 0 /\ \A i \in 1 .. n : f[i] = f[i - 1] + s[i]
  <2>1. ASSUME NEW i \in 1 .. n PROVE f[i] = f[i - 1] + s[i]
    <3>1. i - 1 \in 0 .. n
      BY <1>1
    <3> QED
      BY <1>3, <1>4, <3>1 DEF Recurrence
  <2> QED
    BY <1>4, <2>1 DEF Recurrence
<1>6. Sol(f)
  <2>1. \A i \in 0 .. n : f[i] = IF i = 0 THEN 0 ELSE f[i - 1] + s[i]
    BY <1>1, <1>5
  <2> QED
    BY <1>5, <2>1
<1> DEFINE F == CHOOSE x : Sol(x)
<1>7. Sol(F)
  <2> HIDE DEF Sol
  <2> QED
    BY <1>6, Zenon
<1>8. SumOf(s) = F[n]
  BY DEF SumOf
<1> HIDE DEF F
<1>9. Running(F, s)
  <2> DEFINE T == {i \in 0 .. n : F[i] = f[i]}
  <2>1. F[0] = 0 /\ \A i \in 1 .. n : F[i] = F[i - 1] + s[i]
    BY <1>1, <1>7
  <2>2. 0 \in T
    BY <1>1, <1>5, <2>1
  <2>3. ASSUME NEW i \in Nat, i < n, i \in T PROVE i + 1 \in T
    <3>1. i + 1 \in 1 .. n /\ i + 1 \in 0 .. n /\ (i + 1) - 1 = i
      BY <1>1, <2>3
    <3>2. F[i + 1] = F[i] + s[i + 1] /\ f[i + 1] = f[i] + s[i + 1]
      BY <1>5, <2>1, <3>1
    <3> QED
      BY <2>3, <3>1, <3>2
  <2>4. 0 .. n \subseteq T
    <3> HIDE DEF T
    <3> QED
      BY <1>1, <2>2, <2>3, Upwards
  <2>5. \A i \in 0 .. n : F[i] \in Nat
    BY <1>5, <2>4
  <2>6. F = [i \in 0 .. n |-> F[i]]
    BY <1>7
  <2>7. F \in [0 .. n -> Nat]
    BY <2>5, <2>6
  <2> QED
    BY <2>1, <2>7 DEF Running
<1> QED
  BY <1>8, <1>9

\* So it is the end of any running sum.
LEMMA SumIs ==
    ASSUME NEW s \in Seq(Nat), NEW f, Running(f, s)
    PROVE  SumOf(s) = f[Len(s)]
BY SumRuns, RunningUnique

-----------------------------------------------------------------------------
(* The order of the list. *)

\* s is the elements of S, each of them once, the heaviest first.
Sorted(s, S, mem) ==
    /\ s \in [1 .. Cardinality(S) -> S]
    /\ \A i, j \in 1 .. Cardinality(S) : i < j => Heavier(mem[s[i]], s[i], mem[s[j]], s[j])

\* A finite set can be sorted: each element goes to the place that the number of
\* elements before it says.
LEMMA SortExists ==
    ASSUME NEW S, S \subseteq Nat, IsFiniteSet(S), NEW mem \in [S -> Nat]
    PROVE  \E s : Sorted(s, S, mem)
<1> DEFINE n == Cardinality(S)
           Before(x, y) == Heavier(mem[x], x, mem[y], y)
           Above(x) == {y \in S : Before(y, x)}
           rank == [x \in S |-> Cardinality(Above(x)) + 1]
<1>1. n \in Nat
  BY FS_CardinalityType
<1>2. /\ \A x \in S : ~Before(x, x)
      /\ \A x, y \in S : x # y => Before(x, y) \/ Before(y, x)
      /\ \A x, y, z \in S : Before(x, y) /\ Before(y, z) => Before(x, z)
  BY DEF Heavier
<1> HIDE DEF Before
<1>3. ASSUME NEW x \in S
      PROVE  /\ IsFiniteSet(Above(x)) /\ Cardinality(Above(x)) \in Nat
             /\ Cardinality(Above(x)) < n
  <2>1. Above(x) \in SUBSET S /\ Above(x) # S
    BY <1>2
  <2>2. IsFiniteSet(Above(x)) /\ Cardinality(Above(x)) <= n /\ Cardinality(Above(x)) # n
    BY <2>1, FS_Subset
  <2>3. Cardinality(Above(x)) \in Nat
    BY <2>2, FS_CardinalityType
  <2> QED
    BY <1>1, <2>2, <2>3
<1>4. \A x \in S : rank[x] = Cardinality(Above(x)) + 1
  OBVIOUS
<1>5. rank \in [S -> 1 .. n]
  <2>1. \A x \in S : Cardinality(Above(x)) + 1 \in 1 .. n
    BY <1>1, <1>3
  <2> HIDE DEF n, Above
  <2> QED
    BY <2>1
<1> HIDE DEF rank
<1>6. ASSUME NEW x \in S, NEW y \in S, Before(x, y) PROVE rank[x] < rank[y]
  <2>1. Above(x) \in SUBSET Above(y) /\ Above(x) # Above(y)
    BY <1>2, <1>6
  <2>2. /\ Cardinality(Above(x)) <= Cardinality(Above(y))
        /\ Cardinality(Above(x)) # Cardinality(Above(y))
    BY <1>3, <2>1, FS_Subset
  <2> HIDE DEF Above
  <2> QED
    BY <1>3, <1>4, <2>2
<1>7. rank \in Injection(S, 1 .. n)
  <2>1. ASSUME NEW x \in S, NEW y \in S, rank[x] = rank[y] PROVE x = y
    <3>1. rank[x] \in Nat /\ rank[y] \in Nat
      BY <1>5
    <3>2. ~(rank[x] < rank[y]) /\ ~(rank[y] < rank[x])
      BY <2>1, <3>1
    <3> QED
      BY <1>2, <1>6, <3>2
  <2> QED
    BY <1>5, <2>1 DEF Injection, IsInjective
<1>8. rank \in Surjection(S, 1 .. n)
  <2>1. IsFiniteSet(1 .. n) /\ Cardinality(1 .. n) = n
    BY <1>1, FS_Interval
  <2> QED
    BY <1>7, <2>1, FS_Injection
<1> DEFINE At(i) == CHOOSE x : x \in S /\ rank[x] = i
           s == [i \in 1 .. n |-> At(i)]
<1>9. \A i \in 1 .. n : At(i) \in S /\ rank[At(i)] = i
  <2> SUFFICES ASSUME NEW i \in 1 .. n PROVE At(i) \in S /\ rank[At(i)] = i
    BY Zenon
  <2>1. \E x : x \in S /\ rank[x] = i
    BY <1>8 DEF Surjection
  <2> QED
    BY <2>1, Zenon
<1> HIDE DEF At
<1>10. ASSUME NEW i \in 1 .. n, NEW j \in 1 .. n, i < j PROVE Before(s[i], s[j])
  <2>1. s[i] = At(i) /\ s[j] = At(j) /\ At(i) # At(j)
    BY <1>1, <1>9, <1>10
  <2>2. ~Before(At(j), At(i))
    <3>1. i \in Nat /\ j \in Nat /\ ~(j < i)
      BY <1>1, <1>10
    <3> QED
      BY <1>6, <1>9, <3>1
  <2> QED
    BY <1>2, <1>9, <2>1, <2>2
<1>11. s \in [1 .. n -> S]
  BY <1>9
<1> HIDE DEF s
<1>12. Sorted(s, S, mem)
  BY <1>10, <1>11 DEF Sorted, Before
<1> QED
  BY <1>12

\* What ByMemory returns is sorted, and nothing is missing from it.
LEMMA ByMemorySorts ==
    ASSUME NEW S, S \subseteq Nat, IsFiniteSet(S), NEW mem \in [S -> Nat]
    PROVE  /\ Sorted(ByMemory(S, mem), S, mem)
           /\ \A x \in S : \E i \in 1 .. Cardinality(S) : ByMemory(S, mem)[i] = x
           /\ \A i, j \in 1 .. Cardinality(S) :
                  ByMemory(S, mem)[i] = ByMemory(S, mem)[j] => i = j
<1> DEFINE n == Cardinality(S)
           s == ByMemory(S, mem)
           P(x) == \A i, j \in DOMAIN x : i < j => Heavier(mem[x[i]], x[i], mem[x[j]], x[j])
<1>1. PICK r : Sorted(r, S, mem)
  BY SortExists
<1>2. r \in [1 .. n -> S] /\ P(r)
  BY <1>1 DEF Sorted
<1>3. s \in [1 .. n -> S] /\ P(s)
  <2>1. s = CHOOSE x \in [1 .. n -> S] : P(x)
    BY DEF ByMemory
  <2> HIDE DEF P, n, s
  <2> QED
    BY <1>2, <2>1, Zenon
<1> HIDE DEF s
<1>4. n \in Nat
  BY FS_CardinalityType
<1>5. Sorted(s, S, mem)
  BY <1>3 DEF Sorted
<1>6. ASSUME NEW i \in 1 .. n, NEW j \in 1 .. n, s[i] = s[j] PROVE i = j
  <2>1. s[i] \in S /\ mem[s[i]] \in Nat /\ s[i] \in Nat
    BY <1>3
  <2>2. ~Heavier(mem[s[i]], s[i], mem[s[j]], s[j]) /\ ~Heavier(mem[s[j]], s[j], mem[s[i]], s[i])
    BY <1>6, <2>1 DEF Heavier
  <2>3. ~(i < j) /\ ~(j < i)
    BY <1>3, <2>2
  <2> QED
    BY <1>4, <2>3
<1>7. s \in Injection(1 .. n, S)
  BY <1>3, <1>6 DEF Injection, IsInjective
<1>8. IsFiniteSet(1 .. n) /\ Cardinality(1 .. n) = n
  BY <1>4, FS_Interval
<1>9. s \in Surjection(1 .. n, S)
  BY <1>7, <1>8, FS_Injection
<1>10. \A x \in S : \E i \in 1 .. n : s[i] = x
  BY <1>9 DEF Surjection
<1> QED
  BY <1>5, <1>6, <1>10 DEF s

-----------------------------------------------------------------------------
(* The rows of one application. *)

ProcsKnown == procs \in [Pid -> {None} \cup Process]

LEMMA AliveKnown ==
    ASSUME ProcsKnown
    PROVE  /\ Alive \subseteq Pid /\ Alive \subseteq Nat /\ IsFiniteSet(Alive)
           /\ \A p \in Alive : /\ procs[p].name \in Name /\ procs[p].name \in Nat
                               /\ procs[p].mem \in Nat
<1>1. Alive \in SUBSET Pid
  BY DEF Alive
<1>2. IsFiniteSet(Alive)
  BY <1>1, ProcAssumption, FS_Subset
<1>3. ASSUME NEW p \in Alive
      PROVE  procs[p].name \in Name /\ procs[p].name \in Nat /\ procs[p].mem \in Nat
  <2>1. procs[p] \in Process
    BY DEF Alive, ProcsKnown
  <2> QED
    BY <2>1, ProcAssumption DEF Process
<1> QED
  BY <1>1, <1>2, <1>3, ProcAssumption

\* The memory of a group is a number, and that of a single process its own.
LEMMA TotalType ==
    ASSUME ProcsKnown, NEW S, S \subseteq Alive
    PROVE  /\ Total(S) \in Nat
           /\ \A p : S = {p} => Total(S) = procs[p].mem
<1> DEFINE n == Cardinality(S)
           s == SetToSeq(S)
           m == [i \in DOMAIN s |-> procs[s[i]].mem]
<1>1. IsFiniteSet(S) /\ \A p \in S : procs[p].mem \in Nat
  BY AliveKnown, FS_Subset
<1>2. n \in Nat /\ \E f \in [1 .. n -> S] : IsInjective(f)
  BY <1>1, FS_CardinalityType DEF ExistsBijection, Bijection, Injection
<1>3. s \in [1 .. n -> S]
  <2>1. s = CHOOSE f \in [1 .. n -> S] : IsInjective(f)
    BY DEF SetToSeq
  <2> HIDE DEF s, n
  <2> QED
    BY <1>2, <2>1, Zenon
<1> HIDE DEF s
<1>4. m \in [1 .. n -> Nat]
  BY <1>1, <1>3
<1>5. m \in Seq(Nat) /\ Len(m) = n
  BY <1>2, <1>4
<1>6. Total(S) = SumOf(m)
  BY DEF Total, s
<1>7. PICK f : Running(f, m) /\ SumOf(m) = f[n]
  BY <1>5, SumRuns
<1>8. f[n] \in Nat
  BY <1>2, <1>5, <1>7 DEF Running
<1>9. ASSUME NEW p, S = {p} PROVE Total(S) = procs[p].mem
  <2>1. n = 1 /\ p \in S
    BY <1>9, FS_Singleton
  <2>2. m[1] = procs[p].mem
    BY <1>3, <1>9, <2>1
  <2>3. f[1] = f[0] + m[1] /\ f[0] = 0
    BY <1>5, <1>7, <2>1 DEF Running
  <2>4. procs[p].mem \in Nat
    BY <1>1, <2>1
  <2> QED
    BY <1>6, <1>7, <2>1, <2>2, <2>3, <2>4
<1> QED
  BY <1>6, <1>7, <1>8, <1>9

Row == [pid : Pid \cup {None}, name : Name, mem : Nat,
        group : BOOLEAN, indent : BOOLEAN, size : Nat]

LeafOrder(S) == ByMemory(S, [p \in S |-> procs[p].mem])

\* One leaf, or a header and, below it when the group is open, every process of
\* the application, the heaviest first.
Shape(G, n, S, open) ==
    LET c == Cardinality(S)
        l == LeafOrder(S)
    IN  /\ G \in Seq(Row)
        /\ c \in Nat /\ c > 0
        /\ Sorted(l, S, [p \in S |-> procs[p].mem])
        /\ \A p \in S : \E i \in 1 .. c : l[i] = p
        /\ \A i, j \in 1 .. c : l[i] = l[j] => i = j
        /\ c = 1 => Len(G) = 1 /\ S = {l[1]} /\ G[1] = Leaf(l[1], FALSE)
        /\ c # 1 => /\ Len(G) = IF n \in open THEN c + 1 ELSE 1
                    /\ G[1] = Header(n, S)
                    /\ \A i \in 2 .. Len(G) : G[i] = Leaf(l[i - 1], TRUE)

LEMMA GroupShape ==
    ASSUME ProcsKnown, NEW S, S \subseteq Alive, S # {},
           NEW n \in Name, \A p \in S : procs[p].name = n, NEW open
    PROVE  Shape(GroupRows(n, S, open), n, S, open)
<1> DEFINE G == GroupRows(n, S, open)
           c == Cardinality(S)
           mem == [p \in S |-> procs[p].mem]
           l == LeafOrder(S)
           leaves == [i \in DOMAIN l |-> Leaf(l[i], TRUE)]
<1>1. /\ S \subseteq Nat /\ S \subseteq Pid /\ IsFiniteSet(S)
      /\ \A p \in S : procs[p].mem \in Nat
  BY AliveKnown, FS_Subset
<1>2. c \in Nat /\ c > 0
  BY <1>1, FS_CardinalityType, FS_EmptySet
<1>3. mem \in [S -> Nat]
  BY <1>1
<1>4. /\ Sorted(l, S, mem)
      /\ \A p \in S : \E i \in 1 .. c : l[i] = p
      /\ \A i, j \in 1 .. c : l[i] = l[j] => i = j
  <2> HIDE DEF mem
  <2>1. l = ByMemory(S, mem)
    BY DEF LeafOrder, mem
  <2>2. S \subseteq Nat /\ IsFiniteSet(S)
    BY <1>1
  <2> HIDE DEF l, c
  <2>3. /\ Sorted(ByMemory(S, mem), S, mem)
        /\ \A p \in S : \E i \in 1 .. c : ByMemory(S, mem)[i] = p
        /\ \A i, j \in 1 .. c : ByMemory(S, mem)[i] = ByMemory(S, mem)[j] => i = j
    BY <1>3, <2>2, ByMemorySorts DEF c
  <2> QED
    BY <2>1, <2>3, Zenon
<1>5. l \in [1 .. c -> S]
  BY <1>4 DEF Sorted
<1>6. /\ c = 1 => G = <<Leaf(l[1], FALSE)>>
      /\ c # 1 => G = <<Header(n, S)>> \o (IF n \in open THEN leaves ELSE <<>>)
  BY DEF GroupRows, LeafOrder
<1> HIDE DEF l, G
<1>7. \A p \in S, b \in BOOLEAN : Leaf(p, b) \in Row
  BY <1>1 DEF Leaf, Row
<1>8. Header(n, S) \in Row
  BY <1>2, TotalType DEF Header, Row
<1>9. leaves \in Seq(Row) /\ Len(leaves) = c
  <2>1. leaves \in [1 .. c -> Row]
    BY <1>5, <1>7
  <2> HIDE DEF leaves, c
  <2> QED
    BY <1>2, <2>1
<1>10. ASSUME c = 1
       PROVE  G \in Seq(Row) /\ Len(G) = 1 /\ S = {l[1]} /\ G[1] = Leaf(l[1], FALSE)
  <2>1. PICK p : S = {p}
    BY <1>1, <1>10, FS_Singleton
  <2>2. l[1] \in S
    BY <1>5, <1>10
  <2>3. Leaf(l[1], FALSE) \in Row
    BY <1>7, <2>2
  <2>4. G = <<Leaf(l[1], FALSE)>>
    BY <1>6, <1>10
  <2>5. \A r \in Row : <<r>> \in Seq(Row) /\ Len(<<r>>) = 1 /\ <<r>>[1] = r
    OBVIOUS
  <2>6. G \in Seq(Row) /\ Len(G) = 1 /\ G[1] = Leaf(l[1], FALSE)
    BY <2>3, <2>4, <2>5, Zenon
  <2> QED
    BY <2>1, <2>2, <2>6
<1>11. ASSUME c # 1
       PROVE  /\ G \in Seq(Row) /\ Len(G) = IF n \in open THEN c + 1 ELSE 1
              /\ G[1] = Header(n, S)
              /\ \A i \in 2 .. Len(G) : G[i] = Leaf(l[i - 1], TRUE)
  <2>1. CASE n \in open
    <3>1. G = <<Header(n, S)>> \o leaves
      BY <1>6, <1>11, <2>1
    <3>2. \A i \in 1 .. c : leaves[i] = Leaf(l[i], TRUE)
      BY <1>5
    <3> HIDE DEF leaves
    <3>3. G \in Seq(Row) /\ Len(G) = c + 1 /\ G[1] = Header(n, S)
      BY <1>2, <1>8, <1>9, <3>1
    <3>4. ASSUME NEW i \in 2 .. Len(G) PROVE G[i] = leaves[i - 1]
      BY <1>2, <1>8, <1>9, <3>1
    <3>5. \A i \in 2 .. Len(G) : i - 1 \in 1 .. c
      BY <1>2, <3>3
    <3> QED
      BY <2>1, <3>2, <3>3, <3>4, <3>5
  <2>2. CASE n \notin open
    <3>1. G = <<Header(n, S)>> \o <<>>
      BY <1>6, <1>11, <2>2
    <3>2. G = <<Header(n, S)>>
      BY <1>8, <3>1
    <3> QED
      BY <1>8, <2>2, <3>2
  <2> QED
    BY <2>1, <2>2
<1> QED
  BY <1>2, <1>4, <1>10, <1>11 DEF Shape, l, G

-----------------------------------------------------------------------------
(* The whole list. *)

NamesOf(S) == {procs[p].name : p \in S}

GroupLen(S, n, open) ==
    LET c == Cardinality(Instances(S, n)) IN IF c # 1 /\ n \in open THEN c + 1 ELSE 1

\* Row k of application n.
RowOf(S, n, k) ==
    LET I == Instances(S, n) IN
    IF Cardinality(I) = 1 THEN Leaf(LeafOrder(I)[1], FALSE)
    ELSE IF k = 1 THEN Header(n, I)
    ELSE Leaf(LeafOrder(I)[k - 1], TRUE)

\* R[i] is row pos[i] of application app[i]; applications come one after the other,
\* the heaviest first, each of them whole.
Built(R, S, open, app, pos) ==
    /\ R \in Seq(Row)
    /\ \A i \in 1 .. Len(R) :
           /\ app[i] \in NamesOf(S)
           /\ pos[i] \in 1 .. GroupLen(S, app[i], open)
           /\ R[i] = RowOf(S, app[i], pos[i])
           /\ pos[i] # 1 => i - 1 \in 1 .. Len(R) /\ app[i - 1] = app[i]
    /\ \A n \in NamesOf(S) : \A k \in 1 .. GroupLen(S, n, open) :
           \E i \in 1 .. Len(R) : app[i] = n /\ pos[i] = k
    /\ \A i, j \in 1 .. Len(R) :
           i < j => IF app[i] = app[j] THEN pos[i] < pos[j]
                    ELSE Total(Instances(S, app[i])) >= Total(Instances(S, app[j]))

LEMMA NamesKnown ==
    ASSUME ProcsKnown, NEW S, S \subseteq Alive
    PROVE  /\ NamesOf(S) \subseteq Name /\ NamesOf(S) \subseteq Nat /\ IsFiniteSet(NamesOf(S))
           /\ \A n \in NamesOf(S) :
                  /\ Instances(S, n) \subseteq Alive /\ Instances(S, n) # {}
                  /\ \A p \in Instances(S, n) : procs[p].name = n
                  /\ Cardinality(Instances(S, n)) \in Nat \ {0}
                  /\ Total(Instances(S, n)) \in Nat
<1>1. NamesOf(S) \subseteq Name /\ NamesOf(S) \subseteq Nat
  BY AliveKnown DEF NamesOf
<1>2. IsFiniteSet(NamesOf(S))
  BY <1>1, ProcAssumption, FS_Subset
<1>3. ASSUME NEW n \in NamesOf(S)
      PROVE  /\ Instances(S, n) \subseteq Alive /\ Instances(S, n) # {}
             /\ \A p \in Instances(S, n) : procs[p].name = n
             /\ Cardinality(Instances(S, n)) \in Nat \ {0}
             /\ Total(Instances(S, n)) \in Nat
  <2>1. /\ Instances(S, n) \subseteq Alive /\ Instances(S, n) # {}
        /\ \A p \in Instances(S, n) : procs[p].name = n
    BY DEF NamesOf, Instances
  <2>2. IsFiniteSet(Instances(S, n))
    BY <2>1, AliveKnown, FS_Subset
  <2>3. Cardinality(Instances(S, n)) \in Nat \ {0}
    BY <2>1, <2>2, FS_CardinalityType, FS_EmptySet
  <2>4. Total(Instances(S, n)) \in Nat
    BY <2>1, TotalType
  <2> QED
    BY <2>1, <2>3, <2>4
<1> QED
  BY <1>1, <1>2, <1>3

LEMMA BuildShape ==
    ASSUME ProcsKnown, NEW needle, NEW open
    PROVE  \E app, pos : Built(BuildRows(needle, open), Listed(needle), open, app, pos)
<1> DEFINE S == Listed(needle)
           N == NamesOf(S)
           m == Cardinality(N)
           weight == [n \in N |-> Total(Instances(S, n))]
           E == ByMemory(N, weight)
           G(n) == GroupRows(n, Instances(S, n), open)
           groups == [g \in DOMAIN E |-> G(E[g])]
           R == FlattenSeq(groups)
<1>1. S \subseteq Alive
  BY DEF Listed
<1>2. /\ N \subseteq Name /\ N \subseteq Nat /\ IsFiniteSet(N)
      /\ m \in Nat /\ weight \in [N -> Nat]
  BY <1>1, NamesKnown, FS_CardinalityType
<1>3. /\ Sorted(E, N, weight)
      /\ \A n \in N : \E g \in 1 .. m : E[g] = n
      /\ \A g, h \in 1 .. m : E[g] = E[h] => g = h
  <2> HIDE DEF N, weight
  <2> QED
    BY <1>2, ByMemorySorts
<1>4. /\ E \in [1 .. m -> N]
      /\ \A g, h \in 1 .. m : g < h => weight[E[g]] >= weight[E[h]]
  <2>1. E \in [1 .. m -> N]
    BY <1>3 DEF Sorted
  <2>2. ASSUME NEW g \in 1 .. m, NEW h \in 1 .. m, g < h PROVE weight[E[g]] >= weight[E[h]]
    <3>1. weight[E[g]] \in Nat /\ weight[E[h]] \in Nat
      BY <1>2, <2>1
    <3>2. Heavier(weight[E[g]], E[g], weight[E[h]], E[h])
      BY <1>3, <2>2 DEF Sorted
    <3> QED
      BY <3>1, <3>2 DEF Heavier
  <2> QED
    BY <2>1, <2>2
<1>5. BuildRows(needle, open) = R
  BY DEF BuildRows, NamesOf
<1> HIDE DEF R, E
<1>6. ASSUME NEW n \in N
      PROVE  /\ G(n) \in Seq(Row)
             /\ Len(G(n)) = GroupLen(S, n, open)
             /\ \A k \in 1 .. GroupLen(S, n, open) : G(n)[k] = RowOf(S, n, k)
  <2> DEFINE I == Instances(S, n)
             c == Cardinality(I)
             l == LeafOrder(I)
  <2>1. I \subseteq Alive /\ I # {} /\ (\A p \in I : procs[p].name = n) /\ n \in Name
    BY <1>1, <1>2, NamesKnown
  <2>2. /\ G(n) \in Seq(Row)
        /\ c \in Nat /\ c > 0
        /\ c = 1 => Len(G(n)) = 1 /\ G(n)[1] = Leaf(l[1], FALSE)
        /\ c # 1 => /\ Len(G(n)) = IF n \in open THEN c + 1 ELSE 1
                    /\ G(n)[1] = Header(n, I)
                    /\ \A i \in 2 .. Len(G(n)) : G(n)[i] = Leaf(l[i - 1], TRUE)
    <3> HIDE DEF I
    <3>1. G(n) = GroupRows(n, I, open)
      BY DEF I
    <3> HIDE DEF G
    <3>2. Shape(G(n), n, I, open)
      BY <2>1, <3>1, GroupShape
    <3> QED
      BY <3>2 DEF Shape
  <2> HIDE DEF G
  <2>3. Len(G(n)) = GroupLen(S, n, open)
    BY <2>2 DEF GroupLen
  <2>4. ASSUME NEW k \in 1 .. GroupLen(S, n, open) PROVE G(n)[k] = RowOf(S, n, k)
    <3>1. CASE c = 1
      <4>1. k = 1
        BY <2>2, <2>3, <3>1
      <4> QED
        BY <2>2, <3>1, <4>1 DEF RowOf
    <3>2. CASE c # 1
      <4>1. Len(G(n)) \in Nat
        BY <2>2
      <4>2. k = 1 \/ k \in 2 .. Len(G(n))
        BY <2>3, <4>1
      <4> QED
        BY <2>2, <3>2, <4>2 DEF RowOf
    <3> QED
      BY <3>1, <3>2
  <2> QED
    BY <2>2, <2>3, <2>4
<1>7. groups \in Seq(Seq(Row)) /\ Len(groups) = m /\ \A g \in 1 .. m : groups[g] = G(E[g])
  <2> HIDE DEF G
  <2>1. \A g \in 1 .. m : G(E[g]) \in Seq(Row)
    BY <1>4, <1>6
  <2>2. groups \in [1 .. m -> Seq(Row)] /\ \A g \in 1 .. m : groups[g] = G(E[g])
    BY <1>4, <2>1
  <2> HIDE DEF groups, m
  <2> QED
    BY <1>2, <2>2
<1> HIDE DEF groups, G
<1>8. R \in Seq(Row) /\ \E grp, pos : Layout(grp, pos, groups)
  BY <1>7, LayoutExists DEF R
<1>9. PICK grp, pos : Layout(grp, pos, groups)
  BY <1>8
<1>10. /\ grp \in [1 .. Len(R) -> Nat]
       /\ \A i \in 1 .. Len(R) :
              /\ grp[i] \in 1 .. m
              /\ pos[i] \in 1 .. Len(groups[grp[i]])
              /\ R[i] = groups[grp[i]][pos[i]]
              /\ pos[i] # 1 => i - 1 \in 1 .. Len(R) /\ grp[i - 1] = grp[i]
       /\ \A g \in 1 .. m : \A k \in 1 .. Len(groups[g]) :
              \E i \in 1 .. Len(R) : grp[i] = g /\ pos[i] = k
       /\ \A i, j \in 1 .. Len(R) :
              i < j => grp[i] < grp[j] \/ (grp[i] = grp[j] /\ pos[i] < pos[j])
  BY <1>7, <1>9 DEF Layout, R
<1> DEFINE app == [i \in 1 .. Len(R) |-> E[grp[i]]]
<1> HIDE DEF m, N
<1>11. ASSUME NEW i \in 1 .. Len(R)
       PROVE  /\ app[i] \in N
              /\ pos[i] \in 1 .. GroupLen(S, app[i], open)
              /\ R[i] = RowOf(S, app[i], pos[i])
              /\ pos[i] # 1 => i - 1 \in 1 .. Len(R) /\ app[i - 1] = app[i]
  <2>1. app[i] = E[grp[i]] /\ grp[i] \in 1 .. m /\ app[i] \in N /\ groups[grp[i]] = G(app[i])
    BY <1>4, <1>7, <1>10
  <2>2. pos[i] \in 1 .. GroupLen(S, app[i], open) /\ R[i] = G(app[i])[pos[i]]
    BY <1>6, <1>10, <2>1
  <2>3. R[i] = RowOf(S, app[i], pos[i])
    BY <1>6, <2>1, <2>2
  <2>4. ASSUME pos[i] # 1 PROVE i - 1 \in 1 .. Len(R) /\ app[i - 1] = app[i]
    BY <1>10, <2>1, <2>4
  <2> QED
    BY <2>1, <2>2, <2>3, <2>4
<1>12. ASSUME NEW n \in N, NEW k \in 1 .. GroupLen(S, n, open)
       PROVE  \E i \in 1 .. Len(R) : app[i] = n /\ pos[i] = k
  <2>1. PICK g \in 1 .. m : E[g] = n
    BY <1>3 DEF m
  <2>2. Len(groups[g]) = GroupLen(S, n, open)
    BY <1>6, <1>7, <2>1
  <2>3. PICK i \in 1 .. Len(R) : grp[i] = g /\ pos[i] = k
    BY <1>10, <2>2
  <2> QED
    BY <2>1, <2>3
<1>13. ASSUME NEW i \in 1 .. Len(R), NEW j \in 1 .. Len(R), i < j
       PROVE  IF app[i] = app[j] THEN pos[i] < pos[j]
              ELSE Total(Instances(S, app[i])) >= Total(Instances(S, app[j]))
  <2>1. /\ app[i] = E[grp[i]] /\ app[j] = E[grp[j]]
        /\ grp[i] \in 1 .. m /\ grp[j] \in 1 .. m /\ app[i] \in N /\ app[j] \in N
    BY <1>4, <1>10
  <2>2. app[i] = app[j] => grp[i] = grp[j]
    BY <1>3, <2>1 DEF m
  <2>3. grp[i] < grp[j] \/ (grp[i] = grp[j] /\ pos[i] < pos[j])
    BY <1>10, <1>13
  <2>4. grp[i] \in Nat /\ grp[j] \in Nat
    BY <1>10
  <2>5. CASE app[i] = app[j]
    BY <2>2, <2>3, <2>4, <2>5
  <2>6. CASE app[i] # app[j]
    <3>1. grp[i] < grp[j]
      BY <2>1, <2>3, <2>6
    <3>2. weight[E[grp[i]]] >= weight[E[grp[j]]]
      BY <1>4, <2>1, <3>1
    <3> QED
      BY <2>1, <2>6, <3>2
  <2> QED
    BY <2>5, <2>6
<1> HIDE DEF app
<1>14. Built(R, S, open, app, pos)
  BY <1>8, <1>11, <1>12, <1>13 DEF Built, N
<1> QED
  BY <1>5, <1>14

\* What row i of a list is, by its position in its application.
Kind(R, S, open, app, pos, i) ==
    LET n == app[i]
        I == Instances(S, n)
        c == Cardinality(I)
        l == LeafOrder(I)
    IN  /\ n \in NamesOf(S) /\ R[i].name = n
        /\ pos[i] \in Nat /\ pos[i] >= 1
        /\ R[i].indent <=> pos[i] # 1
        /\ R[i].group <=> pos[i] = 1 /\ c # 1
        /\ pos[i] = 1 => R[i].mem = Total(I)
        /\ R[i].group => R[i].pid = None /\ R[i].size = c
        /\ ~R[i].group => R[i].pid \in I /\ R[i].mem = procs[R[i].pid].mem
        /\ pos[i] # 1 => /\ c # 1 /\ n \in open
                         /\ pos[i] - 1 \in 1 .. c
                         /\ R[i].pid = l[pos[i] - 1]
                         /\ R[i].mem = procs[l[pos[i] - 1]].mem

\* The leaves of an application are its processes, the heaviest first.
LEMMA LeavesKnown ==
    ASSUME ProcsKnown, NEW S, S \subseteq Alive, NEW n \in NamesOf(S)
    PROVE  LET I == Instances(S, n)
               c == Cardinality(I)
               l == LeafOrder(I)
           IN  /\ l \in [1 .. c -> I]
               /\ c = 1 => I = {l[1]}
               /\ \A p \in I : \E i \in 1 .. c : l[i] = p
               /\ \A i, j \in 1 .. c : l[i] = l[j] => i = j
               /\ \A i, j \in 1 .. c : i < j => procs[l[i]].mem >= procs[l[j]].mem
<1> DEFINE I == Instances(S, n)
           c == Cardinality(I)
           l == LeafOrder(I)
           mem == [p \in I |-> procs[p].mem]
<1>1. I \subseteq Alive /\ I # {} /\ (\A p \in I : procs[p].name = n) /\ n \in Name
  BY NamesKnown
<1> HIDE DEF I
<1>2. Shape(GroupRows(n, I, {}), n, I, {})
  BY <1>1, GroupShape
<1>3. /\ c \in Nat /\ c > 0 /\ Sorted(l, I, mem)
      /\ \A p \in I : \E i \in 1 .. c : l[i] = p
      /\ \A i, j \in 1 .. c : l[i] = l[j] => i = j
      /\ c = 1 => I = {l[1]}
  BY <1>2 DEF Shape
<1>4. l \in [1 .. c -> I]
  BY <1>3 DEF Sorted
<1>5. ASSUME NEW i \in 1 .. c, NEW j \in 1 .. c, i < j
      PROVE  procs[l[i]].mem >= procs[l[j]].mem
  <2>1. l[i] \in I /\ l[j] \in I
    BY <1>4
  <2>2. procs[l[i]].mem \in Nat /\ procs[l[j]].mem \in Nat
    BY <1>1, <2>1, AliveKnown
  <2>3. Heavier(mem[l[i]], l[i], mem[l[j]], l[j])
    BY <1>3, <1>5 DEF Sorted
  <2>4. Heavier(procs[l[i]].mem, l[i], procs[l[j]].mem, l[j])
    BY <2>1, <2>3
  <2> QED
    BY <2>2, <2>4 DEF Heavier
<1> QED
  BY <1>3, <1>4, <1>5 DEF I

LEMMA RowKinds ==
    ASSUME ProcsKnown, NEW S, S \subseteq Alive,
           NEW R, NEW open, NEW app, NEW pos, Built(R, S, open, app, pos),
           NEW i \in 1 .. Len(R)
    PROVE  Kind(R, S, open, app, pos, i)
<1> DEFINE n == app[i]
           I == Instances(S, n)
           c == Cardinality(I)
           l == LeafOrder(I)
           k == pos[i]
           r == R[i]
<1>1. n \in NamesOf(S) /\ k \in 1 .. GroupLen(S, n, open) /\ r = RowOf(S, n, k)
  BY DEF Built
<1>2. /\ c \in Nat \ {0}
      /\ l \in [1 .. c -> I]
      /\ c = 1 => I = {l[1]}
  BY <1>1, NamesKnown, LeavesKnown
<1>3. \A p \in I : procs[p].name = n
  BY <1>1, NamesKnown
<1>4. k \in Nat /\ k >= 1 /\ (k # 1 => c # 1 /\ n \in open /\ k - 1 \in 1 .. c)
  <2> HIDE DEF n, k
  <2>1. CASE c # 1 /\ n \in open
    <3>1. GroupLen(S, n, open) = c + 1
      BY <2>1 DEF GroupLen
    <3> HIDE DEF c
    <3> QED
      BY <1>1, <1>2, <2>1, <3>1
  <2>2. CASE ~(c # 1 /\ n \in open)
    <3>1. GroupLen(S, n, open) = 1
      BY <2>2 DEF GroupLen
    <3> QED
      BY <1>1, <3>1
  <2> QED
    BY <2>1, <2>2
<1>5. r = IF c = 1 THEN Leaf(l[1], FALSE)
          ELSE IF k = 1 THEN Header(n, I) ELSE Leaf(l[k - 1], TRUE)
  BY <1>1 DEF RowOf
<1>6. I \subseteq Alive
  BY <1>1, NamesKnown
<1> HIDE DEF n, I, l, k, r
<1>7. CASE c = 1
  <2>1. l[1] \in I /\ I = {l[1]} /\ k = 1 /\ r = Leaf(l[1], FALSE)
    BY <1>2, <1>4, <1>5, <1>7
  <2>2. Total(I) = procs[l[1]].mem
    BY <1>6, <2>1, TotalType
  <2>3. r.name = n /\ r.pid = l[1] /\ r.mem = Total(I) /\ r.group = FALSE /\ r.indent = FALSE
    BY <1>3, <2>1, <2>2 DEF Leaf
  <2> HIDE DEF c
  <2> QED
    BY <1>1, <1>4, <1>7, <2>1, <2>2, <2>3 DEF Kind, n, I, c, l, k, r
<1>8. CASE c # 1 /\ k = 1
  <2>1. r = Header(n, I)
    BY <1>5, <1>8
  <2>2. /\ r.name = n /\ r.pid = None /\ r.mem = Total(I)
        /\ r.group = TRUE /\ r.indent = FALSE /\ r.size = c
    BY <2>1 DEF Header
  <2> HIDE DEF c
  <2> QED
    BY <1>1, <1>4, <1>8, <2>2 DEF Kind, n, I, c, l, k, r
<1>9. CASE c # 1 /\ k # 1
  <2>1. r = Leaf(l[k - 1], TRUE) /\ l[k - 1] \in I
    BY <1>2, <1>4, <1>5, <1>9
  <2>2. /\ r.name = n /\ r.pid = l[k - 1] /\ r.mem = procs[l[k - 1]].mem
        /\ r.group = FALSE /\ r.indent = TRUE
    BY <1>3, <2>1 DEF Leaf
  <2> HIDE DEF c
  <2> QED
    BY <1>1, <1>4, <1>9, <2>1, <2>2 DEF Kind, n, I, c, l, k, r
<1> QED
  BY <1>7, <1>8, <1>9

\* A position in an application is one row.
LEMMA RowUnique ==
    ASSUME NEW R, NEW S, NEW open, NEW app, NEW pos, Built(R, S, open, app, pos),
           NEW i \in 1 .. Len(R), NEW j \in 1 .. Len(R), app[i] = app[j], pos[i] = pos[j]
    PROVE  i = j
<1>1. Len(R) \in Nat /\ pos[i] \in Int /\ pos[j] \in Int
  BY DEF Built
<1>2. ~(i < j) /\ ~(j < i)
  BY <1>1 DEF Built
<1> QED
  BY <1>1, <1>2

-----------------------------------------------------------------------------
(* What a list shows. *)

\* p has a row of its own: it is alone, or its group is open.
Shown(S, p, open) ==
    p \in S /\ (Cardinality(Instances(S, procs[p].name)) = 1 \/ procs[p].name \in open)

LEMMA PidRows ==
    ASSUME ProcsKnown, NEW S, S \subseteq Alive,
           NEW R, NEW open, NEW app, NEW pos, Built(R, S, open, app, pos), NEW p \in Pid
    PROVE  Cardinality({i \in 1 .. Len(R) : R[i].pid = p}) = IF Shown(S, p, open) THEN 1 ELSE 0
<1> DEFINE D == {i \in 1 .. Len(R) : R[i].pid = p}
           n == procs[p].name
           I == Instances(S, n)
           c == Cardinality(I)
           l == LeafOrder(I)
<1>1. ASSUME NEW i \in D
      PROVE  /\ p \in I /\ app[i] = n
             /\ pos[i] = 1 => c = 1
             /\ pos[i] # 1 => c # 1 /\ n \in open /\ pos[i] - 1 \in 1 .. c /\ p = l[pos[i] - 1]
             /\ pos[i] \in Nat
  <2>1. i \in 1 .. Len(R) /\ R[i].pid = p /\ Kind(R, S, open, app, pos, i)
    BY RowKinds
  <2>2. p # None
    BY ProcAssumption
  <2>3. ~R[i].group /\ p \in Instances(S, app[i])
    BY <2>1, <2>2 DEF Kind
  <2>4. app[i] = n
    BY <2>3 DEF Instances
  <2> QED
    BY <2>1, <2>3, <2>4 DEF Kind
<1>2. CASE Shown(S, p, open)
  <2>1. p \in S /\ (c = 1 \/ n \in open) /\ n \in NamesOf(S) /\ p \in I
    BY <1>2 DEF Shown, NamesOf, Instances
  <2>2. /\ c \in Nat \ {0}
        /\ \A q \in I : \E i \in 1 .. c : l[i] = q
        /\ \A i, j \in 1 .. c : l[i] = l[j] => i = j
    <3>1. c \in Nat \ {0}
      BY <2>1, NamesKnown
    <3>2. \A q \in I : \E i \in 1 .. c : l[i] = q
      BY <2>1, LeavesKnown
    <3>3. \A i, j \in 1 .. c : l[i] = l[j] => i = j
      BY <2>1, LeavesKnown
    <3> QED
      BY <3>1, <3>2, <3>3
  <2>3. PICK j \in 1 .. c : l[j] = p
    BY <2>1, <2>2
  <2> DEFINE k == IF c = 1 THEN 1 ELSE j + 1
  <2>4. k \in 1 .. GroupLen(S, n, open)
    <3>1. GroupLen(S, n, open) = IF c = 1 THEN 1 ELSE c + 1
      BY <2>1 DEF GroupLen
    <3> HIDE DEF c
    <3> QED
      BY <2>2, <3>1
  <2>5. PICK i \in 1 .. Len(R) : app[i] = n /\ pos[i] = k
    BY <2>1, <2>4 DEF Built
  <2>6. R[i].pid = p
    <3>1. Kind(R, S, open, app, pos, i)
      BY RowKinds
    <3>2. CASE c = 1
      <4>1. ~R[i].group /\ R[i].pid \in I
        BY <2>5, <3>1, <3>2 DEF Kind
      <4>2. PICK q : I = {q}
        BY <2>1, <3>2, LeavesKnown
      <4> QED
        BY <2>1, <4>1, <4>2
    <3>3. CASE c # 1
      <4>1. pos[i] = j + 1 /\ j + 1 # 1 /\ (j + 1) - 1 = j
        BY <2>2, <2>5, <3>3
      <4> QED
        BY <2>3, <2>5, <3>1, <4>1 DEF Kind
    <3> QED
      BY <3>2, <3>3
  <2>7. ASSUME NEW x \in D PROVE x = i
    <3>1. pos[x] = k
      <4>1. CASE c = 1
        BY <1>1, <4>1
      <4>2. CASE c # 1
        <5>1. pos[x] - 1 \in 1 .. c /\ l[pos[x] - 1] = l[j] /\ pos[x] \in Nat
          BY <1>1, <2>3, <4>2
        <5>2. pos[x] - 1 = j
          BY <2>2, <5>1
        <5> HIDE DEF c
        <5> QED
          BY <2>2, <4>2, <5>1, <5>2
      <4> QED
        BY <4>1, <4>2
    <3>2. app[x] = app[i] /\ pos[x] = pos[i] /\ x \in 1 .. Len(R)
      BY <1>1, <2>5, <3>1
    <3> QED
      BY <3>2, RowUnique
  <2>8. D = {i}
    BY <2>6, <2>7
  <2> QED
    BY <1>2, <2>8, FS_Singleton
<1>3. CASE ~Shown(S, p, open)
  <2>1. D = {}
    <3> SUFFICES ASSUME NEW i \in D PROVE FALSE
      OBVIOUS
    <3>1. p \in I /\ (c = 1 \/ n \in open)
      BY <1>1
    <3> QED
      BY <1>3, <3>1 DEF Shown, Instances
  <2> QED
    BY <1>3, <2>1, FS_EmptySet
<1> QED
  BY <1>2, <1>3

\* n has a header if it has several processes, with their number on it.
Headed(R, S, n) ==
    LET c == Cardinality(Instances(S, n)) IN
    /\ Cardinality({i \in 1 .. Len(R) : R[i].group /\ R[i].name = n}) = IF c > 1 THEN 1 ELSE 0
    /\ \A i \in 1 .. Len(R) : R[i].group /\ R[i].name = n
           => R[i].size = c /\ R[i].mem = Total(Instances(S, n))

LEMMA HeaderRows ==
    ASSUME ProcsKnown, NEW S, S \subseteq Alive,
           NEW R, NEW open, NEW app, NEW pos, Built(R, S, open, app, pos), NEW n \in Name
    PROVE  Headed(R, S, n)
<1> DEFINE c == Cardinality(Instances(S, n))
           D == {i \in 1 .. Len(R) : R[i].group /\ R[i].name = n}
<1>1. ASSUME NEW i \in D
      PROVE  app[i] = n /\ pos[i] = 1 /\ c # 1 /\ n \in NamesOf(S)
             /\ R[i].size = c /\ R[i].mem = Total(Instances(S, n))
  <2>1. i \in 1 .. Len(R) /\ R[i].group /\ R[i].name = n /\ Kind(R, S, open, app, pos, i)
    BY RowKinds
  <2> QED
    BY <2>1 DEF Kind
<1>2. \A i \in 1 .. Len(R) : R[i].group /\ R[i].name = n
          => R[i].size = c /\ R[i].mem = Total(Instances(S, n))
  BY <1>1
<1>3. CASE n \in NamesOf(S) /\ c # 1
  <2>1. c > 1
    <3>1. c \in Nat \ {0}
      BY <1>3, NamesKnown
    <3> HIDE DEF c
    <3> QED
      BY <1>3, <3>1
  <2>2. 1 \in 1 .. GroupLen(S, n, open)
    <3>1. c + 1 \in Nat /\ 1 <= c + 1
      BY <1>3, NamesKnown
    <3> QED
      BY <3>1 DEF GroupLen
  <2>3. PICK i \in 1 .. Len(R) : app[i] = n /\ pos[i] = 1
    BY <1>3, <2>2 DEF Built
  <2>4. R[i].group /\ R[i].name = n
    <3>1. Kind(R, S, open, app, pos, i)
      BY RowKinds
    <3> QED
      BY <1>3, <2>3, <3>1 DEF Kind
  <2>5. ASSUME NEW x \in D PROVE x = i
    <3>1. app[x] = app[i] /\ pos[x] = pos[i] /\ x \in 1 .. Len(R)
      BY <1>1, <2>3
    <3> QED
      BY <3>1, RowUnique
  <2>6. D = {i}
    BY <2>4, <2>5
  <2> QED
    BY <1>2, <2>1, <2>6, FS_Singleton DEF Headed
<1>4. CASE ~(n \in NamesOf(S) /\ c # 1)
  <2>1. D = {}
    BY <1>1, <1>4
  <2>2. ~(c > 1)
    <3>1. CASE n \in NamesOf(S)
      BY <1>4, <3>1
    <3>2. CASE n \notin NamesOf(S)
      <4>1. Instances(S, n) = {}
        BY <3>2 DEF Instances, NamesOf
      <4> QED
        BY <4>1, FS_EmptySet
    <3> QED
      BY <3>1, <3>2
  <2> QED
    BY <1>2, <2>1, <2>2, FS_EmptySet DEF Headed
<1> QED
  BY <1>3, <1>4

\* Every list is accounted for.
LEMMA BuiltAccounted ==
    ASSUME ProcsKnown, NEW R, NEW app, NEW pos,
           Built(R, Listed(filter), expanded, app, pos)
    PROVE  Accounted(R)
<1> DEFINE S == Listed(filter)
<1>1. S \subseteq Alive /\ DOMAIN R = 1 .. Len(R)
  BY DEF Listed, Built
<1>2. \A p \in Pid :
          Cardinality({i \in DOMAIN R : R[i].pid = p}) = IF Shown(S, p, expanded) THEN 1 ELSE 0
  BY <1>1, PidRows
<1>3. \A n \in Name : Headed(R, S, n)
  BY <1>1, HeaderRows
<1>4. ASSUME NEW i \in DOMAIN R, ~R[i].group PROVE R[i].mem = procs[R[i].pid].mem
  <2>1. Kind(R, S, expanded, app, pos, i)
    BY <1>1, RowKinds
  <2> QED
    BY <1>4, <2>1 DEF Kind
<1> QED
  BY <1>1, <1>2, <1>3, <1>4 DEF Accounted, Shown, Headed

\* Every list is ranked.
LEMMA BuiltRanked ==
    ASSUME ProcsKnown, NEW S, S \subseteq Alive,
           NEW R, NEW open, NEW app, NEW pos, Built(R, S, open, app, pos)
    PROVE  Ranked(R)
<1>1. DOMAIN R = 1 .. Len(R) /\ Len(R) \in Nat
  BY DEF Built
<1> SUFFICES ASSUME NEW i \in 1 .. Len(R), NEW j \in 1 .. Len(R), i < j
             PROVE  /\ ~R[i].indent /\ ~R[j].indent => R[i].mem >= R[j].mem
                    /\ R[i].indent /\ R[j].indent /\ R[i].name = R[j].name
                           => R[i].mem >= R[j].mem
                    /\ R[j].indent /\ j = i + 1 => R[i].name = R[j].name
  BY <1>1 DEF Ranked
<1>2. Kind(R, S, open, app, pos, i) /\ Kind(R, S, open, app, pos, j)
  BY RowKinds
<1>3. IF app[i] = app[j] THEN pos[i] < pos[j]
      ELSE Total(Instances(S, app[i])) >= Total(Instances(S, app[j]))
  BY DEF Built
<1>4. ASSUME ~R[i].indent, ~R[j].indent PROVE R[i].mem >= R[j].mem
  <2>1. pos[i] = 1 /\ pos[j] = 1
    BY <1>2, <1>4 DEF Kind
  <2>2. Total(Instances(S, app[i])) >= Total(Instances(S, app[j]))
    BY <1>3, <2>1
  <2> QED
    BY <1>2, <2>1, <2>2 DEF Kind
<1>5. ASSUME R[i].indent, R[j].indent, R[i].name = R[j].name PROVE R[i].mem >= R[j].mem
  <2> DEFINE n == app[i]
             I == Instances(S, n)
             l == LeafOrder(I)
  <2>1. app[j] = n /\ n \in NamesOf(S)
    BY <1>2, <1>5 DEF Kind
  <2>2. /\ pos[i] \in Nat /\ pos[j] \in Nat
        /\ pos[i] - 1 \in 1 .. Cardinality(I) /\ pos[j] - 1 \in 1 .. Cardinality(I)
        /\ R[i].mem = procs[l[pos[i] - 1]].mem /\ R[j].mem = procs[l[pos[j] - 1]].mem
    BY <1>2, <1>5, <2>1 DEF Kind
  <2>3. pos[i] - 1 < pos[j] - 1
    BY <1>3, <2>1, <2>2
  <2> HIDE DEF n
  <2>4. \A a, b \in 1 .. Cardinality(I) : a < b => procs[l[a]].mem >= procs[l[b]].mem
    BY <2>1, LeavesKnown
  <2> HIDE DEF I, l
  <2> QED
    BY <2>2, <2>3, <2>4
<1>6. ASSUME R[j].indent, j = i + 1 PROVE R[i].name = R[j].name
  <2>1. pos[j] # 1 /\ j - 1 = i
    BY <1>2, <1>6 DEF Kind
  <2>2. app[i] = app[j]
    BY <2>1 DEF Built
  <2> QED
    BY <1>2, <2>2 DEF Kind
<1> QED
  BY <1>4, <1>5, <1>6

\* The rows stand for as many processes as are listed.
LEMMA BuiltCounts ==
    ASSUME ProcsKnown, NEW S, S \subseteq Alive,
           NEW R, NEW open, NEW app, NEW pos, Built(R, S, open, app, pos)
    PROVE  SumOf([i \in DOMAIN R |-> Counts(R[i])]) = Cardinality(S)
<1> DEFINE n == Len(R)
           w == [i \in DOMAIN R |-> Counts(R[i])]
           Seen(i) == {p \in S : \E j \in 1 .. i : pos[j] = 1 /\ app[j] = procs[p].name}
           f == [i \in 0 .. n |-> Cardinality(Seen(i))]
<1>1. DOMAIN R = 1 .. n /\ n \in Nat
  BY DEF Built
<1>2. IsFiniteSet(S)
  BY AliveKnown, FS_Subset
<1>3. \A i : IsFiniteSet(Seen(i)) /\ Cardinality(Seen(i)) \in Nat
  <2> SUFFICES ASSUME NEW i PROVE IsFiniteSet(Seen(i)) /\ Cardinality(Seen(i)) \in Nat
    OBVIOUS
  <2>1. Seen(i) \in SUBSET S
    OBVIOUS
  <2> HIDE DEF Seen
  <2> QED
    BY <1>2, <2>1, FS_Subset, FS_CardinalityType
<1>4. ASSUME NEW i \in 1 .. n
      PROVE  /\ pos[i] # 1 => Counts(R[i]) = 0
             /\ pos[i] = 1 => Counts(R[i]) = Cardinality(Instances(S, app[i]))
             /\ app[i] \in NamesOf(S) /\ Counts(R[i]) \in Nat
  <2>1. Kind(R, S, open, app, pos, i)
    BY RowKinds
  <2>2. Cardinality(Instances(S, app[i])) \in Nat
    BY <2>1, NamesKnown DEF Kind
  <2> QED
    BY <2>1, <2>2 DEF Kind, Counts
<1>5. w \in Seq(Nat) /\ Len(w) = n /\ \A i \in 1 .. n : w[i] = Counts(R[i])
  <2>1. w \in [1 .. n -> Nat] /\ \A i \in 1 .. n : w[i] = Counts(R[i])
    BY <1>1, <1>4
  <2> HIDE DEF w, n
  <2> QED
    BY <1>1, <2>1
<1>6. ASSUME NEW i \in 1 .. n
      PROVE  Cardinality(Seen(i)) = Cardinality(Seen(i - 1)) + Counts(R[i])
  <2>1. i - 1 \in 0 .. n /\ 1 .. i = (1 .. i - 1) \cup {i} /\ 1 .. i \subseteq 1 .. n
    BY <1>1
  <2>2. CASE pos[i] # 1
    <3>1. Seen(i) = Seen(i - 1)
      BY <2>1, <2>2
    <3> HIDE DEF Seen
    <3> QED
      BY <1>3, <1>4, <2>2, <3>1
  <2>3. CASE pos[i] = 1
    <3> DEFINE I == Instances(S, app[i])
    <3>1. Seen(i) = Seen(i - 1) \cup I
      BY <2>1, <2>3 DEF Instances
    <3>2. Seen(i - 1) \cap I = {}
      <4> SUFFICES ASSUME NEW p \in Seen(i - 1), p \in I PROVE FALSE
        OBVIOUS
      <4>1. PICK j \in 1 .. i - 1 : pos[j] = 1 /\ app[j] = procs[p].name
        OBVIOUS
      <4>2. j \in 1 .. n /\ j # i /\ app[j] = app[i] /\ pos[j] = pos[i]
        BY <1>1, <2>3, <4>1 DEF Instances
      <4> QED
        BY <4>2, RowUnique
    <3>3. IsFiniteSet(I) /\ Cardinality(I) \in Nat
      <4>1. I \in SUBSET S
        BY DEF Instances
      <4> HIDE DEF I
      <4> QED
        BY <1>2, <4>1, FS_Subset, FS_CardinalityType
    <3> HIDE DEF Seen, I
    <3>4. Cardinality(Seen(i)) = Cardinality(Seen(i - 1)) + Cardinality(I) - Cardinality({})
      BY <1>3, <3>1, <3>2, <3>3, FS_Union
    <3>5. Cardinality({}) = 0
      BY FS_EmptySet
    <3>6. Counts(R[i]) = Cardinality(I)
      BY <1>4, <2>3 DEF I
    <3> QED
      BY <1>3, <3>3, <3>4, <3>5, <3>6
  <2> QED
    BY <2>2, <2>3
<1>7. Seen(0) = {} /\ Seen(n) = S
  <2>1. Seen(0) = {}
    OBVIOUS
  <2>2. ASSUME NEW p \in S PROVE \E j \in 1 .. n : pos[j] = 1 /\ app[j] = procs[p].name
    <3>1. procs[p].name \in NamesOf(S)
      BY DEF NamesOf
    <3>2. 1 \in 1 .. GroupLen(S, procs[p].name, open)
      <4>1. Cardinality(Instances(S, procs[p].name)) \in Nat
        BY <3>1, NamesKnown
      <4> QED
        BY <4>1 DEF GroupLen
    <3> QED
      BY <3>1, <3>2 DEF Built
  <2> QED
    BY <2>1, <2>2
<1>8. Running(f, w)
  <2> HIDE DEF Seen, w, n
  <2>1. f \in [0 .. n -> Nat] /\ 0 \in 0 .. n
    BY <1>1, <1>3
  <2>2. f[0] = 0
    BY <1>7, <2>1, FS_EmptySet
  <2>3. ASSUME NEW i \in 1 .. n PROVE f[i] = f[i - 1] + w[i]
    <3>1. i \in 0 .. n /\ i - 1 \in 0 .. n
      BY <1>1
    <3>2. f[i] = Cardinality(Seen(i)) /\ f[i - 1] = Cardinality(Seen(i - 1))
      BY <3>1
    <3> QED
      BY <1>5, <1>6, <3>2
  <2> HIDE DEF f
  <2> QED
    BY <1>5, <2>1, <2>2, <2>3 DEF Running
<1>9. f[n] = Cardinality(S)
  <2>1. n \in 0 .. n
    BY <1>1
  <2> HIDE DEF Seen, n
  <2> QED
    BY <1>7, <2>1
<1> HIDE DEF f, w
<1>10. SumOf(w) = f[n]
  BY <1>5, <1>8, SumIs
<1> QED
  BY <1>9, <1>10 DEF w

\* No list is longer than one row for each process and one for each application,
\* and what it shows is one of those.
LEMMA BuiltKnown ==
    ASSUME ProcsKnown, NEW S, S \subseteq Alive,
           NEW R, NEW open, NEW app, NEW pos, Built(R, S, open, app, pos),
           NEW i \in DOMAIN R
    PROVE  /\ i \in 1 .. Cardinality(Pid) + Cardinality(Name)
           /\ IF R[i].group THEN R[i].name \in Name ELSE R[i].pid \in Pid
<1> DEFINE n == Len(R)
           H == {j \in 1 .. n : R[j].group}
           L == {j \in 1 .. n : ~R[j].group}
           toName == [j \in H |-> R[j].name]
           toPid == [j \in L |-> R[j].pid]
<1>1. DOMAIN R = 1 .. n /\ n \in Nat
  BY DEF Built
<1>2. \A j \in 1 .. n : Kind(R, S, open, app, pos, j)
  BY RowKinds
<1>3. ASSUME NEW j \in 1 .. n
      PROVE  R[j].name \in Name /\ (~R[j].group => R[j].pid \in Pid)
  <2>1. R[j].name \in NamesOf(S) /\ (~R[j].group => R[j].pid \in Instances(S, R[j].name))
    BY <1>2 DEF Kind
  <2> QED
    BY <2>1, NamesKnown, AliveKnown
<1>4. toName \in Injection(H, Name)
  <2>1. toName \in [H -> Name]
    BY <1>3
  <2>2. ASSUME NEW j \in H, NEW k \in H, toName[j] = toName[k] PROVE j = k
    <3>1. R[j].name = R[k].name /\ j \in 1 .. n /\ k \in 1 .. n /\ R[j].group /\ R[k].group
      BY <2>2
    <3>2. app[j] = app[k] /\ pos[j] = pos[k]
      BY <1>2, <3>1 DEF Kind
    <3> QED
      BY <3>1, <3>2, RowUnique
  <2> HIDE DEF toName
  <2> QED
    BY <2>1, <2>2 DEF Injection, IsInjective
<1>5. toPid \in Injection(L, Pid)
  <2>1. toPid \in [L -> Pid]
    BY <1>3
  <2>2. ASSUME NEW j \in L, NEW k \in L, toPid[j] = toPid[k] PROVE j = k
    <3> DEFINE D == {x \in 1 .. n : R[x].pid = R[j].pid}
    <3>1. j \in D /\ k \in D /\ R[j].pid \in Pid
      BY <1>3, <2>2
    <3>2. Cardinality(D) = IF Shown(S, R[j].pid, open) THEN 1 ELSE 0
      BY <3>1, PidRows
    <3>3. IsFiniteSet(D)
      <4>1. D \in SUBSET (1 .. n) /\ IsFiniteSet(1 .. n)
        BY <1>1, FS_Interval
      <4> HIDE DEF D
      <4> QED
        BY <4>1, FS_Subset
    <3> HIDE DEF D
    <3>4. PICK x : D = {x}
      BY <3>1, <3>2, <3>3, FS_Singleton, FS_EmptySet
    <3> QED
      BY <3>1, <3>4
  <2> HIDE DEF toPid
  <2> QED
    BY <2>1, <2>2 DEF Injection, IsInjective
<1>6. /\ IsFiniteSet(H) /\ Cardinality(H) <= Cardinality(Name)
      /\ IsFiniteSet(L) /\ Cardinality(L) <= Cardinality(Pid)
  <2> HIDE DEF H, L, toName, toPid
  <2> QED
    BY <1>4, <1>5, ProcAssumption, FS_Injection
<1>7. Cardinality(H \cup L) = Cardinality(H) + Cardinality(L) - Cardinality(H \cap L)
  BY <1>6, FS_Union
<1>8. H \cup L = 1 .. n /\ H \cap L = {}
  OBVIOUS
<1>9. /\ Cardinality(H) \in Nat /\ Cardinality(L) \in Nat
      /\ Cardinality(Name) \in Nat /\ Cardinality(Pid) \in Nat
  BY <1>6, ProcAssumption, FS_CardinalityType
<1> HIDE DEF H, L
<1>10. n <= Cardinality(Pid) + Cardinality(Name)
  <2>0. Cardinality({}) = 0
    BY FS_EmptySet
  <2> HIDE DEF n
  <2>1. Cardinality(1 .. n) = n
    BY <1>1, FS_Interval
  <2>2. Cardinality(1 .. n) = Cardinality(H) + Cardinality(L) - Cardinality({})
    BY <1>7, <1>8
  <2>3. n = Cardinality(H) + Cardinality(L)
    BY <1>9, <2>0, <2>1, <2>2
  <2> QED
    BY <1>6, <1>9, <2>3
<1>11. i \in 1 .. n /\ Cardinality(Pid) + Cardinality(Name) \in Nat
  BY <1>1, <1>9
<1> QED
  BY <1>1, <1>3, <1>10, <1>11

-----------------------------------------------------------------------------
(* The invariant. *)

LEMMA InitType == Init => TypeOK /\ RowsKnown /\ CountKnown
<1> SUFFICES ASSUME Init PROVE TypeOK /\ RowsKnown /\ CountKnown
  OBVIOUS
<1>1. procs \in [Pid -> {None} \cup Process]
  BY ProcAssumption DEF Init
<1>2. /\ 0 \in 0 .. Cardinality(Pid) /\ 0 \in 0 .. Cardinality(Pid) + Cardinality(Name)
      /\ 0 \in 0 .. MaxChanges /\ 0 \in 0 .. MaxKills /\ 0 \in 0 .. 0
      /\ NoFilter \in Needles
  BY ProcAssumption, FS_CardinalityType
<1>3. DOMAIN rows = {}
  BY DEF Init
<1>4. TypeOK
  BY <1>1, <1>2 DEF Init, TypeOK
<1>5. RowsKnown /\ CountKnown
  BY <1>3 DEF Init, RowsKnown, CountKnown
<1> QED
  BY <1>4, <1>5

\* What a refresh puts on screen is known.
LEMMA RefreshedKnown ==
    ASSUME TypeOK, RefreshRows
    PROVE  /\ RowsKnown'
           /\ IF unread' THEN rows' = <<>> ELSE Accounted(rows') /\ Ranked(rows')
           /\ ~unread' => SumOf([i \in DOMAIN rows' |-> Counts(rows'[i])])
                              = Cardinality(Listed(filter))
<1> DEFINE R == BuildRows(filter, expanded)
           S == Listed(filter)
<1>1. ProcsKnown /\ S \subseteq Alive
  BY DEF TypeOK, ProcsKnown, Listed
<1>2. PICK app, pos : Built(R, S, expanded, app, pos)
  BY <1>1, BuildShape
<1>3. rows' = IF unread' THEN <<>> ELSE R
  BY DEF RefreshRows
<1> HIDE DEF R
<1>4. Accounted(R)
  BY <1>1, <1>2, BuiltAccounted
<1> HIDE DEF S
<1>5. Ranked(R)
  BY <1>1, <1>2, BuiltRanked
<1>6. SumOf([i \in DOMAIN R |-> Counts(R[i])]) = Cardinality(S)
  BY <1>1, <1>2, BuiltCounts
<1>7. \A i \in DOMAIN R :
          /\ i \in 1 .. Cardinality(Pid) + Cardinality(Name)
          /\ IF R[i].group THEN R[i].name \in Name ELSE R[i].pid \in Pid
  BY <1>1, <1>2, BuiltKnown
<1>8. RowsKnown'
  <2>1. CASE unread'
    <3>1. DOMAIN rows' = {}
      BY <1>3, <2>1
    <3> QED
      BY <3>1 DEF RowsKnown
  <2>2. CASE ~unread'
    BY <1>3, <1>7, <2>2 DEF RowsKnown
  <2> QED
    BY <2>1, <2>2
<1>9. ~unread' => SumOf([i \in DOMAIN rows' |-> Counts(rows'[i])])
                      = Cardinality(Listed(filter))
  BY <1>3, <1>6 DEF S
<1>10. IF unread' THEN rows' = <<>> ELSE Accounted(rows') /\ Ranked(rows')
  BY <1>3, <1>4, <1>5
<1> QED
  BY <1>8, <1>9, <1>10

LEMMA CountBound ==
    ASSUME TypeOK
    PROVE  Cardinality(Alive) \in 0 .. Cardinality(Pid)
<1>1. Alive \in SUBSET Pid
  BY DEF Alive
<1>2. Cardinality(Alive) <= Cardinality(Pid) /\ IsFiniteSet(Alive)
  BY <1>1, ProcAssumption, FS_Subset
<1> QED
  BY <1>2, ProcAssumption, FS_CardinalityType

LEMMA StepType ==
    ASSUME TypeOK, RowsKnown, [Next]_vars
    PROVE  TypeOK' /\ RowsKnown'
<1>0. /\ Cardinality(Pid) \in Nat /\ Cardinality(Name) \in Nat
      /\ 0 \in 0 .. Cardinality(Pid) + Cardinality(Name)
  BY ProcAssumption, FS_CardinalityType
<1>1. CASE UNCHANGED vars
  BY <1>1 DEF TypeOK, RowsKnown, vars, window, arming, record
<1>2. CASE RefreshCount
  <2>1. count' \in 0 .. Cardinality(Pid)
    <3>1. Cardinality(Alive) \in 0 .. Cardinality(Pid) /\ 0 \in 0 .. Cardinality(Pid)
      BY <1>0, CountBound
    <3> QED
      BY <1>2, <3>1, Zenon DEF RefreshCount
  <2> QED
    BY <1>2, <2>1 DEF RefreshCount, TypeOK, RowsKnown, window, arming, record
<1>3. CASE RefreshRows
  <2>1. RowsKnown'
    BY <1>3, RefreshedKnown
  <2> QED
    BY <1>3, <2>1 DEF RefreshRows, TypeOK, record
<1>4. CASE TimerRefresh
  BY <1>4 DEF TimerRefresh, Handler, TypeOK, RowsKnown, arming, record
<1>5. ASSUME NEW i \in DOMAIN rows, Select(i) PROVE TypeOK' /\ RowsKnown'
  <2>1. i \in 0 .. Cardinality(Pid) + Cardinality(Name)
    BY <1>0 DEF RowsKnown
  <2> QED
    BY <1>5, <2>1 DEF Select, Handler, Forget, TypeOK, RowsKnown, record
<1>6. ASSUME NEW i \in DOMAIN rows, Toggle(i) PROVE TypeOK' /\ RowsKnown'
  <2>1. rows[i].name \in Name
    BY <1>6 DEF RowsKnown, Toggle
  <2>2. expanded' \subseteq Name
    BY <1>6, <2>1 DEF Toggle, TypeOK
  <2> QED
    BY <1>0, <1>6, <2>2 DEF Toggle, Handler, Forget, TypeOK, RowsKnown, record
<1>7. ASSUME NEW needle \in Needles, FilterChanged(needle) PROVE TypeOK' /\ RowsKnown'
  BY <1>0, <1>7 DEF FilterChanged, Handler, TypeOK, RowsKnown, arming, record
<1>8. CASE Arm
  <2>1. rows[selected].pid \in Pid
    BY <1>8 DEF Arm, HasSel, RowsKnown
  <2> QED
    BY <1>8, <2>1 DEF Arm, Handler, TypeOK, RowsKnown, record
<1>9. CASE Cancel
  BY <1>9 DEF Cancel, Handler, Forget, TypeOK, RowsKnown, record
<1>10. CASE ConfirmKill
  <2> DEFINE pid == rows[selected].pid
  <2>1. pid \in Pid
    BY <1>10 DEF ConfirmKill, HasSel, RowsKnown
  <2>2. procs' \in {procs, [procs EXCEPT ![pid] = None]}
    BY <1>10 DEF ConfirmKill
  <2>3. procs' \in [Pid -> {None} \cup Process]
    BY <2>2 DEF TypeOK
  <2>4. prompt \in Nat /\ kills \in Nat /\ prompt <= kills /\ MaxKills \in Nat
    BY ProcAssumption DEF TypeOK
  <2>5. kills' = kills + 1 /\ kills' \in 0 .. MaxKills
    BY <1>10, <2>4 DEF ConfirmKill
  <2>6. IF stale THEN UNCHANGED <<prompt, killed>> ELSE prompt' = prompt + 1 /\ killed' = pid
    BY <1>10 DEF ConfirmKill
  <2>7. prompt' \in 0 .. kills' /\ IF prompt' = 0 THEN killed' = None ELSE killed' \in Pid
    BY <2>1, <2>4, <2>5, <2>6 DEF TypeOK
  <2> HIDE DEF pid
  <2> QED
    BY <1>0, <1>10, <2>3, <2>5, <2>7 DEF ConfirmKill, Handler, Forget, TypeOK, RowsKnown
<1>11. ASSUME NEW p \in Pid, Exit(p) PROVE TypeOK' /\ RowsKnown'
  <2>1. procs' \in [Pid -> {None} \cup Process]
    BY <1>11 DEF Exit, TypeOK
  <2> QED
    BY <1>11, <2>1 DEF Exit, Kernel, TypeOK, RowsKnown, window, arming, record
<1>12. ASSUME NEW p \in Pid, NEW m \in Mem, Grow(p, m) PROVE TypeOK' /\ RowsKnown'
  <2>1. procs[p] \in Process
    BY <1>12 DEF Grow, Alive, TypeOK
  <2>2. [procs[p] EXCEPT !.mem = m] \in Process
    BY <2>1 DEF Process
  <2>3. procs' \in [Pid -> {None} \cup Process]
    BY <1>12, <2>2 DEF Grow, TypeOK
  <2>4. changes' \in 0 .. MaxChanges
    BY <1>12, ProcAssumption DEF Grow, Change, TypeOK
  <2> QED
    BY <1>12, <2>3, <2>4 DEF Grow, Kernel, TypeOK, RowsKnown, window, arming, record
<1>13. ASSUME NEW p \in Pid, NEW m \in Mem, NEW n \in Name, Spawn(p, n, m)
       PROVE  TypeOK' /\ RowsKnown'
  <2>1. [name |-> n, mem |-> m] \in Process
    BY DEF Process
  <2>2. procs' \in [Pid -> {None} \cup Process]
    BY <1>13, <2>1 DEF Spawn, TypeOK
  <2>3. changes' \in 0 .. MaxChanges
    BY <1>13, ProcAssumption DEF Spawn, Change, TypeOK
  <2> QED
    BY <1>13, <2>2, <2>3 DEF Spawn, Kernel, TypeOK, RowsKnown, window, arming, record
<1> QED
  BY <1>1, <1>2, <1>3, <1>4, <1>5, <1>6, <1>7, <1>8, <1>9, <1>10, <1>11, <1>12, <1>13 DEF Next

\* Every variable keeps its type; above all, what is armed or killed is a process,
\* and the list never offers anything else to select.
THEOREM TypeCorrect == Spec => []TypeOK /\ []RowsKnown
<1>1. Init => TypeOK /\ RowsKnown
  BY InitType
<1>2. TypeOK /\ RowsKnown /\ [Next]_vars => TypeOK' /\ RowsKnown'
  BY StepType
<1> QED
  BY <1>1, <1>2, PTL DEF Spec

\* Every list put on screen has one row for each process that is listed, except
\* those of a collapsed group, shows the memory of each process and, in the header of
\* a group, the number of its processes and the sum of their memory, and has the
\* heaviest on top; a list that could not be read is empty.
THEOREM RowsComplete == Spec => RowsAccount
<1>1. TypeOK /\ [Next]_vars => [RefreshRows =>
          IF unread' THEN rows' = <<>> ELSE Accounted(rows') /\ Ranked(rows')]_vars
  BY RefreshedKnown
<1> QED
  BY <1>1, TypeCorrect, PTL DEF Spec, RowsAccount

-----------------------------------------------------------------------------
(* The counter. *)

\* The counter is stale only once the table moved after its listing, or if that
\* could not be read.
LEMMA StepCount ==
    ASSUME TypeOK, CountKnown, [Next]_vars
    PROVE  CountKnown'
<1> USE DEF CountKnown
<1>1. CASE UNCHANGED vars
  BY <1>1 DEF vars, Alive
<1>2. CASE RefreshCount
  BY <1>2 DEF RefreshCount, Alive
<1>3. CASE phase' # "rows"
  BY <1>3
<1>4. CASE Kernel /\ phase' = "rows"
  BY <1>4 DEF Kernel
<1>5. CASE RefreshRows \/ TimerRefresh \/ Arm \/ Cancel \/ ConfirmKill
  BY <1>3, <1>5 DEF RefreshRows, TimerRefresh, Arm, Cancel, ConfirmKill, Handler
<1>6. ASSUME NEW i \in DOMAIN rows, Select(i) \/ Toggle(i) PROVE CountKnown'
  BY <1>3, <1>6 DEF Select, Toggle, Handler
<1>7. ASSUME NEW needle \in Needles, FilterChanged(needle) PROVE CountKnown'
  BY <1>3, <1>7 DEF FilterChanged, Handler
<1>8. ASSUME NEW p \in Pid,
             Exit(p) \/ \E m \in Mem : Grow(p, m) \/ \E n \in Name : Spawn(p, n, m)
      PROVE  CountKnown'
  BY <1>3, <1>4, <1>8 DEF Exit, Grow, Spawn
<1> QED
  BY <1>1, <1>2, <1>5, <1>6, <1>7, <1>8 DEF Next

\* The counter of the overview and the unfiltered list agree on the number of
\* processes, unless the table moved between the two listings or one of them could
\* not be read.
THEOREM CounterAgrees == Spec => CountAgrees
<1>1. Init => CountKnown
  BY InitType
<1>2. TypeOK /\ CountKnown /\ [Next]_vars => CountKnown'
  BY StepCount
<1>3. TypeOK /\ CountKnown /\ [Next]_vars
          => [RefreshRows /\ filter = NoFilter /\ ~moved /\ ~unread /\ ~unread' =>
                  count = SumOf([i \in DOMAIN rows' |-> Counts(rows'[i])])]_vars
  <2> SUFFICES ASSUME TypeOK, CountKnown, RefreshRows, filter = NoFilter, ~moved,
                      ~unread, ~unread'
               PROVE  count = SumOf([i \in DOMAIN rows' |-> Counts(rows'[i])])
    OBVIOUS
  <2>1. SumOf([i \in DOMAIN rows' |-> Counts(rows'[i])]) = Cardinality(Listed(filter))
    BY RefreshedKnown
  <2>2. Listed(filter) = Alive
    <3>1. ProcsKnown
      BY DEF TypeOK, ProcsKnown
    <3>2. \A p \in Alive : <<p, procs[p].name>> \in Pid \X Name
      BY <3>1, AliveKnown
    <3> QED
      BY <3>2, ProcAssumption DEF Listed
  <2>3. count = Cardinality(Alive)
    BY DEF CountKnown, RefreshRows
  <2> QED
    BY <2>1, <2>2, <2>3
<1> QED
  BY <1>1, <1>2, <1>3, TypeCorrect, PTL DEF Spec, CountAgrees

-----------------------------------------------------------------------------
(* The two-step confirm. *)

\* The process a confirm would kill, as TwoStep sees it.
OnShow == IF confirmKill /\ HasSel /\ ~stale THEN rows[selected].pid ELSE None

\* Disarming, or clearing the selection, leaves nothing to kill.
LEMMA NothingOnShow ==
    ASSUME RowsKnown', confirmKill' = FALSE \/ selected' = 0
    PROVE  OnShow' = None
<1>1. selected' = 0 => ~HasSel'
  BY DEF HasSel, RowsKnown
<1> QED
  BY <1>1 DEF OnShow

\* Every step is one of TwoStep's, or none of them.
LEMMA StepConfirmed ==
    ASSUME TypeOK, RowsKnown, RowsKnown', [Next]_vars
    PROVE  [Confirm!Next]_<<OnShow, killed, prompt>>
<1> USE DEF Confirm!Next
<1> DEFINE still == UNCHANGED <<OnShow, killed, prompt>>
<1>1. ASSUME UNCHANGED <<rows, selected, confirmKill, stale, killed, prompt>>
      PROVE  still
  BY <1>1 DEF OnShow, HasSel
<1>2. ASSUME OnShow' = None, UNCHANGED <<killed, prompt>>
      PROVE  Confirm!Disarm \/ still
  BY <1>2 DEF Confirm!Disarm, OnShow
<1>3. CASE UNCHANGED vars
  BY <1>1, <1>3 DEF vars, window, arming, record
<1>4. CASE RefreshCount
  BY <1>1, <1>4 DEF RefreshCount, window, arming, record
<1>5. CASE RefreshRows
  <2>1. UNCHANGED <<selected, confirmKill, killed, prompt>>
    BY <1>5 DEF RefreshRows, record
  <2>2. CASE confirmKill /\ rows' = rows
    <3>1. stale' = stale
      BY <1>5, <2>2 DEF RefreshRows, TypeOK
    <3> QED
      BY <1>1, <2>1, <2>2, <3>1
  <2>3. CASE confirmKill /\ rows' # rows
    <3>1. OnShow' = None
      BY <1>5, <2>3 DEF RefreshRows, OnShow
    <3> QED
      BY <1>2, <2>1, <3>1
  <2>4. CASE ~confirmKill
    <3>1. OnShow' = None
      BY <2>1, <2>4 DEF OnShow
    <3> QED
      BY <1>2, <2>1, <3>1
  <2> QED
    BY <2>2, <2>3, <2>4
<1>6. CASE TimerRefresh
  BY <1>1, <1>6 DEF TimerRefresh, Handler, arming, record
<1>7. ASSUME NEW i \in DOMAIN rows, Select(i) \/ Toggle(i)
      PROVE  Confirm!Disarm \/ still
  <2>1. confirmKill' = FALSE /\ UNCHANGED <<killed, prompt>>
    BY <1>7 DEF Select, Toggle, record
  <2> QED
    BY <1>2, <2>1, NothingOnShow
<1>8. ASSUME NEW needle \in Needles, FilterChanged(needle)
      PROVE  Confirm!Disarm \/ still
  <2>1. selected' = 0 /\ UNCHANGED <<killed, prompt>>
    BY <1>8 DEF FilterChanged, record
  <2> QED
    BY <1>2, <2>1, NothingOnShow
<1>9. CASE Arm
  <2>1. OnShow = None
    BY <1>9 DEF Arm, OnShow
  <2>2. rows[selected].pid \in Pid
    BY <1>9 DEF Arm, HasSel, RowsKnown
  <2>3. OnShow' = rows[selected].pid
    BY <1>9 DEF Arm, Handler, HasSel, OnShow
  <2>4. UNCHANGED <<killed, prompt>>
    BY <1>9 DEF Arm, record
  <2> QED
    BY <2>1, <2>2, <2>3, <2>4 DEF Confirm!Arm, OnShow
<1>10. CASE Cancel
  <2>1. confirmKill' = FALSE /\ UNCHANGED <<killed, prompt>>
    BY <1>10 DEF Cancel, record
  <2> QED
    BY <1>2, <2>1, NothingOnShow
<1>11. CASE ConfirmKill
  <2>1. OnShow' = None
    BY <1>11, NothingOnShow DEF ConfirmKill
  <2>2. CASE stale
    <3>1. UNCHANGED <<killed, prompt>>
      BY <1>11, <2>2 DEF ConfirmKill
    <3> QED
      BY <1>2, <2>1, <3>1
  <2>3. CASE ~stale
    <3>1. rows[selected].pid \in Pid /\ None \notin Pid
      BY <1>11, ProcAssumption DEF ConfirmKill, HasSel, RowsKnown
    <3>2. OnShow = rows[selected].pid
      BY <1>11, <2>3 DEF ConfirmKill, OnShow
    <3>3. killed' = rows[selected].pid /\ prompt' = prompt + 1
      BY <1>11, <2>3 DEF ConfirmKill
    <3>4. Confirm!Execute
      BY <2>1, <3>1, <3>2, <3>3 DEF Confirm!Execute, OnShow
    <3> QED
      BY <3>4
  <2> QED
    BY <2>2, <2>3
<1>12. ASSUME NEW p \in Pid,
              Exit(p) \/ \E m \in Mem : Grow(p, m) \/ \E n \in Name : Spawn(p, n, m)
       PROVE  still
  <2>1. Kernel
    BY <1>12 DEF Exit, Grow, Spawn
  <2> QED
    BY <1>1, <2>1 DEF Kernel, window, arming, record
<1> QED
  BY <1>3, <1>4, <1>5, <1>6, <1>7, <1>8, <1>9, <1>10, <1>11, <1>12 DEF Next

\* Force-kill is a two-step confirm of the process on show, as long as the list
\* does not change under it: ProcTab implements TwoStep.
THEOREM TwoStepConfirm == Spec => ConfirmsInTwoSteps
<1>1. Init => Confirm!Init
  BY DEF Init, Confirm!Init, OnShow
<1>2. TypeOK /\ RowsKnown /\ RowsKnown' /\ [Next]_vars
          => [Confirm!Next]_<<OnShow, killed, prompt>>
  BY StepConfirmed
<1> QED
  BY <1>1, <1>2, TypeCorrect, PTL DEF Spec, ConfirmsInTwoSteps, Confirm!Spec, OnShow
=============================================================================
