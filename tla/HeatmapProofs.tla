--------------------------- MODULE HeatmapProofs ---------------------------
(***************************************************************************)
(* Proofs about Heatmap for every set of samples and ranges, whatever the  *)
(* keys, the values, the logical ranges, the weights and the targets:      *)
(* requests show exactly the buckets that overlap their range, and no      *)
(* check that the code makes on the way ever fails.                        *)
(* The operators are folds over sequences. A fold is a function on the     *)
(* sets of indices; what its steps keep it has at the end, which needs an  *)
(* induction of its own (FoldExists, FoldStays) for each of them.          *)
(***************************************************************************)
EXTENDS Heatmap, SequenceTheorems, WellFoundedInduction, FiniteSetTheorems, TLAPS

\* A set of naturals that is not empty has a least element.
LEMMA Least ==
    ASSUME NEW S \in SUBSET Nat, S # {}
    PROVE  \E x \in S : \A y \in S : x <= y
  <1>. DEFINE R == OpToRel(<, Nat)
  <1>1. IsWellFoundedOn(R, Nat)
    BY NatLessThanWellFounded
  <1>2. \A x, y \in Nat : <<y, x>> \in R <=> y < x
    BY DEF OpToRel
  <1>. HIDE DEF R
  <1>3. PICK x \in S : \A y \in S : ~(<<y, x>> \in R)
    BY <1>1, WFMin
  <1>4. \A y \in S : ~(y < x)
    BY <1>2, <1>3
  <1>. QED BY <1>4

\* Induction over the subsets of a finite set: there is no bad one if the empty set is
\* not bad and each bad one has an element without which it is bad too.
LEMMA NoneBad ==
    ASSUME NEW S, IsFiniteSet(S), NEW B \in SUBSET SUBSET S,
           {} \notin B, \A s \in B : \E x \in s : s \ {x} \in B
    PROVE  B = {}
  <1>. SUFFICES ASSUME B # {} PROVE FALSE
    OBVIOUS
  <1>. DEFINE N == {n \in Nat : \E s \in B : Cardinality(s) = n}
  <1>1. \A s \in B : IsFiniteSet(s) /\ Cardinality(s) \in Nat
    <2>. TAKE s \in B
    <2>1. IsFiniteSet(s)
      BY FS_Subset
    <2>. QED BY <2>1, FS_CardinalityType
  <1>2. N # {} /\ N \in SUBSET Nat
    BY <1>1
  <1>. HIDE DEF N
  <1>3. PICK n \in N : \A m \in N : n <= m
    BY <1>2, Least, Zenon
  <1>4. PICK s \in B : Cardinality(s) = n
    BY <1>3 DEF N
  <1>5. PICK x \in s : s \ {x} \in B
    BY <1>4
  <1>6. Cardinality(s \ {x}) = Cardinality(s) - 1
    BY <1>1, <1>5, FS_RemoveElement
  <1>7. Cardinality(s \ {x}) \in N
    BY <1>1, <1>5 DEF N
  <1>8. n \in Nat /\ n - 1 \in N
    BY <1>1, <1>4, <1>6, <1>7
  <1>9. n <= n - 1
    BY <1>3, <1>8
  <1>. QED BY <1>8, <1>9

\* What is said of 0, and of the next number with each number below n, is said of n.
LEMMA UpTo ==
    ASSUME NEW n \in Nat, NEW G \in SUBSET (0 .. n), 0 \in G,
           \A i \in 1 .. n : i - 1 \in G => i \in G
    PROVE  G = 0 .. n
  <1>. DEFINE B == (0 .. n) \ G
  <1>. SUFFICES ASSUME B # {} PROVE FALSE
    OBVIOUS
  <1>1. B \in SUBSET Nat
    OBVIOUS
  <1>2. PICK i \in B : \A k \in B : i <= k
    BY <1>1, Least, Zenon
  <1>3. i \in 1 .. n /\ i - 1 \in 0 .. n /\ ~(i <= i - 1)
    BY <1>2
  <1>4. i - 1 \in G
    BY <1>2, <1>3
  <1>. QED BY <1>2, <1>3, <1>4

-----------------------------------------------------------------------------
(***************************************************************************)
(* Folds.  A fold over a finite set is what one function on its subsets    *)
(* gives for the whole set.  That such a function exists is shown once,    *)
(* for steps given as a function; a proof about a fold then goes by        *)
(* induction over the subsets, or the first numbers.                       *)
(***************************************************************************)
IsFold(h, S, base, step, pick) ==
    h = [s \in SUBSET S |-> IF s = {} THEN base ELSE step[<<h[s \ {pick[s]}], pick[s]>>]]

\* The step stays within V.
Within(S, V, base, step, pick) ==
    /\ IsFiniteSet(S)
    /\ base \in V
    /\ \A v \in V : \A x \in S : step[<<v, x>>] \in V
    /\ \A s \in SUBSET S : s # {} => pick[s] \in s

\* A fold whose step stays within V exists.
LEMMA FoldExists ==
    ASSUME NEW S, NEW V, NEW base, NEW step, NEW pick, Within(S, V, base, step, pick)
    PROVE  \E h \in [SUBSET S -> V] : IsFold(h, S, base, step, pick)
  <1>. USE DEF Within
  <1>. DEFINE Small(n) == {s \in SUBSET S : Cardinality(s) <= n}
              Rule(h, s) == IF s = {} THEN base ELSE step[<<h[s \ {pick[s]}], pick[s]>>]
              Upto(h, n) == \A s \in Small(n) : h[s] = Rule(h, s)
              G == {n \in 0 .. Cardinality(S) : \E h \in [SUBSET S -> V] : Upto(h, n)}
  <1>0. /\ Cardinality(S) \in Nat
        /\ \A s \in SUBSET S : IsFiniteSet(s) /\ Cardinality(s) \in Nat /\ Cardinality(s) <= Cardinality(S)
    BY FS_CardinalityType, FS_Subset
  <1>1. \A s \in SUBSET S : s # {} =>
           /\ s \ {pick[s]} \in SUBSET S
           /\ Cardinality(s \ {pick[s]}) = Cardinality(s) - 1
    <2>. SUFFICES ASSUME NEW s \in SUBSET S, s # {}
                  PROVE  Cardinality(s \ {pick[s]}) = Cardinality(s) - 1
      OBVIOUS
    <2>1. IsFiniteSet(s) /\ pick[s] \in s
      BY <1>0
    <2>. QED BY <2>1, FS_RemoveElement
  <1>2. 0 \in G
    <2>. DEFINE h == [s \in SUBSET S |-> base]
    <2>1. \A s \in Small(0) : s = {}
      BY <1>0, FS_EmptySet
    <2>2. \A s \in Small(0) : h[s] = Rule(h, s)
      BY <2>1
    <2>3. h \in [SUBSET S -> V]
      OBVIOUS
    <2>4. \E k \in [SUBSET S -> V] : Upto(k, 0)
      BY <2>2, <2>3
    <2>5. 0 \in 0 .. Cardinality(S)
      BY <1>0
    <2>. QED BY <2>4, <2>5
  <1>3. \A n \in 1 .. Cardinality(S) : n - 1 \in G => n \in G
    <2>. SUFFICES ASSUME NEW n \in 1 .. Cardinality(S), n - 1 \in G PROVE n \in G
      OBVIOUS
    <2>1. PICK h \in [SUBSET S -> V] : Upto(h, n - 1)
      OBVIOUS
    <2>. DEFINE k == [s \in SUBSET S |-> Rule(h, s)]
    <2>2. \A s \in SUBSET S : Rule(h, s) \in V
      <3>. TAKE s \in SUBSET S
      <3>1. s # {} => h[s \ {pick[s]}] \in V /\ pick[s] \in S
        BY <1>1, <2>1
      <3>. QED BY <3>1
    <2>3. k \in [SUBSET S -> V]
      BY <2>2
    <2>4. \A s \in Small(n - 1) : k[s] = h[s]
      BY <2>1
    <2>5. \A s \in Small(n) : k[s] = Rule(k, s)
      <3>. SUFFICES ASSUME NEW s \in Small(n) PROVE k[s] = Rule(k, s)
        OBVIOUS
      <3>1. CASE s = {}
        BY <3>1
      <3>2. CASE s # {}
        <4>1. Cardinality(s \ {pick[s]}) = Cardinality(s) - 1 /\ s \ {pick[s]} \in SUBSET S
          BY <1>1, <3>2
        <4>2. Cardinality(s) \in Nat /\ Cardinality(s) <= n /\ n \in Nat
          BY <1>0
        <4>3. Cardinality(s \ {pick[s]}) <= n - 1
          BY <4>1, <4>2
        <4>4. k[s \ {pick[s]}] = h[s \ {pick[s]}]
          BY <2>4, <4>1, <4>3
        <4>. QED BY <3>2, <4>4
      <3>. QED BY <3>1, <3>2
    <2>6. Upto(k, n)
      BY <2>5
    <2>7. n \in 0 .. Cardinality(S)
      BY <1>0
    <2>. HIDE DEF k
    <2>8. \E f \in [SUBSET S -> V] : Upto(f, n)
      BY <2>3, <2>6, Zenon
    <2>. QED BY <2>7, <2>8, Zenon
  <1>4. G = 0 .. Cardinality(S)
    <2>. HIDE DEF Upto
    <2>1. G \in SUBSET (0 .. Cardinality(S))
      OBVIOUS
    <2>. HIDE DEF G
    <2>. QED BY <1>0, <1>2, <1>3, <2>1, UpTo
  <1>5. Cardinality(S) \in G
    <2>1. Cardinality(S) \in 0 .. Cardinality(S)
      BY <1>0
    <2>. QED BY <1>4, <2>1, Zenon
  <1>6. PICK h \in [SUBSET S -> V] : Upto(h, Cardinality(S))
    BY <1>5
  <1>7. \A s \in SUBSET S : h[s] = Rule(h, s)
    BY <1>0, <1>6
  <1>8. h = [s \in SUBSET S |-> Rule(h, s)]
    BY <1>7
  <1>. QED BY <1>6, <1>8 DEF IsFold

-----------------------------------------------------------------------------
(***************************************************************************)
(* Ranges of keys (KeyAxis)                                                *)
(***************************************************************************)
\* The keys of an axis.
Keyed(keys) == keys \in Seq(Nat) /\ Len(keys) >= 2 /\ Increasing(keys)

\* The least number of a set.
LEMMA MinIs ==
    ASSUME NEW S \in SUBSET Nat, S # {}
    PROVE  Min(S) \in S /\ \A y \in S : Min(S) <= y
  <1>1. \E x \in S : \A y \in S : x <= y
    BY Least
  <1>. QED BY <1>1, Zenon DEF Min

\* Only the last key may be smaller than one before it, and is then no limit.
LEMMA KeysGrow ==
    ASSUME NEW keys, Keyed(keys)
    PROVE  \A j \in 1 .. Len(keys) : \A i \in 1 .. j - 1 :
             keys[i] < keys[j] \/ (j = Len(keys) /\ keys[j] = Unlimited)
  <1>. DEFINE n == Len(keys)
              Grows(j) == \A i \in 1 .. j - 1 :
                            keys[i] < keys[j] \/ (j = n /\ keys[j] = Unlimited)
              G == {j \in 0 .. n : j # 0 => Grows(j)}
  <1>0. n \in Nat /\ n >= 2 /\ \A i \in 1 .. n : keys[i] \in Nat
    BY DEF Keyed
  <1>1. \A i \in 2 .. n : keys[i - 1] < keys[i] \/ (i = n /\ keys[i] = Unlimited)
    BY DEF Keyed, Increasing
  <1>2. 0 \in G
    BY <1>0
  <1>3. \A j \in 1 .. n : j - 1 \in G => j \in G
    <2>. SUFFICES ASSUME NEW j \in 1 .. n, j - 1 \in G, NEW i \in 1 .. j - 1
                  PROVE  keys[i] < keys[j] \/ (j = n /\ keys[j] = Unlimited)
      BY <1>0
    <2>1. j \in 2 .. n /\ j - 1 \in 1 .. n /\ j - 1 # 0 /\ j - 1 # n
      BY <1>0
    <2>2. keys[j - 1] < keys[j] \/ (j = n /\ keys[j] = Unlimited)
      BY <1>1, <2>1
    <2>3. i = j - 1 \/ i \in 1 .. (j - 1) - 1
      BY <2>1
    <2>4. CASE i = j - 1
      BY <2>2, <2>4
    <2>5. CASE i \in 1 .. (j - 1) - 1
      <3>1. keys[i] < keys[j - 1]
        BY <2>1, <2>5
      <3>2. keys[i] \in Nat /\ keys[j - 1] \in Nat /\ keys[j] \in Nat
        BY <1>0, <2>1, <2>5
      <3>. QED BY <2>2, <3>1, <3>2
    <2>. QED BY <2>3, <2>4, <2>5
  <1>4. G = 0 .. n
    <2>1. G \in SUBSET (0 .. n)
      OBVIOUS
    <2>. HIDE DEF G, n
    <2>. QED BY <1>0, <1>2, <1>3, <2>1, UpTo
  <1>. QED
    <2>. SUFFICES ASSUME NEW j \in 1 .. n PROVE Grows(j)
      OBVIOUS
    <2>1. j \in G /\ j # 0
      BY <1>0, <1>4
    <2>. QED BY <2>1

\* What is searched is sorted, and between the first key and the last none is 0.
LEMMA KeysSorted ==
    ASSUME NEW keys, Keyed(keys)
    PROVE  /\ Len(keys) \in Nat /\ Len(keys) >= 2
           /\ \A i \in 1 .. Len(keys) : keys[i] \in Nat
           /\ Last(keys) = keys[Len(keys)]
           /\ \A i \in 2 .. Len(keys) - 1 : keys[i] # Unlimited
           /\ SortedLen(keys) = IF keys[Len(keys)] = 0 THEN Len(keys) - 1 ELSE Len(keys)
           /\ SortedLen(keys) \in 1 .. Len(keys)
           /\ \A j \in 1 .. SortedLen(keys) : \A i \in 1 .. j - 1 : keys[i] < keys[j]
  <1>1. Len(keys) \in Nat /\ Len(keys) >= 2 /\ \A i \in 1 .. Len(keys) : keys[i] \in Nat
    BY DEF Keyed
  <1>2. Last(keys) = keys[Len(keys)]
    BY DEF Last
  <1>3. SortedLen(keys) = IF keys[Len(keys)] = 0 THEN Len(keys) - 1 ELSE Len(keys)
    BY <1>2 DEF SortedLen, Unlimited
  <1>4. SortedLen(keys) \in 1 .. Len(keys)
    BY <1>1, <1>3
  <1>5. \A i \in 2 .. Len(keys) - 1 : keys[i] # Unlimited
    <2>. SUFFICES ASSUME NEW i \in 2 .. Len(keys) - 1 PROVE keys[i] # Unlimited
      OBVIOUS
    <2>1. i \in 2 .. Len(keys) /\ i # Len(keys) /\ i - 1 \in 1 .. Len(keys) /\ i \in 1 .. Len(keys)
      BY <1>1
    <2>2. keys[i - 1] < keys[i]
      BY <2>1 DEF Keyed, Increasing
    <2>3. keys[i - 1] \in Nat /\ keys[i] \in Nat
      BY <1>1, <2>1
    <2>. QED BY <2>2, <2>3 DEF Unlimited
  <1>6. \A j \in 1 .. SortedLen(keys) : \A i \in 1 .. j - 1 : keys[i] < keys[j]
    <2>. SUFFICES ASSUME NEW j \in 1 .. SortedLen(keys), NEW i \in 1 .. j - 1
                  PROVE  keys[i] < keys[j]
      OBVIOUS
    <2>1. j \in 1 .. Len(keys)
      BY <1>1, <1>4
    <2>2. keys[i] < keys[j] \/ (j = Len(keys) /\ keys[j] = Unlimited)
      BY <2>1, KeysGrow
    <2>3. CASE j = Len(keys) /\ keys[j] = Unlimited
      <3>1. SortedLen(keys) = Len(keys) - 1
        BY <1>3, <2>3 DEF Unlimited
      <3>. QED BY <1>1, <2>3, <3>1
    <2>. QED BY <2>2, <2>3
  <1>. QED BY <1>1, <1>2, <1>3, <1>4, <1>5, <1>6

\* The first of the sorted keys above a bound, or the place after them.
LEMMA SearchAbove ==
    ASSUME NEW keys, NEW n \in Nat, NEW from
    PROVE  LET i == Search(n, LAMBDA k : keys[k] > from)
           IN  /\ i \in 1 .. n + 1
               /\ i # n + 1 => keys[i] > from
               /\ \A k \in 1 .. i - 1 : ~(keys[k] > from)
  <1>. DEFINE S == {k \in 1 .. n : keys[k] > from} \cup {n + 1}
  <1>1. Search(n, LAMBDA k : keys[k] > from) = Min(S)
    BY DEF Search
  <1>2. S \in SUBSET Nat /\ S # {} /\ S \subseteq 1 .. n + 1
    OBVIOUS
  <1>3. Min(S) \in S /\ \A y \in S : Min(S) <= y
    BY <1>2, MinIs
  <1>4. ASSUME NEW i \in S, \A y \in S : i <= y
        PROVE  /\ i \in 1 .. n + 1
               /\ i # n + 1 => keys[i] > from
               /\ \A k \in 1 .. i - 1 : ~(keys[k] > from)
    <2>1. i \in 1 .. n + 1
      BY <1>2
    <2>2. \A k \in 1 .. i - 1 : k \in 1 .. n /\ ~(i <= k)
      BY <2>1
    <2>. QED BY <1>4, <2>1, <2>2
  <1>. QED BY <1>1, <1>3, <1>4, Zenon

\* The first of the sorted keys that is not below a bound, or the place after them.
LEMMA SearchAtLeast ==
    ASSUME NEW keys, NEW n \in Nat, NEW to
    PROVE  LET i == Search(n, LAMBDA k : keys[k] >= to)
           IN  /\ i \in 1 .. n + 1
               /\ i # n + 1 => keys[i] >= to
               /\ \A k \in 1 .. i - 1 : ~(keys[k] >= to)
  <1>. DEFINE S == {k \in 1 .. n : keys[k] >= to} \cup {n + 1}
  <1>1. Search(n, LAMBDA k : keys[k] >= to) = Min(S)
    BY DEF Search
  <1>2. S \in SUBSET Nat /\ S # {} /\ S \subseteq 1 .. n + 1
    OBVIOUS
  <1>3. Min(S) \in S /\ \A y \in S : Min(S) <= y
    BY <1>2, MinIs
  <1>4. ASSUME NEW i \in S, \A y \in S : i <= y
        PROVE  /\ i \in 1 .. n + 1
               /\ i # n + 1 => keys[i] >= to
               /\ \A k \in 1 .. i - 1 : ~(keys[k] >= to)
    <2>1. i \in 1 .. n + 1
      BY <1>2
    <2>2. \A k \in 1 .. i - 1 : k \in 1 .. n /\ ~(i <= k)
      BY <2>1
    <2>. QED BY <1>4, <2>1, <2>2
  <1>. QED BY <1>1, <1>3, <1>4, Zenon

\* Where a range starts: the bucket before the first key above it.
LEMMA RangeStartIs ==
    ASSUME NEW keys, Keyed(keys), NEW from \in Nat, NEW to \in Nat, Intersects(keys, from, to)
    PROVE  /\ RangeStart(keys, from) \in 1 .. Len(keys) - 1
           /\ keys[RangeStart(keys, from)] <= from \/ RangeStart(keys, from) = 1
           /\ \A b \in 1 .. Len(keys) - 1 :
                (keys[b + 1] # Unlimited => from < keys[b + 1]) <=> RangeStart(keys, from) <= b
  <1>. DEFINE n == SortedLen(keys)
              L == Len(keys)
              i == Search(n, LAMBDA k : keys[k] > from)
  <1>1. /\ L \in Nat /\ L >= 2 /\ \A k \in 1 .. L : keys[k] \in Nat
        /\ \A k \in 2 .. L - 1 : keys[k] # 0
        /\ n = IF keys[L] = 0 THEN L - 1 ELSE L
        /\ n \in 1 .. L
        /\ \A k \in 1 .. n : \A m \in 1 .. k - 1 : keys[m] < keys[k]
        /\ keys[L] # 0 => from < keys[L]
    BY KeysSorted DEF Unlimited, Intersects
  <1>2. RangeStart(keys, from) = IF i > 1 THEN i - 1 ELSE i
    BY DEF RangeStart
  <1>3. /\ i \in 1 .. n + 1
        /\ i # n + 1 => keys[i] > from
        /\ \A k \in 1 .. i - 1 : ~(keys[k] > from)
    <2>1. n \in Nat
      BY <1>1
    <2>. HIDE DEF n
    <2>. QED BY <2>1, SearchAbove, Zenon
  <1>. HIDE DEF i, n, L
  <1>4. i \in 1 .. L
    <2>1. CASE keys[L] = 0
      BY <1>1, <1>3, <2>1
    <2>2. CASE keys[L] # 0
      <3>1. keys[L] > from /\ L \in Nat /\ n = L
        BY <1>1, <2>2
      <3>2. i # n + 1
        BY <1>1, <1>3, <3>1
      <3>. QED BY <1>3, <3>1, <3>2
    <2>. QED BY <2>1, <2>2
  <1>5. RangeStart(keys, from) \in 1 .. L - 1
    BY <1>1, <1>2, <1>4
  <1>6. keys[RangeStart(keys, from)] <= from \/ RangeStart(keys, from) = 1
    <2>1. CASE i > 1
      <3>1. i - 1 \in 1 .. i - 1 /\ i - 1 \in 1 .. L
        BY <1>1, <1>4, <2>1
      <3>2. ~(keys[i - 1] > from) /\ keys[i - 1] \in Nat
        BY <1>1, <1>3, <3>1
      <3>. QED BY <1>2, <2>1, <3>2
    <2>. QED BY <1>2, <1>4, <2>1
  <1>7. ASSUME NEW b \in 1 .. L - 1
        PROVE  (keys[b + 1] # 0 => from < keys[b + 1]) <=> RangeStart(keys, from) <= b
    <2>1. b + 1 \in 2 .. L /\ b + 1 \in 1 .. L /\ keys[b + 1] \in Nat
      BY <1>1
    <2>2. RangeStart(keys, from) <= b <=> i <= b + 1
      BY <1>2, <1>4
    <2>3. CASE i <= b + 1
      <3>1. CASE b + 1 \in 1 .. n
        <4>1. i # n + 1 /\ i \in 1 .. L
          BY <1>1, <1>3, <2>3, <3>1
        <4>2. keys[i] > from /\ keys[i] \in Nat
          BY <1>1, <1>3, <4>1
        <4>3. b + 1 = i \/ i \in 1 .. (b + 1) - 1
          BY <1>3, <2>3
        <4>4. b + 1 = i \/ keys[i] < keys[b + 1]
          BY <1>1, <3>1, <4>3
        <4>5. from < keys[b + 1]
          BY <2>1, <4>2, <4>4
        <4>. QED BY <2>2, <2>3, <4>5
      <3>2. CASE b + 1 \notin 1 .. n
        <4>1. b + 1 = L /\ keys[L] = 0
          BY <1>1, <2>1, <3>2
        <4>. QED BY <2>2, <2>3, <4>1
      <3>. QED BY <3>1, <3>2
    <2>4. CASE ~(i <= b + 1)
      <3>1. b + 1 \in 1 .. i - 1 /\ b + 1 \in 2 .. L - 1
        BY <1>1, <1>4, <2>1, <2>4
      <3>2. ~(keys[b + 1] > from) /\ keys[b + 1] # 0
        BY <1>1, <1>3, <3>1
      <3>. QED BY <2>1, <2>2, <2>4, <3>2
    <2>. QED BY <2>3, <2>4
  <1>. QED BY <1>5, <1>6, <1>7 DEF L, Unlimited

\* Where it ends: at the first key that is not below it, or at the last key.
LEMMA RangeEndIs ==
    ASSUME NEW keys, Keyed(keys), NEW from \in Nat, NEW to \in Nat, Intersects(keys, from, to)
    PROVE  /\ RangeEnd(keys, to) \in 2 .. Len(keys)
           /\ \A b \in 1 .. Len(keys) - 1 :
                (to # Unlimited => keys[b] < to) <=> b < RangeEnd(keys, to)
  <1>. DEFINE n == SortedLen(keys)
              L == Len(keys)
              i == Search(n, LAMBDA k : keys[k] >= to)
  <1>1. /\ L \in Nat /\ L >= 2 /\ \A k \in 1 .. L : keys[k] \in Nat
        /\ n = IF keys[L] = 0 THEN L - 1 ELSE L
        /\ n \in 1 .. L
        /\ \A k \in 1 .. n : \A m \in 1 .. k - 1 : keys[m] < keys[k]
        /\ to # 0 => keys[1] < to
    BY KeysSorted DEF Unlimited, Intersects
  <1>2. CASE to = 0
    <2>1. RangeEnd(keys, to) = L
      BY <1>2 DEF RangeEnd, Unlimited
    <2>2. \A b \in 1 .. L - 1 : b < L
      BY <1>1
    <2>. QED BY <1>1, <1>2, <2>1, <2>2 DEF Unlimited
  <1>3. CASE to # 0
    <2>1. RangeEnd(keys, to) = Min({i, L})
      BY <1>3 DEF RangeEnd, Unlimited
    <2>2. /\ i \in 1 .. n + 1
          /\ i # n + 1 => keys[i] >= to
          /\ \A k \in 1 .. i - 1 : ~(keys[k] >= to)
      <3>1. n \in Nat
        BY <1>1
      <3>. HIDE DEF n
      <3>. QED BY <3>1, SearchAtLeast, Zenon
    <2>. HIDE DEF i, n, L
    <2>3. {i, L} \in SUBSET Nat /\ {i, L} # {}
      BY <1>1, <2>2
    <2>4. Min({i, L}) \in {i, L} /\ \A y \in {i, L} : Min({i, L}) <= y
      BY <2>3, MinIs
    <2>5. i # 1
      <3>1. CASE n + 1 = 1
        BY <1>1, <3>1
      <3>2. CASE i # n + 1
        <4>1. keys[i] >= to
          BY <2>2, <3>2
        <4>2. keys[1] < to /\ keys[1] \in Nat
          BY <1>1, <1>3
        <4>. QED BY <4>1, <4>2
      <3>. QED BY <1>1, <3>1, <3>2
    <2>6. ASSUME NEW e \in {i, L}, e <= i, e <= L
          PROVE  e \in 2 .. L /\ \A b \in 1 .. L - 1 : keys[b] < to <=> b < e
      <3>1. e \in 2 .. L
        BY <1>1, <2>2, <2>5, <2>6
      <3>. SUFFICES ASSUME NEW b \in 1 .. L - 1 PROVE keys[b] < to <=> b < e
        BY <3>1
      <3>2. b \in 1 .. L /\ keys[b] \in Nat
        BY <1>1
      <3>3. CASE b < e
        <4>1. b \in 1 .. i - 1
          BY <2>2, <2>6, <3>1, <3>3
        <4>. QED BY <2>2, <3>2, <3>3, <4>1
      <3>4. CASE ~(b < e)
        <4>1. i <= b /\ b <= n /\ i \in 1 .. L
          BY <1>1, <2>2, <2>6, <3>1, <3>4
        <4>2. keys[i] >= to /\ keys[i] \in Nat
          BY <1>1, <2>2, <4>1
        <4>3. i = b \/ (b \in 1 .. n /\ i \in 1 .. b - 1)
          BY <2>2, <3>2, <4>1
        <4>4. i = b \/ keys[i] < keys[b]
          BY <1>1, <4>3
        <4>. QED BY <3>2, <3>4, <4>2, <4>4
      <3>. QED BY <3>3, <3>4
    <2>7. Min({i, L}) <= i /\ Min({i, L}) <= L
      BY <2>4
    <2>8. /\ RangeEnd(keys, to) \in 2 .. L
          /\ \A b \in 1 .. L - 1 : keys[b] < to <=> b < RangeEnd(keys, to)
      BY <2>1, <2>4, <2>6, <2>7, Zenon
    <2>. QED BY <1>3, <2>8 DEF L, Unlimited
  <1>. QED BY <1>2, <1>3

\* KeysRange finds exactly the buckets that overlap the range, and there are some.
LEMMA KeysRangeExact ==
    ASSUME NEW keys, Keyed(keys), NEW from \in Nat, NEW to \in Nat, CheckRange(from, to),
           Intersects(keys, from, to)
    PROVE  /\ RangeStart(keys, from) \in 1 .. Len(keys) - 1
           /\ RangeEnd(keys, to) \in RangeStart(keys, from) + 1 .. Len(keys)
           /\ \A b \in 1 .. Len(keys) - 1 :
                Overlaps(keys, b, from, to)
                <=> b \in RangeStart(keys, from) .. RangeEnd(keys, to) - 1
  <1>. DEFINE s == RangeStart(keys, from)
              e == RangeEnd(keys, to)
              L == Len(keys)
  <1>1. /\ s \in 1 .. L - 1 /\ (keys[s] <= from \/ s = 1)
        /\ \A b \in 1 .. L - 1 : (keys[b + 1] # Unlimited => from < keys[b + 1]) <=> s <= b
    BY RangeStartIs
  <1>2. e \in 2 .. L /\ \A b \in 1 .. L - 1 : (to # Unlimited => keys[b] < to) <=> b < e
    BY RangeEndIs
  <1>3. L \in Nat /\ L >= 2 /\ \A k \in 1 .. L : keys[k] \in Nat
    BY KeysSorted
  <1>4. \A b \in 1 .. L - 1 : Overlaps(keys, b, from, to) <=> b < e /\ s <= b
    BY <1>1, <1>2 DEF Overlaps
  <1>. HIDE DEF s, e, L
  <1>5. to # Unlimited => keys[s] < to
    <2>1. keys[1] \in Nat /\ keys[s] \in Nat
      BY <1>1, <1>3
    <2>2. to # Unlimited => from < to /\ keys[1] < to
      BY DEF CheckRange, Intersects
    <2>. QED BY <1>1, <2>1, <2>2
  <1>6. s < e
    BY <1>1, <1>2, <1>5
  <1>7. e \in s + 1 .. L /\ \A b \in 1 .. L - 1 : b < e /\ s <= b <=> b \in s .. e - 1
    BY <1>1, <1>2, <1>3, <1>6
  <1>. QED BY <1>1, <1>4, <1>7 DEF s, e, L

\* A range that does not meet the keys overlaps no bucket.
LEMMA NoOverlap ==
    ASSUME NEW keys, Keyed(keys), NEW from \in Nat, NEW to \in Nat,
           NEW b \in 1 .. Len(keys) - 1, Overlaps(keys, b, from, to)
    PROVE  Intersects(keys, from, to)
  <1>. DEFINE L == Len(keys)
  <1>1. /\ L \in Nat /\ L >= 2 /\ \A k \in 1 .. L : keys[k] \in Nat
        /\ Last(keys) = keys[L]
        /\ \A k \in 2 .. L - 1 : keys[k] # 0
    BY KeysSorted DEF Unlimited
  <1>2. (to # 0 => keys[b] < to) /\ (keys[b + 1] # 0 => from < keys[b + 1])
    BY DEF Overlaps, Unlimited
  <1>3. \A j \in 1 .. L : \A i \in 1 .. j - 1 : keys[i] < keys[j] \/ (j = L /\ keys[j] = 0)
    BY KeysGrow DEF Unlimited
  <1>. HIDE DEF L
  <1>4. b \in 1 .. L /\ b + 1 \in 2 .. L /\ b # L /\ 1 \in 1 .. L /\ L \in 1 .. L
    BY <1>1 DEF L
  <1>5. to # 0 => keys[1] < to
    <2>1. b = 1 \/ 1 \in 1 .. b - 1
      BY <1>4
    <2>2. b = 1 \/ keys[1] < keys[b]
      BY <1>3, <1>4, <2>1
    <2>3. keys[1] \in Nat /\ keys[b] \in Nat
      BY <1>1, <1>4
    <2>. QED BY <1>2, <2>2, <2>3
  <1>6. keys[L] # 0 => from < keys[L]
    <2>. SUFFICES ASSUME keys[L] # 0 PROVE from < keys[L]
      OBVIOUS
    <2>1. b + 1 = L \/ (b + 1 \in 1 .. L - 1 /\ b + 1 \in 2 .. L - 1)
      BY <1>1, <1>4
    <2>2. CASE b + 1 = L
      BY <1>2, <2>2
    <2>3. CASE b + 1 \in 1 .. L - 1 /\ b + 1 \in 2 .. L - 1
      <3>1. keys[b + 1] < keys[L] /\ keys[b + 1] # 0
        BY <1>1, <1>3, <1>4, <2>3
      <3>2. keys[b + 1] \in Nat /\ keys[L] \in Nat
        BY <1>1, <1>4, <2>3
      <3>. QED BY <1>2, <3>1, <3>2
    <2>. QED BY <2>1, <2>2, <2>3
  <1>. QED BY <1>1, <1>5, <1>6 DEF Intersects, Unlimited

-----------------------------------------------------------------------------
(***************************************************************************)
(* Sums.                                                                   *)
(***************************************************************************)
\* A nonempty set of the numbers to n has a greatest.
LEMMA MaxIs ==
    ASSUME NEW n \in Nat, NEW s \in SUBSET (1 .. n), s # {}
    PROVE  Max(s) \in s /\ \A y \in s : y <= Max(s)
  <1>. DEFINE U == {m \in 0 .. n : \A y \in s : y <= m}
  <1>1. n \in U /\ U \in SUBSET Nat
    OBVIOUS
  <1>2. PICK m \in U : \A k \in U : m <= k
    BY <1>1, Least
  <1>3. m \in s
    <2>. SUFFICES ASSUME m \notin s PROVE FALSE
      OBVIOUS
    <2>1. PICK y \in s : TRUE
      OBVIOUS
    <2>2. y \in 1 .. n /\ y <= m /\ m \in 0 .. n
      BY <1>2
    <2>3. m - 1 \in 0 .. n
      BY <2>2
    <2>4. \A z \in s : z <= m - 1
      <3>. TAKE z \in s
      <3>1. z <= m /\ z # m /\ z \in 1 .. n
        BY <1>2
      <3>. QED BY <2>2, <3>1
    <2>5. m <= m - 1
      BY <1>2, <2>3, <2>4
    <2>. QED BY <2>2, <2>5
  <1>4. \E x \in s : \A y \in s : x >= y
    BY <1>2, <1>3
  <1>. DEFINE x == Max(s)
  <1>5. x \in s /\ \A y \in s : x >= y
    BY <1>4, Zenon DEF Max
  <1>6. \A y \in s : y \in Nat
    OBVIOUS
  <1>. HIDE DEF x
  <1>7. x \in s /\ \A y \in s : y <= x
    BY <1>5, <1>6
  <1>. QED BY <1>7 DEF x

\* A fold over the numbers to n goes from 1 to n.
LEMMA FirstNumbers ==
    ASSUME NEW n \in Nat
    PROVE  /\ IsFiniteSet(1 .. n)
           /\ 1 .. 0 = {} /\ {} \in SUBSET (1 .. n)
           /\ \A i \in 1 .. n : /\ 1 .. i \in SUBSET (1 .. n) /\ 1 .. i # {}
                                /\ Max(1 .. i) = i /\ (1 .. i) \ {i} = 1 .. i - 1
           /\ \A s \in SUBSET (1 .. n) : s # {} => Max(s) \in s
  <1>1. IsFiniteSet(1 .. n)
    BY FS_Interval
  <1>2. ASSUME NEW i \in 1 .. n
        PROVE  /\ 1 .. i \in SUBSET (1 .. n) /\ 1 .. i # {}
               /\ Max(1 .. i) = i /\ (1 .. i) \ {i} = 1 .. i - 1
    <2>1. 1 .. i \in SUBSET (1 .. n) /\ 1 .. i # {}
      <3>1. i \in Nat /\ 1 <= i /\ i <= n
        OBVIOUS
      <3>2. 1 .. i # {}
        <4>1. 1 \in 1 .. i
          BY <3>1
        <4>. QED BY <4>1
      <3>. QED BY <3>1, <3>2
    <2>2. Max(1 .. i) \in 1 .. i /\ \A y \in 1 .. i : y <= Max(1 .. i)
      BY <2>1, MaxIs
    <2>3. Max(1 .. i) = i
      <3>1. i \in 1 .. i
        OBVIOUS
      <3>2. i <= Max(1 .. i)
        BY <2>2, <3>1
      <3>. QED BY <2>2, <3>2
    <2>4. (1 .. i) \ {i} = 1 .. i - 1
      OBVIOUS
    <2>. QED BY <2>1, <2>3, <2>4
  <1>3. \A s \in SUBSET (1 .. n) : s # {} => Max(s) \in s
    BY MaxIs
  <1>4. 1 .. 0 = {} /\ {} \in SUBSET (1 .. n)
    OBVIOUS
  <1>. QED BY <1>1, <1>2, <1>3, <1>4, Zenon

\* A sum of naturals is one.
LEMMA TotalNat ==
    ASSUME NEW values \in Seq(Nat)
    PROVE  Total(values) \in Nat
  <1>. DEFINE n == Len(values)
              Good(h) == h = [s \in SUBSET (1 .. n) |->
                                IF s = {} THEN 0 ELSE h[s \ {Max(s)}] + values[Max(s)]]
              g == CHOOSE h : Good(h)
              step == [x \in Nat \X (1 .. n) |-> x[1] + values[x[2]]]
              pick == [s \in SUBSET (1 .. n) |-> Max(s)]
  <1>1. n \in Nat /\ DOMAIN values = 1 .. n /\ \A i \in 1 .. n : values[i] \in Nat
    OBVIOUS
  <1>2. Total(values) = g[1 .. n]
    BY <1>1, Zenon DEF Total, FoldLeft, MapThenFoldSet
  <1>. HIDE DEF n
  <1>3. /\ \A v \in Nat : \A x \in 1 .. n : step[<<v, x>>] = v + values[x] /\ v + values[x] \in Nat
        /\ \A s \in SUBSET (1 .. n) : pick[s] = Max(s)
    BY <1>1
  <1>4. /\ IsFiniteSet(1 .. n)
        /\ \A s \in SUBSET (1 .. n) : s # {} => Max(s) \in s
    BY <1>1, FirstNumbers, Zenon
  <1>5. PICK h \in [SUBSET (1 .. n) -> Nat] : IsFold(h, 1 .. n, 0, step, pick)
    <2>. HIDE DEF step, pick
    <2>1. /\ 0 \in Nat
          /\ \A v \in Nat : \A x \in 1 .. n : step[<<v, x>>] \in Nat
          /\ \A s \in SUBSET (1 .. n) : s # {} => pick[s] \in s
      BY <1>3, <1>4
    <2>2. Within(1 .. n, Nat, 0, step, pick)
      BY <1>4, <2>1 DEF Within
    <2>. QED BY <2>2, FoldExists, Zenon
  <1>6. Good(h)
    <2>. HIDE DEF step, pick
    <2>1. h = [s \in SUBSET (1 .. n) |->
                 IF s = {} THEN 0 ELSE step[<<h[s \ {pick[s]}], pick[s]>>]]
      BY <1>5 DEF IsFold
    <2>2. \A s \in SUBSET (1 .. n) :
             h[s] = IF s = {} THEN 0 ELSE h[s \ {Max(s)}] + values[Max(s)]
      <3>. TAKE s \in SUBSET (1 .. n)
      <3>1. CASE s = {}
        BY <2>1, <3>1
      <3>2. CASE s # {}
        <4>1. pick[s] = Max(s) /\ Max(s) \in 1 .. n /\ s \ {Max(s)} \in SUBSET (1 .. n)
          BY <1>3, <1>4, <3>2
        <4>2. h[s \ {Max(s)}] \in Nat
          BY <1>5, <4>1
        <4>3. h[s] = step[<<h[s \ {Max(s)}], Max(s)>>]
          BY <2>1, <3>2, <4>1
        <4>. QED BY <1>3, <3>2, <4>1, <4>2, <4>3
      <3>. QED BY <3>1, <3>2
    <2>. QED BY <1>5, <2>2
  <1>7. Good(g)
    BY <1>6, Zenon
  <1>. HIDE DEF g
  <1>8. \A s \in SUBSET (1 .. n) :
           g[s] = IF s = {} THEN 0 ELSE g[s \ {Max(s)}] + values[Max(s)]
    BY <1>7
  <1>. DEFINE B == {s \in SUBSET (1 .. n) : g[s] \notin Nat}
  <1>9. {} \notin B /\ \A s \in B : \E x \in s : s \ {x} \in B
    <2>1. {} \notin B
      <3>1. {} \in SUBSET (1 .. n)
        OBVIOUS
      <3>2. g[{}] = 0
        BY <1>8, <3>1
      <3>. QED BY <3>2
    <2>2. ASSUME NEW s \in B PROVE \E x \in s : s \ {x} \in B
      <3>1. s # {} /\ s \in SUBSET (1 .. n) /\ g[s] \notin Nat
        BY <2>1
      <3>2. Max(s) \in s /\ Max(s) \in 1 .. n /\ s \ {Max(s)} \in SUBSET (1 .. n)
        BY <1>4, <3>1
      <3>3. g[s] = g[s \ {Max(s)}] + values[Max(s)]
        BY <1>8, <3>1
      <3>4. g[s \ {Max(s)}] \notin Nat
        <4>1. values[Max(s)] \in Nat
          BY <1>1, <3>2
        <4>2. \A u, v \in Nat : u + v \in Nat
          OBVIOUS
        <4>. QED BY <3>1, <3>3, <4>1, <4>2
      <3>. QED BY <3>2, <3>4
    <2>. QED BY <2>1, <2>2
  <1>10. B = {}
    <2>1. B \in SUBSET SUBSET (1 .. n)
      OBVIOUS
    <2>. HIDE DEF B
    <2>. QED BY <1>4, <1>9, <2>1, NoneBad
  <1>11. 1 .. n \in SUBSET (1 .. n)
    OBVIOUS
  <1>. QED BY <1>2, <1>10, <1>11

\* A function on the first numbers is a sequence.
LEMMA FunSeq ==
    ASSUME NEW S, NEW n \in Nat, NEW f \in [1 .. n -> S]
    PROVE  f \in Seq(S) /\ Len(f) = n /\ DOMAIN f = 1 .. n
  OBVIOUS

\* The function g is that fold as long as it stays within V.
Follows(g, S, V, base, step, pick) ==
    /\ g[{}] = base
    /\ \A s \in SUBSET S : s # {} /\ g[s \ {pick[s]}] \in V =>
         g[s] = step[<<g[s \ {pick[s]}], pick[s]>>]

\* A fold with a step that stays within V does too.
LEMMA FoldStays ==
    ASSUME NEW S, NEW V, NEW base, NEW step, NEW pick, Within(S, V, base, step, pick),
           NEW g, Follows(g, S, V, base, step, pick)
    PROVE  \A s \in SUBSET S : g[s] \in V
  <1>. USE DEF Within, Follows
  <1>. DEFINE B == {s \in SUBSET S : g[s] \notin V}
  <1>1. {} \notin B
    OBVIOUS
  <1>2. \A s \in B : \E x \in s : s \ {x} \in B
    <2>. SUFFICES ASSUME NEW s \in B PROVE pick[s] \in s /\ s \ {pick[s]} \in B
      OBVIOUS
    <2>1. s # {} /\ s \in SUBSET S /\ g[s] \notin V
      BY <1>1
    <2>2. pick[s] \in s /\ pick[s] \in S /\ s \ {pick[s]} \in SUBSET S
      BY <2>1
    <2>3. g[s \ {pick[s]}] \notin V
      BY <2>1, <2>2
    <2>. QED BY <2>2, <2>3
  <1>3. B = {}
    <2>1. B \in SUBSET SUBSET S
      OBVIOUS
    <2>. HIDE DEF B
    <2>. QED BY <1>1, <1>2, <2>1, NoneBad
  <1>. QED BY <1>3

-----------------------------------------------------------------------------
(***************************************************************************)
(* Coarser columns (KeyAxis): what Focus and MergeColdLogicalRange make    *)
(* keeps the two ends and takes its keys from the column, in order.        *)
(***************************************************************************)
\* A column: keys, and a value for each bucket.
Chunked(c) == Keyed(c.keys) /\ c.values \in [1 .. Len(c.keys) - 1 -> Nat]

\* A column made from another one by leaving out keys.
Coarser(c, d) ==
    /\ Chunked(d)
    /\ d.keys[1] = c.keys[1] /\ Last(d.keys) = Last(c.keys) /\ Len(d.keys) <= Len(c.keys)

\* Keys and values that have been made from the buckets of c before the one at "at".
Cut(c, keys, values, at) ==
    /\ at \in 1 .. Len(c.keys)
    /\ keys \in Seq(Nat) /\ values \in Seq(Nat)
    /\ Len(keys) = Len(values) + 1 /\ Len(keys) <= at
    /\ at # 1 => Len(keys) >= 2
    /\ keys[1] = c.keys[1] /\ keys[Len(keys)] = c.keys[at]
    /\ \A i \in 2 .. Len(keys) : \/ keys[i - 1] < keys[i]
                                 \/ i = Len(keys) /\ keys[i] = 0 /\ at = Len(c.keys)

\* Nothing has been made yet.
LEMMA CutNothing ==
    ASSUME NEW c, Chunked(c)
    PROVE  Cut(c, <<c.keys[1]>>, <<>>, 1)
  <1>1. Len(c.keys) \in Nat /\ Len(c.keys) >= 2 /\ c.keys[1] \in Nat
    BY KeysSorted DEF Chunked
  <1>. QED BY <1>1 DEF Cut

\* One more bucket, up to the key at "end".
LEMMA CutOne ==
    ASSUME NEW c, Chunked(c), NEW keys, NEW values, NEW at, Cut(c, keys, values, at),
           NEW end \in 1 .. Len(c.keys), at < end, NEW v \in Nat
    PROVE  Cut(c, Append(keys, c.keys[end]), Append(values, v), end)
  <1>. DEFINE K == c.keys
              n == Len(c.keys)
              new == Append(keys, c.keys[end])
              m == Len(keys)
  <1>1. n \in Nat /\ n >= 2 /\ \A k \in 1 .. n : K[k] \in Nat
    BY KeysSorted DEF Chunked
  <1>2. \A i \in 1 .. end - 1 : K[i] < K[end] \/ (end = n /\ K[end] = 0)
    BY KeysGrow DEF Chunked, Unlimited
  <1>3. /\ at \in 1 .. n /\ keys \in Seq(Nat) /\ values \in Seq(Nat)
        /\ m = Len(values) + 1 /\ m <= at /\ m \in Nat /\ m >= 1
        /\ keys[1] = K[1] /\ keys[m] = K[at]
        /\ \A i \in 2 .. m : keys[i - 1] < keys[i] \/ (i = m /\ keys[i] = 0 /\ at = n)
    BY DEF Cut
  <1>4. /\ new \in Seq(Nat) /\ Len(new) = m + 1
        /\ Append(values, v) \in Seq(Nat) /\ Len(Append(values, v)) = Len(values) + 1
        /\ \A i \in 1 .. m : new[i] = keys[i]
        /\ new[m + 1] = K[end]
    BY <1>1, <1>3
  <1>5. at \in 1 .. end - 1 /\ end \in 1 .. n /\ at # n
    BY <1>1, <1>3
  <1>6. \A i \in 2 .. m + 1 : new[i - 1] < new[i] \/ (i = m + 1 /\ new[i] = 0 /\ end = n)
    <2>. SUFFICES ASSUME NEW i \in 2 .. m + 1
                  PROVE  new[i - 1] < new[i] \/ (i = m + 1 /\ new[i] = 0 /\ end = n)
      OBVIOUS
    <2>. HIDE DEF new, m, K, n
    <2>1. CASE i = m + 1
      <3>0. m \in 1 .. m /\ i - 1 = m
        BY <1>3, <2>1
      <3>1. new[i - 1] = K[at] /\ new[i] = K[end]
        BY <1>3, <1>4, <2>1, <3>0
      <3>. QED BY <1>2, <1>5, <2>1, <3>1
    <2>2. CASE i # m + 1
      <3>1. i \in 2 .. m /\ i \in 1 .. m /\ i - 1 \in 1 .. m
        BY <1>3, <2>2
      <3>. QED BY <1>3, <1>4, <1>5, <3>1
    <2>. QED BY <2>1, <2>2
  <1>. HIDE DEF new, m, K, n
  <1>7. new[1] = K[1] /\ m + 1 <= end /\ m + 1 >= 2
    BY <1>3, <1>4, <1>5
  <1>. QED BY <1>3, <1>4, <1>5, <1>6, <1>7 DEF Cut, new, m, K, n

\* All buckets up to the key at "end", as they are.
LEMMA CutRest ==
    ASSUME NEW c, Chunked(c), NEW keys, NEW values, NEW at, Cut(c, keys, values, at),
           NEW end \in 1 .. Len(c.keys), at < end
    PROVE  Cut(c, keys \o SubSeq(c.keys, at + 1, end), values \o SubSeq(c.values, at, end - 1), end)
  <1>. DEFINE K == c.keys
              n == Len(c.keys)
              more == SubSeq(K, at + 1, end)
              vals == SubSeq(c.values, at, end - 1)
              new == keys \o more
              m == Len(keys)
  <1>1. n \in Nat /\ n >= 2 /\ \A k \in 1 .. n : K[k] \in Nat
    BY KeysSorted DEF Chunked
  <1>2. \A i \in 2 .. n : K[i - 1] < K[i] \/ (i = n /\ K[i] = 0)
    BY DEF Chunked, Keyed, Increasing, Unlimited
  <1>3. /\ at \in 1 .. n /\ keys \in Seq(Nat) /\ values \in Seq(Nat)
        /\ m = Len(values) + 1 /\ m <= at /\ m \in Nat /\ m >= 1
        /\ keys[1] = K[1] /\ keys[m] = K[at]
        /\ \A i \in 2 .. m : keys[i - 1] < keys[i] \/ (i = m /\ keys[i] = 0 /\ at = n)
    BY DEF Cut
  <1>4. /\ K \in Seq(Nat) /\ c.values \in Seq(Nat) /\ Len(c.values) = n - 1
        /\ \A i \in 1 .. n - 1 : c.values[i] \in Nat
    <2>1. c.values \in [1 .. n - 1 -> Nat] /\ n - 1 \in Nat
      BY <1>1 DEF Chunked
    <2>2. c.values \in Seq(Nat) /\ Len(c.values) = n - 1
      BY <2>1, FunSeq
    <2>. QED BY <2>1, <2>2 DEF Chunked, Keyed
  <1>5. /\ more \in Seq(Nat) /\ Len(more) = end - at
        /\ \A i \in 1 .. end - at : more[i] = K[at + i]
    <2>1. /\ at + 1 \in Int /\ end \in Int /\ at + 1 <= end
          /\ \A i \in at + 1 .. end : i \in 1 .. n
      BY <1>1, <1>3
    <2>2. \A i \in at + 1 .. end : K[i] \in Nat
      BY <1>1, <2>1
    <2>. HIDE DEF K
    <2>3. /\ more \in Seq(Nat) /\ Len(more) = end - (at + 1) + 1
          /\ \A i \in 1 .. end - (at + 1) + 1 : more[i] = K[(at + 1) + i - 1]
      BY <2>1, <2>2, SubSeqProperties
    <2>4. end - (at + 1) + 1 = end - at /\ \A i \in 1 .. end - at : (at + 1) + i - 1 = at + i
      BY <2>1, <1>3
    <2>. QED BY <2>3, <2>4
  <1>6. vals \in Seq(Nat) /\ Len(vals) = end - at
    <2>1. at \in Int /\ end - 1 \in Int /\ at <= end - 1 /\ (end - 1) - at + 1 = end - at
      BY <1>1, <1>3
    <2>2. \A i \in at .. end - 1 : c.values[i] \in Nat
      <3>1. \A i \in at .. end - 1 : i \in 1 .. n - 1
        BY <1>1, <1>3
      <3>. QED BY <1>4, <3>1
    <2>3. vals \in Seq(Nat) /\ Len(vals) = (end - 1) - at + 1
      BY <2>1, <2>2, SubSeqProperties
    <2>. QED BY <2>1, <2>3
  <1>. HIDE DEF K, n, more, vals
  <1>7. /\ new \in Seq(Nat) /\ Len(new) = m + (end - at)
        /\ values \o vals \in Seq(Nat) /\ Len(values \o vals) = Len(values) + (end - at)
        /\ \A i \in 1 .. m : new[i] = keys[i]
        /\ \A i \in m + 1 .. m + (end - at) : new[i] = more[i - m]
    <2>1. values \o vals \in Seq(Nat) /\ Len(values \o vals) = Len(values) + (end - at)
      <3>1. values \o vals \in Seq(Nat) /\ Len(values \o vals) = Len(values) + Len(vals)
        <4>1. values \in Seq(Nat) /\ vals \in Seq(Nat)
          BY <1>3, <1>6
        <4>. QED BY <4>1, ConcatProperties
      <3>. QED BY <1>6, <3>1
    <2>2. /\ new \in Seq(Nat) /\ Len(new) = m + (end - at)
          /\ \A i \in 1 .. m + (end - at) : new[i] = IF i <= m THEN keys[i] ELSE more[i - m]
      <3>1. /\ new \in Seq(Nat) /\ Len(new) = Len(keys) + Len(more)
            /\ \A i \in 1 .. Len(keys) + Len(more) :
                 new[i] = IF i <= Len(keys) THEN keys[i] ELSE more[i - Len(keys)]
        BY <1>3, <1>5, ConcatProperties, Zenon
      <3>. HIDE DEF new
      <3>. QED BY <1>5, <3>1
    <2>. HIDE DEF new, m
    <2>3. /\ \A i \in 1 .. m : i \in 1 .. m + (end - at) /\ i <= m
          /\ \A i \in m + 1 .. m + (end - at) : i \in 1 .. m + (end - at) /\ ~(i <= m)
      BY <1>1, <1>3
    <2>. QED BY <2>1, <2>2, <2>3
  <1>. HIDE DEF new, m
  <1>8. end - at \in Nat /\ end - at >= 1 /\ at # n /\ end \in 1 .. n
    BY <1>1, <1>3 DEF n
  <1>9. \A i \in m .. m + (end - at) : new[i] = K[at + (i - m)]
    <2>. SUFFICES ASSUME NEW i \in m .. m + (end - at) PROVE new[i] = K[at + (i - m)]
      OBVIOUS
    <2>1. CASE i = m
      <3>1. at + (i - m) = at /\ i \in 1 .. m
        BY <1>3, <2>1
      <3>. QED BY <1>3, <1>7, <2>1, <3>1
    <2>2. CASE i # m
      <3>1. i \in m + 1 .. m + (end - at) /\ i - m \in 1 .. end - at
        BY <1>3, <1>8, <2>2
      <3>. QED BY <1>5, <1>7, <3>1
    <2>. QED BY <2>1, <2>2
  <1>10. \A i \in 2 .. m + (end - at) :
            new[i - 1] < new[i] \/ (i = m + (end - at) /\ new[i] = 0 /\ end = n)
    <2>. SUFFICES ASSUME NEW i \in 2 .. m + (end - at)
                  PROVE  new[i - 1] < new[i] \/ (i = m + (end - at) /\ new[i] = 0 /\ end = n)
      OBVIOUS
    <2>1. CASE i <= m
      <3>1. i \in 2 .. m /\ i \in 1 .. m /\ i - 1 \in 1 .. m
        BY <1>3, <2>1
      <3>. QED BY <1>3, <1>7, <1>8, <3>1
    <2>2. CASE ~(i <= m)
      <3>1. /\ i \in m .. m + (end - at) /\ i - 1 \in m .. m + (end - at)
            /\ at + (i - m) \in 2 .. n /\ at + ((i - 1) - m) = (at + (i - m)) - 1
            /\ at + (i - m) = n => i = m + (end - at) /\ end = n
        <4>1. \A x, y, z, u, w \in Nat :
                 /\ 1 <= y /\ y < z /\ z <= u /\ 1 <= x /\ x < w /\ w <= x + (z - y)
                 => /\ w \in x .. x + (z - y) /\ w - 1 \in x .. x + (z - y)
                    /\ y + (w - x) \in 2 .. u /\ y + ((w - 1) - x) = (y + (w - x)) - 1
                    /\ y + (w - x) = u => w = x + (z - y) /\ z = u
          OBVIOUS
        <4>2. /\ m \in Nat /\ at \in Nat /\ end \in Nat /\ n \in Nat /\ i \in Nat
              /\ 1 <= at /\ at < end /\ end <= n /\ 1 <= m /\ m < i /\ i <= m + (end - at)
          BY <1>1, <1>3, <1>8, <2>2
        <4>. QED BY <4>1, <4>2
      <3>2. new[i] = K[at + (i - m)] /\ new[i - 1] = K[(at + (i - m)) - 1]
        BY <1>9, <3>1
      <3>. QED BY <1>2, <3>1, <3>2
    <2>. QED BY <2>1, <2>2
  <1>11. new[m + (end - at)] = K[end]
    <2>1. m + (end - at) \in m .. m + (end - at) /\ at + ((m + (end - at)) - m) = end
      BY <1>3, <1>8
    <2>. QED BY <1>9, <2>1
  <1>12. new[1] = K[1]
    BY <1>3, <1>7
  <1>13. /\ m + (end - at) <= end /\ m + (end - at) >= 2
         /\ m + (end - at) = (Len(values) + (end - at)) + 1
    BY <1>3, <1>8
  <1>. QED BY <1>7, <1>8, <1>10, <1>11, <1>12, <1>13 DEF Cut, K, n, new, more, vals

\* Once the last key is reached, the column is made.
LEMMA CutAll ==
    ASSUME NEW c, Chunked(c), NEW keys, NEW values, Cut(c, keys, values, Len(c.keys))
    PROVE  Coarser(c, Chunk(keys, values))
  <1>. DEFINE n == Len(c.keys)
  <1>1. n \in Nat /\ n >= 2
    BY KeysSorted DEF Chunked
  <1>2. /\ keys \in Seq(Nat) /\ values \in Seq(Nat)
        /\ Len(keys) = Len(values) + 1 /\ Len(keys) <= n /\ Len(keys) >= 2
        /\ keys[1] = c.keys[1] /\ keys[Len(keys)] = c.keys[n]
        /\ \A i \in 2 .. Len(keys) : keys[i - 1] < keys[i] \/ (i = Len(keys) /\ keys[i] = 0)
    BY <1>1 DEF Cut
  <1>3. Keyed(keys)
    BY <1>2 DEF Keyed, Increasing, Unlimited
  <1>4. values \in [1 .. Len(keys) - 1 -> Nat]
    BY <1>2
  <1>. QED BY <1>2, <1>3, <1>4 DEF Coarser, Chunked, Chunk, Last

\* What Focus has when it comes to a bucket.
BucketState(c) ==
    {b \in [start : 1 .. Len(c.keys) - 1, sum : Nat, keys : Seq(Nat), values : Seq(Nat)] :
        Cut(c, b.keys, b.values, b.start)}
FocusStep(c, threshold, ratio, b, i) ==
    [(IF FocusCloses(c, threshold, ratio, b, i) THEN GenerateBucket(c, b, i) ELSE b)
     EXCEPT !.sum = @ + c.values[i]]

Focused(c, threshold, ratio) ==
    MergeBuckets(c, LAMBDA b, i : FocusCloses(c, threshold, ratio, b, i))

\* The numbers of a chunk's buckets.
LEMMA ChunkIs ==
    ASSUME NEW c, Chunked(c)
    PROVE  /\ Len(c.keys) \in Nat /\ Len(c.keys) - 1 \in Nat /\ Len(c.keys) >= 2
           /\ \A k \in 1 .. Len(c.keys) : c.keys[k] \in Nat
           /\ \A b \in 1 .. Len(c.keys) - 1 : c.values[b] \in Nat
           /\ DOMAIN c.values = 1 .. Len(c.keys) - 1
           /\ c.values \in Seq(Nat) /\ Len(c.values) = Len(c.keys) - 1
  <1>1. Len(c.keys) \in Nat /\ Len(c.keys) >= 2 /\ \A k \in 1 .. Len(c.keys) : c.keys[k] \in Nat
    BY KeysSorted DEF Chunked
  <1>2. c.values \in [1 .. Len(c.keys) - 1 -> Nat] /\ Len(c.keys) - 1 \in Nat
    BY <1>1 DEF Chunked
  <1>3. c.values \in Seq(Nat) /\ Len(c.values) = Len(c.keys) - 1
    BY <1>2, FunSeq
  <1>. QED BY <1>1, <1>2, <1>3

\* Closing a bucket gives what Focus may have at the next one.
LEMMA GenerateBucketIs ==
    ASSUME NEW c, Chunked(c), NEW b \in BucketState(c), NEW end \in 1 .. Len(c.keys) - 1
    PROVE  GenerateBucket(c, b, end) \in BucketState(c)
  <1>1. CASE end > b.start
    <2>1. /\ b.start \in 1 .. Len(c.keys) - 1 /\ b.sum \in Nat
          /\ Cut(c, b.keys, b.values, b.start)
      BY DEF BucketState
    <2>2. end \in 1 .. Len(c.keys) /\ b.start < end
      BY <1>1, <2>1, ChunkIs
    <2>3. Cut(c, Append(b.keys, c.keys[end]), Append(b.values, b.sum), end)
      BY <2>1, <2>2, CutOne
    <2>4. /\ Append(b.keys, c.keys[end]) \in Seq(Nat)
          /\ Append(b.values, b.sum) \in Seq(Nat)
      BY <2>3 DEF Cut
    <2>. QED BY <1>1, <2>3, <2>4 DEF GenerateBucket, BucketState
  <1>2. CASE ~(end > b.start)
    BY <1>2 DEF GenerateBucket
  <1>. QED BY <1>1, <1>2

\* So does a bucket that is added to the one that is made.
LEMMA FocusStepIs ==
    ASSUME NEW c, Chunked(c), NEW threshold, NEW ratio, NEW b \in BucketState(c),
           NEW i \in 1 .. Len(c.keys) - 1
    PROVE  FocusStep(c, threshold, ratio, b, i) \in BucketState(c)
  <1>. DEFINE d == IF FocusCloses(c, threshold, ratio, b, i) THEN GenerateBucket(c, b, i) ELSE b
  <1>1. d \in BucketState(c)
    BY GenerateBucketIs
  <1>2. FocusStep(c, threshold, ratio, b, i) = [d EXCEPT !.sum = @ + c.values[i]]
    BY DEF FocusStep
  <1>. HIDE DEF d
  <1>3. c.values[i] \in Nat
    BY ChunkIs
  <1>4. /\ d \in [start : 1 .. Len(c.keys) - 1, sum : Nat, keys : Seq(Nat), values : Seq(Nat)]
        /\ Cut(c, d.keys, d.values, d.start)
    BY <1>1 DEF BucketState
  <1>. DEFINE e == [d EXCEPT !.sum = @ + c.values[i]]
  <1>5. /\ e \in [start : 1 .. Len(c.keys) - 1, sum : Nat, keys : Seq(Nat), values : Seq(Nat)]
        /\ e.keys = d.keys /\ e.values = d.values /\ e.start = d.start
    <2>1. e = [start |-> d.start, sum |-> d.sum + c.values[i], keys |-> d.keys, values |-> d.values]
      <3>1. d \in [start : 1 .. Len(c.keys) - 1, sum : Nat, keys : Seq(Nat), values : Seq(Nat)]
        BY <1>4
      <3>2. PICK v : v = d.sum + c.values[i]
        OBVIOUS
      <3>3. e = [d EXCEPT !.sum = v]
        BY <3>2
      <3>. HIDE DEF e
      <3>. QED BY <3>1, <3>2, <3>3
    <2>2. d.sum + c.values[i] \in Nat
      BY <1>3, <1>4
    <2>. HIDE DEF e
    <2>. QED BY <1>4, <2>1, <2>2
  <1>. HIDE DEF e
  <1>6. e \in BucketState(c)
    BY <1>4, <1>5 DEF BucketState
  <1>. QED BY <1>2, <1>6 DEF e

\* Focus makes a coarser column.
LEMMA FocusedCoarser ==
    ASSUME NEW c, Chunked(c), NEW threshold, NEW ratio
    PROVE  Coarser(c, Focused(c, threshold, ratio))
  <1>. DEFINE n == Len(c.keys) - 1
              dom == [i \in DOMAIN c.values |-> i]
              none == [start |-> 1, sum |-> 0, keys |-> <<c.keys[1]>>, values |-> <<>>]
              Good(h) == h = [s \in SUBSET DOMAIN dom |->
                                IF s = {} THEN none
                                ELSE FocusStep(c, threshold, ratio, h[s \ {Max(s)}], dom[Max(s)])]
              g == CHOOSE h : Good(h)
              V == BucketState(c)
              step == [x \in V \X (1 .. n) |-> FocusStep(c, threshold, ratio, x[1], x[2])]
              pick == [s \in SUBSET (1 .. n) |-> Max(s)]
              last == GenerateBucket(c, g[DOMAIN dom], Len(c.keys))
  <1>1. Focused(c, threshold, ratio) = Chunk(last.keys, last.values)
    BY Zenon DEF Focused, MergeBuckets, FoldLeftDomain, FoldLeft, MapThenFoldSet, FocusStep
  <1>2. n \in Nat /\ DOMAIN dom = 1 .. n /\ (\A i \in 1 .. n : dom[i] = i) /\ n >= 1
    BY ChunkIs
  <1>3. /\ IsFiniteSet(1 .. n) /\ {} \in SUBSET (1 .. n) /\ 1 .. n \in SUBSET (1 .. n)
        /\ \A s \in SUBSET (1 .. n) : s # {} =>
              /\ Max(s) \in s /\ Max(s) \in 1 .. n /\ pick[s] = Max(s) /\ pick[s] \in s
              /\ s \ {Max(s)} \in SUBSET (1 .. n) /\ dom[Max(s)] = Max(s)
    <2>1. /\ IsFiniteSet(1 .. n) /\ {} \in SUBSET (1 .. n)
          /\ \A s \in SUBSET (1 .. n) : s # {} => Max(s) \in s
      BY <1>2, FirstNumbers, Zenon
    <2>. HIDE DEF dom, n
    <2>. QED BY <1>2, <2>1
  <1>4. none \in V
    <2>1. Cut(c, <<c.keys[1]>>, <<>>, 1)
      BY CutNothing
    <2>2. 1 \in 1 .. n
      BY <1>2
    <2>3. <<c.keys[1]>> \in Seq(Nat) /\ <<>> \in Seq(Nat)
      BY ChunkIs
    <2>. QED BY <2>1, <2>2, <2>3 DEF BucketState
  <1>5. \A v \in V : \A x \in 1 .. n :
           /\ step[<<v, x>>] = FocusStep(c, threshold, ratio, v, x)
           /\ step[<<v, x>>] \in V
    BY FocusStepIs
  <1>. HIDE DEF dom, none, V, step, pick, n
  <1>6. PICK h \in [SUBSET (1 .. n) -> V] : IsFold(h, 1 .. n, none, step, pick)
    <2>1. Within(1 .. n, V, none, step, pick)
      BY <1>3, <1>4, <1>5 DEF Within
    <2>. QED BY <2>1, FoldExists, Zenon
  <1>7. Good(h)
    <2>1. \A s \in SUBSET (1 .. n) :
             h[s] = IF s = {} THEN none ELSE FocusStep(c, threshold, ratio, h[s \ {Max(s)}], dom[Max(s)])
      <3>. TAKE s \in SUBSET (1 .. n)
      <3>1. CASE s = {}
        BY <1>6, <3>1 DEF IsFold
      <3>2. CASE s # {}
        <4>1. h[s] = step[<<h[s \ {Max(s)}], Max(s)>>]
          BY <1>3, <1>6, <3>2 DEF IsFold
        <4>2. h[s \ {Max(s)}] \in V
          BY <1>3, <1>6, <3>2
        <4>. QED BY <1>3, <1>5, <3>2, <4>1, <4>2
      <3>. QED BY <3>1, <3>2
    <2>. QED BY <1>2, <1>6, <2>1
  <1>8. Good(g)
    BY <1>7, Zenon
  <1>. HIDE DEF g
  <1>9. /\ g[{}] = none
        /\ \A s \in SUBSET (1 .. n) : s # {} =>
              g[s] = FocusStep(c, threshold, ratio, g[s \ {Max(s)}], Max(s))
    <2>1. \A s \in SUBSET (1 .. n) :
             g[s] = IF s = {} THEN none
                    ELSE FocusStep(c, threshold, ratio, g[s \ {Max(s)}], dom[Max(s)])
      BY <1>2, <1>8
    <2>2. g[{}] = none
      BY <1>3, <2>1
    <2>3. \A s \in SUBSET (1 .. n) : s # {} =>
              g[s] = FocusStep(c, threshold, ratio, g[s \ {Max(s)}], Max(s))
      <3>. TAKE s \in SUBSET (1 .. n)
      <3>. HAVE s # {}
      <3>1. dom[Max(s)] = Max(s)
        BY <1>3
      <3>. QED BY <2>1, <3>1
    <2>. QED BY <2>2, <2>3
  <1>10. \A s \in SUBSET (1 .. n) : g[s] \in V
    <2>1. \A s \in SUBSET (1 .. n) : s # {} /\ g[s \ {pick[s]}] \in V =>
             g[s] = step[<<g[s \ {pick[s]}], pick[s]>>]
      <3>. TAKE s \in SUBSET (1 .. n)
      <3>. HAVE s # {} /\ g[s \ {pick[s]}] \in V
      <3>1. pick[s] = Max(s) /\ Max(s) \in 1 .. n
        BY <1>3
      <3>2. g[s] = FocusStep(c, threshold, ratio, g[s \ {Max(s)}], Max(s))
        BY <1>9
      <3>3. step[<<g[s \ {Max(s)}], Max(s)>>] = FocusStep(c, threshold, ratio, g[s \ {Max(s)}], Max(s))
        BY <1>5, <3>1
      <3>. QED BY <3>1, <3>2, <3>3
    <2>2. Within(1 .. n, V, none, step, pick)
      BY <1>3, <1>4, <1>5 DEF Within
    <2>3. Follows(g, 1 .. n, V, none, step, pick)
      BY <1>9, <2>1, Zenon DEF Follows
    <2>. QED BY <2>2, <2>3, FoldStays, Zenon
  <1>11. g[DOMAIN dom] \in BucketState(c)
    BY <1>2, <1>3, <1>10 DEF V
  <1>12. Cut(c, last.keys, last.values, Len(c.keys))
    <2>. DEFINE b == g[DOMAIN dom]
    <2>1. /\ b.start \in 1 .. n /\ b.sum \in Nat
          /\ Cut(c, b.keys, b.values, b.start)
      BY <1>11 DEF BucketState, n
    <2>. HIDE DEF b
    <2>2. Len(c.keys) \in 1 .. Len(c.keys) /\ b.start < Len(c.keys)
      BY <2>1, ChunkIs DEF n
    <2>3. Cut(c, Append(b.keys, c.keys[Len(c.keys)]), Append(b.values, b.sum), Len(c.keys))
      BY <2>1, <2>2, CutOne
    <2>4. last = [start |-> Len(c.keys), sum |-> 0,
                  keys |-> Append(b.keys, c.keys[Len(c.keys)]),
                  values |-> Append(b.values, b.sum)]
      BY <2>2 DEF GenerateBucket, b, n
    <2>. QED BY <2>3, <2>4
  <1>. QED BY <1>1, <1>12, CutAll

\* What MergeColdLogicalRange has when it comes to a bucket.
RangeState(c) ==
    {r \in [coldStart : 1 .. Len(c.keys), coldEnd : 1 .. Len(c.keys), sum : Nat,
            keys : Seq(Nat), values : Seq(Nat)] :
        r.coldStart <= r.coldEnd /\ Cut(c, r.keys, r.values, r.coldStart)}
ColdStep(c, threshold, r, i) ==
    IF CrossBorder(c.keys[i], c.keys[i + 1])
    THEN GenerateRange(c, ColdThreshold(threshold), r, i + 1) ELSE r

\* The cold ranges so far become one bucket.
LEMMA MergeColdRangeIs ==
    ASSUME NEW c, Chunked(c), NEW r \in RangeState(c)
    PROVE  /\ MergeColdRange(c, r) \in RangeState(c)
           /\ MergeColdRange(c, r).coldStart = r.coldEnd
           /\ MergeColdRange(c, r).coldEnd = r.coldEnd
  <1>1. /\ r.coldStart \in 1 .. Len(c.keys) /\ r.coldEnd \in 1 .. Len(c.keys) /\ r.sum \in Nat
        /\ r = [coldStart |-> r.coldStart, coldEnd |-> r.coldEnd, sum |-> r.sum,
                keys |-> r.keys, values |-> r.values]
        /\ r.coldStart <= r.coldEnd /\ Cut(c, r.keys, r.values, r.coldStart)
    BY DEF RangeState
  <1>2. CASE r.coldEnd > r.coldStart
    <2>. DEFINE new == [coldStart |-> r.coldEnd, coldEnd |-> r.coldEnd, sum |-> 0,
                        keys |-> Append(r.keys, c.keys[r.coldEnd]),
                        values |-> Append(r.values, r.sum)]
    <2>1. MergeColdRange(c, r) = new
      BY <1>1, <1>2 DEF MergeColdRange
    <2>2. r.coldStart < r.coldEnd
      BY <1>1, <1>2, ChunkIs
    <2>3. Cut(c, Append(r.keys, c.keys[r.coldEnd]), Append(r.values, r.sum), r.coldEnd)
      BY <1>1, <2>2, CutOne
    <2>4. Append(r.keys, c.keys[r.coldEnd]) \in Seq(Nat) /\ Append(r.values, r.sum) \in Seq(Nat)
      BY <2>3 DEF Cut
    <2>5. new \in [coldStart : 1 .. Len(c.keys), coldEnd : 1 .. Len(c.keys), sum : Nat,
                   keys : Seq(Nat), values : Seq(Nat)]
      BY <1>1, <2>4
    <2>6. /\ new.coldStart = r.coldEnd /\ new.coldEnd = r.coldEnd
          /\ new.keys = Append(r.keys, c.keys[r.coldEnd]) /\ new.values = Append(r.values, r.sum)
      OBVIOUS
    <2>7. r.coldEnd <= r.coldEnd
      BY <1>1
    <2>. HIDE DEF new
    <2>8. new \in RangeState(c)
      BY <2>3, <2>5, <2>6, <2>7, Zenon DEF RangeState
    <2>. QED BY <2>1, <2>6, <2>8
  <1>3. CASE ~(r.coldEnd > r.coldStart)
    <2>1. MergeColdRange(c, r) = r /\ r.coldStart = r.coldEnd
      BY <1>1, <1>3, ChunkIs DEF MergeColdRange
    <2>. QED BY <2>1
  <1>. QED BY <1>2, <1>3

\* A logical range that ends at the key "end" is cold, and waits, or is taken as it is.
LEMMA GenerateRangeIs ==
    ASSUME NEW c, Chunked(c), NEW cold, NEW r \in RangeState(c), NEW end \in 1 .. Len(c.keys)
    PROVE  /\ GenerateRange(c, cold, r, end) \in RangeState(c)
           /\ GenerateRange(c, cold, r, end).coldEnd >= end
  <1>. DEFINE new == GenerateRange(c, cold, r, end)
              values == SubSeq(c.values, r.coldEnd, end - 1)
              hot == Total(values) > cold
              flushed == IF r.sum > cold \/ hot THEN MergeColdRange(c, r) ELSE r
  <1>1. /\ r.coldStart \in 1 .. Len(c.keys) /\ r.coldEnd \in 1 .. Len(c.keys)
        /\ Len(c.keys) \in Nat
    BY ChunkIs DEF RangeState
  <1>2. CASE end <= r.coldEnd
    BY <1>1, <1>2 DEF GenerateRange
  <1>3. CASE ~(end <= r.coldEnd)
    <2>1. r.coldEnd < end
      BY <1>1, <1>3
    <2>2. /\ new = IF hot
                   THEN [flushed EXCEPT !.keys = @ \o SubSeq(c.keys, r.coldEnd + 1, end),
                                        !.values = @ \o values, !.coldStart = end, !.coldEnd = end]
                   ELSE [flushed EXCEPT !.sum = @ + Total(values), !.coldEnd = end]
      BY <1>3 DEF GenerateRange
    <2>3. /\ flushed \in RangeState(c) /\ flushed.coldEnd = r.coldEnd
          /\ hot => flushed.coldStart = r.coldEnd
      BY MergeColdRangeIs
    <2>. HIDE DEF flushed
    <2>4. /\ flushed.coldStart \in 1 .. Len(c.keys) /\ flushed.coldEnd \in 1 .. Len(c.keys)
          /\ flushed.sum \in Nat /\ flushed.keys \in Seq(Nat) /\ flushed.values \in Seq(Nat)
          /\ flushed = [coldStart |-> flushed.coldStart, coldEnd |-> flushed.coldEnd,
                        sum |-> flushed.sum, keys |-> flushed.keys, values |-> flushed.values]
          /\ flushed.coldStart <= flushed.coldEnd
          /\ Cut(c, flushed.keys, flushed.values, flushed.coldStart)
      BY <2>3 DEF RangeState
    <2>5. CASE hot
      <3>. DEFINE d == [coldStart |-> end, coldEnd |-> end, sum |-> flushed.sum,
                        keys |-> flushed.keys \o SubSeq(c.keys, r.coldEnd + 1, end),
                        values |-> flushed.values \o values]
      <3>1. new = d
        <4>. HIDE DEF values, hot, new
        <4>1. new = [flushed EXCEPT !.keys = @ \o SubSeq(c.keys, r.coldEnd + 1, end),
                                        !.values = @ \o values, !.coldStart = end, !.coldEnd = end]
          BY <2>2, <2>5
        <4>. QED BY <2>4, <4>1
      <3>2. Cut(c, d.keys, d.values, end)
        <4>1. Cut(c, flushed.keys, flushed.values, r.coldEnd)
          BY <2>3, <2>4, <2>5
        <4>2. Cut(c, flushed.keys \o SubSeq(c.keys, r.coldEnd + 1, end),
                  flushed.values \o SubSeq(c.values, r.coldEnd, end - 1), end)
          BY <2>1, <4>1, CutRest
        <4>. QED BY <4>2
      <3>3. d.keys \in Seq(Nat) /\ d.values \in Seq(Nat)
        BY <3>2 DEF Cut
      <3>. HIDE DEF values, new
      <3>4. d \in RangeState(c) /\ d.coldEnd = end
        <4>1. d \in [coldStart : 1 .. Len(c.keys), coldEnd : 1 .. Len(c.keys), sum : Nat,
                     keys : Seq(Nat), values : Seq(Nat)]
          BY <2>4, <3>3
        <4>2. d.coldStart = end /\ d.coldEnd = end
          OBVIOUS
        <4>3. end <= end
          BY <1>1
        <4>. HIDE DEF d
        <4>. QED BY <3>2, <4>1, <4>2, <4>3, Zenon DEF RangeState
      <3>. HIDE DEF d
      <3>. QED BY <1>1, <3>1, <3>4 DEF new
    <2>6. CASE ~hot
      <3>1. Total(values) \in Nat
        <4>1. \A i \in r.coldEnd .. end - 1 : c.values[i] \in Nat
          <5>1. \A i \in r.coldEnd .. end - 1 : i \in 1 .. Len(c.keys) - 1
            BY <1>1
          <5>. QED BY <5>1, ChunkIs
        <4>2. r.coldEnd \in Int /\ end - 1 \in Int
          BY <1>1
        <4>3. values \in Seq(Nat)
          BY <4>1, <4>2, SubSeqProperties
        <4>. QED BY <4>3, TotalNat
      <3>. DEFINE d == [coldStart |-> flushed.coldStart, coldEnd |-> end,
                        sum |-> flushed.sum + Total(values),
                        keys |-> flushed.keys, values |-> flushed.values]
      <3>2. new = d
        <4>. HIDE DEF values, hot, new
        <4>1. new = [flushed EXCEPT !.sum = @ + Total(values), !.coldEnd = end]
          BY <2>2, <2>6
        <4>. QED BY <2>4, <4>1
      <3>3. flushed.coldStart <= end /\ flushed.sum + Total(values) \in Nat
        BY <1>1, <2>1, <2>3, <2>4, <3>1
      <3>. HIDE DEF values, new
      <3>4. d \in RangeState(c) /\ d.coldEnd = end
        BY <2>4, <3>3 DEF RangeState
      <3>. HIDE DEF d
      <3>. QED BY <1>1, <3>2, <3>4 DEF new
    <2>. QED BY <2>5, <2>6
  <1>. QED BY <1>2, <1>3

\* MergeColdLogicalRange makes a coarser column.
LEMMA ColdCoarser ==
    ASSUME NEW c, Chunked(c), NEW threshold
    PROVE  Coarser(c, MergeColdLogicalRange(c, threshold))
  <1>. DEFINE n == Len(c.keys) - 1
              dom == [i \in DOMAIN c.values |-> i]
              none == [coldStart |-> 1, coldEnd |-> 1, sum |-> 0, keys |-> <<c.keys[1]>>,
                       values |-> <<>>]
              Good(h) == h = [s \in SUBSET DOMAIN dom |->
                                IF s = {} THEN none
                                ELSE ColdStep(c, threshold, h[s \ {Max(s)}], dom[Max(s)])]
              g == CHOOSE h : Good(h)
              V == RangeState(c)
              step == [x \in V \X (1 .. n) |-> ColdStep(c, threshold, x[1], x[2])]
              pick == [s \in SUBSET (1 .. n) |-> Max(s)]
              range == GenerateRange(c, ColdThreshold(threshold), g[DOMAIN dom], Len(c.keys))
              last == MergeColdRange(c, range)
  <1>1. MergeColdLogicalRange(c, threshold) = Chunk(last.keys, last.values)
    BY Zenon DEF MergeColdLogicalRange, FoldLeftDomain, FoldLeft, MapThenFoldSet, ColdStep
  <1>2. n \in Nat /\ DOMAIN dom = 1 .. n /\ (\A i \in 1 .. n : dom[i] = i) /\ n >= 1
    BY ChunkIs
  <1>3. /\ IsFiniteSet(1 .. n) /\ {} \in SUBSET (1 .. n) /\ 1 .. n \in SUBSET (1 .. n)
        /\ \A s \in SUBSET (1 .. n) : s # {} =>
              /\ Max(s) \in s /\ Max(s) \in 1 .. n /\ pick[s] = Max(s) /\ pick[s] \in s
              /\ s \ {Max(s)} \in SUBSET (1 .. n) /\ dom[Max(s)] = Max(s)
    <2>1. /\ IsFiniteSet(1 .. n) /\ {} \in SUBSET (1 .. n)
          /\ \A s \in SUBSET (1 .. n) : s # {} => Max(s) \in s
      BY <1>2, FirstNumbers, Zenon
    <2>. HIDE DEF dom, n
    <2>. QED BY <1>2, <2>1
  <1>4. none \in V
    <2>1. Cut(c, <<c.keys[1]>>, <<>>, 1)
      BY CutNothing
    <2>2. 1 \in 1 .. Len(c.keys)
      BY ChunkIs
    <2>3. <<c.keys[1]>> \in Seq(Nat) /\ <<>> \in Seq(Nat)
      BY ChunkIs
    <2>. QED BY <2>1, <2>2, <2>3 DEF RangeState
  <1>5. \A v \in V : \A x \in 1 .. n :
           /\ step[<<v, x>>] = ColdStep(c, threshold, v, x)
           /\ step[<<v, x>>] \in V
    <2>. SUFFICES ASSUME NEW v \in V, NEW x \in 1 .. n
                  PROVE  /\ step[<<v, x>>] = ColdStep(c, threshold, v, x)
                         /\ ColdStep(c, threshold, v, x) \in V
      OBVIOUS
    <2>1. x + 1 \in 1 .. Len(c.keys)
      BY ChunkIs
    <2>2. ColdStep(c, threshold, v, x) \in V
      BY <2>1, GenerateRangeIs DEF ColdStep
    <2>. QED BY <2>2
  <1>. HIDE DEF dom, none, V, step, pick, n
  <1>6. PICK h \in [SUBSET (1 .. n) -> V] : IsFold(h, 1 .. n, none, step, pick)
    <2>1. Within(1 .. n, V, none, step, pick)
      BY <1>3, <1>4, <1>5 DEF Within
    <2>. QED BY <2>1, FoldExists, Zenon
  <1>7. Good(h)
    <2>1. \A s \in SUBSET (1 .. n) :
             h[s] = IF s = {} THEN none ELSE ColdStep(c, threshold, h[s \ {Max(s)}], dom[Max(s)])
      <3>. TAKE s \in SUBSET (1 .. n)
      <3>1. CASE s = {}
        BY <1>6, <3>1 DEF IsFold
      <3>2. CASE s # {}
        <4>1. h[s] = step[<<h[s \ {Max(s)}], Max(s)>>]
          BY <1>3, <1>6, <3>2 DEF IsFold
        <4>2. h[s \ {Max(s)}] \in V
          BY <1>3, <1>6, <3>2
        <4>. QED BY <1>3, <1>5, <3>2, <4>1, <4>2
      <3>. QED BY <3>1, <3>2
    <2>. QED BY <1>2, <1>6, <2>1
  <1>8. Good(g)
    BY <1>7, Zenon
  <1>. HIDE DEF g
  <1>9. /\ g[{}] = none
        /\ \A s \in SUBSET (1 .. n) : s # {} =>
              g[s] = ColdStep(c, threshold, g[s \ {Max(s)}], Max(s))
    <2>1. \A s \in SUBSET (1 .. n) :
             g[s] = IF s = {} THEN none
                    ELSE ColdStep(c, threshold, g[s \ {Max(s)}], dom[Max(s)])
      BY <1>2, <1>8
    <2>2. g[{}] = none
      BY <1>3, <2>1
    <2>3. \A s \in SUBSET (1 .. n) : s # {} =>
              g[s] = ColdStep(c, threshold, g[s \ {Max(s)}], Max(s))
      <3>. TAKE s \in SUBSET (1 .. n)
      <3>. HAVE s # {}
      <3>1. dom[Max(s)] = Max(s)
        BY <1>3
      <3>. QED BY <2>1, <3>1
    <2>. QED BY <2>2, <2>3
  <1>10. \A s \in SUBSET (1 .. n) : g[s] \in V
    <2>1. \A s \in SUBSET (1 .. n) : s # {} /\ g[s \ {pick[s]}] \in V =>
             g[s] = step[<<g[s \ {pick[s]}], pick[s]>>]
      <3>. TAKE s \in SUBSET (1 .. n)
      <3>. HAVE s # {} /\ g[s \ {pick[s]}] \in V
      <3>1. pick[s] = Max(s) /\ Max(s) \in 1 .. n
        BY <1>3
      <3>2. g[s] = ColdStep(c, threshold, g[s \ {Max(s)}], Max(s))
        BY <1>9
      <3>3. step[<<g[s \ {Max(s)}], Max(s)>>] = ColdStep(c, threshold, g[s \ {Max(s)}], Max(s))
        BY <1>5, <3>1
      <3>. QED BY <3>1, <3>2, <3>3
    <2>2. Within(1 .. n, V, none, step, pick)
      BY <1>3, <1>4, <1>5 DEF Within
    <2>3. Follows(g, 1 .. n, V, none, step, pick)
      BY <1>9, <2>1, Zenon DEF Follows
    <2>. QED BY <2>2, <2>3, FoldStays, Zenon
  <1>11. g[DOMAIN dom] \in RangeState(c)
    BY <1>2, <1>3, <1>10 DEF V
  <1>12. Len(c.keys) \in 1 .. Len(c.keys) /\ Len(c.keys) \in Nat
    BY ChunkIs
  <1>13. range \in RangeState(c) /\ range.coldEnd >= Len(c.keys)
    BY <1>11, <1>12, GenerateRangeIs
  <1>. HIDE DEF range
  <1>14. range.coldEnd = Len(c.keys)
    BY <1>12, <1>13 DEF RangeState
  <1>15. last \in RangeState(c) /\ last.coldStart = Len(c.keys)
    BY <1>13, <1>14, MergeColdRangeIs
  <1>. HIDE DEF last
  <1>16. Cut(c, last.keys, last.values, Len(c.keys))
    BY <1>15 DEF RangeState
  <1>. QED BY <1>1, <1>16, CutAll

\* Divide leaves a column as it is or makes it coarser.
LEMMA DivideCoarser ==
    ASSUME NEW c, Chunked(c), NEW target, NEW mergeCold \in BOOLEAN
    PROVE  Coarser(c, Divide(c, target, mergeCold))
  <1>0. Coarser(c, c)
    BY ChunkIs DEF Coarser
  <1>. DEFINE t == Threshold(c, target)
              ratio == MergeRatio(c, target)
              focused == Focused(c, t, ratio)
              merged == MergeColdLogicalRange(focused, t)
  <1>1. Coarser(c, focused)
    BY FocusedCoarser
  <1>2. Divide(c, target, mergeCold) \in {c, focused, merged}
    BY DEF Divide, Focus, Focused
  <1>. HIDE DEF focused, t
  <1>3. Chunked(focused)
    BY <1>1 DEF Coarser
  <1>4. Coarser(focused, merged)
    BY <1>3, ColdCoarser
  <1>. HIDE DEF merged
  <1>5. Coarser(c, merged)
    <2>1. /\ Len(merged.keys) \in Nat /\ Len(focused.keys) \in Nat /\ Len(c.keys) \in Nat
      BY <1>3, <1>4, ChunkIs DEF Coarser
    <2>. QED BY <1>1, <1>4, <2>1 DEF Coarser
  <1>. QED BY <1>0, <1>1, <1>2, <1>5

-----------------------------------------------------------------------------
(***************************************************************************)
(* Axes: what they are narrowed to, divided into and stored as.            *)
(***************************************************************************)
\* Consecutive keys keep their order.
LEMMA PartKeyed ==
    ASSUME NEW keys, Keyed(keys), NEW s \in 1 .. Len(keys) - 1, NEW e \in s + 1 .. Len(keys)
    PROVE  /\ Keyed(SubSeq(keys, s, e))
           /\ Len(SubSeq(keys, s, e)) = e - s + 1
           /\ \A i \in 1 .. e - s + 1 : SubSeq(keys, s, e)[i] = keys[s + i - 1]
           /\ Last(SubSeq(keys, s, e)) = keys[e]
  <1>. DEFINE n == Len(keys)
              part == SubSeq(keys, s, e)
  <1>1. n \in Nat /\ n >= 2 /\ \A i \in 1 .. n : keys[i] \in Nat
    BY KeysSorted
  <1>2. \A i \in 2 .. n : keys[i - 1] < keys[i] \/ (i = n /\ keys[i] = 0)
    BY DEF Keyed, Increasing, Unlimited
  <1>. HIDE DEF n
  <1>3. s \in 1 .. n - 1 /\ e \in s + 1 .. n
    BY DEF n
  <1>4. /\ s \in Int /\ e \in Int /\ s <= e
        /\ \A i \in s .. e : i \in 1 .. n
    BY <1>1, <1>3
  <1>5. /\ part \in Seq(Nat) /\ Len(part) = e - s + 1
        /\ \A i \in 1 .. e - s + 1 : part[i] = keys[s + i - 1]
    <2>1. \A i \in s .. e : keys[i] \in Nat
      BY <1>1, <1>4
    <2>. QED BY <1>4, <2>1, SubSeqProperties
  <1>. HIDE DEF part
  <1>6. Last(part) = keys[e]
    <2>1. e - s + 1 \in 1 .. e - s + 1 /\ s + (e - s + 1) - 1 = e
      BY <1>4
    <2>. QED BY <1>5, <2>1 DEF Last
  <1>7. Increasing(part)
    <2>. SUFFICES ASSUME NEW i \in 2 .. e - s + 1
                  PROVE  part[i - 1] < part[i] \/ (i = e - s + 1 /\ part[i] = 0)
      BY <1>5 DEF Increasing, Unlimited
    <2>1. /\ i - 1 \in 1 .. e - s + 1 /\ i \in 1 .. e - s + 1
          /\ s + i - 1 \in 2 .. n /\ s + (i - 1) - 1 = (s + i - 1) - 1
          /\ s + i - 1 = n => i = e - s + 1
      BY <1>3, <1>4
    <2>2. part[i] = keys[s + i - 1] /\ part[i - 1] = keys[(s + i - 1) - 1]
      BY <1>5, <2>1
    <2>. QED BY <1>2, <2>1, <2>2
  <1>8. Len(part) >= 2
    BY <1>3, <1>4, <1>5
  <1>9. Keyed(part)
    BY <1>5, <1>7, <1>8 DEF Keyed
  <1>. QED BY <1>5, <1>6, <1>9 DEF part

\* What KeysRange leaves still meets the range, and nothing else is left.
LEMMA NarrowedMeets ==
    ASSUME NEW keys, Keyed(keys), NEW from \in Nat, NEW to \in Nat, CheckRange(from, to),
           Intersects(keys, from, to)
    PROVE  LET part == SubSeq(keys, RangeStart(keys, from), RangeEnd(keys, to))
           IN  /\ Keyed(part) /\ Intersects(part, from, to)
               /\ Len(part) = RangeEnd(keys, to) - RangeStart(keys, from) + 1
               /\ \A b \in 1 .. Len(part) - 1 : Overlaps(part, b, from, to)
  <1>. DEFINE s == RangeStart(keys, from)
              e == RangeEnd(keys, to)
              part == SubSeq(keys, s, e)
  <1>1. /\ s \in 1 .. Len(keys) - 1 /\ e \in s + 1 .. Len(keys)
        /\ \A b \in 1 .. Len(keys) - 1 : b \in s .. e - 1 => Overlaps(keys, b, from, to)
    BY KeysRangeExact
  <1>2. Len(keys) \in Nat
    BY KeysSorted
  <1>. HIDE DEF s, e
  <1>3. /\ Keyed(part) /\ Len(part) = e - s + 1
        /\ \A i \in 1 .. e - s + 1 : part[i] = keys[s + i - 1]
    BY <1>1, PartKeyed
  <1>. HIDE DEF part
  <1>4. \A b \in 1 .. Len(part) - 1 : Overlaps(part, b, from, to)
    <2>. SUFFICES ASSUME NEW b \in 1 .. e - s PROVE Overlaps(part, b, from, to)
      BY <1>1, <1>2, <1>3
    <2>1. /\ s + b - 1 \in 1 .. Len(keys) - 1 /\ s + b - 1 \in s .. e - 1
          /\ b \in 1 .. e - s + 1 /\ b + 1 \in 1 .. e - s + 1
          /\ s + (b + 1) - 1 = (s + b - 1) + 1
      BY <1>1, <1>2
    <2>2. Overlaps(keys, s + b - 1, from, to)
      BY <1>1, <2>1
    <2>3. part[b] = keys[s + b - 1] /\ part[b + 1] = keys[(s + b - 1) + 1]
      BY <1>3, <2>1
    <2>. QED BY <2>2, <2>3 DEF Overlaps
  <1>5. 1 \in 1 .. Len(part) - 1
    BY <1>1, <1>2, <1>3
  <1>6. Intersects(part, from, to)
    BY <1>3, <1>4, <1>5, NoOverlap
  <1>. QED BY <1>3, <1>4, <1>6 DEF part, s, e

\* An axis with m columns, each with one value per bucket.
Formed(axis, m) ==
    Keyed(axis.keys) /\ axis.columns \in [1 .. m -> [1 .. Len(axis.keys) - 1 -> Nat]]

\* Such an axis is well-formed, and has its columns as chunks.
LEMMA FormedIs ==
    ASSUME NEW axis, NEW m \in Nat, Formed(axis, m)
    PROVE  /\ WellFormed(axis, m)
           /\ Keyed(axis.keys)
           /\ DOMAIN axis.columns = 1 .. m /\ Len(axis.columns) = m
           /\ \A t \in 1 .. m : /\ axis.columns[t] \in [1 .. Len(axis.keys) - 1 -> Nat]
                                /\ Chunked(Column(axis, t))
  <1>1. /\ Keyed(axis.keys) /\ axis.columns \in [1 .. m -> [1 .. Len(axis.keys) - 1 -> Nat]]
    BY DEF Formed
  <1>2. DOMAIN axis.columns = 1 .. m /\ Len(axis.columns) = m
    BY <1>1, FunSeq
  <1>3. \A t \in 1 .. m : axis.columns[t] \in [1 .. Len(axis.keys) - 1 -> Nat]
    BY <1>1
  <1>4. \A t \in 1 .. m : Chunked(Column(axis, t))
    BY <1>1, <1>3 DEF Column, Chunk, Chunked
  <1>5. WellFormed(axis, m)
    BY <1>1, <1>2, <1>3 DEF WellFormed, Keyed
  <1>. QED BY <1>1, <1>2, <1>3, <1>4, <1>5

\* An axis that is put together from keys and columns.
LEMMA AxisFormed ==
    ASSUME NEW keys, Keyed(keys), NEW m, NEW columns \in [1 .. m -> [1 .. Len(keys) - 1 -> Nat]]
    PROVE  /\ Formed(Axis(keys, columns), m)
           /\ Axis(keys, columns).keys = keys /\ Axis(keys, columns).columns = columns
  BY DEF Formed, Axis

\* The axis that stands for no data meets its range, with a zero in each column.
LEMMA EmptyFormed ==
    ASSUME NEW from \in Nat, NEW to \in Nat, CheckRange(from, to), NEW m
    PROVE  /\ Formed(CreateEmptyAxis(from, to, m), m)
           /\ Intersects(CreateEmptyAxis(from, to, m).keys, from, to)
  <1>. DEFINE keys == <<from, to>>
              zeros == [t \in 1 .. m |-> <<0>>]
  <1>1. CreateEmptyAxis(from, to, m) = Axis(keys, zeros)
    BY DEF CreateEmptyAxis
  <1>2. keys \in Seq(Nat) /\ Len(keys) = 2 /\ keys[1] = from /\ keys[2] = to
    OBVIOUS
  <1>3. Increasing(keys)
    <2>1. \A i \in 2 .. 2 : i = 2 /\ i - 1 = 1
      OBVIOUS
    <2>. QED BY <1>2, <2>1 DEF Increasing, CheckRange, Unlimited
  <1>4. Keyed(keys)
    BY <1>2, <1>3 DEF Keyed
  <1>5. Intersects(keys, from, to)
    BY <1>2 DEF Intersects, CheckRange, Last
  <1>6. zeros \in [1 .. m -> [1 .. Len(keys) - 1 -> Nat]]
    <2>1. <<0>> \in [1 .. Len(keys) - 1 -> Nat]
      BY <1>2
    <2>. QED BY <2>1
  <1>. HIDE DEF keys, zeros
  <1>7. Formed(Axis(keys, zeros), m) /\ Axis(keys, zeros).keys = keys
    BY <1>4, <1>6, AxisFormed, Zenon
  <1>. QED BY <1>1, <1>5, <1>7

\* Axis.Range leaves an axis that meets the range, with the columns it had.
LEMMA AxisRangeFormed ==
    ASSUME NEW axis, NEW m \in Nat, Formed(axis, m),
           NEW from \in Nat, NEW to \in Nat, CheckRange(from, to)
    PROVE  /\ Formed(AxisRange(axis, from, to), m)
           /\ Intersects(AxisRange(axis, from, to).keys, from, to)
  <1>. DEFINE s == RangeStart(axis.keys, from)
              e == RangeEnd(axis.keys, to)
              part == SubSeq(axis.keys, s, e)
              columns == [t \in DOMAIN axis.columns |-> SubSeq(axis.columns[t], s, e - 1)]
  <1>1. /\ Keyed(axis.keys) /\ DOMAIN axis.columns = 1 .. m /\ Len(axis.columns) = m
        /\ \A t \in 1 .. m : axis.columns[t] \in [1 .. Len(axis.keys) - 1 -> Nat]
    BY FormedIs
  <1>2. Len(axis.keys) \in Nat
    BY <1>1, KeysSorted
  <1>3. CASE Intersects(axis.keys, from, to)
    <2>1. /\ s \in 1 .. Len(axis.keys) - 1 /\ e \in s + 1 .. Len(axis.keys)
      BY <1>1, <1>3, KeysRangeExact
    <2>2. /\ Keyed(part) /\ Intersects(part, from, to) /\ Len(part) = e - s + 1
      BY <1>1, <1>3, NarrowedMeets
    <2>3. AxisRange(axis, from, to) = Axis(part, columns)
      BY <1>3 DEF AxisRange
    <2>. HIDE DEF s, e, part
    <2>4. \A t \in 1 .. m : SubSeq(axis.columns[t], s, e - 1) \in [1 .. Len(part) - 1 -> Nat]
      <3>. TAKE t \in 1 .. m
      <3>. DEFINE v == SubSeq(axis.columns[t], s, e - 1)
      <3>1. s \in Int /\ e - 1 \in Int /\ s <= e - 1 /\ \A i \in s .. e - 1 : i \in 1 .. Len(axis.keys) - 1
        BY <1>2, <2>1
      <3>2. \A i \in s .. e - 1 : axis.columns[t][i] \in Nat
        BY <1>1, <3>1
      <3>3. v \in Seq(Nat) /\ Len(v) = (e - 1) - s + 1
        BY <3>1, <3>2, SubSeqProperties
      <3>4. Len(v) = Len(part) - 1
        BY <2>1, <2>2, <1>2, <3>3
      <3>. HIDE DEF v
      <3>5. v \in [1 .. Len(v) -> Nat]
        BY <3>3
      <3>. QED BY <3>4, <3>5 DEF v
    <2>5. columns \in [1 .. m -> [1 .. Len(part) - 1 -> Nat]]
      BY <1>1, <2>4
    <2>. HIDE DEF columns
    <2>6. Formed(Axis(part, columns), m) /\ Axis(part, columns).keys = part
      BY <2>2, <2>5, AxisFormed, Zenon
    <2>. QED BY <2>2, <2>3, <2>6
  <1>4. CASE ~Intersects(axis.keys, from, to)
    <2>1. AxisRange(axis, from, to) = CreateEmptyAxis(from, to, m)
      BY <1>1, <1>4 DEF AxisRange
    <2>. QED BY <2>1, EmptyFormed
  <1>. QED BY <1>3, <1>4

\* What Reduce has when it comes to a bucket.
SumState(newKeys) == [j : Nat, sums : [1 .. Len(newKeys) - 1 -> Nat]]
SumStep(c, newKeys, t, i) ==
    LET j == IF i > 1 /\ c.keys[i] = newKeys[t.j + 1] THEN t.j + 1 ELSE t.j
    IN  [j |-> j, sums |-> [t.sums EXCEPT ![j] = @ + c.values[i]]]

\* A bucket is added to a sum.
LEMMA SumStepIs ==
    ASSUME NEW c, Chunked(c), NEW newKeys, NEW t \in SumState(newKeys), NEW i \in 1 .. Len(c.keys) - 1
    PROVE  SumStep(c, newKeys, t, i) \in SumState(newKeys)
  <1>. DEFINE j == IF i > 1 /\ c.keys[i] = newKeys[t.j + 1] THEN t.j + 1 ELSE t.j
              sums == [t.sums EXCEPT ![j] = @ + c.values[i]]
  <1>1. t.j \in Nat /\ t.sums \in [1 .. Len(newKeys) - 1 -> Nat] /\ c.values[i] \in Nat
    BY ChunkIs DEF SumState
  <1>2. j \in Nat
    BY <1>1
  <1>3. sums \in [1 .. Len(newKeys) - 1 -> Nat]
    <2>. HIDE DEF j
    <2>1. t.sums[j] + c.values[i] \in Nat \/ j \notin 1 .. Len(newKeys) - 1
      <3>. SUFFICES ASSUME j \in 1 .. Len(newKeys) - 1 PROVE t.sums[j] + c.values[i] \in Nat
        OBVIOUS
      <3>1. PICK u \in Nat, v \in Nat : u = t.sums[j] /\ v = c.values[i]
        BY <1>1
      <3>2. u + v \in Nat
        OBVIOUS
      <3>. QED BY <3>1, <3>2
    <2>. QED BY <1>1, <2>1
  <1>4. SumStep(c, newKeys, t, i) = [j |-> j, sums |-> sums]
    BY Zenon DEF SumStep
  <1>. HIDE DEF j, sums
  <1>. QED BY <1>2, <1>3, <1>4 DEF SumState

\* Reduce gives one value per new bucket.
LEMMA ReduceIs ==
    ASSUME NEW c, Chunked(c), NEW newKeys, Len(newKeys) \in Nat
    PROVE  Reduce(c, newKeys).values \in [1 .. Len(newKeys) - 1 -> Nat]
  <1>. DEFINE n == Len(c.keys) - 1
              dom == [i \in DOMAIN c.values |-> i]
              none == [j |-> 1, sums |-> ZeroChunk(newKeys).values]
              Good(h) == h = [s \in SUBSET DOMAIN dom |->
                                IF s = {} THEN none
                                ELSE SumStep(c, newKeys, h[s \ {Max(s)}], dom[Max(s)])]
              g == CHOOSE h : Good(h)
              V == SumState(newKeys)
              step == [x \in V \X (1 .. n) |-> SumStep(c, newKeys, x[1], x[2])]
              pick == [s \in SUBSET (1 .. n) |-> Max(s)]
  <1>1. AddUp(c, newKeys) = g[DOMAIN dom].sums
    BY Zenon DEF AddUp, FoldLeftDomain, FoldLeft, MapThenFoldSet, SumStep
  <1>2. n \in Nat /\ DOMAIN dom = 1 .. n /\ (\A i \in 1 .. n : dom[i] = i) /\ n >= 1
    BY ChunkIs
  <1>3. /\ IsFiniteSet(1 .. n) /\ {} \in SUBSET (1 .. n) /\ 1 .. n \in SUBSET (1 .. n)
        /\ \A s \in SUBSET (1 .. n) : s # {} =>
              /\ Max(s) \in s /\ Max(s) \in 1 .. n /\ pick[s] = Max(s) /\ pick[s] \in s
              /\ s \ {Max(s)} \in SUBSET (1 .. n) /\ dom[Max(s)] = Max(s)
    <2>1. /\ IsFiniteSet(1 .. n) /\ {} \in SUBSET (1 .. n)
          /\ \A s \in SUBSET (1 .. n) : s # {} => Max(s) \in s
      BY <1>2, FirstNumbers, Zenon
    <2>. HIDE DEF dom, n
    <2>. QED BY <1>2, <2>1
  <1>4. none \in V
    <2>1. ZeroChunk(newKeys).values \in [1 .. Len(newKeys) - 1 -> Nat]
      BY DEF ZeroChunk, Chunk
    <2>. QED BY <2>1 DEF SumState
  <1>5. \A v \in V : \A x \in 1 .. n :
           /\ step[<<v, x>>] = SumStep(c, newKeys, v, x)
           /\ step[<<v, x>>] \in V
    <2>. SUFFICES ASSUME NEW v \in V, NEW x \in 1 .. n
                  PROVE  /\ step[<<v, x>>] = SumStep(c, newKeys, v, x)
                         /\ SumStep(c, newKeys, v, x) \in V
      OBVIOUS
    <2>. QED BY SumStepIs
  <1>. HIDE DEF dom, none, V, step, pick, n
  <1>6. PICK h \in [SUBSET (1 .. n) -> V] : IsFold(h, 1 .. n, none, step, pick)
    <2>1. Within(1 .. n, V, none, step, pick)
      BY <1>3, <1>4, <1>5 DEF Within
    <2>. QED BY <2>1, FoldExists, Zenon
  <1>7. Good(h)
    <2>1. \A s \in SUBSET (1 .. n) :
             h[s] = IF s = {} THEN none ELSE SumStep(c, newKeys, h[s \ {Max(s)}], dom[Max(s)])
      <3>. TAKE s \in SUBSET (1 .. n)
      <3>1. CASE s = {}
        BY <1>6, <3>1 DEF IsFold
      <3>2. CASE s # {}
        <4>1. h[s] = step[<<h[s \ {Max(s)}], Max(s)>>]
          BY <1>3, <1>6, <3>2 DEF IsFold
        <4>2. h[s \ {Max(s)}] \in V
          BY <1>3, <1>6, <3>2
        <4>. QED BY <1>3, <1>5, <3>2, <4>1, <4>2
      <3>. QED BY <3>1, <3>2
    <2>. QED BY <1>2, <1>6, <2>1
  <1>8. Good(g)
    BY <1>7, Zenon
  <1>. HIDE DEF g
  <1>9. /\ g[{}] = none
        /\ \A s \in SUBSET (1 .. n) : s # {} => g[s] = SumStep(c, newKeys, g[s \ {Max(s)}], Max(s))
    <2>1. \A s \in SUBSET (1 .. n) :
             g[s] = IF s = {} THEN none ELSE SumStep(c, newKeys, g[s \ {Max(s)}], dom[Max(s)])
      BY <1>2, <1>8
    <2>2. g[{}] = none
      BY <1>3, <2>1
    <2>3. \A s \in SUBSET (1 .. n) : s # {} => g[s] = SumStep(c, newKeys, g[s \ {Max(s)}], Max(s))
      <3>. TAKE s \in SUBSET (1 .. n)
      <3>. HAVE s # {}
      <3>1. dom[Max(s)] = Max(s)
        BY <1>3
      <3>. QED BY <2>1, <3>1
    <2>. QED BY <2>2, <2>3
  <1>10. \A s \in SUBSET (1 .. n) : g[s] \in V
    <2>1. \A s \in SUBSET (1 .. n) : s # {} /\ g[s \ {pick[s]}] \in V =>
             g[s] = step[<<g[s \ {pick[s]}], pick[s]>>]
      <3>. TAKE s \in SUBSET (1 .. n)
      <3>. HAVE s # {} /\ g[s \ {pick[s]}] \in V
      <3>1. pick[s] = Max(s) /\ Max(s) \in 1 .. n
        BY <1>3
      <3>2. g[s] = SumStep(c, newKeys, g[s \ {Max(s)}], Max(s))
        BY <1>9
      <3>3. step[<<g[s \ {Max(s)}], Max(s)>>] = SumStep(c, newKeys, g[s \ {Max(s)}], Max(s))
        BY <1>5, <3>1
      <3>. QED BY <3>1, <3>2, <3>3
    <2>2. Within(1 .. n, V, none, step, pick)
      BY <1>3, <1>4, <1>5 DEF Within
    <2>3. Follows(g, 1 .. n, V, none, step, pick)
      BY <1>9, <2>1, Zenon DEF Follows
    <2>. QED BY <2>2, <2>3, FoldStays, Zenon
  <1>11. AddUp(c, newKeys) \in [1 .. Len(newKeys) - 1 -> Nat]
    BY <1>1, <1>2, <1>3, <1>10 DEF V, SumState
  <1>12. Len(c.keys) = Len(newKeys) => c.values \in [1 .. Len(newKeys) - 1 -> Nat]
    BY DEF Chunked
  <1>. QED BY <1>11, <1>12 DEF Reduce, Chunk

\* Axis.Divide leaves an axis with the columns it had.
LEMMA AxisDivideFormed ==
    ASSUME NEW axis, NEW m \in Nat, m >= 1, Formed(axis, m), NEW target
    PROVE  Formed(AxisDivide(axis, target), m)
  <1>. DEFINE divided == Divide(Column(axis, 1), target, TRUE)
              Part(t) == IF t = 1 THEN divided.values
                         ELSE Reduce(Column(axis, t), divided.keys).values
              columns == [t \in DOMAIN axis.columns |-> Part(t)]
  <1>1. DOMAIN axis.columns = 1 .. m /\ \A t \in 1 .. m : Chunked(Column(axis, t))
    BY FormedIs
  <1>2. Chunked(divided)
    <2>1. Chunked(Column(axis, 1))
      BY <1>1
    <2>2. Coarser(Column(axis, 1), divided)
      BY <2>1, DivideCoarser
    <2>. QED BY <2>2 DEF Coarser
  <1>3. AxisDivide(axis, target) = IF target >= Len(axis.keys) - 1 THEN axis ELSE Axis(divided.keys, columns)
    BY DEF AxisDivide
  <1>. HIDE DEF divided
  <1>4. /\ Keyed(divided.keys) /\ Len(divided.keys) \in Nat
        /\ divided.values \in [1 .. Len(divided.keys) - 1 -> Nat]
    BY <1>2, ChunkIs DEF Chunked
  <1>5. columns \in [1 .. m -> [1 .. Len(divided.keys) - 1 -> Nat]]
    <2>1. \A t \in 1 .. m : Part(t) \in [1 .. Len(divided.keys) - 1 -> Nat]
      <3>. TAKE t \in 1 .. m
      <3>1. Reduce(Column(axis, t), divided.keys).values \in [1 .. Len(divided.keys) - 1 -> Nat]
        BY <1>1, <1>4, ReduceIs
      <3>. QED BY <1>4, <3>1
    <2>. HIDE DEF Part
    <2>. QED BY <1>1, <2>1
  <1>. HIDE DEF columns
  <1>6. Formed(Axis(divided.keys, columns), m)
    BY <1>4, <1>5, AxisFormed, Zenon
  <1>. QED BY <1>3, <1>6

\* The integration of two columns comes before them.
LEMMA IntegrationFirst ==
    ASSUME NEW B, NEW columns \in [1 .. 2 -> [B -> Nat]]
    PROVE  <<Integration(columns[1], columns[2])>> \o columns \in [1 .. 3 -> [B -> Nat]]
  <1>. DEFINE F == [B -> Nat]
              first == Integration(columns[1], columns[2])
              all == <<first>> \o columns
  <1>1. first \in F
    BY DEF Integration
  <1>2. columns \in Seq(F) /\ Len(columns) = 2
    BY FunSeq
  <1>. HIDE DEF first, F
  <1>3. <<first>> \in Seq(F) /\ Len(<<first>>) = 1
    BY <1>1
  <1>4. all \in Seq(F) /\ Len(all) = Len(<<first>>) + Len(columns)
    BY <1>2, <1>3, ConcatProperties, Zenon
  <1>. HIDE DEF all
  <1>5. Len(all) = 3
    BY <1>2, <1>3, <1>4
  <1>6. all \in [1 .. 3 -> F]
    <2>1. all \in [1 .. Len(all) -> F]
      BY <1>4
    <2>. QED BY <1>5, <2>1
  <1>. QED BY <1>6 DEF all, first, F

\* What a request reads: the integration with the two columns, that of the tag first.
LEMMA IntoResponseFormed ==
    ASSUME NEW axis, Formed(axis, 2), NEW tag \in Tags
    PROVE  Formed(IntoResponseAxis(axis, tag), 3) /\ IntoResponseAxis(axis, tag).keys = axis.keys
  <1>. DEFINE columns == <<Integration(axis.columns[1], axis.columns[2])>> \o axis.columns
              i == CHOOSE k \in DOMAIN ResponseTags : ResponseTags[k] = tag
              swapped == Swap(columns, i)
              B == 1 .. Len(axis.keys) - 1
  <1>1. Keyed(axis.keys) /\ columns \in [1 .. 3 -> [B -> Nat]]
    BY IntegrationFirst DEF Formed
  <1>2. i \in 1 .. 3
    <2>1. DOMAIN ResponseTags = 1 .. 3 /\ \E k \in 1 .. 3 : ResponseTags[k] = tag
      BY DEF ResponseTags, Tags
    <2>. QED BY <2>1
  <1>. HIDE DEF columns, i, B
  <1>3. swapped \in [1 .. 3 -> [B -> Nat]]
    BY <1>1, <1>2 DEF Swap
  <1>4. IntoResponseAxis(axis, tag) = Axis(axis.keys, swapped)
    BY DEF IntoResponseAxis, columns, i
  <1>. HIDE DEF swapped
  <1>5. Formed(Axis(axis.keys, swapped), 3) /\ Axis(axis.keys, swapped).keys = axis.keys
    BY <1>1, <1>3, AxisFormed, Zenon DEF B
  <1>. QED BY <1>4, <1>5

\* What is stored: divided, and without the integration.
LEMMA IntoStorageFormed ==
    ASSUME NEW axis, Formed(axis, 3)
    PROVE  Formed(IntoStorageAxis(axis), 2)
  <1>. DEFINE divided == AxisDivide(axis, PreTarget)
              B == 1 .. Len(divided.keys) - 1
              rest == Tail(divided.columns)
  <1>1. Formed(divided, 3)
    BY AxisDivideFormed
  <1>. HIDE DEF divided
  <1>2. Keyed(divided.keys) /\ divided.columns \in [1 .. 3 -> [B -> Nat]]
    BY <1>1 DEF Formed
  <1>. DEFINE F == [B -> Nat]
  <1>. HIDE DEF B, F
  <1>3. divided.columns \in Seq(F) /\ Len(divided.columns) = 3
    BY <1>2, FunSeq DEF F
  <1>4. rest \in Seq(F) /\ Len(rest) = Len(divided.columns) - 1
    <2>1. Len(<<>>) = 0
      OBVIOUS
    <2>2. Len(divided.columns) # Len(<<>>)
      <3>. DEFINE len == Len(divided.columns)
      <3>1. len = 3
        BY <1>3
      <3>. HIDE DEF len
      <3>. QED BY <2>1, <3>1 DEF len
    <2>3. divided.columns # <<>>
      BY <2>2, Zenon
    <2>. QED BY <1>3, <2>3, HeadTailProperties, Zenon
  <1>. HIDE DEF rest
  <1>5. rest \in [1 .. 2 -> F]
    <2>1. Len(rest) = 2
      BY <1>3, <1>4
    <2>. QED BY <1>4, <2>1
  <1>6. Formed(Axis(divided.keys, rest), 2)
    BY <1>2, <1>5, AxisFormed, Zenon DEF B, F
  <1>. QED BY <1>6 DEF IntoStorageAxis, divided, rest

\* A sample becomes an axis: its two columns and, before them, their integration.
LEMMA RegionsFormed ==
    ASSUME NEW regions \in Samples
    PROVE  Formed(RegionsAxis(regions), 3)
  <1>. DEFINE columns == <<Integration(regions.columns[1], regions.columns[2])>> \o regions.columns
              B == 1 .. Len(regions.keys) - 1
              washed == [t \in 1 .. 3 |-> [b \in B |-> IF columns[2][b] >= Dirty THEN 0 ELSE columns[t][b]]]
  <1>1. regions.keys \in Seq(Nat) /\ WellFormed(regions, 2)
    BY HeatmapAssumption
  <1>2. Keyed(regions.keys)
    BY <1>1 DEF WellFormed, Keyed
  <1>3. regions.columns \in Seq(Seq(Nat)) /\ DOMAIN regions.columns = 1 .. 2
    BY HeatmapAssumption DEF WellFormed
  <1>4. regions.columns \in [1 .. 2 -> [B -> Nat]]
    <2>1. \A t \in 1 .. 2 : regions.columns[t] \in [B -> Nat]
      BY <1>1 DEF WellFormed
    <2>2. regions.columns \in [1 .. Len(regions.columns) -> Seq(Nat)]
      BY <1>3, LenProperties, Zenon
    <2>. HIDE DEF B
    <2>. QED BY <1>3, <2>1, <2>2
  <1>5. columns \in [1 .. 3 -> [B -> Nat]]
    BY <1>4, IntegrationFirst
  <1>. HIDE DEF columns, B
  <1>6. washed \in [1 .. 3 -> [B -> Nat]]
    BY <1>5
  <1>7. \A t \in 1 .. 3 : DOMAIN columns[t] = B
    BY <1>5
  <1>8. DOMAIN columns = 1 .. 3
    BY <1>5
  <1>9. RegionsAxis(regions) = Axis(regions.keys, washed)
    <2>1. /\ Axis(regions.keys, columns).keys = regions.keys
          /\ Axis(regions.keys, columns).columns = columns
      BY DEF Axis
    <2>2. RegionsAxis(regions) = Wash(Axis(regions.keys, columns))
      BY DEF RegionsAxis, columns
    <2>3. [t \in DOMAIN columns |->
              [b \in DOMAIN columns[t] |-> IF columns[2][b] >= Dirty THEN 0 ELSE columns[t][b]]]
          = washed
      BY <1>7, <1>8
    <2>. HIDE DEF washed
    <2>. QED BY <2>1, <2>2, <2>3 DEF Wash
  <1>. HIDE DEF washed
  <1>10. Formed(Axis(regions.keys, washed), 3)
    BY <1>2, <1>6, AxisFormed, Zenon DEF B
  <1>. QED BY <1>9, <1>10

\* CreateStorageAxis.
LEMMA CreateFormed ==
    ASSUME NEW regions \in Samples
    PROVE  Formed(CreateStorageAxis(regions), 2)
  BY RegionsFormed, IntoStorageFormed DEF CreateStorageAxis

\* Axis.Shrink divides each value.
LEMMA ShrinkFormed ==
    ASSUME NEW axis, NEW m, Formed(axis, m), NEW ratio \in Nat \ {0}
    PROVE  Formed(Shrink(axis, ratio), m)
  <1>. DEFINE B == 1 .. Len(axis.keys) - 1
              columns == [t \in DOMAIN axis.columns |->
                            [b \in DOMAIN axis.columns[t] |-> axis.columns[t][b] \div ratio]]
  <1>1. Keyed(axis.keys) /\ axis.columns \in [1 .. m -> [B -> Nat]]
    BY DEF Formed
  <1>. HIDE DEF B
  <1>2. \A v \in Nat : v \div ratio \in Nat
    OBVIOUS
  <1>3. columns \in [1 .. m -> [B -> Nat]]
    BY <1>1, <1>2
  <1>. HIDE DEF columns
  <1>4. Formed(Axis(axis.keys, columns), m)
    BY <1>1, <1>3, AxisFormed, Zenon DEF B
  <1>. QED BY <1>4 DEF Shrink, columns

-----------------------------------------------------------------------------
(***************************************************************************)
(* The keys of all columns (CompactKeys).                                  *)
(***************************************************************************)
\* The numbers of a set below one of them.
Under(S, k) == {s \in S : s < k}

\* How many are below a number tells the numbers apart, and every count up to the size occurs.
LEMMA RanksAre ==
    ASSUME NEW S \in SUBSET Nat, IsFiniteSet(S)
    PROVE  /\ Cardinality(S) \in Nat
           /\ \A k \in S : Cardinality(Under(S, k)) \in 0 .. Cardinality(S) - 1
           /\ \A j, k \in S : j < k => Cardinality(Under(S, j)) < Cardinality(Under(S, k))
           /\ \A i \in 1 .. Cardinality(S) : \E k \in S : Cardinality(Under(S, k)) = i - 1
  <1>. DEFINE n == Cardinality(S)
              rank == [k \in S |-> Cardinality(Under(S, k)) + 1]
  <1>1. n \in Nat
    BY FS_CardinalityType
  <1>2. \A k \in S : /\ Under(S, k) \in SUBSET S /\ k \notin Under(S, k)
                     /\ IsFiniteSet(Under(S, k)) /\ Cardinality(Under(S, k)) \in Nat
                     /\ Cardinality(Under(S, k)) < n
    <2>. TAKE k \in S
    <2>1. Under(S, k) \in SUBSET S /\ k \notin Under(S, k)
      BY DEF Under
    <2>2. /\ IsFiniteSet(Under(S, k)) /\ Cardinality(Under(S, k)) <= n
          /\ n = Cardinality(Under(S, k)) => S = Under(S, k)
      BY <2>1, FS_Subset
    <2>3. Cardinality(Under(S, k)) \in Nat
      BY <2>2, FS_CardinalityType
    <2>4. n # Cardinality(Under(S, k))
      BY <2>1, <2>2
    <2>. QED BY <1>1, <2>1, <2>2, <2>3, <2>4
  <1>3. \A j, k \in S : j < k => Cardinality(Under(S, j)) < Cardinality(Under(S, k))
    <2>. TAKE j, k \in S
    <2>. HAVE j < k
    <2>1. Under(S, j) \in SUBSET Under(S, k) /\ j \in Under(S, k) /\ j \notin Under(S, j)
      <3>1. \A s \in S : s < j => s < k
        <4>. TAKE s \in S
        <4>1. s \in Nat /\ j \in Nat /\ k \in Nat
          OBVIOUS
        <4>. QED BY <4>1
      <3>2. ~(j < j)
        OBVIOUS
      <3>. QED BY <3>1, <3>2 DEF Under
    <2>2. /\ Cardinality(Under(S, j)) <= Cardinality(Under(S, k))
          /\ Cardinality(Under(S, k)) = Cardinality(Under(S, j)) => Under(S, k) = Under(S, j)
      BY <1>2, <2>1, FS_Subset
    <2>3. Cardinality(Under(S, k)) # Cardinality(Under(S, j))
      BY <2>1, <2>2
    <2>4. Cardinality(Under(S, k)) \in Nat /\ Cardinality(Under(S, j)) \in Nat
      BY <1>2
    <2>. QED BY <2>2, <2>3, <2>4
  <1>. HIDE DEF n
  <1>4. rank \in [S -> 1 .. n]
    <2>1. \A k \in S : Cardinality(Under(S, k)) + 1 \in 1 .. n
      <3>. TAKE k \in S
      <3>1. Cardinality(Under(S, k)) \in Nat /\ Cardinality(Under(S, k)) < n
        BY <1>2
      <3>. QED BY <1>1, <3>1
    <2>. QED BY <2>1
  <1>5. \A j, k \in S : rank[j] = rank[k] => j = k
    <2>. TAKE j, k \in S
    <2>. HAVE rank[j] = rank[k]
    <2>1. j < k \/ k < j \/ j = k
      OBVIOUS
    <2>2. Cardinality(Under(S, k)) \in Nat /\ Cardinality(Under(S, j)) \in Nat
      BY <1>2
    <2>3. Cardinality(Under(S, k)) = Cardinality(Under(S, j))
      BY <2>2
    <2>. QED BY <1>3, <2>1, <2>2, <2>3
  <1>. DEFINE N == 1 .. n
  <1>. HIDE DEF rank
  <1>6. rank \in Injection(S, N)
    BY <1>4, <1>5 DEF Injection, IsInjective
  <1>7. IsFiniteSet(N) /\ Cardinality(N) = n
    <2>1. 1 \in Int /\ n \in Int
      BY <1>1
    <2>2. IsFiniteSet(N) /\ Cardinality(N) = IF 1 > n THEN 0 ELSE n - 1 + 1
      BY <2>1, FS_Interval, Zenon
    <2>. QED BY <1>1, <2>2
  <1>8. rank \in Surjection(S, N)
    <2>. HIDE DEF N
    <2>1. Cardinality(S) = Cardinality(N) <=> rank \in Surjection(S, N)
      BY <1>6, <1>7, FS_Injection
    <2>. QED BY <1>7, <2>1 DEF n
  <1>9. \A i \in 1 .. n : \E k \in S : Cardinality(Under(S, k)) = i - 1
    <2>. TAKE i \in 1 .. n
    <2>1. PICK k \in S : rank[k] = i
      BY <1>8 DEF Surjection
    <2>2. Cardinality(Under(S, k)) \in Nat /\ rank[k] = Cardinality(Under(S, k)) + 1
      BY <1>2 DEF rank
    <2>3. Cardinality(Under(S, k)) = i - 1
      BY <2>1, <2>2
    <2>. QED BY <2>3
  <1>10. \A k \in S : Cardinality(Under(S, k)) \in 0 .. n - 1
    <2>. TAKE k \in S
    <2>1. Cardinality(Under(S, k)) \in Nat /\ Cardinality(Under(S, k)) < n
      BY <1>2
    <2>. QED BY <1>1, <2>1
  <1>. QED BY <1>1, <1>3, <1>9, <1>10 DEF n

\* A sorted set has each of its numbers, in order.
LEMMA SortedIs ==
    ASSUME NEW S \in SUBSET Nat, IsFiniteSet(S)
    PROVE  /\ Cardinality(S) \in Nat
           /\ Sorted(S) \in [1 .. Cardinality(S) -> S]
           /\ \A i \in 2 .. Cardinality(S) : Sorted(S)[i - 1] < Sorted(S)[i]
           /\ \A k \in S : \E i \in 1 .. Cardinality(S) : Sorted(S)[i] = k
  <1>. DEFINE n == Cardinality(S)
              Rank(k) == Cardinality(Under(S, k))
              all == Sorted(S)
  <1>1. /\ n \in Nat
        /\ \A k \in S : Rank(k) \in 0 .. n - 1
        /\ \A j, k \in S : j < k => Rank(j) < Rank(k)
        /\ \A i \in 1 .. n : \E k \in S : Rank(k) = i - 1
    BY RanksAre
  <1>2. all = [i \in 1 .. n |-> CHOOSE k \in S : Rank(k) = i - 1]
    BY DEF Sorted, Under
  <1>. HIDE DEF Rank, all, n
  <1>3. \A i \in 1 .. n : all[i] \in S /\ Rank(all[i]) = i - 1
    BY <1>1, <1>2
  <1>4. all \in [1 .. n -> S]
    BY <1>2, <1>3
  <1>5. \A i \in 2 .. n : all[i - 1] < all[i]
    <2>. TAKE i \in 2 .. n
    <2>1. i \in 1 .. n /\ i - 1 \in 1 .. n
      BY <1>1
    <2>2. /\ all[i] \in S /\ all[i - 1] \in S /\ Rank(all[i]) = i - 1 /\ Rank(all[i - 1]) = (i - 1) - 1
      BY <1>3, <2>1
    <2>3. all[i - 1] < all[i] \/ all[i - 1] = all[i] \/ all[i] < all[i - 1]
      <3>1. all[i] \in Nat /\ all[i - 1] \in Nat
        BY <2>2
      <3>. QED BY <3>1
    <2>4. ~(all[i] < all[i - 1]) /\ all[i] # all[i - 1]
      <3>1. ~(i - 1 < (i - 1) - 1) /\ i - 1 # (i - 1) - 1
        BY <2>1
      <3>. QED BY <1>1, <2>2, <3>1
    <2>. QED BY <2>3, <2>4
  <1>6. \A k \in S : \E i \in 1 .. n : all[i] = k
    <2>. TAKE k \in S
    <2>. DEFINE i == Rank(k) + 1
    <2>1. Rank(k) \in 0 .. n - 1
      BY <1>1
    <2>2. i \in 1 .. n /\ i - 1 = Rank(k)
      BY <1>1, <2>1
    <2>. HIDE DEF i
    <2>3. all[i] \in S /\ Rank(all[i]) = Rank(k)
      BY <1>3, <2>2
    <2>4. all[i] < k \/ all[i] = k \/ k < all[i]
      <3>1. all[i] \in Nat /\ k \in Nat
        BY <2>3
      <3>. QED BY <3>1
    <2>5. ~(Rank(k) < Rank(k))
      BY <2>1
    <2>6. all[i] = k
      BY <1>1, <2>3, <2>4, <2>5
    <2>. QED BY <2>2, <2>6
  <1>. QED BY <1>1, <1>4, <1>5, <1>6 DEF all, n

\* Some axes, all with m columns.
Planed(axes, m) ==
    /\ Len(axes) \in Nat /\ Len(axes) >= 1 /\ DOMAIN axes = 1 .. Len(axes)
    /\ \A i \in 1 .. Len(axes) : Formed(axes[i], m)

\* Each key of a part is one of the keys, where it is no limit among the sorted ones.
Embedded(part, keys) ==
    /\ \A p \in 1 .. Len(part) - 1 : \E k \in 1 .. SortedLen(keys) : keys[k] = part[p]
    /\ Last(part) = Unlimited => Last(keys) = Unlimited
    /\ Last(part) # Unlimited => \E k \in 1 .. SortedLen(keys) : keys[k] = Last(part)

\* The keys that are sorted, and the last keys.
Starts(axes) == UNION {Range(Front(axes[i].keys)) : i \in DOMAIN axes}
Limits(axes) == {Last(axes[i].keys) : i \in DOMAIN axes}
SortedKeys(axes) == Starts(axes) \cup (Limits(axes) \ {Unlimited})

\* The keys that an axis starts buckets with.
LEMMA FrontIs ==
    ASSUME NEW keys, Keyed(keys)
    PROVE  /\ Range(Front(keys)) \in SUBSET Nat
           /\ IsFiniteSet(Range(Front(keys)))
           /\ \A p \in 1 .. Len(keys) - 1 : keys[p] \in Range(Front(keys))
  <1>. DEFINE n == Len(keys) - 1
              front == Front(keys)
  <1>1. n \in Nat /\ \A p \in 1 .. n : keys[p] \in Nat
    <2>1. Len(keys) \in Nat /\ Len(keys) >= 2 /\ \A p \in 1 .. Len(keys) : keys[p] \in Nat
      BY KeysSorted
    <2>. QED BY <2>1
  <1>. HIDE DEF n
  <1>2. front \in Seq(Nat) /\ Len(front) = n /\ \A p \in 1 .. n : front[p] = keys[p]
    <2>1. front = SubSeq(keys, 1, n)
      BY DEF Front, n
    <2>2. /\ SubSeq(keys, 1, n) \in Seq(Nat)
          /\ Len(SubSeq(keys, 1, n)) = IF 1 <= n THEN n - 1 + 1 ELSE 0
          /\ \A p \in 1 .. n - 1 + 1 : SubSeq(keys, 1, n)[p] = keys[1 + p - 1]
      <3>1. 1 \in Int /\ n \in Int
        BY <1>1
      <3>. QED BY <1>1, <3>1, SubSeqProperties
    <2>3. n - 1 + 1 = n /\ \A p \in 1 .. n : 1 + p - 1 = p
      BY <1>1
    <2>4. ~(1 <= n) => n = 0
      BY <1>1
    <2>. HIDE DEF front
    <2>. QED BY <2>1, <2>2, <2>3, <2>4
  <1>. HIDE DEF front
  <1>3. DOMAIN front = 1 .. n /\ front \in [1 .. n -> Nat]
    BY <1>2
  <1>4. Range(front) = {front[p] : p \in 1 .. n}
    BY <1>3 DEF Range
  <1>5. Range(front) \in SUBSET Nat
    BY <1>3, <1>4
  <1>6. \A p \in 1 .. n : keys[p] \in Range(front)
    BY <1>2, <1>4
  <1>7. IsFiniteSet(Range(front))
    <2>1. front \in Surjection(1 .. n, Range(front))
      BY <1>3, <1>4 DEF Surjection
    <2>2. IsFiniteSet(1 .. n)
      BY <1>1, FirstNumbers
    <2>. QED BY <2>1, <2>2, FS_Surjection
  <1>. QED BY <1>5, <1>6, <1>7 DEF n, front

\* They are finitely many.
LEMMA SortedKeysAre ==
    ASSUME NEW axes, NEW m, Planed(axes, m)
    PROVE  /\ SortedKeys(axes) \in SUBSET Nat /\ IsFiniteSet(SortedKeys(axes))
           /\ \A i \in 1 .. Len(axes) :
                /\ \A p \in 1 .. Len(axes[i].keys) - 1 : axes[i].keys[p] \in SortedKeys(axes)
                /\ Last(axes[i].keys) = Unlimited => Unlimited \in Limits(axes)
                /\ Last(axes[i].keys) # Unlimited => Last(axes[i].keys) \in SortedKeys(axes)
  <1>. DEFINE n == Len(axes)
              N == 1 .. n
              fronts == [i \in N |-> Range(Front(axes[i].keys))]
              lasts == [i \in N |-> Last(axes[i].keys)]
              F == {Range(Front(axes[i].keys)) : i \in N}
  <1>1. /\ n \in Nat /\ DOMAIN axes = N
        /\ \A i \in N : Keyed(axes[i].keys)
    BY DEF Planed, Formed
  <1>2. IsFiniteSet(N)
    BY <1>1, FirstNumbers
  <1>3. \A i \in N : /\ Last(axes[i].keys) \in Nat
                     /\ Range(Front(axes[i].keys)) \in SUBSET Nat
                     /\ IsFiniteSet(Range(Front(axes[i].keys)))
                     /\ \A p \in 1 .. Len(axes[i].keys) - 1 : axes[i].keys[p] \in Range(Front(axes[i].keys))
    <2>. TAKE i \in N
    <2>1. Keyed(axes[i].keys)
      BY <1>1
    <2>2. Last(axes[i].keys) \in Nat
      <3>1. /\ Last(axes[i].keys) = axes[i].keys[Len(axes[i].keys)]
            /\ Len(axes[i].keys) \in Nat /\ Len(axes[i].keys) >= 2
            /\ \A k \in 1 .. Len(axes[i].keys) : axes[i].keys[k] \in Nat
        BY <2>1, KeysSorted
      <3>. QED BY <3>1
    <2>. QED BY <2>1, <2>2, FrontIs
  <1>4. Starts(axes) = UNION F /\ Limits(axes) = {Last(axes[i].keys) : i \in N}
    BY <1>1 DEF Starts, Limits
  <1>5. IsFiniteSet(Starts(axes))
    <2>1. fronts \in Surjection(N, F)
      BY DEF Surjection
    <2>2. IsFiniteSet(F)
      BY <1>2, <2>1, FS_Surjection
    <2>3. \A T \in F : IsFiniteSet(T)
      BY <1>3
    <2>. HIDE DEF F
    <2>. QED BY <1>4, <2>2, <2>3, FS_UNION
  <1>6. IsFiniteSet(Limits(axes) \ {Unlimited})
    <2>1. lasts \in Surjection(N, Limits(axes))
      BY <1>4 DEF Surjection
    <2>2. IsFiniteSet(Limits(axes))
      BY <1>2, <2>1, FS_Surjection
    <2>. QED BY <2>2, FS_RemoveElement
  <1>7. IsFiniteSet(SortedKeys(axes))
    BY <1>5, <1>6, FS_Union DEF SortedKeys
  <1>8. SortedKeys(axes) \in SUBSET Nat
    <2>1. Starts(axes) \in SUBSET Nat
      BY <1>3, <1>4
    <2>2. Limits(axes) \in SUBSET Nat
      BY <1>3, <1>4
    <2>. QED BY <2>1, <2>2 DEF SortedKeys
  <1>9. \A i \in N :
          /\ \A p \in 1 .. Len(axes[i].keys) - 1 : axes[i].keys[p] \in SortedKeys(axes)
          /\ Last(axes[i].keys) = Unlimited => Unlimited \in Limits(axes)
          /\ Last(axes[i].keys) # Unlimited => Last(axes[i].keys) \in SortedKeys(axes)
    <2>. TAKE i \in N
    <2>1. Last(axes[i].keys) \in Limits(axes)
      BY <1>4
    <2>2. Range(Front(axes[i].keys)) \in F
      OBVIOUS
    <2>3. \A p \in 1 .. Len(axes[i].keys) - 1 : axes[i].keys[p] \in Starts(axes)
      BY <1>3, <1>4, <2>2
    <2>. QED BY <2>1, <2>3 DEF SortedKeys
  <1>. QED BY <1>7, <1>8, <1>9

\* The common keys are in order, and each axis has its keys among them.
LEMMA CompactKeysIs ==
    ASSUME NEW axes, NEW m, Planed(axes, m)
    PROVE  /\ Keyed(CompactKeys(axes))
           /\ \A i \in 1 .. Len(axes) : Embedded(axes[i].keys, CompactKeys(axes))
  <1>. DEFINE S == SortedKeys(axes)
              N == Cardinality(S)
              all == Sorted(S)
              unlimited == Unlimited \in Limits(axes)
              keys == CompactKeys(axes)
  <1>1. /\ S \in SUBSET Nat /\ IsFiniteSet(S)
        /\ \A i \in 1 .. Len(axes) :
             /\ \A p \in 1 .. Len(axes[i].keys) - 1 : axes[i].keys[p] \in S
             /\ Last(axes[i].keys) = Unlimited => unlimited
             /\ Last(axes[i].keys) # Unlimited => Last(axes[i].keys) \in S
    BY SortedKeysAre
  <1>2. keys = IF unlimited THEN Append(all, Unlimited) ELSE all
    BY DEF CompactKeys, SortedKeys, Starts, Limits
  <1>. HIDE DEF S
  <1>3. /\ N \in Nat /\ all \in [1 .. N -> S]
        /\ \A i \in 2 .. N : all[i - 1] < all[i]
        /\ \A k \in S : \E i \in 1 .. N : all[i] = k
    BY <1>1, SortedIs
  <1>4. PICK K : K = axes[1].keys /\ Keyed(K) /\ \A p \in 1 .. Len(K) - 1 : K[p] \in S
    <2>1. 1 \in 1 .. Len(axes)
      BY DEF Planed
    <2>. QED BY <1>1, <2>1 DEF Planed, Formed
  <1>5. /\ Len(K) \in Nat /\ Len(K) >= 2 /\ Last(K) = K[Len(K)]
        /\ \A i \in 1 .. Len(K) : K[i] \in Nat
    BY <1>4, KeysSorted
  <1>. HIDE DEF N, all, unlimited, keys
  <1>6. N >= 1 /\ (~unlimited => N >= 2)
    <2>1. PICK i \in 1 .. N : all[i] = K[1]
      <3>1. 1 \in 1 .. Len(K) - 1
        BY <1>5
      <3>. QED BY <1>3, <1>4, <3>1
    <2>2. ASSUME ~unlimited PROVE N >= 2
      <3>1. 1 \in 1 .. Len(axes)
        BY DEF Planed
      <3>2. Last(K) # Unlimited /\ Last(K) \in S
        BY <1>1, <1>4, <2>2, <3>1
      <3>3. PICK j \in 1 .. N : all[j] = Last(K)
        BY <1>3, <3>2
      <3>4. K[1] # Last(K)
        <4>1. Len(K) \in 1 .. Len(K) /\ 1 \in 1 .. Len(K) - 1
          BY <1>5
        <4>2. K[1] < K[Len(K)]
          BY <1>4, <1>5, <3>2, <4>1, KeysGrow
        <4>3. K[1] \in Nat /\ K[Len(K)] \in Nat
          BY <1>5, <4>1
        <4>. QED BY <1>5, <4>2, <4>3
      <3>5. i # j
        BY <2>1, <3>3, <3>4
      <3>. QED BY <1>3, <3>5
    <2>. QED BY <1>3, <2>1, <2>2
  <1>7. all \in Seq(Nat) /\ Len(all) = N /\ \A i \in 1 .. N : all[i] \in Nat
    <2>1. all \in [1 .. N -> Nat]
      BY <1>1, <1>3
    <2>. QED BY <1>3, <2>1, FunSeq
  <1>8. /\ keys \in Seq(Nat)
        /\ Len(keys) = IF unlimited THEN N + 1 ELSE N
        /\ \A i \in 1 .. N : keys[i] = all[i]
        /\ unlimited => keys[N + 1] = 0
    <2>1. CASE unlimited
      <3>1. keys = Append(all, 0)
        BY <1>2, <2>1 DEF Unlimited
      <3>2. /\ Append(all, 0) \in Seq(Nat) /\ Len(Append(all, 0)) = Len(all) + 1
            /\ \A i \in 1 .. Len(all) : Append(all, 0)[i] = all[i]
            /\ Append(all, 0)[Len(all) + 1] = 0
        BY <1>7, AppendProperties
      <3>. QED BY <1>7, <2>1, <3>1, <3>2
    <2>2. CASE ~unlimited
      BY <1>2, <1>7, <2>2
    <2>. QED BY <2>1, <2>2
  <1>9. Len(keys) >= 2 /\ Len(keys) \in Nat
    BY <1>3, <1>6, <1>8
  <1>10. Increasing(keys)
    <2>. SUFFICES ASSUME NEW i \in 2 .. Len(keys)
                  PROVE  keys[i - 1] < keys[i] \/ (i = Len(keys) /\ keys[i] = 0)
      BY DEF Increasing, Unlimited
    <2>1. CASE i <= N
      <3>1. i \in 2 .. N /\ i \in 1 .. N /\ i - 1 \in 1 .. N
        BY <1>3, <2>1
      <3>. QED BY <1>3, <1>8, <3>1
    <2>2. CASE ~(i <= N)
      <3>1. unlimited /\ i = N + 1
        BY <1>3, <1>8, <2>2
      <3>. QED BY <1>8, <3>1
    <2>. QED BY <2>1, <2>2
  <1>11. Keyed(keys)
    BY <1>8, <1>9, <1>10 DEF Keyed
  <1>12. /\ Last(keys) = keys[Len(keys)]
         /\ SortedLen(keys) = IF keys[Len(keys)] = 0 THEN Len(keys) - 1 ELSE Len(keys)
    BY <1>11, KeysSorted
  <1>13. unlimited => Last(keys) = 0
    BY <1>8, <1>12
  <1>14. SortedLen(keys) = N
    <2>1. CASE unlimited
      BY <1>3, <1>8, <1>12, <2>1
    <2>2. CASE ~unlimited
      <3>1. N \in 2 .. N /\ N \in 1 .. N /\ N - 1 \in 1 .. N
        BY <1>3, <1>6, <2>2
      <3>2. all[N - 1] < all[N] /\ all[N] \in Nat /\ all[N - 1] \in Nat
        BY <1>3, <1>7, <3>1
      <3>3. keys[N] # 0
        BY <1>8, <3>1, <3>2
      <3>. QED BY <1>8, <1>12, <2>2, <3>3
    <2>. QED BY <2>1, <2>2
  <1>15. \A k \in S : \E i \in 1 .. SortedLen(keys) : keys[i] = k
    BY <1>3, <1>8, <1>14
  <1>16. \A i \in 1 .. Len(axes) : Embedded(axes[i].keys, keys)
    BY <1>1, <1>13, <1>15 DEF Embedded, Unlimited
  <1>. QED BY <1>11, <1>16 DEF keys

-----------------------------------------------------------------------------
(***************************************************************************)
(* Where the keys of a part are (Position).                                *)
(***************************************************************************)
ScanStep(keys, pos, key) ==
    Append(pos, Min({k \in DOMAIN keys : keys[k] = key /\ (pos # <<>> => k > Last(pos))}))

\* The places of the first i keys of a part: from left to right, all but the last key's sorted.
Placed(part, keys, pos, i) ==
    /\ pos \in Seq(Nat) /\ Len(pos) = i
    /\ \A p \in 1 .. i : /\ pos[p] \in 1 .. Len(keys) /\ keys[pos[p]] = part[p]
                         /\ p < Len(part) => pos[p] <= SortedLen(keys)
    /\ \A p \in 2 .. i : pos[p - 1] < pos[p]

\* The scan finds a place for the next key.
LEMMA PlacedNext ==
    ASSUME NEW part, Keyed(part), NEW keys, Keyed(keys), Embedded(part, keys),
           NEW i \in 1 .. Len(part), NEW pos, Placed(part, keys, pos, i - 1)
    PROVE  Placed(part, keys, ScanStep(keys, pos, part[i]), i)
  <1>. DEFINE n == Len(part)
              N == SortedLen(keys)
              L == Len(keys)
              T == {k \in 1 .. L : keys[k] = part[i] /\ (i > 1 => k > pos[i - 1])}
              q == Min(T)
              new == Append(pos, q)
  <1>1. /\ n \in Nat /\ n >= 2 /\ Last(part) = part[n]
        /\ \A p \in 1 .. n : part[p] \in Nat
        /\ \A p \in 2 .. n : part[p - 1] < part[p] \/ (p = n /\ part[p] = 0)
    BY KeysSorted DEF Keyed, Increasing, Unlimited
  <1>2. /\ L \in Nat /\ L >= 2 /\ Last(keys) = keys[L] /\ DOMAIN keys = 1 .. L
        /\ \A k \in 1 .. L : keys[k] \in Nat
        /\ N = IF keys[L] = 0 THEN L - 1 ELSE L
        /\ N \in 1 .. L
        /\ \A k \in 1 .. N : \A j \in 1 .. k - 1 : keys[j] < keys[k]
    <2>1. DOMAIN keys = 1 .. L
      BY LenProperties DEF Keyed
    <2>. QED BY <2>1, KeysSorted
  <1>3. /\ \A p \in 1 .. n - 1 : \E k \in 1 .. N : keys[k] = part[p]
        /\ Last(part) = 0 => Last(keys) = 0
        /\ Last(part) # 0 => \E k \in 1 .. N : keys[k] = Last(part)
    BY DEF Embedded, Unlimited
  <1>4. /\ pos \in Seq(Nat) /\ Len(pos) = i - 1
        /\ \A p \in 1 .. i - 1 : /\ pos[p] \in 1 .. L /\ keys[pos[p]] = part[p]
                                 /\ p < n => pos[p] <= N
        /\ \A p \in 2 .. i - 1 : pos[p - 1] < pos[p]
    BY DEF Placed
  <1>5. i \in 1 .. n
    OBVIOUS
  <1>6. ScanStep(keys, pos, part[i]) = new
    <2>1. pos # <<>> <=> i > 1
      BY <1>1, <1>4, <1>5
    <2>2. i > 1 => Last(pos) = pos[i - 1]
      BY <1>4 DEF Last
    <2>3. {k \in DOMAIN keys : keys[k] = part[i] /\ (pos # <<>> => k > Last(pos))} = T
      BY <1>2, <2>1, <2>2
    <2>. HIDE DEF T
    <2>. QED BY <2>3 DEF ScanStep
  <1>. HIDE DEF n, N, L, T, q, new
  <1>7. ASSUME i < n \/ part[n] # 0 PROVE \E k \in T : k <= N
    <2>1. PICK k \in 1 .. N : keys[k] = part[i]
      <3>1. i \in 1 .. n - 1 \/ (i = n /\ Last(part) # 0)
        BY <1>1, <1>5, <1>7
      <3>. QED BY <1>1, <1>3, <3>1
    <2>2. ASSUME i > 1 PROVE k > pos[i - 1]
      <3>1. /\ i - 1 \in 1 .. i - 1 /\ i - 1 \in 1 .. n /\ i \in 2 .. n /\ i - 1 < n
        BY <1>1, <1>5, <2>2
      <3>2. part[i - 1] < part[i]
        BY <1>1, <1>7, <3>1
      <3>3. pos[i - 1] \in 1 .. N /\ keys[pos[i - 1]] = part[i - 1]
        BY <1>2, <1>4, <3>1
      <3>4. keys[pos[i - 1]] < keys[k]
        BY <2>1, <3>2, <3>3
      <3>5. /\ k \in Nat /\ pos[i - 1] \in Nat /\ N \in Nat
            /\ keys[k] \in Nat /\ keys[pos[i - 1]] \in Nat
        BY <1>2, <2>1, <3>3
      <3>6. ASSUME k <= pos[i - 1] PROVE FALSE
        <4>1. k = pos[i - 1] \/ k \in 1 .. pos[i - 1] - 1
          BY <2>1, <3>5, <3>6
        <4>2. keys[k] <= keys[pos[i - 1]]
          <5>1. CASE k = pos[i - 1]
            BY <3>5, <5>1
          <5>2. CASE k \in 1 .. pos[i - 1] - 1
            <6>1. keys[k] < keys[pos[i - 1]]
              BY <1>2, <3>3, <5>2
            <6>. QED BY <3>5, <6>1
          <5>. QED BY <4>1, <5>1, <5>2
        <4>. QED BY <3>4, <3>5, <4>2
      <3>. QED BY <3>5, <3>6
    <2>3. k \in T /\ k <= N
      BY <1>2, <2>1, <2>2 DEF T
    <2>. QED BY <2>3
  <1>8. ASSUME i = n /\ part[n] = 0 PROVE \E k \in T : TRUE
    <2>1. keys[L] = 0 /\ N = L - 1 /\ L \in 1 .. L
      BY <1>1, <1>2, <1>3, <1>8
    <2>2. i > 1 => L > pos[i - 1]
      <3>1. i > 1 => i - 1 \in 1 .. i - 1 /\ i - 1 < n
        BY <1>5, <1>8
      <3>2. i > 1 => pos[i - 1] \in 1 .. L /\ pos[i - 1] <= N
        BY <1>4, <3>1
      <3>. QED BY <1>2, <2>1, <3>2
    <2>3. L \in T
      BY <1>8, <2>1, <2>2 DEF T
    <2>. QED BY <2>3
  <1>9. \E k \in T : i < n => k <= N
    <2>1. (i < n \/ part[n] # 0) \/ (i = n /\ part[n] = 0)
      BY <1>1, <1>5
    <2>2. CASE i < n \/ part[n] # 0
      <3>1. PICK k \in T : k <= N
        BY <1>7, <2>2
      <3>. QED BY <3>1
    <2>3. CASE i = n /\ part[n] = 0
      <3>1. PICK k \in T : TRUE
        BY <1>8, <2>3
      <3>. QED BY <1>1, <2>3, <3>1
    <2>. QED BY <2>1, <2>2, <2>3
  <1>10. q \in T /\ (i < n => q <= N)
    <2>1. T \in SUBSET Nat
      BY DEF T
    <2>2. q \in T /\ \A k \in T : q <= k
      BY <1>9, <2>1, MinIs DEF q
    <2>3. PICK k \in T : i < n => k <= N
      BY <1>9
    <2>4. q \in Nat /\ k \in Nat /\ N \in Nat
      BY <1>2, <2>1, <2>2
    <2>. QED BY <2>2, <2>3, <2>4
  <1>11. q \in 1 .. L /\ q \in Nat /\ keys[q] = part[i] /\ (i > 1 => q > pos[i - 1])
    BY <1>10 DEF T
  <1>12. /\ new \in Seq(Nat) /\ Len(new) = i
         /\ \A p \in 1 .. i - 1 : new[p] = pos[p]
         /\ new[i] = q
    <2>1. /\ Append(pos, q) \in Seq(Nat) /\ Len(Append(pos, q)) = Len(pos) + 1
          /\ \A p \in 1 .. Len(pos) : Append(pos, q)[p] = pos[p]
          /\ Append(pos, q)[Len(pos) + 1] = q
      BY <1>4, <1>11, AppendProperties
    <2>2. Len(pos) + 1 = i
      BY <1>4, <1>5
    <2>. QED BY <1>4, <2>1, <2>2 DEF new
  <1>13. \A p \in 1 .. i : /\ new[p] \in 1 .. L /\ keys[new[p]] = part[p]
                           /\ p < n => new[p] <= N
    <2>. TAKE p \in 1 .. i
    <2>1. CASE p = i
      BY <1>10, <1>11, <1>12, <2>1
    <2>2. CASE p # i
      <3>1. p \in 1 .. i - 1
        BY <2>2
      <3>. QED BY <1>4, <1>12, <3>1
    <2>. QED BY <2>1, <2>2
  <1>14. \A p \in 2 .. i : new[p - 1] < new[p]
    <2>. TAKE p \in 2 .. i
    <2>1. CASE p = i
      <3>1. i > 1 /\ i - 1 \in 1 .. i - 1 /\ pos[i - 1] < q
        <4>1. i > 1 /\ i - 1 \in 1 .. i - 1
          BY <1>5, <2>1
        <4>2. pos[i - 1] \in Nat
          BY <1>4, <4>1
        <4>. QED BY <1>11, <4>1, <4>2
      <3>. QED BY <1>12, <2>1, <3>1
    <2>2. CASE p # i
      <3>1. p \in 2 .. i - 1 /\ p \in 1 .. i - 1 /\ p - 1 \in 1 .. i - 1
        BY <1>5, <2>2
      <3>. QED BY <1>4, <1>12, <3>1
    <2>. QED BY <2>1, <2>2
  <1>15. Placed(part, keys, new, i)
    BY <1>12, <1>13, <1>14 DEF Placed, n, N, L
  <1>. QED BY <1>6, <1>15

\* Position gives each key of a part its place, from left to right.
LEMMA PositionIs ==
    ASSUME NEW part, Keyed(part), NEW keys, Keyed(keys), Embedded(part, keys)
    PROVE  Placed(part, keys, Position(part, keys), Len(part))
  <1>. DEFINE n == Len(part)
              W == Nat \cup {Min({})}
              V == Seq(W)
              Good(h) == h = [s \in SUBSET DOMAIN part |->
                                IF s = {} THEN <<>>
                                ELSE ScanStep(keys, h[s \ {Max(s)}], part[Max(s)])]
              g == CHOOSE h : Good(h)
              step == [x \in V \X (1 .. n) |-> ScanStep(keys, x[1], part[x[2]])]
              pick == [s \in SUBSET (1 .. n) |-> Max(s)]
  <1>1. Position(part, keys) = g[DOMAIN part]
    BY Zenon DEF Position, FoldLeft, MapThenFoldSet, ScanStep
  <1>2. n \in Nat /\ DOMAIN part = 1 .. n /\ DOMAIN keys \in SUBSET Nat
    <2>1. part \in Seq(Nat) /\ keys \in Seq(Nat)
      BY DEF Keyed
    <2>. QED BY <2>1
  <1>3. /\ IsFiniteSet(1 .. n) /\ {} \in SUBSET (1 .. n) /\ 1 .. n \in SUBSET (1 .. n)
        /\ 1 .. 0 = {}
        /\ \A i \in 1 .. n : /\ 1 .. i \in SUBSET (1 .. n) /\ 1 .. i # {}
                             /\ Max(1 .. i) = i /\ (1 .. i) \ {i} = 1 .. i - 1
        /\ \A s \in SUBSET (1 .. n) : s # {} =>
              /\ Max(s) \in s /\ Max(s) \in 1 .. n /\ pick[s] = Max(s) /\ pick[s] \in s
              /\ s \ {Max(s)} \in SUBSET (1 .. n)
    <2>1. /\ IsFiniteSet(1 .. n) /\ {} \in SUBSET (1 .. n) /\ 1 .. 0 = {}
          /\ \A i \in 1 .. n : /\ 1 .. i \in SUBSET (1 .. n) /\ 1 .. i # {}
                               /\ Max(1 .. i) = i /\ (1 .. i) \ {i} = 1 .. i - 1
          /\ \A s \in SUBSET (1 .. n) : s # {} => Max(s) \in s
      BY <1>2, FirstNumbers, Zenon
    <2>. HIDE DEF n
    <2>. QED BY <1>2, <2>1
  <1>4. <<>> \in V
    OBVIOUS
  <1>5. \A v \in V : \A x \in 1 .. n :
           /\ step[<<v, x>>] = ScanStep(keys, v, part[x])
           /\ step[<<v, x>>] \in V
    <2>. SUFFICES ASSUME NEW v \in V, NEW x \in 1 .. n
                  PROVE  /\ step[<<v, x>>] = ScanStep(keys, v, part[x])
                         /\ ScanStep(keys, v, part[x]) \in V
      OBVIOUS
    <2>. DEFINE T == {k \in DOMAIN keys : keys[k] = part[x] /\ (v # <<>> => k > Last(v))}
    <2>1. T \in SUBSET Nat
      BY <1>2
    <2>. HIDE DEF T
    <2>2. Min(T) \in W
      <3>1. CASE T = {}
        BY <3>1
      <3>2. CASE T # {}
        <4>1. Min(T) \in T
          BY <2>1, <3>2, MinIs
        <4>. QED BY <2>1, <4>1
      <3>. QED BY <3>1, <3>2
    <2>. HIDE DEF W
    <2>3. Append(v, Min(T)) \in Seq(W)
      BY <2>2, AppendProperties
    <2>4. ScanStep(keys, v, part[x]) \in V
      BY <2>3 DEF ScanStep, T
    <2>. QED BY <2>4
  <1>. HIDE DEF W, V, step, pick, n
  <1>6. PICK h \in [SUBSET (1 .. n) -> V] : IsFold(h, 1 .. n, <<>>, step, pick)
    <2>1. Within(1 .. n, V, <<>>, step, pick)
      BY <1>3, <1>4, <1>5 DEF Within
    <2>. QED BY <2>1, FoldExists, Zenon
  <1>7. Good(h)
    <2>1. \A s \in SUBSET (1 .. n) :
             h[s] = IF s = {} THEN <<>> ELSE ScanStep(keys, h[s \ {Max(s)}], part[Max(s)])
      <3>. TAKE s \in SUBSET (1 .. n)
      <3>1. CASE s = {}
        BY <1>6, <3>1 DEF IsFold
      <3>2. CASE s # {}
        <4>1. h[s] = step[<<h[s \ {Max(s)}], Max(s)>>]
          <5>1. pick[s] = Max(s)
            BY <1>3, <3>2
          <5>2. h[s] = step[<<h[s \ {pick[s]}], pick[s]>>]
            BY <1>6, <3>2 DEF IsFold
          <5>. QED BY <5>1, <5>2
        <4>2. h[s \ {Max(s)}] \in V
          BY <1>3, <1>6, <3>2
        <4>. QED BY <1>3, <1>5, <3>2, <4>1, <4>2
      <3>. QED BY <3>1, <3>2
    <2>. QED BY <1>2, <1>6, <2>1
  <1>8. Good(g)
    BY <1>7, Zenon
  <1>. HIDE DEF g
  <1>9. /\ g[{}] = <<>>
        /\ \A s \in SUBSET (1 .. n) : s # {} => g[s] = ScanStep(keys, g[s \ {Max(s)}], part[Max(s)])
    <2>1. \A s \in SUBSET (1 .. n) :
             g[s] = IF s = {} THEN <<>> ELSE ScanStep(keys, g[s \ {Max(s)}], part[Max(s)])
      BY <1>2, <1>8
    <2>. QED BY <1>3, <2>1
  <1>. DEFINE G == {i \in 0 .. n : Placed(part, keys, g[1 .. i], i)}
  <1>10. 0 \in G
    <2>1. Placed(part, keys, <<>>, 0)
      <3>1. <<>> \in Seq(Nat) /\ Len(<<>>) = 0 /\ 1 .. 0 = {} /\ 2 .. 0 = {}
        OBVIOUS
      <3>. QED BY <3>1 DEF Placed
    <2>2. g[1 .. 0] = <<>>
      BY <1>3, <1>9
    <2>. QED BY <1>2, <2>1, <2>2
  <1>11. \A i \in 1 .. n : i - 1 \in G => i \in G
    <2>. TAKE i \in 1 .. n
    <2>. HAVE i - 1 \in G
    <2>1. Placed(part, keys, g[1 .. i - 1], i - 1)
      OBVIOUS
    <2>2. g[1 .. i] = ScanStep(keys, g[1 .. i - 1], part[i])
      <3>1. 1 .. i \in SUBSET (1 .. n) /\ 1 .. i # {} /\ Max(1 .. i) = i /\ (1 .. i) \ {i} = 1 .. i - 1
        BY <1>3
      <3>. QED BY <1>9, <3>1
    <2>3. Placed(part, keys, ScanStep(keys, g[1 .. i - 1], part[i]), i)
      BY <2>1, PlacedNext DEF n
    <2>4. i \in 0 .. n
      BY <1>2
    <2>. QED BY <2>2, <2>3, <2>4
  <1>12. n \in G
    <2>. HIDE DEF G
    <2>1. G \in SUBSET (0 .. n)
      BY DEF G
    <2>2. G = 0 .. n
      BY <1>2, <1>10, <1>11, <2>1, UpTo, Zenon
    <2>. QED BY <1>2, <2>2
  <1>. QED BY <1>1, <1>2, <1>12 DEF n

\* So a part has no more keys, and stays within the bounds of all.
LEMMA PartOf ==
    ASSUME NEW part, Keyed(part), NEW keys, Keyed(keys), Embedded(part, keys)
    PROVE  CheckPartOf(keys, part)
  <1>. DEFINE n == Len(part)
              L == Len(keys)
              pos == Position(part, keys)
              G == {i \in 0 .. n : i # 0 => i <= pos[i]}
  <1>1. Placed(part, keys, pos, n)
    BY PositionIs
  <1>2. /\ n \in Nat /\ n >= 2 /\ Last(part) = part[n] /\ \A p \in 1 .. n : part[p] \in Nat
        /\ L \in Nat /\ Last(keys) = keys[L]
    BY KeysSorted
  <1>3. /\ \A p \in 1 .. n : pos[p] \in 1 .. L /\ keys[pos[p]] = part[p]
        /\ \A p \in 2 .. n : pos[p - 1] < pos[p]
        /\ \A p \in 1 .. n : p < n => pos[p] <= SortedLen(keys)
    BY <1>1 DEF Placed
  <1>4. /\ SortedLen(keys) = IF keys[L] = 0 THEN L - 1 ELSE L
        /\ SortedLen(keys) \in 1 .. L
        /\ \A j \in 1 .. SortedLen(keys) : \A i \in 1 .. j - 1 : keys[i] < keys[j]
        /\ \A k \in 1 .. L : keys[k] \in Nat
    BY KeysSorted
  <1>. HIDE DEF n, L, pos
  <1>5. n \in G
    <2>1. 0 \in G
      BY <1>2
    <2>2. \A i \in 1 .. n : i - 1 \in G => i \in G
      <3>. TAKE i \in 1 .. n
      <3>. HAVE i - 1 \in G
      <3>1. pos[i] \in 1 .. L
        BY <1>3
      <3>2. CASE i = 1
        BY <1>2, <3>1, <3>2
      <3>3. CASE i # 1
        <4>1. i \in 2 .. n /\ i - 1 \in 1 .. n /\ i - 1 <= pos[i - 1]
          BY <1>2, <3>3
        <4>2. pos[i - 1] < pos[i] /\ pos[i - 1] \in 1 .. L
          BY <1>3, <4>1
        <4>3. i <= pos[i]
          BY <1>2, <3>1, <4>1, <4>2
        <4>. QED BY <1>2, <4>3
      <3>. QED BY <3>2, <3>3
    <2>. HIDE DEF G
    <2>3. G \in SUBSET (0 .. n)
      BY DEF G
    <2>4. G = 0 .. n
      BY <1>2, <2>1, <2>2, <2>3, UpTo, Zenon
    <2>. QED BY <1>2, <2>4
  <1>6. L >= n
    <2>1. n <= pos[n] /\ n \in 1 .. n
      BY <1>2, <1>5
    <2>2. pos[n] \in 1 .. L
      BY <1>3, <2>1
    <2>. QED BY <1>2, <2>1, <2>2
  <1>7. keys[1] <= part[1]
    <2>1. 1 \in 1 .. n /\ 1 < n
      BY <1>2
    <2>2. pos[1] \in 1 .. SortedLen(keys) /\ keys[pos[1]] = part[1]
      BY <1>3, <1>4, <2>1
    <2>3. pos[1] = 1 \/ 1 \in 1 .. pos[1] - 1
      BY <1>4, <2>2
    <2>4. keys[1] \in Nat /\ part[1] \in Nat
      BY <1>2, <1>4, <2>1
    <2>. QED BY <1>4, <2>2, <2>3, <2>4
  <1>8. keys[L] # 0 => part[n] # 0 /\ part[n] <= keys[L]
    <2>. HAVE keys[L] # 0
    <2>1. SortedLen(keys) = L
      BY <1>4
    <2>2. n \in 1 .. n
      BY <1>2
    <2>3. pos[n] \in 1 .. L /\ keys[pos[n]] = part[n]
      BY <1>3, <2>2
    <2>4. part[n] # 0
      BY <1>2 DEF Embedded, Unlimited
    <2>5. pos[n] = L \/ pos[n] \in 1 .. L - 1
      BY <1>2, <2>3
    <2>6. L \in 1 .. L /\ keys[L] \in Nat /\ part[n] \in Nat
      BY <1>2, <1>4, <2>2
    <2>7. part[n] = keys[L] \/ part[n] < keys[L]
      BY <1>4, <2>1, <2>3, <2>5, <2>6
    <2>. QED BY <2>4, <2>6, <2>7
  <1>. QED BY <1>2, <1>6, <1>7, <1>8 DEF CheckPartOf, Unlimited, n, L

-----------------------------------------------------------------------------
(***************************************************************************)
(* Distances: the sweeps over the columns give one number for each key.    *)
(***************************************************************************)
Far(axes, keys) == [k \in DOMAIN keys |-> Len(axes)]
Own(axes, keys) == [i \in DOMAIN axes |-> Range(Position(axes[i].keys, keys))]

LeftStep(own, far, dis, i) == Append(dis, UpdateLeftDis(own[i], Last(<<far>> \o dis)))
RightStep(own, left, far, i, dis) ==
    <<UpdateRightDis(own[i], left[i], Head(Append(dis, far)))>> \o dis

\* The sweeps are the functions that the folds choose.
LeftSweep(axes, own, far) ==
    LET dom == [i \in DOMAIN axes |-> i]
        Good(h) == h = [s \in SUBSET DOMAIN dom |->
                          IF s = {} THEN <<>>
                          ELSE LeftStep(own, far, h[s \ {Max(s)}], dom[Max(s)])]
        g == CHOOSE h : Good(h)
    IN  g[DOMAIN dom]

RightSweep(axes, own, left, far) ==
    LET dom == [i \in DOMAIN axes |-> i]
        Good(h) == h = [s \in SUBSET DOMAIN dom |->
                          IF s = {} THEN <<>>
                          ELSE RightStep(own, left, far, dom[Min(s)], h[s \ {Min(s)}])]
        g == CHOOSE h : Good(h)
    IN  g[DOMAIN dom]

\* Distances makes the two sweeps, from the left and then from the right.
LEMMA SweepsAre ==
    ASSUME NEW axes, NEW keys
    PROVE  Distances(axes, keys)
           = RightSweep(axes, Own(axes, keys),
                        LeftSweep(axes, Own(axes, keys), Far(axes, keys)), Far(axes, keys))
  BY Zenon DEF Distances, RightSweep, LeftSweep, Own, Far, FoldLeftDomain, FoldLeft,
               FoldRightDomain, FoldRight, MapThenFoldSet, LeftStep, RightStep

\* A fold that adds one element to a sequence in each step.
Extends(g, n, F, pick) ==
    /\ g[{}] = <<>>
    /\ \A s \in SUBSET (1 .. n) : s # {} => pick[s] \in s
    /\ \A s \in SUBSET (1 .. n) : s # {} /\ g[s \ {pick[s]}] \in Seq(F) =>
         g[s] \in Seq(F) /\ Len(g[s]) = Len(g[s \ {pick[s]}]) + 1

\* After as many steps the sequence has as many elements.
LEMMA AsLong ==
    ASSUME NEW n \in Nat, NEW F, NEW g, NEW pick, Extends(g, n, F, pick)
    PROVE  g[1 .. n] \in Seq(F) /\ Len(g[1 .. n]) = n
  <1>. DEFINE S == 1 .. n
              Fine(s) == g[s] \in Seq(F) /\ Len(g[s]) = Cardinality(s)
              B == {s \in SUBSET S : ~Fine(s)}
  <1>1. IsFiniteSet(S) /\ Cardinality(S) = n
    <2>1. 1 \in Int /\ n \in Int
      OBVIOUS
    <2>2. IsFiniteSet(S) /\ Cardinality(S) = IF 1 > n THEN 0 ELSE n - 1 + 1
      BY <2>1, FS_Interval, Zenon
    <2>. QED BY <2>2
  <1>2. {} \notin B
    <2>1. <<>> \in Seq(F) /\ Len(<<>>) = 0
      OBVIOUS
    <2>2. Cardinality({}) = 0
      BY FS_EmptySet
    <2>. QED BY <2>1, <2>2 DEF Extends
  <1>3. \A s \in B : \E x \in s : s \ {x} \in B
    <2>. SUFFICES ASSUME NEW s \in SUBSET S, ~Fine(s)
                  PROVE  \E x \in s : s \ {x} \in SUBSET S /\ ~Fine(s \ {x})
      OBVIOUS
    <2>. DEFINE x == pick[s]
                rest == s \ {x}
    <2>1. s # {}
      BY <1>2
    <2>2. IsFiniteSet(s)
      BY <1>1, FS_Subset
    <2>3. x \in s
      BY <2>1 DEF Extends
    <2>4. Cardinality(rest) = Cardinality(s) - 1 /\ Cardinality(s) \in Nat
      BY <2>2, <2>3, FS_RemoveElement, FS_CardinalityType
    <2>5. ~Fine(rest)
      <3>. SUFFICES ASSUME Fine(rest) PROVE FALSE
        OBVIOUS
      <3>1. g[s] \in Seq(F) /\ Len(g[s]) = Len(g[rest]) + 1
        BY <2>1 DEF Extends
      <3>. HIDE DEF rest, x
      <3>2. Len(g[s]) = (Cardinality(s) - 1) + 1
        BY <2>4, <3>1
      <3>3. (Cardinality(s) - 1) + 1 = Cardinality(s)
        BY <2>4
      <3>. QED BY <3>1, <3>2, <3>3
    <2>. HIDE DEF Fine
    <2>. QED BY <2>3, <2>5
  <1>. HIDE DEF Fine
  <1>4. B \in SUBSET SUBSET S
    OBVIOUS
  <1>. HIDE DEF B
  <1>5. B = {}
    BY <1>1, <1>2, <1>3, <1>4, NoneBad
  <1>. QED BY <1>1, <1>5 DEF B, Fine

\* A sequence with one element more.
Longer(new, old, F) == new \in Seq(F) /\ Len(new) = Len(old) + 1

\* One column more, from the left.
LEMMA LeftStepIs ==
    ASSUME NEW D, NEW F, F = [D -> Nat], NEW own, NEW far \in F, NEW dis \in Seq(F), NEW i
    PROVE  Longer(LeftStep(own, far, dis, i), dis, F)
  <1>. DEFINE before == <<far>> \o dis
              next == UpdateLeftDis(own[i], Last(before))
  <1>1. Last(before) \in F
    <2>1. <<far>> \in Seq(F) /\ Len(<<far>>) = 1
      OBVIOUS
    <2>2. dis \in Seq(F) /\ Len(dis) \in Nat
      OBVIOUS
    <2>3. before \in Seq(F) /\ Len(before) = Len(<<far>>) + Len(dis)
      BY <2>1, <2>2, ConcatProperties, Zenon
    <2>. HIDE DEF before
    <2>4. Len(before) \in 1 .. Len(before)
      BY <2>1, <2>2, <2>3
    <2>5. before[Len(before)] \in F
      BY <2>3, <2>4, ElementOfSeq
    <2>. QED BY <2>5 DEF Last
  <1>. HIDE DEF before
  <1>2. next \in F
    BY <1>1 DEF UpdateLeftDis
  <1>. HIDE DEF next
  <1>3. dis \in Seq(F)
    OBVIOUS
  <1>4. Append(dis, next) \in Seq(F) /\ Len(Append(dis, next)) = Len(dis) + 1
    BY <1>2, <1>3, AppendProperties, Zenon
  <1>. QED BY <1>4 DEF Longer, LeftStep, next, before

\* One column more, from the right.
LEMMA RightStepIs ==
    ASSUME NEW D, NEW F, F = [D -> Nat], NEW own, NEW left, NEW far \in F, NEW dis \in Seq(F),
           NEW i, left[i] \in F
    PROVE  Longer(RightStep(own, left, far, i, dis), dis, F)
  <1>. DEFINE after == Append(dis, far)
              next == UpdateRightDis(own[i], left[i], Head(after))
  <1>1. Head(after) \in F
    <2>1. dis \in Seq(F) /\ far \in F
      OBVIOUS
    <2>2. after \in Seq(F) /\ Len(after) = Len(dis) + 1
      BY <2>1, AppendProperties, Zenon
    <2>. HIDE DEF after
    <2>3. after # <<>>
      BY <2>1, <2>2
    <2>. QED BY <2>2, <2>3, HeadTailProperties, Zenon
  <1>. HIDE DEF after
  <1>2. next \in F
    <2>. DEFINE near == Head(after)
    <2>1. DOMAIN left[i] = D /\ \A k \in D : left[i][k] \in Nat /\ near[k] + 1 \in Nat
      BY <1>1
    <2>2. \A k \in D : Min({left[i][k], near[k] + 1}) \in Nat
      <3>. TAKE k \in D
      <3>. DEFINE T == {left[i][k], near[k] + 1}
      <3>1. T \in SUBSET Nat /\ T # {}
        BY <2>1
      <3>. HIDE DEF T
      <3>2. Min(T) \in T
        BY <3>1, MinIs
      <3>3. Min(T) \in Nat
        BY <3>1, <3>2
      <3>. QED BY <3>3 DEF T
    <2>. QED BY <2>1, <2>2 DEF UpdateRightDis
  <1>. HIDE DEF next
  <1>3. dis \in Seq(F) /\ <<next>> \in Seq(F) /\ Len(<<next>>) = 1 /\ Len(dis) \in Nat
    BY <1>2
  <1>4. <<next>> \o dis \in Seq(F) /\ Len(<<next>> \o dis) = Len(<<next>>) + Len(dis)
    BY <1>3, ConcatProperties, Zenon
  <1>5. Len(<<next>> \o dis) = Len(dis) + 1
    BY <1>3, <1>4
  <1>. QED BY <1>4, <1>5 DEF Longer, RightStep, next, after

\* A number for each key of D, for each axis.
Measured(dis, axes, D) == dis \in Seq([D -> Nat]) /\ Len(dis) = Len(axes)

\* The sweep from the left gives each column its numbers.
LEMMA LeftSweepIs ==
    ASSUME NEW axes, Len(axes) \in Nat, DOMAIN axes = 1 .. Len(axes),
           NEW D, NEW own, NEW far \in [D -> Nat]
    PROVE  Measured(LeftSweep(axes, own, far), axes, D)
  <1>. DEFINE n == Len(axes)
              F == [D -> Nat]
              dom == [i \in DOMAIN axes |-> i]
              Good(h) == h = [s \in SUBSET DOMAIN dom |->
                                IF s = {} THEN <<>>
                                ELSE LeftStep(own, far, h[s \ {Max(s)}], dom[Max(s)])]
              g == CHOOSE h : Good(h)
              V == Seq(F)
              step == [x \in V \X (1 .. n) |-> LeftStep(own, far, x[1], x[2])]
              pick == [s \in SUBSET (1 .. n) |-> Max(s)]
  <1>1. LeftSweep(axes, own, far) = g[DOMAIN dom]
    BY Zenon DEF LeftSweep
  <1>2. n \in Nat /\ DOMAIN dom = 1 .. n /\ (\A i \in 1 .. n : dom[i] = i)
    OBVIOUS
  <1>3. /\ IsFiniteSet(1 .. n) /\ {} \in SUBSET (1 .. n) /\ 1 .. n \in SUBSET (1 .. n)
        /\ \A s \in SUBSET (1 .. n) : s # {} =>
              /\ Max(s) \in s /\ Max(s) \in 1 .. n /\ pick[s] = Max(s) /\ pick[s] \in s
              /\ s \ {Max(s)} \in SUBSET (1 .. n) /\ dom[Max(s)] = Max(s)
    <2>1. /\ IsFiniteSet(1 .. n) /\ {} \in SUBSET (1 .. n)
          /\ \A s \in SUBSET (1 .. n) : s # {} => Max(s) \in s
      BY <1>2, FirstNumbers, Zenon
    <2>. HIDE DEF dom, n
    <2>. QED BY <1>2, <2>1
  <1>4. <<>> \in V
    OBVIOUS
  <1>5. \A v \in V : \A x \in 1 .. n :
           /\ step[<<v, x>>] = LeftStep(own, far, v, x)
           /\ step[<<v, x>>] \in V /\ Len(step[<<v, x>>]) = Len(v) + 1
    <2>. SUFFICES ASSUME NEW v \in V, NEW x \in 1 .. n
                  PROVE  /\ step[<<v, x>>] = LeftStep(own, far, v, x)
                         /\ LeftStep(own, far, v, x) \in V
                         /\ Len(LeftStep(own, far, v, x)) = Len(v) + 1
      OBVIOUS
    <2>1. F = [D -> Nat] /\ far \in F
      OBVIOUS
    <2>. HIDE DEF F
    <2>2. LeftStep(own, far, v, x) \in V /\ Len(LeftStep(own, far, v, x)) = Len(v) + 1
      <3>1. Longer(LeftStep(own, far, v, x), v, F)
        BY <2>1, LeftStepIs
      <3>. QED BY <3>1 DEF Longer
    <2>. HIDE DEF V
    <2>. QED BY <2>2
  <1>. HIDE DEF dom, V, step, pick, n
  <1>6. PICK h \in [SUBSET (1 .. n) -> V] : IsFold(h, 1 .. n, <<>>, step, pick)
    <2>1. Within(1 .. n, V, <<>>, step, pick)
      BY <1>3, <1>4, <1>5 DEF Within
    <2>. QED BY <2>1, FoldExists, Zenon
  <1>7. Good(h)
    <2>1. \A s \in SUBSET (1 .. n) :
             h[s] = IF s = {} THEN <<>> ELSE LeftStep(own, far, h[s \ {Max(s)}], dom[Max(s)])
      <3>. TAKE s \in SUBSET (1 .. n)
      <3>1. CASE s = {}
        BY <1>6, <3>1 DEF IsFold
      <3>2. CASE s # {}
        <4>1. h[s] = step[<<h[s \ {Max(s)}], Max(s)>>]
          BY <1>3, <1>6, <3>2 DEF IsFold
        <4>2. h[s \ {Max(s)}] \in V
          BY <1>3, <1>6, <3>2
        <4>. QED BY <1>3, <1>5, <3>2, <4>1, <4>2
      <3>. QED BY <3>1, <3>2
    <2>. QED BY <1>2, <1>6, <2>1
  <1>8. Good(g)
    BY <1>7, Zenon
  <1>. HIDE DEF g
  <1>9. /\ g[{}] = <<>>
        /\ \A s \in SUBSET (1 .. n) : s # {} => g[s] = LeftStep(own, far, g[s \ {Max(s)}], Max(s))
    <2>1. \A s \in SUBSET (1 .. n) :
             g[s] = IF s = {} THEN <<>> ELSE LeftStep(own, far, g[s \ {Max(s)}], dom[Max(s)])
      BY <1>2, <1>8
    <2>2. g[{}] = <<>>
      BY <1>3, <2>1
    <2>3. \A s \in SUBSET (1 .. n) : s # {} => g[s] = LeftStep(own, far, g[s \ {Max(s)}], Max(s))
      <3>. TAKE s \in SUBSET (1 .. n)
      <3>. HAVE s # {}
      <3>1. dom[Max(s)] = Max(s)
        BY <1>3
      <3>. QED BY <2>1, <3>1
    <2>. QED BY <2>2, <2>3
  <1>10. Extends(g, n, F, pick)
    <2>1. \A s \in SUBSET (1 .. n) : s # {} /\ g[s \ {pick[s]}] \in V =>
             g[s] \in V /\ Len(g[s]) = Len(g[s \ {pick[s]}]) + 1
      <3>. TAKE s \in SUBSET (1 .. n)
      <3>. HAVE s # {} /\ g[s \ {pick[s]}] \in V
      <3>1. pick[s] = Max(s) /\ Max(s) \in 1 .. n
        BY <1>3
      <3>2. g[s] = LeftStep(own, far, g[s \ {Max(s)}], Max(s))
        BY <1>9
      <3>3. g[s] = step[<<g[s \ {Max(s)}], Max(s)>>]
        BY <1>5, <3>1, <3>2
      <3>. QED BY <1>5, <3>1, <3>3
    <2>2. \A s \in SUBSET (1 .. n) : s # {} => pick[s] \in s
      BY <1>3
    <2>. QED BY <1>9, <2>1, <2>2, Zenon DEF Extends, V
  <1>11. g[1 .. n] \in Seq(F) /\ Len(g[1 .. n]) = n
    BY <1>2, <1>10, AsLong
  <1>. QED BY <1>1, <1>2, <1>11 DEF n, Measured

\* The least of the numbers to n that are left.
LEMMA LeastNumbers ==
    ASSUME NEW n \in Nat, NEW s \in SUBSET (1 .. n), s # {}
    PROVE  Min(s) \in s
  <1>1. s \in SUBSET Nat
    OBVIOUS
  <1>. QED BY <1>1, MinIs

\* So does the sweep from the right.
LEMMA RightSweepIs ==
    ASSUME NEW axes, Len(axes) \in Nat, DOMAIN axes = 1 .. Len(axes),
           NEW D, NEW own, NEW far \in [D -> Nat],
           NEW left, \A i \in 1 .. Len(axes) : left[i] \in [D -> Nat]
    PROVE  Measured(RightSweep(axes, own, left, far), axes, D)
  <1>. DEFINE n == Len(axes)
              F == [D -> Nat]
              dom == [i \in DOMAIN axes |-> i]
              Good(h) == h = [s \in SUBSET DOMAIN dom |->
                                IF s = {} THEN <<>>
                                ELSE RightStep(own, left, far, dom[Min(s)], h[s \ {Min(s)}])]
              g == CHOOSE h : Good(h)
              V == Seq(F)
              step == [x \in V \X (1 .. n) |-> RightStep(own, left, far, x[2], x[1])]
              pick == [s \in SUBSET (1 .. n) |-> Min(s)]
  <1>1. RightSweep(axes, own, left, far) = g[DOMAIN dom]
    BY Zenon DEF RightSweep
  <1>2. n \in Nat /\ DOMAIN dom = 1 .. n /\ (\A i \in 1 .. n : dom[i] = i)
    OBVIOUS
  <1>3. /\ IsFiniteSet(1 .. n) /\ {} \in SUBSET (1 .. n) /\ 1 .. n \in SUBSET (1 .. n)
        /\ \A s \in SUBSET (1 .. n) : s # {} =>
              /\ Min(s) \in s /\ Min(s) \in 1 .. n /\ pick[s] = Min(s) /\ pick[s] \in s
              /\ s \ {Min(s)} \in SUBSET (1 .. n) /\ dom[Min(s)] = Min(s)
    <2>1. /\ IsFiniteSet(1 .. n) /\ {} \in SUBSET (1 .. n)
          /\ \A s \in SUBSET (1 .. n) : s # {} => Min(s) \in s
      BY <1>2, FirstNumbers, LeastNumbers, Zenon
    <2>. HIDE DEF dom, n
    <2>. QED BY <1>2, <2>1
  <1>4. <<>> \in V
    OBVIOUS
  <1>5. \A v \in V : \A x \in 1 .. n :
           /\ step[<<v, x>>] = RightStep(own, left, far, x, v)
           /\ step[<<v, x>>] \in V /\ Len(step[<<v, x>>]) = Len(v) + 1
    <2>. SUFFICES ASSUME NEW v \in V, NEW x \in 1 .. n
                  PROVE  /\ step[<<v, x>>] = RightStep(own, left, far, x, v)
                         /\ RightStep(own, left, far, x, v) \in V
                         /\ Len(RightStep(own, left, far, x, v)) = Len(v) + 1
      OBVIOUS
    <2>1. F = [D -> Nat] /\ far \in F /\ left[x] \in F
      OBVIOUS
    <2>. HIDE DEF F
    <2>2. RightStep(own, left, far, x, v) \in V /\ Len(RightStep(own, left, far, x, v)) = Len(v) + 1
      <3>1. Longer(RightStep(own, left, far, x, v), v, F)
        BY <2>1, RightStepIs
      <3>. QED BY <3>1 DEF Longer
    <2>. HIDE DEF V
    <2>. QED BY <2>2
  <1>. HIDE DEF dom, V, step, pick, n
  <1>6. PICK h \in [SUBSET (1 .. n) -> V] : IsFold(h, 1 .. n, <<>>, step, pick)
    <2>1. Within(1 .. n, V, <<>>, step, pick)
      BY <1>3, <1>4, <1>5 DEF Within
    <2>. QED BY <2>1, FoldExists, Zenon
  <1>7. Good(h)
    <2>1. \A s \in SUBSET (1 .. n) :
             h[s] = IF s = {} THEN <<>> ELSE RightStep(own, left, far, dom[Min(s)], h[s \ {Min(s)}])
      <3>. TAKE s \in SUBSET (1 .. n)
      <3>1. CASE s = {}
        BY <1>6, <3>1 DEF IsFold
      <3>2. CASE s # {}
        <4>1. h[s] = step[<<h[s \ {Min(s)}], Min(s)>>]
          BY <1>3, <1>6, <3>2 DEF IsFold
        <4>2. h[s \ {Min(s)}] \in V
          BY <1>3, <1>6, <3>2
        <4>. QED BY <1>3, <1>5, <3>2, <4>1, <4>2
      <3>. QED BY <3>1, <3>2
    <2>. QED BY <1>2, <1>6, <2>1
  <1>8. Good(g)
    BY <1>7, Zenon
  <1>. HIDE DEF g
  <1>9. /\ g[{}] = <<>>
        /\ \A s \in SUBSET (1 .. n) : s # {} => g[s] = RightStep(own, left, far, Min(s), g[s \ {Min(s)}])
    <2>1. \A s \in SUBSET (1 .. n) :
             g[s] = IF s = {} THEN <<>> ELSE RightStep(own, left, far, dom[Min(s)], g[s \ {Min(s)}])
      BY <1>2, <1>8
    <2>2. g[{}] = <<>>
      BY <1>3, <2>1
    <2>3. \A s \in SUBSET (1 .. n) : s # {} => g[s] = RightStep(own, left, far, Min(s), g[s \ {Min(s)}])
      <3>. TAKE s \in SUBSET (1 .. n)
      <3>. HAVE s # {}
      <3>1. dom[Min(s)] = Min(s)
        BY <1>3
      <3>. QED BY <2>1, <3>1
    <2>. QED BY <2>2, <2>3
  <1>10. Extends(g, n, F, pick)
    <2>1. \A s \in SUBSET (1 .. n) : s # {} /\ g[s \ {pick[s]}] \in V =>
             g[s] \in V /\ Len(g[s]) = Len(g[s \ {pick[s]}]) + 1
      <3>. TAKE s \in SUBSET (1 .. n)
      <3>. HAVE s # {} /\ g[s \ {pick[s]}] \in V
      <3>1. pick[s] = Min(s) /\ Min(s) \in 1 .. n
        BY <1>3
      <3>2. g[s] = RightStep(own, left, far, Min(s), g[s \ {Min(s)}])
        BY <1>9
      <3>3. g[s] = step[<<g[s \ {Min(s)}], Min(s)>>]
        BY <1>5, <3>1, <3>2
      <3>. QED BY <1>5, <3>1, <3>3
    <2>2. \A s \in SUBSET (1 .. n) : s # {} => pick[s] \in s
      BY <1>3
    <2>. QED BY <1>9, <2>1, <2>2, Zenon DEF Extends, V
  <1>11. g[1 .. n] \in Seq(F) /\ Len(g[1 .. n]) = n
    BY <1>2, <1>10, AsLong
  <1>. QED BY <1>1, <1>2, <1>11 DEF n, Measured

\* Each column gets a distance for each bucket of the common keys.
LEMMA BucketDistancesAre ==
    ASSUME NEW axes, NEW m, Planed(axes, m), NEW keys, Keyed(keys)
    PROVE  /\ DOMAIN BucketDistances(axes, keys) = 1 .. Len(axes)
           /\ \A i \in 1 .. Len(axes) : BucketDistances(axes, keys)[i] \in [1 .. Len(keys) - 1 -> Nat]
  <1>. DEFINE n == Len(axes)
              D == 1 .. Len(keys)
              far == Far(axes, keys)
              own == Own(axes, keys)
              left == LeftSweep(axes, own, far)
              dis == RightSweep(axes, own, left, far)
  <1>1. n \in Nat /\ DOMAIN axes = 1 .. n
    BY DEF Planed
  <1>2. Len(keys) \in Nat /\ Len(keys) >= 2 /\ DOMAIN keys = D
    BY KeysSorted DEF Keyed
  <1>. HIDE DEF D
  <1>3. far \in [D -> Nat]
    BY <1>1, <1>2 DEF Far
  <1>4. Distances(axes, keys) = dis
    BY SweepsAre
  <1>. HIDE DEF far, own
  <1>5. Measured(left, axes, D)
    <2>1. Len(axes) \in Nat /\ DOMAIN axes = 1 .. Len(axes)
      BY <1>1
    <2>. HIDE DEF n
    <2>. QED BY <1>3, <2>1, LeftSweepIs, Zenon
  <1>. HIDE DEF left
  <1>6. \A i \in 1 .. n : left[i] \in [D -> Nat]
    BY <1>5, ElementOfSeq DEF Measured
  <1>7. dis \in Seq([D -> Nat]) /\ Len(dis) = n
    <2>1. Len(axes) \in Nat /\ \A i \in 1 .. Len(axes) : left[i] \in [D -> Nat]
      BY <1>1, <1>6
    <2>2. DOMAIN axes = 1 .. Len(axes)
      BY <1>1
    <2>. HIDE DEF n
    <2>3. Measured(RightSweep(axes, own, left, far), axes, D)
      BY <1>3, <2>1, <2>2, RightSweepIs
    <2>. QED BY <2>3 DEF n, Measured
  <1>. HIDE DEF dis
  <1>8. \A i \in 1 .. n : dis[i] \in [D -> Nat]
    BY <1>7, ElementOfSeq
  <1>9. \A i \in 1 .. n : ToBucketDis(dis[i]) \in [1 .. Len(keys) - 1 -> Nat]
    <2>. TAKE i \in 1 .. n
    <2>1. dis[i] \in [1 .. Len(keys) -> Nat]
      BY <1>8 DEF D
    <2>2. Len(dis[i]) = Len(keys)
      BY <1>2, <2>1, FunSeq
    <2>3. \A k \in 1 .. Len(keys) - 1 : Max({dis[i][k], dis[i][k + 1]}) \in Nat
      <3>. TAKE k \in 1 .. Len(keys) - 1
      <3>. DEFINE a == dis[i][k]
                  b == dis[i][k + 1]
      <3>1. a \in Nat /\ b \in Nat
        <4>1. k \in 1 .. Len(keys) /\ k + 1 \in 1 .. Len(keys)
          BY <1>2
        <4>. QED BY <2>1, <4>1
      <3>. HIDE DEF a, b
      <3>2. \E x \in {a, b} : \A y \in {a, b} : x >= y
        BY <3>1
      <3>3. Max({a, b}) \in {a, b}
        BY <3>2 DEF Max
      <3>4. Max({a, b}) \in Nat
        BY <3>1, <3>3
      <3>. QED BY <3>4 DEF a, b
    <2>. QED BY <2>2, <2>3 DEF ToBucketDis
  <1>. QED BY <1>1, <1>4, <1>9 DEF BucketDistances

-----------------------------------------------------------------------------
(***************************************************************************)
(* The shares of the cells (Scale): what they are divided by is not 0.     *)
(***************************************************************************)
\* A finite set of numbers that is not empty has a greatest.
LEMMA Greatest ==
    ASSUME NEW S \in SUBSET Nat, IsFiniteSet(S), S # {}
    PROVE  Max(S) \in S
  <1>. DEFINE HasMax(s) == \E x \in s : \A y \in s : y <= x
              B == {s \in SUBSET S : s # {} /\ ~HasMax(s)}
  <1>1. \A s \in B : \E x \in s : s \ {x} \in B
    <2>. SUFFICES ASSUME NEW s \in SUBSET S, s # {}, ~HasMax(s)
                  PROVE  \E x \in s : s \ {x} # {} /\ ~HasMax(s \ {x})
      OBVIOUS
    <2>1. PICK x \in s : TRUE
      OBVIOUS
    <2>2. ASSUME s \ {x} = {} PROVE FALSE
      <3>1. \A y \in s : y <= x
        BY <2>1, <2>2
      <3>. QED BY <2>1, <3>1
    <2>3. ASSUME HasMax(s \ {x}) PROVE FALSE
      <3>1. PICK z \in s \ {x} : \A y \in s \ {x} : y <= z
        BY <2>3
      <3>2. x \in Nat /\ z \in Nat /\ z \in s
        BY <2>1
      <3>3. CASE x <= z
        <4>1. \A y \in s : y <= z
          BY <3>1, <3>3
        <4>. QED BY <3>2, <4>1
      <3>4. CASE z <= x
        <4>1. \A y \in s : y <= x
          <5>. TAKE y \in s
          <5>1. y = x \/ y <= z
            BY <3>1
          <5>2. y \in Nat
            OBVIOUS
          <5>. QED BY <3>2, <3>4, <5>1, <5>2
        <4>. QED BY <2>1, <4>1
      <3>. QED BY <3>2, <3>3, <3>4
    <2>. HIDE DEF HasMax
    <2>. QED BY <2>1, <2>2, <2>3
  <1>2. {} \notin B /\ B \in SUBSET SUBSET S
    OBVIOUS
  <1>. HIDE DEF B
  <1>3. B = {}
    BY <1>1, <1>2, NoneBad
  <1>4. HasMax(S)
    BY <1>3 DEF B
  <1>5. \E x \in S : \A y \in S : x >= y
    <2>1. PICK x \in S : \A y \in S : y <= x
      BY <1>4
    <2>2. \A y \in S : x >= y
      BY <2>1
    <2>. QED BY <2>2
  <1>. QED BY <1>5 DEF Max

WeightOf(dis, cells, d) == Weight[Level(dis, cells, d) + 1]
LastKept(dis, cells) == Max({dis[k] : k \in {c \in cells : ~IsCut(dis, cells, dis[c])}})
Summand(dis, cells, k) ==
    WeightOf(dis, cells, IF IsCut(dis, cells, dis[k]) THEN LastKept(dis, cells) ELSE dis[k])

\* Cells of a bucket, each with a distance.
Cellular(dis, cells) == IsFiniteSet(cells) /\ cells # {} /\ \A k \in cells : dis[k] \in Nat

\* A distance that is not cut has a weight.
LEMMA KeptWeighs ==
    ASSUME NEW dis, NEW cells, Cellular(dis, cells), NEW d \in Nat, ~IsCut(dis, cells, d)
    PROVE  WeightOf(dis, cells, d) \in Nat \ {0}
  <1>. DEFINE near == Nearer(dis, cells, d)
              image == {dis[k] : k \in near}
              f == [k \in near |-> dis[k]]
  <1>1. near \in SUBSET cells
    BY DEF Nearer
  <1>2. IsFiniteSet(near)
    BY <1>1, FS_Subset DEF Cellular
  <1>. HIDE DEF near
  <1>3. f \in Surjection(near, image)
    BY DEF Surjection
  <1>4. IsFiniteSet(image)
    BY <1>2, <1>3, FS_Surjection
  <1>5. Cardinality(image) \in Nat
    BY <1>4, FS_CardinalityType
  <1>6. Level(dis, cells, d) \in Nat
    BY <1>5 DEF Level, near
  <1>7. Weight \in Seq(Nat \ {0}) /\ Len(Weight) \in Nat
    BY SplitAssumption
  <1>8. Level(dis, cells, d) < Len(Weight)
    BY <1>6, <1>7 DEF IsCut, SplitLevel
  <1>9. Level(dis, cells, d) + 1 \in 1 .. Len(Weight)
    BY <1>6, <1>7, <1>8
  <1>10. Weight[Level(dis, cells, d) + 1] \in Nat \ {0}
    BY <1>7, <1>9, ElementOfSeq
  <1>. QED BY <1>10 DEF WeightOf

\* The nearest cells are never cut, so that there is a last level that is kept.
LEMMA LastKeptIs ==
    ASSUME NEW dis, NEW cells, Cellular(dis, cells)
    PROVE  LastKept(dis, cells) \in Nat /\ ~IsCut(dis, cells, LastKept(dis, cells))
  <1>. DEFINE all == {dis[k] : k \in cells}
              kept == {c \in cells : ~IsCut(dis, cells, dis[c])}
              image == {dis[k] : k \in kept}
              f == [k \in kept |-> dis[k]]
  <1>1. all \in SUBSET Nat /\ all # {}
    BY DEF Cellular
  <1>2. PICK nearest \in all : \A d \in all : nearest <= d
    BY <1>1, Least
  <1>3. PICK k \in cells : dis[k] = nearest
    BY <1>2
  <1>4. Nearer(dis, cells, nearest) = {}
    <2>1. \A c \in cells : ~(dis[c] < nearest)
      <3>. TAKE c \in cells
      <3>1. dis[c] \in all
        OBVIOUS
      <3>2. nearest <= dis[c] /\ nearest \in Nat /\ dis[c] \in Nat
        BY <1>1, <1>2, <3>1
      <3>. QED BY <3>2
    <2>. QED BY <2>1 DEF Nearer
  <1>5. ~IsCut(dis, cells, nearest)
    <2>1. {dis[c] : c \in {}} = {}
      OBVIOUS
    <2>2. Cardinality({}) = 0
      BY FS_EmptySet
    <2>3. Level(dis, cells, nearest) = 0 /\ Cardinality(Nearer(dis, cells, nearest)) = 0
      BY <1>4, <2>1, <2>2 DEF Level
    <2>4. SplitLevel >= 1 /\ SplitLevel \in Nat /\ SplitCount \in Nat /\ SplitCount >= 1
      <3>1. Weight \in Seq(Nat \ {0}) /\ Weight # <<>> /\ SplitCount \in Nat \ {0}
        BY SplitAssumption
      <3>2. Len(Weight) \in Nat /\ Len(Weight) # 0
        BY <3>1, EmptySeq
      <3>. QED BY <3>1, <3>2 DEF SplitLevel
    <2>. QED BY <2>3, <2>4 DEF IsCut
  <1>6. k \in kept
    BY <1>3, <1>5
  <1>7. image \in SUBSET Nat /\ image # {}
    BY <1>1, <1>6
  <1>8. IsFiniteSet(image)
    <2>1. IsFiniteSet(kept)
      BY FS_Subset DEF Cellular
    <2>. HIDE DEF kept
    <2>2. f \in Surjection(kept, image)
      BY DEF Surjection
    <2>. QED BY <2>1, <2>2, FS_Surjection
  <1>9. Max(image) \in image
    BY <1>7, <1>8, Greatest
  <1>10. LastKept(dis, cells) = Max(image)
    BY DEF LastKept
  <1>11. PICK c \in kept : dis[c] = Max(image)
    BY <1>9
  <1>. QED BY <1>7, <1>9, <1>10, <1>11

\* So each cell adds a weight.
LEMMA SummandIs ==
    ASSUME NEW dis, NEW cells, Cellular(dis, cells), NEW k \in cells
    PROVE  Summand(dis, cells, k) \in Nat \ {0}
  <1>. DEFINE d == IF IsCut(dis, cells, dis[k]) THEN LastKept(dis, cells) ELSE dis[k]
  <1>1. d \in Nat /\ ~IsCut(dis, cells, d)
    BY LastKeptIs DEF Cellular
  <1>. HIDE DEF d
  <1>2. WeightOf(dis, cells, d) \in Nat \ {0}
    BY <1>1, KeptWeighs
  <1>. QED BY <1>2 DEF Summand, d

\* The shares.
LEMMA ScaleIs ==
    ASSUME NEW dis, NEW cells, Cellular(dis, cells), NEW k \in cells
    PROVE  Scale(dis, cells)[k].part \in Nat /\ Scale(dis, cells)[k].whole \in Nat \ {0}
  <1>. DEFINE Good(h) == h = [s \in SUBSET cells |->
                                IF s = {} THEN 0
                                ELSE Summand(dis, cells, CHOOSE x \in s : TRUE) + h[s \ {CHOOSE x \in s : TRUE}]]
              g == CHOOSE h : Good(h)
              whole == g[cells]
              part == IF IsCut(dis, cells, dis[k]) THEN 0 ELSE WeightOf(dis, cells, dis[k])
              step == [x \in Nat \X cells |-> Summand(dis, cells, x[2]) + x[1]]
              pick == [s \in SUBSET cells |-> CHOOSE x \in s : TRUE]
  <1>1. Scale(dis, cells)[k] = [part |-> part, whole |-> whole]
    <2>1. Scale(dis, cells) = [c \in cells |->
             [part |-> IF IsCut(dis, cells, dis[c]) THEN 0 ELSE WeightOf(dis, cells, dis[c]),
              whole |-> whole]]
      BY Zenon DEF Scale, MapThenSumSet, MapThenFoldSet, Summand, WeightOf, LastKept
    <2>. HIDE DEF whole
    <2>. QED BY <2>1
  <1>2. part \in Nat
    BY KeptWeighs DEF Cellular
  <1>3. /\ {} \in SUBSET cells /\ cells \in SUBSET cells
        /\ \A s \in SUBSET cells : s # {} =>
              /\ pick[s] = (CHOOSE x \in s : TRUE) /\ pick[s] \in s /\ pick[s] \in cells
              /\ s \ {pick[s]} \in SUBSET cells
    OBVIOUS
  <1>4. \A v \in Nat : \A x \in cells :
           /\ step[<<v, x>>] = Summand(dis, cells, x) + v
           /\ step[<<v, x>>] \in Nat
    <2>. SUFFICES ASSUME NEW v \in Nat, NEW x \in cells
                  PROVE  /\ step[<<v, x>>] = Summand(dis, cells, x) + v
                         /\ Summand(dis, cells, x) + v \in Nat
      OBVIOUS
    <2>1. Summand(dis, cells, x) \in Nat \ {0}
      BY SummandIs
    <2>. QED BY <2>1
  <1>. HIDE DEF step, pick, part
  <1>5. Within(cells, Nat, 0, step, pick)
    BY <1>3, <1>4 DEF Within, Cellular
  <1>6. PICK h \in [SUBSET cells -> Nat] : IsFold(h, cells, 0, step, pick)
    BY <1>5, FoldExists, Zenon DEF Cellular
  <1>7. Good(h)
    <2>1. \A s \in SUBSET cells :
             h[s] = IF s = {} THEN 0
                    ELSE Summand(dis, cells, CHOOSE x \in s : TRUE) + h[s \ {CHOOSE x \in s : TRUE}]
      <3>. TAKE s \in SUBSET cells
      <3>1. CASE s = {}
        BY <1>6, <3>1 DEF IsFold
      <3>2. CASE s # {}
        <4>1. h[s] = step[<<h[s \ {pick[s]}], pick[s]>>]
          BY <1>6, <3>2 DEF IsFold
        <4>2. h[s \ {pick[s]}] \in Nat /\ pick[s] \in cells /\ pick[s] = (CHOOSE x \in s : TRUE)
          BY <1>3, <1>6, <3>2
        <4>. QED BY <1>4, <3>2, <4>1, <4>2
      <3>. QED BY <3>1, <3>2
    <2>. QED BY <1>6, <2>1
  <1>8. Good(g)
    BY <1>7, Zenon
  <1>. HIDE DEF g
  <1>9. /\ g[{}] = 0
        /\ \A s \in SUBSET cells : s # {} => g[s] = Summand(dis, cells, pick[s]) + g[s \ {pick[s]}]
    <2>1. \A s \in SUBSET cells :
             g[s] = IF s = {} THEN 0
                    ELSE Summand(dis, cells, CHOOSE x \in s : TRUE) + g[s \ {CHOOSE x \in s : TRUE}]
      BY <1>8
    <2>2. g[{}] = 0
      BY <1>3, <2>1
    <2>3. \A s \in SUBSET cells : s # {} => g[s] = Summand(dis, cells, pick[s]) + g[s \ {pick[s]}]
      <3>. TAKE s \in SUBSET cells
      <3>. HAVE s # {}
      <3>1. pick[s] = (CHOOSE x \in s : TRUE)
        BY <1>3
      <3>. QED BY <2>1, <3>1
    <2>. QED BY <2>2, <2>3
  <1>10. \A s \in SUBSET cells : g[s] \in Nat
    <2>1. \A s \in SUBSET cells : s # {} /\ g[s \ {pick[s]}] \in Nat =>
             g[s] = step[<<g[s \ {pick[s]}], pick[s]>>]
      BY <1>3, <1>4, <1>9
    <2>2. Follows(g, cells, Nat, 0, step, pick)
      BY <1>9, <2>1, Zenon DEF Follows
    <2>. QED BY <1>5, <2>2, FoldStays, Zenon DEF Cellular
  <1>11. whole \in Nat \ {0}
    <2>1. cells # {} /\ cells \in SUBSET cells
      BY DEF Cellular
    <2>2. /\ g[cells] = Summand(dis, cells, pick[cells]) + g[cells \ {pick[cells]}]
          /\ pick[cells] \in cells
      BY <1>3, <1>9, <2>1
    <2>3. Summand(dis, cells, pick[cells]) \in Nat \ {0}
      BY <2>2, SummandIs
    <2>4. g[cells \ {pick[cells]}] \in Nat
      BY <1>3, <1>10, <2>1
    <2>. QED BY <2>2, <2>3, <2>4
  <1>. HIDE DEF whole
  <1>. QED BY <1>1, <1>2, <1>11

-----------------------------------------------------------------------------
(***************************************************************************)
(* Split, AddColumns and Compact.                                          *)
(***************************************************************************)
\* For each cell, the bucket it belongs to and its share in it.
Shares(scale, keys) ==
    \A k \in DOMAIN scale : /\ scale[k].bucket \in 1 .. Len(keys) - 1
                            /\ scale[k].part \in Nat /\ scale[k].whole \in Nat \ {0}

\* GenerateScale gives each cell between the first key of a part and the last its share.
LEMMA GenerateScaleIs ==
    ASSUME NEW axis, Keyed(axis.keys), NEW keys, Keyed(keys), Embedded(axis.keys, keys),
           NEW dis \in [1 .. Len(keys) - 1 -> Nat]
    PROVE  Shares(GenerateScale(axis, keys, dis), axis.keys)
  <1>. DEFINE n == Len(axis.keys)
              L == Len(keys)
              pos == Position(axis.keys, keys)
              scales == [b \in 1 .. (Len(pos) - 1) |-> Scale(dis, Cells(pos, b))]
              BucketOf(k) == CHOOSE b \in DOMAIN scales : k \in Cells(pos, b)
              scale == [k \in pos[1] .. (Last(pos) - 1) |->
                          [bucket |-> BucketOf(k), part |-> scales[BucketOf(k)][k].part,
                           whole |-> scales[BucketOf(k)][k].whole]]
  <1>1. n \in Nat /\ n >= 2 /\ L \in Nat
    BY KeysSorted
  <1>2. Placed(axis.keys, keys, pos, n)
    BY PositionIs
  <1>3. GenerateScale(axis, keys, dis) = scale
    BY Zenon DEF GenerateScale
  <1>. HIDE DEF n, L, pos
  <1>4. /\ Len(pos) = n
        /\ \A p \in 1 .. n : pos[p] \in 1 .. L
        /\ \A p \in 2 .. n : pos[p - 1] < pos[p]
    BY <1>2 DEF Placed, L
  <1>5. Last(pos) = pos[n] /\ DOMAIN scales = 1 .. n - 1
    BY <1>4 DEF Last
  <1>6. \A b \in 1 .. n - 1 : /\ pos[b] \in 1 .. L /\ pos[b + 1] \in 1 .. L /\ pos[b] < pos[b + 1]
                              /\ Cellular(dis, Cells(pos, b))
    <2>. TAKE b \in 1 .. n - 1
    <2>1. b \in 1 .. n /\ b + 1 \in 2 .. n /\ b + 1 \in 1 .. n /\ (b + 1) - 1 = b
      BY <1>1
    <2>2. pos[b] \in 1 .. L /\ pos[b + 1] \in 1 .. L /\ pos[b] < pos[b + 1]
      BY <1>4, <2>1
    <2>3. pos[b] \in Int /\ pos[b + 1] - 1 \in Int /\ pos[b] <= pos[b + 1] - 1
      BY <2>2
    <2>4. IsFiniteSet(Cells(pos, b))
      BY <2>3, FS_Interval DEF Cells
    <2>5. Cells(pos, b) # {}
      BY <2>3 DEF Cells
    <2>6. \A k \in Cells(pos, b) : dis[k] \in Nat
      <3>. SUFFICES ASSUME NEW k \in pos[b] .. pos[b + 1] - 1 PROVE dis[k] \in Nat
        BY DEF Cells
      <3>1. k \in 1 .. L - 1
        BY <1>1, <2>2
      <3>. QED BY <3>1 DEF L
    <2>. QED BY <2>2, <2>4, <2>5, <2>6 DEF Cellular
  <1>7. \A k \in pos[1] .. pos[n] - 1 : \E b \in 1 .. n - 1 : k \in Cells(pos, b)
    <2>. TAKE k \in pos[1] .. pos[n] - 1
    <2>. DEFINE T == {b \in 1 .. n - 1 : k < pos[b + 1]}
    <2>1. pos[1] \in Nat /\ pos[n] \in Nat /\ k \in Nat
      <3>1. 1 \in 1 .. n /\ n \in 1 .. n
        BY <1>1
      <3>2. pos[1] \in 1 .. L /\ pos[n] \in 1 .. L
        BY <1>4, <3>1
      <3>. QED BY <3>2
    <2>2. n - 1 \in T
      <3>1. n - 1 \in 1 .. n - 1 /\ (n - 1) + 1 = n
        BY <1>1
      <3>2. k < pos[n]
        BY <2>1
      <3>. QED BY <3>1, <3>2
    <2>3. T \in SUBSET Nat /\ T # {}
      BY <2>2
    <2>4. PICK b \in T : \A c \in T : b <= c
      BY <2>3, Least
    <2>5. b \in 1 .. n - 1 /\ k < pos[b + 1]
      BY <2>4
    <2>6. pos[b] <= k
      <3>1. CASE b = 1
        BY <2>1, <3>1
      <3>2. CASE b # 1
        <4>1. b - 1 \in 1 .. n - 1 /\ (b - 1) + 1 = b /\ ~(b <= b - 1)
          BY <1>1, <2>5, <3>2
        <4>2. b - 1 \notin T
          BY <2>4, <4>1
        <4>3. ~(k < pos[b])
          BY <4>1, <4>2
        <4>4. pos[b] \in Nat
          BY <1>6, <2>5
        <4>. QED BY <2>1, <4>3, <4>4
      <3>. QED BY <3>1, <3>2
    <2>7. k \in pos[b] .. pos[b + 1] - 1
      <3>1. pos[b] \in Nat /\ pos[b + 1] \in Nat
        BY <1>6, <2>5
      <3>. QED BY <2>1, <2>5, <2>6, <3>1
    <2>. QED BY <2>5, <2>7 DEF Cells
  <1>8. \A k \in pos[1] .. pos[n] - 1 : BucketOf(k) \in 1 .. n - 1 /\ k \in Cells(pos, BucketOf(k))
    <2>. HIDE DEF scales
    <2>. QED BY <1>5, <1>7
  <1>. HIDE DEF BucketOf
  <1>9. \A k \in pos[1] .. pos[n] - 1 :
          /\ scales[BucketOf(k)][k].part \in Nat
          /\ scales[BucketOf(k)][k].whole \in Nat \ {0}
    <2>. TAKE k \in pos[1] .. pos[n] - 1
    <2>1. BucketOf(k) \in 1 .. n - 1 /\ k \in Cells(pos, BucketOf(k))
      BY <1>8
    <2>2. scales[BucketOf(k)] = Scale(dis, Cells(pos, BucketOf(k)))
      BY <1>4, <2>1
    <2>3. Cellular(dis, Cells(pos, BucketOf(k)))
      BY <1>6, <2>1
    <2>. HIDE DEF scales
    <2>. QED BY <2>1, <2>2, <2>3, ScaleIs
  <1>. HIDE DEF scales
  <1>10. Shares(scale, axis.keys)
    BY <1>5, <1>8, <1>9 DEF Shares, n
  <1>. QED BY <1>3, <1>10

\* A column that is split gives each cell a number.
LEMMA SplitIs ==
    ASSUME NEW c, Chunked(c), NEW keys, Len(keys) \in Nat, NEW scale, Shares(scale, c.keys)
    PROVE  Split(c, keys, scale) \in [1 .. Len(keys) - 1 -> Nat]
  <1>1. CASE Len(c.keys) = Len(keys)
    BY <1>1 DEF Split, Chunked
  <1>2. CASE Len(c.keys) # Len(keys)
    <2>. DEFINE Cell(k) == IF k \in DOMAIN scale
                           THEN (c.values[scale[k].bucket] * scale[k].part) \div scale[k].whole ELSE 0
    <2>1. \A a, b \in Nat : a * b \in Nat
      OBVIOUS
    <2>2. \A a \in Nat : \A b \in Nat \ {0} : a \div b \in Nat
      OBVIOUS
    <2>3. \A k \in 1 .. Len(keys) - 1 : Cell(k) \in Nat
      <3>. TAKE k \in 1 .. Len(keys) - 1
      <3>1. CASE k \in DOMAIN scale
        <4>1. /\ scale[k].bucket \in 1 .. Len(c.keys) - 1
              /\ scale[k].part \in Nat /\ scale[k].whole \in Nat \ {0}
          BY <3>1 DEF Shares
        <4>2. c.values[scale[k].bucket] \in Nat
          BY <4>1, ChunkIs
        <4>3. c.values[scale[k].bucket] * scale[k].part \in Nat
          BY <2>1, <4>1, <4>2, Zenon
        <4>4. (c.values[scale[k].bucket] * scale[k].part) \div scale[k].whole \in Nat
          BY <2>2, <4>1, <4>3, Zenon
        <4>. QED BY <3>1, <4>4
      <3>2. CASE k \notin DOMAIN scale
        BY <3>2
      <3>. QED BY <3>1, <3>2
    <2>4. Split(c, keys, scale) = [k \in 1 .. Len(keys) - 1 |-> Cell(k)]
      BY <1>2 DEF Split
    <2>. HIDE DEF Cell
    <2>. QED BY <2>3, <2>4
  <1>. QED BY <1>1, <1>2

\* What is split for each column.
Splittable(chunks, scales) ==
    /\ Len(chunks) \in Nat /\ DOMAIN chunks = 1 .. Len(chunks)
    /\ \A i \in 1 .. Len(chunks) : Chunked(chunks[i]) /\ Shares(scales[i], chunks[i].keys)

AddStep(chunks, keys, scales, sum, i) ==
    LET added == Split(chunks[i], keys, scales[i])
    IN  [k \in DOMAIN sum |-> sum[k] + added[k]]

\* A column is added.
LEMMA AddStepIs ==
    ASSUME NEW chunks, NEW keys, Len(keys) \in Nat, NEW scales, Splittable(chunks, scales),
           NEW sum \in [1 .. Len(keys) - 1 -> Nat], NEW i \in 1 .. Len(chunks)
    PROVE  AddStep(chunks, keys, scales, sum, i) \in [1 .. Len(keys) - 1 -> Nat]
  <1>. DEFINE added == Split(chunks[i], keys, scales[i])
  <1>1. added \in [1 .. Len(keys) - 1 -> Nat]
    BY SplitIs DEF Splittable
  <1>. HIDE DEF added
  <1>2. \A k \in 1 .. Len(keys) - 1 : sum[k] + added[k] \in Nat
    <2>. TAKE k \in 1 .. Len(keys) - 1
    <2>1. sum[k] \in Nat /\ added[k] \in Nat
      BY <1>1
    <2>. QED BY <2>1
  <1>3. AddStep(chunks, keys, scales, sum, i) = [k \in 1 .. Len(keys) - 1 |-> sum[k] + added[k]]
    BY DEF AddStep, added
  <1>. QED BY <1>2, <1>3

\* The sum of the columns has a number for each cell.
LEMMA AddColumnsIs ==
    ASSUME NEW chunks, NEW keys, Len(keys) \in Nat, NEW scales, Splittable(chunks, scales)
    PROVE  AddColumns(chunks, keys, scales) \in [1 .. Len(keys) - 1 -> Nat]
  <1>. DEFINE n == Len(chunks)
              dom == [i \in DOMAIN chunks |-> i]
              none == ZeroChunk(keys).values
              Good(h) == h = [s \in SUBSET DOMAIN dom |->
                                IF s = {} THEN none
                                ELSE AddStep(chunks, keys, scales, h[s \ {Max(s)}], dom[Max(s)])]
              g == CHOOSE h : Good(h)
              V == [1 .. Len(keys) - 1 -> Nat]
              step == [x \in V \X (1 .. n) |-> AddStep(chunks, keys, scales, x[1], x[2])]
              pick == [s \in SUBSET (1 .. n) |-> Max(s)]
  <1>1. AddColumns(chunks, keys, scales) = g[DOMAIN dom]
    BY Zenon DEF AddColumns, FoldLeftDomain, FoldLeft, MapThenFoldSet, AddStep
  <1>2. n \in Nat /\ DOMAIN dom = 1 .. n /\ (\A i \in 1 .. n : dom[i] = i)
    BY DEF Splittable
  <1>3. /\ IsFiniteSet(1 .. n) /\ {} \in SUBSET (1 .. n) /\ 1 .. n \in SUBSET (1 .. n)
        /\ \A s \in SUBSET (1 .. n) : s # {} =>
              /\ Max(s) \in s /\ Max(s) \in 1 .. n /\ pick[s] = Max(s) /\ pick[s] \in s
              /\ s \ {Max(s)} \in SUBSET (1 .. n) /\ dom[Max(s)] = Max(s)
    <2>1. /\ IsFiniteSet(1 .. n) /\ {} \in SUBSET (1 .. n)
          /\ \A s \in SUBSET (1 .. n) : s # {} => Max(s) \in s
      BY <1>2, FirstNumbers, Zenon
    <2>. HIDE DEF dom, n
    <2>. QED BY <1>2, <2>1
  <1>4. none \in V
    BY DEF ZeroChunk, Chunk
  <1>5. \A v \in V : \A x \in 1 .. n :
           /\ step[<<v, x>>] = AddStep(chunks, keys, scales, v, x)
           /\ step[<<v, x>>] \in V
    <2>. SUFFICES ASSUME NEW v \in V, NEW x \in 1 .. n
                  PROVE  /\ step[<<v, x>>] = AddStep(chunks, keys, scales, v, x)
                         /\ AddStep(chunks, keys, scales, v, x) \in V
      OBVIOUS
    <2>. QED BY AddStepIs
  <1>. HIDE DEF dom, none, V, step, pick, n
  <1>6. PICK h \in [SUBSET (1 .. n) -> V] : IsFold(h, 1 .. n, none, step, pick)
    <2>1. Within(1 .. n, V, none, step, pick)
      BY <1>3, <1>4, <1>5 DEF Within
    <2>. QED BY <2>1, FoldExists, Zenon
  <1>7. Good(h)
    <2>1. \A s \in SUBSET (1 .. n) :
             h[s] = IF s = {} THEN none
                    ELSE AddStep(chunks, keys, scales, h[s \ {Max(s)}], dom[Max(s)])
      <3>. TAKE s \in SUBSET (1 .. n)
      <3>1. CASE s = {}
        BY <1>6, <3>1 DEF IsFold
      <3>2. CASE s # {}
        <4>1. h[s] = step[<<h[s \ {Max(s)}], Max(s)>>]
          BY <1>3, <1>6, <3>2 DEF IsFold
        <4>2. h[s \ {Max(s)}] \in V
          BY <1>3, <1>6, <3>2
        <4>. QED BY <1>3, <1>5, <3>2, <4>1, <4>2
      <3>. QED BY <3>1, <3>2
    <2>. QED BY <1>2, <1>6, <2>1
  <1>8. Good(g)
    BY <1>7, Zenon
  <1>. HIDE DEF g
  <1>9. /\ g[{}] = none
        /\ \A s \in SUBSET (1 .. n) : s # {} =>
              g[s] = AddStep(chunks, keys, scales, g[s \ {Max(s)}], Max(s))
    <2>1. \A s \in SUBSET (1 .. n) :
             g[s] = IF s = {} THEN none
                    ELSE AddStep(chunks, keys, scales, g[s \ {Max(s)}], dom[Max(s)])
      BY <1>2, <1>8
    <2>2. g[{}] = none
      BY <1>3, <2>1
    <2>3. \A s \in SUBSET (1 .. n) : s # {} =>
              g[s] = AddStep(chunks, keys, scales, g[s \ {Max(s)}], Max(s))
      <3>. TAKE s \in SUBSET (1 .. n)
      <3>. HAVE s # {}
      <3>1. dom[Max(s)] = Max(s)
        BY <1>3
      <3>. QED BY <2>1, <3>1
    <2>. QED BY <2>2, <2>3
  <1>10. \A s \in SUBSET (1 .. n) : g[s] \in V
    <2>1. \A s \in SUBSET (1 .. n) : s # {} /\ g[s \ {pick[s]}] \in V =>
             g[s] = step[<<g[s \ {pick[s]}], pick[s]>>]
      <3>. TAKE s \in SUBSET (1 .. n)
      <3>. HAVE s # {} /\ g[s \ {pick[s]}] \in V
      <3>1. pick[s] = Max(s) /\ Max(s) \in 1 .. n
        BY <1>3
      <3>2. g[s] = AddStep(chunks, keys, scales, g[s \ {Max(s)}], Max(s))
        BY <1>9
      <3>3. step[<<g[s \ {Max(s)}], Max(s)>>] = AddStep(chunks, keys, scales, g[s \ {Max(s)}], Max(s))
        BY <1>5, <3>1
      <3>. QED BY <3>1, <3>2, <3>3
    <2>2. Within(1 .. n, V, none, step, pick)
      BY <1>3, <1>4, <1>5 DEF Within
    <2>3. Follows(g, 1 .. n, V, none, step, pick)
      BY <1>9, <2>1, Zenon DEF Follows
    <2>. QED BY <2>2, <2>3, FoldStays, Zenon
  <1>. QED BY <1>1, <1>2, <1>3, <1>10 DEF V

\* A value for each number to n.
LEMMA LenIs ==
    ASSUME NEW n \in Nat, NEW f, DOMAIN f = 1 .. n
    PROVE  Len(f) = n
  OBVIOUS

\* Each column of a plane can be brought to its common keys.
LEMMA ColumnsSplittable ==
    ASSUME NEW axes, NEW m \in Nat, Planed(axes, m), NEW keys, Keyed(keys),
           \A i \in 1 .. Len(axes) : Embedded(axes[i].keys, keys), NEW t \in 1 .. m
    PROVE  Splittable(Columns(axes, t), Scales(axes, keys, BucketDistances(axes, keys)))
  <1>. DEFINE n == Len(axes)
              dis == BucketDistances(axes, keys)
              scales == Scales(axes, keys, dis)
              chunks == Columns(axes, t)
  <1>1. n \in Nat /\ DOMAIN axes = 1 .. n /\ \A i \in 1 .. n : Formed(axes[i], m)
    BY DEF Planed
  <1>2. \A i \in 1 .. n : dis[i] \in [1 .. Len(keys) - 1 -> Nat]
    BY BucketDistancesAre
  <1>. HIDE DEF dis
  <1>3. \A i \in 1 .. n : Keyed(axes[i].keys) /\ Chunked(Column(axes[i], t))
    BY <1>1, FormedIs
  <1>4. \A i \in 1 .. n : Shares(scales[i], axes[i].keys)
    <2>. TAKE i \in 1 .. n
    <2>1. scales[i] = GenerateScale(axes[i], keys, dis[i])
      BY <1>1 DEF Scales
    <2>2. Shares(GenerateScale(axes[i], keys, dis[i]), axes[i].keys)
      BY <1>2, <1>3, GenerateScaleIs
    <2>. QED BY <2>1, <2>2
  <1>. HIDE DEF scales
  <1>5. DOMAIN chunks = 1 .. n /\ \A i \in 1 .. n : chunks[i] = Column(axes[i], t)
    BY <1>1 DEF Columns
  <1>6. \A i \in 1 .. n : Column(axes[i], t).keys = axes[i].keys
    BY DEF Column, Chunk
  <1>. HIDE DEF chunks
  <1>7. Len(chunks) = n
    BY <1>1, <1>5, LenIs
  <1>8. Splittable(chunks, scales)
    BY <1>1, <1>3, <1>4, <1>5, <1>6, <1>7 DEF Splittable
  <1>. QED BY <1>8 DEF chunks, scales, dis

\* Plane.Compact: one axis, on the common keys, with the columns the axes had.
LEMMA CompactFormed ==
    ASSUME NEW axes, NEW m \in Nat, Planed(axes, m)
    PROVE  Formed(Compact(axes), m)
  <1>. DEFINE keys == CompactKeys(axes)
              scales == Scales(axes, keys, BucketDistances(axes, keys))
              columns == [t \in DOMAIN axes[1].columns |-> AddColumns(Columns(axes, t), keys, scales)]
  <1>1. Keyed(keys) /\ \A i \in 1 .. Len(axes) : Embedded(axes[i].keys, keys)
    BY CompactKeysIs
  <1>2. Compact(axes) = Axis(keys, columns)
    BY DEF Compact
  <1>3. DOMAIN axes[1].columns = 1 .. m
    <2>1. Formed(axes[1], m)
      BY DEF Planed
    <2>. QED BY <2>1, FormedIs
  <1>. HIDE DEF keys
  <1>4. \A t \in 1 .. m : Splittable(Columns(axes, t), scales)
    BY <1>1, ColumnsSplittable
  <1>. HIDE DEF scales
  <1>5. \A t \in 1 .. m : AddColumns(Columns(axes, t), keys, scales) \in [1 .. Len(keys) - 1 -> Nat]
    <2>1. Len(keys) \in Nat
      BY <1>1, KeysSorted
    <2>. QED BY <1>4, <2>1, AddColumnsIs
  <1>6. columns \in [1 .. m -> [1 .. Len(keys) - 1 -> Nat]]
    BY <1>3, <1>5
  <1>. HIDE DEF columns
  <1>7. Formed(Axis(keys, columns), m)
    BY <1>1, <1>6, AxisFormed, Zenon
  <1>. QED BY <1>2, <1>7

\* The axis that the oldest ones of a full layer become.
LEMMA MergedFormed ==
    ASSUME NEW axes, Planed(axes, 2)
    PROVE  Formed(MergeAxes(axes), 2)
  <1>1. Formed(Compact(axes), 2)
    BY CompactFormed
  <1>2. Formed(CompactedAxis(axes), 3)
    <2>1. "integration" \in Tags
      BY DEF Tags
    <2>. QED BY <1>1, <2>1, IntoResponseFormed DEF CompactedAxis
  <1>3. Formed(IntoStorageAxis(CompactedAxis(axes)), 2)
    BY <1>2, IntoStorageFormed
  <1>4. Len(axes) \in Nat \ {0}
    BY DEF Planed
  <1>. QED BY <1>3, <1>4, ShrinkFormed DEF MergeAxes

-----------------------------------------------------------------------------
(***************************************************************************)
(* The layers and the request.                                             *)
(***************************************************************************)
\* What a layer holds.
StoredAxes == {axis \in [keys : Seq(Nat), columns : Seq(Seq(Nat))] : Formed(axis, 2)}

Asked(r) == r.from \in Nat /\ r.to \in Nat /\ CheckRange(r.from, r.to)

\* The axes of a plane, each of which meets the range asked for.
Narrowed(r) ==
    Planed(r.plane, 3) /\ \A i \in 1 .. Len(r.plane) : Intersects(r.plane[i].keys, r.from, r.to)

\* Keys that meet the range too.
Meeting(r) == Keyed(r.keys) /\ Intersects(r.keys, r.from, r.to)

\* They hold those of each axis.
Common(r) == \A i \in 1 .. Len(r.plane) : Embedded(r.plane[i].keys, r.keys)

\* What a request has at each stage: no check has failed.
Served(r) ==
    \/ r.stage = "none"
    \/ r.stage = "plane" /\ Asked(r) /\ Narrowed(r)
    \/ /\ r.stage = "distances" /\ Asked(r) /\ Narrowed(r) /\ Meeting(r) /\ Common(r)
       /\ r.dis = BucketDistances(r.plane, r.keys)
    \/ /\ r.stage = "scaled" /\ Asked(r) /\ Narrowed(r) /\ Meeting(r) /\ Common(r)
       /\ r.scales = Scales(r.plane, r.keys, BucketDistances(r.plane, r.keys))
    \/ r.stage = "matrix" /\ Asked(r) /\ Meeting(r)
    \/ r.stage = "answer" /\ \A b \in 1 .. Len(r.keys) - 1 : Overlaps(r.keys, b, r.from, r.to)

HeatmapInvariant == fine \in Seq(StoredAxes) /\ coarse \in Seq(StoredAxes) /\ Served(request)

\* An axis with two columns that is put together can be stored.
LEMMA Storable ==
    ASSUME NEW keys, NEW columns, Formed(Axis(keys, columns), 2)
    PROVE  Axis(keys, columns) \in StoredAxes
  <1>1. keys \in Seq(Nat) /\ columns \in [1 .. 2 -> [1 .. Len(keys) - 1 -> Nat]]
    BY DEF Formed, Axis, Keyed
  <1>2. Len(keys) - 1 \in Nat
    <2>1. Len(keys) \in Nat /\ Len(keys) >= 2
      BY <1>1 DEF Formed, Axis, Keyed
    <2>. QED BY <2>1
  <1>3. \A t \in 1 .. 2 : columns[t] \in Seq(Nat)
    <2>. TAKE t \in 1 .. 2
    <2>1. columns[t] \in [1 .. Len(keys) - 1 -> Nat]
      BY <1>1
    <2>. QED BY <1>2, <2>1, FunSeq
  <1>4. columns \in [1 .. 2 -> Seq(Nat)]
    BY <1>1, <1>3
  <1>5. columns \in Seq(Seq(Nat))
    BY <1>4, FunSeq
  <1>6. Axis(keys, columns) \in [keys : Seq(Nat), columns : Seq(Seq(Nat))]
    BY <1>1, <1>5 DEF Axis
  <1>. QED BY <1>6 DEF StoredAxes

\* Some stored axes make a plane.
LEMMA StoredPlaned ==
    ASSUME NEW axes \in Seq(StoredAxes), axes # <<>>
    PROVE  Planed(axes, 2)
  <1>1. Len(axes) \in Nat /\ DOMAIN axes = 1 .. Len(axes) /\ Len(axes) >= 1
    OBVIOUS
  <1>2. \A i \in 1 .. Len(axes) : axes[i] \in StoredAxes
    BY ElementOfSeq
  <1>3. \A i \in 1 .. Len(axes) : Formed(axes[i], 2)
    BY <1>2 DEF StoredAxes
  <1>. QED BY <1>1, <1>3 DEF Planed

\* A sample keeps the layers well-formed.
LEMMA SampleStored ==
    ASSUME HeatmapInvariant, NEW regions \in Samples, Sample(regions)
    PROVE  HeatmapInvariant'
  <1>1. fine \in Seq(StoredAxes) /\ coarse \in Seq(StoredAxes) /\ Served(request)'
    <2>1. request' = request
      BY DEF Sample
    <2>. QED BY <2>1 DEF HeatmapInvariant, Served, Asked, Narrowed, Meeting, Common
  <1>2. CreateStorageAxis(regions) \in StoredAxes
    BY CreateFormed, Storable DEF CreateStorageAxis, IntoStorageAxis
  <1>. HIDE DEF CreateStorageAxis
  <1>3. CASE Len(fine) = FineLen
    <2>. DEFINE oldest == SubSeq(fine, 1, MergedAxes)
                younger == SubSeq(fine, MergedAxes + 1, FineLen)
    <2>1. /\ coarse' = Append(coarse, MergeAxes(oldest))
          /\ fine' = Append(younger, CreateStorageAxis(regions))
      BY <1>3 DEF Sample
    <2>2. FineLen \in Nat /\ MergedAxes \in Nat /\ 1 <= MergedAxes /\ MergedAxes <= FineLen
      BY HeatmapAssumption
    <2>3. \A i \in 1 .. Len(fine) : fine[i] \in StoredAxes
      BY <1>1, ElementOfSeq
    <2>4. oldest \in Seq(StoredAxes) /\ Len(oldest) = MergedAxes - 1 + 1
      <3>1. \A i \in 1 .. MergedAxes : fine[i] \in StoredAxes
        BY <1>3, <2>2, <2>3
      <3>. QED BY <2>2, <3>1, SubSeqProperties
    <2>5. younger \in Seq(StoredAxes)
      <3>1. \A i \in MergedAxes + 1 .. FineLen : fine[i] \in StoredAxes
        BY <1>3, <2>2, <2>3
      <3>. QED BY <2>2, <3>1, SubSeqProperties
    <2>. HIDE DEF oldest, younger
    <2>6. MergeAxes(oldest) \in StoredAxes
      <3>1. oldest # <<>>
        BY <2>2, <2>4
      <3>2. Planed(oldest, 2)
        BY <2>4, <3>1, StoredPlaned
      <3>3. Formed(MergeAxes(oldest), 2)
        BY <3>2, MergedFormed
      <3>. QED BY <3>3, Storable DEF MergeAxes, Shrink
    <2>. HIDE DEF StoredAxes
    <2>7. coarse' \in Seq(StoredAxes) /\ fine' \in Seq(StoredAxes)
      BY <1>1, <1>2, <2>1, <2>5, <2>6, AppendProperties
    <2>. QED BY <1>1, <2>7 DEF HeatmapInvariant, StoredAxes
  <1>4. CASE Len(fine) # FineLen
    <2>1. fine' = Append(fine, CreateStorageAxis(regions)) /\ coarse' = coarse
      BY <1>4 DEF Sample
    <2>2. coarse' \in Seq(StoredAxes) /\ fine' \in Seq(StoredAxes)
      BY <1>1, <1>2, <2>1, AppendProperties
    <2>. QED BY <1>1, <2>2 DEF HeatmapInvariant, StoredAxes
  <1>. QED BY <1>3, <1>4

\* A request starts with axes that meet its range.
LEMMA StatRangeServed ==
    ASSUME HeatmapInvariant, NEW range \in Ranges, NEW tag \in Tags, StatRange(range[1], range[2], tag)
    PROVE  HeatmapInvariant'
  <1>. DEFINE from == range[1]
              to == range[2]
              Cut3(axes) == [i \in DOMAIN axes |-> IntoResponseAxis(AxisRange(axes[i], from, to), tag)]
  <1>1. from \in Nat /\ to \in Nat /\ CheckRange(from, to)
    BY HeatmapAssumption
  <1>. HIDE DEF from, to
  <1>2. PICK axes \in {<<>>, coarse \o fine} :
          request' = [stage |-> "plane", from |-> from, to |-> to,
                      plane |-> IF axes = <<>> THEN EmptyPlane(from, to) ELSE Cut3(axes)]
    BY DEF StatRange, from, to
  <1>. DEFINE plane == IF axes = <<>> THEN EmptyPlane(from, to) ELSE Cut3(axes)
  <1>3. Planed(plane, 3) /\ \A i \in 1 .. Len(plane) : Intersects(plane[i].keys, from, to)
    <2>1. CASE axes = <<>>
      <3>1. plane = <<CreateEmptyAxis(from, to, 3)>>
        BY <2>1 DEF EmptyPlane, ResponseTags
      <3>. DEFINE empty == CreateEmptyAxis(from, to, 3)
      <3>2. Formed(empty, 3) /\ Intersects(empty.keys, from, to)
        BY <1>1, EmptyFormed
      <3>. HIDE DEF empty, plane
      <3>3. Len(plane) = 1 /\ DOMAIN plane = 1 .. 1 /\ plane[1] = empty
        BY <3>1 DEF empty
      <3>4. \A i \in 1 .. 1 : i = 1
        OBVIOUS
      <3>. QED BY <3>2, <3>3, <3>4 DEF Planed
    <2>2. CASE axes # <<>>
      <3>1. axes \in Seq(StoredAxes)
        <4>1. coarse \in Seq(StoredAxes) /\ fine \in Seq(StoredAxes)
          BY DEF HeatmapInvariant
        <4>2. axes = coarse \o fine
          BY <2>2
        <4>. QED BY <4>1, <4>2, ConcatProperties
      <3>2. Planed(axes, 2)
        BY <2>2, <3>1, StoredPlaned
      <3>. DEFINE n == Len(axes)
      <3>3. n \in Nat /\ n >= 1 /\ DOMAIN axes = 1 .. n /\ \A i \in 1 .. n : Formed(axes[i], 2)
        BY <3>2 DEF Planed
      <3>4. plane = Cut3(axes)
        BY <2>2
      <3>5. DOMAIN plane = 1 .. n
             /\ \A i \in 1 .. n : plane[i] = IntoResponseAxis(AxisRange(axes[i], from, to), tag)
        BY <3>3, <3>4
      <3>. HIDE DEF plane, n
      <3>6. Len(plane) = n
        BY <3>3, <3>5, LenIs
      <3>7. \A i \in 1 .. n : Formed(plane[i], 3) /\ Intersects(plane[i].keys, from, to)
        <4>. TAKE i \in 1 .. n
        <4>. DEFINE cut == AxisRange(axes[i], from, to)
        <4>1. Formed(cut, 2) /\ Intersects(cut.keys, from, to)
          BY <1>1, <3>3, AxisRangeFormed
        <4>. HIDE DEF cut
        <4>2. Formed(IntoResponseAxis(cut, tag), 3) /\ IntoResponseAxis(cut, tag).keys = cut.keys
          BY <4>1, IntoResponseFormed
        <4>. QED BY <3>5, <4>1, <4>2 DEF cut
      <3>. QED BY <3>3, <3>5, <3>6, <3>7 DEF Planed
    <2>. QED BY <2>1, <2>2
  <1>4. request' = [stage |-> "plane", from |-> from, to |-> to, plane |-> plane]
    BY <1>2
  <1>. HIDE DEF plane
  <1>5. /\ request'.stage = "plane" /\ request'.from = from /\ request'.to = to
        /\ request'.plane = plane
    BY <1>4
  <1>6. Served(request')
    BY <1>1, <1>3, <1>5 DEF Served, Asked, Narrowed
  <1>7. fine' = fine /\ coarse' = coarse
    BY DEF StatRange
  <1>. QED BY <1>6, <1>7 DEF HeatmapInvariant

\* Keys that hold those of an axis that meets a range meet it too.
LEMMA PartMeets ==
    ASSUME NEW part, Keyed(part), NEW keys, Keyed(keys), Embedded(part, keys),
           NEW from \in Nat, NEW to \in Nat, Intersects(part, from, to)
    PROVE  Intersects(keys, from, to)
  <1>1. CheckPartOf(keys, part)
    BY PartOf
  <1>2. /\ keys[1] \in Nat /\ Last(keys) \in Nat /\ part[1] \in Nat /\ Last(part) \in Nat
    <2>1. \A k : Keyed(k) => k[1] \in Nat /\ Last(k) \in Nat
      <3>. SUFFICES ASSUME NEW k, Keyed(k) PROVE k[1] \in Nat /\ Last(k) \in Nat
        OBVIOUS
      <3>1. 1 \in 1 .. Len(k) /\ Len(k) \in 1 .. Len(k)
        BY KeysSorted
      <3>. QED BY <3>1, KeysSorted
    <2>. QED BY <2>1
  <1>. QED BY <1>1, <1>2 DEF CheckPartOf, Intersects

\* The splitter: every axis is part of the common keys.
LEMMA SplitterServed ==
    ASSUME HeatmapInvariant, NewSplitter
    PROVE  HeatmapInvariant'
  <1>. DEFINE plane == request.plane
              keys == CompactKeys(plane)
              next == [stage |-> "distances", from |-> request.from, to |-> request.to, plane |-> plane,
                       keys |-> keys, dis |-> BucketDistances(plane, keys)]
  <1>1. Asked(request) /\ Narrowed(request)
    BY DEF HeatmapInvariant, NewSplitter, Served
  <1>2. Planed(plane, 3) /\ DOMAIN plane = 1 .. Len(plane) /\ 1 \in 1 .. Len(plane)
    BY <1>1 DEF Narrowed, Planed
  <1>3. Keyed(keys) /\ \A i \in 1 .. Len(plane) : Embedded(plane[i].keys, keys)
    BY <1>2, CompactKeysIs
  <1>4. \A i \in 1 .. Len(plane) : Keyed(plane[i].keys)
    BY <1>2, FormedIs DEF Planed
  <1>5. NewSplitter => Advance(\A i \in DOMAIN plane : CheckPartOf(keys, plane[i].keys), next)
    BY DEF NewSplitter
  <1>. HIDE DEF keys
  <1>6. \A i \in DOMAIN plane : CheckPartOf(keys, plane[i].keys)
    BY <1>2, <1>3, <1>4, PartOf
  <1>7. Intersects(keys, request.from, request.to)
    <2>1. Intersects(plane[1].keys, request.from, request.to)
      BY <1>1, <1>2 DEF Narrowed
    <2>2. request.from \in Nat /\ request.to \in Nat
      BY <1>1 DEF Asked
    <2>. QED BY <1>2, <1>3, <1>4, <2>1, <2>2, PartMeets
  <1>8. request' = next /\ fine' = fine /\ coarse' = coarse
    BY <1>5, <1>6 DEF Advance
  <1>9. /\ request'.stage = "distances" /\ request'.from = request.from /\ request'.to = request.to
        /\ request'.plane = plane /\ request'.keys = keys
        /\ request'.dis = BucketDistances(plane, keys)
    BY <1>8
  <1>10. Served(request')
    BY <1>1, <1>3, <1>7, <1>9 DEF Served, Asked, Narrowed, Meeting, Common
  <1>. QED BY <1>8, <1>10 DEF HeatmapInvariant

\* The scales.
LEMMA ScaleServed ==
    ASSUME HeatmapInvariant, ScaleWork
    PROVE  HeatmapInvariant'
  <1>1. /\ Asked(request) /\ Narrowed(request) /\ Meeting(request) /\ Common(request)
        /\ request.dis = BucketDistances(request.plane, request.keys)
    BY DEF HeatmapInvariant, ScaleWork, Served
  <1>2. /\ request' = [stage |-> "scaled", from |-> request.from, to |-> request.to,
                       plane |-> request.plane, keys |-> request.keys,
                       scales |-> Scales(request.plane, request.keys, request.dis)]
        /\ fine' = fine /\ coarse' = coarse
    BY DEF ScaleWork, Advance
  <1>3. /\ request'.stage = "scaled" /\ request'.from = request.from /\ request'.to = request.to
        /\ request'.plane = request.plane /\ request'.keys = request.keys
        /\ request'.scales = Scales(request.plane, request.keys, request.dis)
    BY <1>2
  <1>4. Served(request')
    BY <1>1, <1>3 DEF Served, Asked, Narrowed, Meeting, Common
  <1>. QED BY <1>2, <1>4 DEF HeatmapInvariant

\* The rows are made of whole cells, from the first key to the last.
LEMMA PixelServed ==
    ASSUME HeatmapInvariant, Pixel
    PROVE  HeatmapInvariant'
  <1>. DEFINE keys == request.keys
              plane == request.plane
              sums == Chunk(keys, AddColumns(Columns(plane, 1), keys, request.scales))
              baseKeys == Divide(sums, MaxDisplayY, FALSE).keys
              next == [stage |-> "matrix", from |-> request.from, to |-> request.to, plane |-> plane,
                       sums |-> sums, keys |-> baseKeys,
                       data |-> [t \in DOMAIN ResponseTags |-> Data(baseKeys, t)]]
  <1>1. /\ Asked(request) /\ Narrowed(request) /\ Meeting(request) /\ Common(request)
        /\ request.scales = Scales(plane, keys, BucketDistances(plane, keys))
    BY DEF HeatmapInvariant, Pixel, Served
  <1>2. Pixel => Advance(CheckReduceOf(keys, baseKeys), next)
    BY DEF Pixel
  <1>3. Keyed(keys) /\ Planed(plane, 3) /\ Intersects(keys, request.from, request.to)
    BY <1>1 DEF Narrowed, Meeting
  <1>4. Splittable(Columns(plane, 1), request.scales)
    <2>1. \A i \in 1 .. Len(plane) : Embedded(plane[i].keys, keys)
      BY <1>1 DEF Common
    <2>. QED BY <1>1, <1>3, <2>1, ColumnsSplittable
  <1>5. Chunked(sums) /\ sums.keys = keys
    <2>1. Len(keys) \in Nat
      BY <1>3, KeysSorted
    <2>2. AddColumns(Columns(plane, 1), keys, request.scales) \in [1 .. Len(keys) - 1 -> Nat]
      BY <1>4, <2>1, AddColumnsIs
    <2>. QED BY <1>3, <2>2 DEF Chunked, Chunk
  <1>. HIDE DEF sums
  <1>6. Coarser(sums, Divide(sums, MaxDisplayY, FALSE))
    BY <1>5, DivideCoarser
  <1>7. Keyed(baseKeys) /\ baseKeys[1] = keys[1] /\ Last(baseKeys) = Last(keys) /\ Len(baseKeys) <= Len(keys)
    BY <1>5, <1>6 DEF Coarser, Chunked
  <1>. HIDE DEF baseKeys
  <1>8. CheckReduceOf(keys, baseKeys)
    <2>1. Len(baseKeys) \in Nat /\ Len(keys) \in Nat
      BY <1>3, <1>7, KeysSorted
    <2>. QED BY <1>7, <2>1 DEF CheckReduceOf
  <1>9. Intersects(baseKeys, request.from, request.to)
    BY <1>3, <1>7 DEF Intersects
  <1>10. request' = next /\ fine' = fine /\ coarse' = coarse
    BY <1>2, <1>8 DEF Advance
  <1>11. /\ request'.stage = "matrix" /\ request'.from = request.from /\ request'.to = request.to
         /\ request'.keys = baseKeys
    BY <1>10
  <1>12. Served(request')
    BY <1>1, <1>7, <1>9, <1>11 DEF Served, Asked, Meeting
  <1>. QED BY <1>10, <1>12 DEF HeatmapInvariant

\* The answer has the rows that overlap the range.
LEMMA AnswerServed ==
    ASSUME HeatmapInvariant, MatrixRange
    PROVE  HeatmapInvariant'
  <1>. DEFINE start == RangeStart(request.keys, request.from)
              end == RangeEnd(request.keys, request.to)
              part == SubSeq(request.keys, start, end)
  <1>1. Asked(request) /\ Meeting(request)
    BY DEF HeatmapInvariant, MatrixRange, Served
  <1>2. \A b \in 1 .. Len(part) - 1 : Overlaps(part, b, request.from, request.to)
    BY <1>1, NarrowedMeets DEF Asked, Meeting
  <1>3. /\ request' = [stage |-> "answer", from |-> request.from, to |-> request.to, keys |-> part,
                       data |-> [t \in DOMAIN request.data |->
                                   [i \in DOMAIN request.plane |->
                                      SubSeq(request.data[t][i], start, end - 1)]]]
        /\ fine' = fine /\ coarse' = coarse
    BY <1>1 DEF MatrixRange, Advance, Meeting
  <1>. HIDE DEF part
  <1>4. /\ request'.stage = "answer" /\ request'.from = request.from /\ request'.to = request.to
        /\ request'.keys = part
    BY <1>3
  <1>5. Served(request')
    BY <1>2, <1>4 DEF Served
  <1>. QED BY <1>3, <1>5 DEF HeatmapInvariant

\* Whatever the samples, the layers are well-formed and no check of a request fails.
THEOREM HeatmapServed == Spec => []HeatmapInvariant
  <1>1. Init => HeatmapInvariant
    BY DEF Init, HeatmapInvariant, Served, NoRequest
  <1>2. HeatmapInvariant /\ [Next]_vars => HeatmapInvariant'
    <2>. SUFFICES ASSUME HeatmapInvariant, [Next]_vars PROVE HeatmapInvariant'
      OBVIOUS
    <2>1. ASSUME NEW regions \in Samples, Sample(regions) PROVE HeatmapInvariant'
      BY <2>1, SampleStored
    <2>2. ASSUME NEW r \in Ranges, NEW tag \in Tags, StatRange(r[1], r[2], tag) PROVE HeatmapInvariant'
      BY <2>2, StatRangeServed
    <2>3. CASE NewSplitter
      BY <2>3, SplitterServed
    <2>4. CASE ScaleWork
      BY <2>4, ScaleServed
    <2>5. CASE Pixel
      BY <2>5, PixelServed
    <2>6. CASE MatrixRange
      BY <2>6, AnswerServed
    <2>7. CASE Answer
      <3>1. Served(request') /\ fine' = fine /\ coarse' = coarse
        BY <2>7 DEF Answer, NoRequest, Served
      <3>. QED BY <3>1 DEF HeatmapInvariant
    <2>8. CASE UNCHANGED vars
      <3>1. request' = request /\ fine' = fine /\ coarse' = coarse
        BY <2>8 DEF vars
      <3>. QED BY <3>1 DEF HeatmapInvariant
    <2>. QED BY <2>1, <2>2, <2>3, <2>4, <2>5, <2>6, <2>7, <2>8 DEF Next
  <1>. QED BY <1>1, <1>2, PTL DEF Spec

\* KeysRange finds exactly the buckets of a stored axis that overlap a range, or none does.
LEMMA StoredExact ==
    ASSUME NEW axis \in StoredAxes, NEW range \in Ranges
    PROVE  LET wanted == {b \in 1 .. (Len(axis.keys) - 1) : Overlaps(axis.keys, b, range[1], range[2])}
           IN  /\ WellFormed(axis, 2)
               /\ Intersects(axis.keys, range[1], range[2]) <=> wanted # {}
               /\ wanted # {} =>
                    wanted = RangeStart(axis.keys, range[1]) .. (RangeEnd(axis.keys, range[2]) - 1)
  <1>. DEFINE keys == axis.keys
              from == range[1]
              to == range[2]
              n == Len(keys)
              wanted == {b \in 1 .. (n - 1) : Overlaps(keys, b, from, to)}
              s == RangeStart(keys, from)
              e == RangeEnd(keys, to)
  <1>1. from \in Nat /\ to \in Nat /\ CheckRange(from, to)
    BY HeatmapAssumption
  <1>2. WellFormed(axis, 2) /\ Keyed(keys)
    BY FormedIs DEF StoredAxes
  <1>3. n \in Nat
    BY <1>2, KeysSorted
  <1>. HIDE DEF keys, from, to, s, e
  <1>4. wanted # {} => Intersects(keys, from, to)
    BY <1>1, <1>2, NoOverlap
  <1>5. Intersects(keys, from, to) => wanted # {} /\ wanted = s .. e - 1
    <2>. HAVE Intersects(keys, from, to)
    <2>1. /\ s \in 1 .. n - 1 /\ e \in s + 1 .. n
          /\ \A b \in 1 .. n - 1 : Overlaps(keys, b, from, to) <=> b \in s .. e - 1
      BY <1>1, <1>2, KeysRangeExact DEF s, e
    <2>. HIDE DEF n
    <2>2. s \in s .. e - 1 /\ \A b \in s .. e - 1 : b \in 1 .. n - 1
      BY <1>3, <2>1
    <2>. QED BY <2>1, <2>2
  <1>. QED BY <1>2, <1>4, <1>5 DEF keys, from, to, s, e

\* Requests show exactly what overlaps their range, whatever was sampled and merged before.
THEOREM RangesExact == Spec => []RangeExact
  <1>1. HeatmapInvariant => RangeExact
    <2>. SUFFICES ASSUME HeatmapInvariant PROVE RangeExact
      OBVIOUS
    <2>1. Served(request)
      BY DEF HeatmapInvariant
    <2>2. request.stage # "panic"
      BY <2>1 DEF Served
    <2>3. \A axis \in Stored : axis \in StoredAxes
      <3>. TAKE axis \in Stored
      <3>1. /\ coarse \in Seq(StoredAxes) /\ fine \in Seq(StoredAxes)
        BY DEF HeatmapInvariant
      <3>2. (\E i \in DOMAIN coarse : axis = coarse[i]) \/ (\E i \in DOMAIN fine : axis = fine[i])
        BY DEF Stored, Range
      <3>. QED BY <3>1, <3>2, ElementOfSeq
    <2>4. \A axis \in Stored, r \in Ranges :
             LET wanted == {b \in 1..(Len(axis.keys) - 1) : Overlaps(axis.keys, b, r[1], r[2])}
             IN  /\ WellFormed(axis, 2)
                 /\ Intersects(axis.keys, r[1], r[2]) <=> wanted # {}
                 /\ wanted # {} => wanted = RangeStart(axis.keys, r[1])..(RangeEnd(axis.keys, r[2]) - 1)
      BY <2>3, StoredExact
    <2>5. request.stage = "plane" => \A axis \in Range(request.plane) : WellFormed(axis, 3)
      <3>. HAVE request.stage = "plane"
      <3>1. Planed(request.plane, 3)
        BY <2>1 DEF Served, Narrowed
      <3>2. \A i \in DOMAIN request.plane : WellFormed(request.plane[i], 3)
        BY <3>1, FormedIs DEF Planed
      <3>. QED BY <3>2 DEF Range
    <2>6. request.stage = "answer" =>
             \A b \in 1..(Len(request.keys) - 1) : Overlaps(request.keys, b, request.from, request.to)
      BY <2>1 DEF Served
    <2>. QED BY <2>2, <2>4, <2>5, <2>6 DEF RangeExact
  <1>. QED BY <1>1, HeatmapServed, PTL
=============================================================================
