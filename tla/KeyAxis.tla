------------------------------ MODULE KeyAxis ------------------------------
(***************************************************************************)
(* One column of the heat map: consecutive buckets of keys with a value    *)
(* each, and the operations of pkg/keyvisual/matrix that make a column     *)
(* coarser (Reduce, Focus, MergeColdLogicalRange, Divide) or narrower      *)
(* (Range). Keys are naturals in key order; 0 is the empty string, which   *)
(* is the smallest key as a start and no limit as the last key.            *)
(* A chunk is [keys, values] with one key more than values. String         *)
(* equality by pointer (equal in key.go) is equality here: every key of a  *)
(* plane is interned in one KeyMap.                                        *)
(***************************************************************************)
EXTENDS Integers, Sequences, SequencesExt

CONSTANT Logical        \* the table or index a key belongs to, as decoded by the labeler

Unlimited == 0
Total(values) == FoldLeft(+, 0, values)
Buckets(c) == DOMAIN c.values
CrossBorder(a, b) == Logical[a] # Logical[b]

Chunk(keys, values) == [keys |-> keys, values |-> values]
ZeroChunk(keys) == Chunk(keys, [i \in 1..(Len(keys) - 1) |-> 0])

\* sort.Search over 1..n: the least index that satisfies P, or n + 1.
Search(n, P(_)) == Min({i \in 1..n : P(i)} \cup {n + 1})

(***************************************************************************)
(* Ranges of keys                                                          *)
(***************************************************************************)
CheckPartOf(src, part) ==
  /\ src[1] <= part[1]
  /\ Len(src) >= Len(part)
  /\ Last(src) # Unlimited => Last(part) # Unlimited /\ Last(part) <= Last(src)

CheckReduceOf(src, part) ==
  src[1] = part[1] /\ Last(src) = Last(part) /\ Len(src) >= Len(part)

CheckRange(from, to) == to # Unlimited => from < to

Intersects(keys, from, to) ==
  /\ to # Unlimited => keys[1] < to
  /\ Last(keys) # Unlimited => from < Last(keys)

SortedLen(keys) == IF Last(keys) = Unlimited THEN Len(keys) - 1 ELSE Len(keys)

\* Mutant: a bucket that ends where the range starts is taken in.
RangeStartBefore(keys, from) ==
  LET i == Search(SortedLen(keys), LAMBDA k : keys[k] >= from)
  IN  IF i > 1 THEN i - 1 ELSE i

RangeStart(keys, from) ==
  LET i == Search(SortedLen(keys), LAMBDA k : keys[k] > from)
  IN  IF i > 1 THEN i - 1 ELSE i

RangeEnd(keys, to) ==
  IF to = Unlimited THEN Len(keys)
  ELSE Min({Search(SortedLen(keys), LAMBDA k : keys[k] >= to), Len(keys)})

(***************************************************************************)
(* Reduce: the values of the buckets between two of the kept keys add up.  *)
(***************************************************************************)
AddUp(c, newKeys) ==
  LET Step(t, i) ==
        LET j == IF i > 1 /\ c.keys[i] = newKeys[t.j + 1] THEN t.j + 1 ELSE t.j
        IN  [j |-> j, sums |-> [t.sums EXCEPT ![j] = @ + c.values[i]]]
  IN  FoldLeftDomain(Step, [j |-> 1, sums |-> ZeroChunk(newKeys).values], c.values).sums

Reduce(c, newKeys) ==
  Chunk(newKeys, IF Len(c.keys) = Len(newKeys) THEN c.values ELSE AddUp(c, newKeys))

(***************************************************************************)
(* Focus: buckets are merged from left to right until they hold threshold, *)
(* meet a hot bucket, are ratio wide or would cross a logical border.      *)
(***************************************************************************)
GenerateBucket(c, b, end) ==
  IF end > b.start
  THEN [start |-> end, sum |-> 0, keys |-> Append(b.keys, c.keys[end]), values |-> Append(b.values, b.sum)]
  ELSE b

MergeBuckets(c, Closes(_, _)) ==
  LET Step(b, i) == [(IF Closes(b, i) THEN GenerateBucket(c, b, i) ELSE b) EXCEPT !.sum = @ + c.values[i]]
      none == [start |-> 1, sum |-> 0, keys |-> <<c.keys[1]>>, values |-> <<>>]
      last == GenerateBucket(c, FoldLeftDomain(Step, none, c.values), Len(c.keys))
  IN  Chunk(last.keys, last.values)

IsFull(c, threshold, b, i) == c.values[i] >= threshold \/ b.sum >= threshold

GetFocusRows(c, threshold) ==
  Len(MergeBuckets(c, LAMBDA b, i : IsFull(c, threshold, b, i)).values)

\* Mutant: buckets of different tables are merged.
FocusClosesAnywhere(c, threshold, ratio, b, i) ==
  \/ IsFull(c, threshold, b, i)
  \/ i - b.start >= ratio

FocusCloses(c, threshold, ratio, b, i) ==
  \/ IsFull(c, threshold, b, i)
  \/ i - b.start >= ratio
  \/ CrossBorder(c.keys[b.start], c.keys[i])

(***************************************************************************)
(* MergeColdLogicalRange: logical ranges (tables, indices) of little       *)
(* traffic become one bucket, several cold neighbours together.            *)
(***************************************************************************)
\* Mutant: the sum goes on into the next cold range.
MergeColdRangeOn(c, r) ==
  IF r.coldEnd > r.coldStart
  THEN [r EXCEPT !.keys = Append(@, c.keys[r.coldEnd]), !.values = Append(@, r.sum), !.coldStart = r.coldEnd]
  ELSE r

MergeColdRange(c, r) ==
  IF r.coldEnd > r.coldStart
  THEN [r EXCEPT !.keys = Append(@, c.keys[r.coldEnd]), !.values = Append(@, r.sum),
                 !.coldStart = r.coldEnd, !.sum = 0]
  ELSE r

GenerateRange(c, cold, r, end) ==
  LET values == SubSeq(c.values, r.coldEnd, end - 1)
      hot == Total(values) > cold
      flushed == IF r.sum > cold \/ hot THEN MergeColdRange(c, r) ELSE r
  IN  IF end <= r.coldEnd THEN r
      ELSE IF hot
      THEN [flushed EXCEPT !.keys = @ \o SubSeq(c.keys, r.coldEnd + 1, end),
                           !.values = @ \o values, !.coldStart = end, !.coldEnd = end]
      ELSE [flushed EXCEPT !.sum = @ + Total(values), !.coldEnd = end]

ColdThreshold(threshold) == threshold \div 4

MergeColdLogicalRange(c, threshold) ==
  LET cold == ColdThreshold(threshold)
      Step(r, i) == IF CrossBorder(c.keys[i], c.keys[i + 1]) THEN GenerateRange(c, cold, r, i + 1) ELSE r
      none == [coldStart |-> 1, coldEnd |-> 1, sum |-> 0, keys |-> <<c.keys[1]>>, values |-> <<>>]
      last == MergeColdRange(c, GenerateRange(c, cold, FoldLeftDomain(Step, none, c.values), Len(c.keys)))
  IN  Chunk(last.keys, last.values)

Focus(c, threshold, ratio, target, mergeCold) ==
  LET focused == MergeBuckets(c, LAMBDA b, i : FocusCloses(c, threshold, ratio, b, i))
  IN  IF mergeCold /\ Len(focused.values) >= target
      THEN MergeColdLogicalRange(focused, threshold)
      ELSE focused

(***************************************************************************)
(* Divide: a binary search for the threshold that leaves two thirds of the *)
(* target, the rest is for the cuts that Focus makes besides.              *)
(***************************************************************************)
FocusTarget(target) == (target * 2) \div 3

Halve(lower, upper) == (lower + upper) \div 2

\* Mutant: the search starts at the total, where a bucket with all of the traffic still stands apart.
TotalThreshold(c) == Total(c.values)

UpperThreshold(c) == Total(c.values) + 1

Threshold(c, target) ==
  LET search[lower \in Nat, upper \in Nat] ==
        LET mid == Halve(lower, upper)
        IN  IF lower >= upper THEN lower
            ELSE IF GetFocusRows(c, mid) > FocusTarget(target) THEN search[mid + 1, upper]
            ELSE search[lower, mid]
  IN  search[1, UpperThreshold(c)]

\* Mutant: the rows that the threshold leaves are not counted.
MergeRatioOfTarget(c, target) == Len(c.values) \div target + 1

MergeRatio(c, target) == Len(c.values) \div (target - GetFocusRows(c, Threshold(c, target))) + 1

Divide(c, target, mergeCold) ==
  IF target >= Len(c.values) THEN c
  ELSE Focus(c, Threshold(c, target), MergeRatio(c, target), target, mergeCold)
=============================================================================
