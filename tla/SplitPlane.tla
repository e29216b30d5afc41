----------------------------- MODULE SplitPlane -----------------------------
(***************************************************************************)
(* Several columns on one key axis: the operations of Plane and Axis and   *)
(* the distance strategy that splits a bucket of one column over the finer *)
(* keys of the others. A cell takes a share by how near, in columns, the   *)
(* closest column is that has the cell's keys itself.                      *)
(* An axis is [keys, columns], a plane a sequence of axes. The powers of   *)
(* SplitRatio are the naturals in Weight (largest first, one per level);   *)
(* the float product value * scale, cut to an integer, is an integer       *)
(* division.                                                               *)
(***************************************************************************)
EXTENDS KeyAxis

CONSTANTS Weight,       \* SplitRatioPow: the share of each level, SplitLevel of them
          SplitCount    \* beyond so many cells a level takes nothing

SplitLevel == Len(Weight)

ASSUME SplitAssumption ==
  /\ Weight \in Seq(Nat \ {0}) /\ Weight # <<>>
  /\ \A i \in 2..Len(Weight) : Weight[i] < Weight[i - 1]
  /\ SplitCount \in Nat \ {0}

Axis(keys, columns) == [keys |-> keys, columns |-> columns]
Column(axis, t) == Chunk(axis.keys, axis.columns[t])
Columns(axes, t) == [i \in DOMAIN axes |-> Column(axes[i], t)]

CreateEmptyAxis(from, to, n) == Axis(<<from, to>>, [t \in 1..n |-> <<0>>])

\* Mutant: the values are not narrowed with the keys.
AxisRangeOfKeys(axis, from, to) ==
  IF Intersects(axis.keys, from, to)
  THEN Axis(SubSeq(axis.keys, RangeStart(axis.keys, from), RangeEnd(axis.keys, to)), axis.columns)
  ELSE CreateEmptyAxis(from, to, Len(axis.columns))

AxisRange(axis, from, to) ==
  LET start == RangeStart(axis.keys, from)
      end == RangeEnd(axis.keys, to)
  IN  IF Intersects(axis.keys, from, to)
      THEN Axis(SubSeq(axis.keys, start, end),
                [t \in DOMAIN axis.columns |-> SubSeq(axis.columns[t], start, end - 1)])
      ELSE CreateEmptyAxis(from, to, Len(axis.columns))

AxisDivide(axis, target) ==
  LET divided == Divide(Column(axis, 1), target, TRUE)
  IN  IF target >= Len(axis.keys) - 1 THEN axis
      ELSE Axis(divided.keys,
                [t \in DOMAIN axis.columns |->
                   IF t = 1 THEN divided.values ELSE Reduce(Column(axis, t), divided.keys).values])

Shrink(axis, ratio) ==
  Axis(axis.keys, [t \in DOMAIN axis.columns |-> [b \in DOMAIN axis.columns[t] |-> axis.columns[t][b] \div ratio]])

(***************************************************************************)
(* The keys of all columns                                                 *)
(***************************************************************************)
Sorted(S) == [i \in 1..Cardinality(S) |-> CHOOSE k \in S : Cardinality({s \in S : s < k}) = i - 1]

CompactKeys(axes) ==
  LET limits == {Last(axes[i].keys) : i \in DOMAIN axes}
      starts == UNION {Range(Front(axes[i].keys)) : i \in DOMAIN axes}
      keySet == starts \cup (limits \ {Unlimited})
  IN  IF Unlimited \in limits THEN Append(Sorted(keySet), Unlimited) ELSE Sorted(keySet)

\* Where the keys of one column are among the keys of all, scanned from left to right.
Position(part, keys) ==
  LET Scan(pos, key) ==
        Append(pos, Min({k \in DOMAIN keys : keys[k] = key /\ (pos # <<>> => k > Last(pos))}))
  IN  FoldLeft(Scan, <<>>, part)

(***************************************************************************)
(* Distances: to the nearest column, on either side, that has the key. A   *)
(* column that has every key stands beyond each end, as far as the plane   *)
(* is wide.                                                                *)
(***************************************************************************)
UpdateLeftDis(own, leftDis) ==
  [k \in DOMAIN leftDis |-> IF k \in own THEN 0 ELSE leftDis[k] + 1]

\* Mutant: the distance to the left is forgotten.
RightDisOnly(own, dis, rightDis) ==
  [k \in DOMAIN dis |-> IF k \in own THEN 0 ELSE rightDis[k] + 1]

UpdateRightDis(own, dis, rightDis) ==
  [k \in DOMAIN dis |-> IF k \in own THEN 0 ELSE Min({dis[k], rightDis[k] + 1})]

Distances(axes, keys) ==
  LET virtualColumn == [k \in DOMAIN keys |-> Len(axes)]
      own == [i \in DOMAIN axes |-> Range(Position(axes[i].keys, keys))]
      FromLeft(dis, i) == Append(dis, UpdateLeftDis(own[i], Last(<<virtualColumn>> \o dis)))
      left == FoldLeftDomain(FromLeft, <<>>, axes)
      FromRight(i, dis) == <<UpdateRightDis(own[i], left[i], Head(Append(dis, virtualColumn)))>> \o dis
  IN  FoldRightDomain(FromRight, axes, <<>>)

ToBucketDis(dis) == [k \in 1..(Len(dis) - 1) |-> Max({dis[k], dis[k + 1]})]

(***************************************************************************)
(* Scale: the share of each cell in the bucket that is split over cells.   *)
(***************************************************************************)
Nearer(dis, cells, d) == {k \in cells : dis[k] < d}
Level(dis, cells, d) == Cardinality({dis[k] : k \in Nearer(dis, cells, d)})

IsCut(dis, cells, d) ==
  \/ Level(dis, cells, d) >= SplitLevel
  \/ Cardinality(Nearer(dis, cells, d)) >= SplitCount

\* Mutant: each level counts once, however many cells it has.
ScaleOnce(dis, cells) ==
  LET Part(d) == IF IsCut(dis, cells, d) THEN 0 ELSE Weight[Level(dis, cells, d) + 1]
  IN  [k \in cells |-> [part |-> Part(dis[k]), whole |-> MapThenSumSet(Part, {dis[c] : c \in cells})]]

\* A level that is cut takes nothing but still weighs, in the sum, as much as the last one kept.
Scale(dis, cells) ==
  LET WeightOf(d) == Weight[Level(dis, cells, d) + 1]
      lastKept == Max({dis[k] : k \in {c \in cells : ~IsCut(dis, cells, dis[c])}})
      Summand(k) == WeightOf(IF IsCut(dis, cells, dis[k]) THEN lastKept ELSE dis[k])
      Part(k) == IF IsCut(dis, cells, dis[k]) THEN 0 ELSE WeightOf(dis[k])
  IN  [k \in cells |-> [part |-> Part(k), whole |-> MapThenSumSet(Summand, cells)]]

\* The cells of bucket b of a column whose keys stand at pos.
Cells(pos, b) == pos[b]..(pos[b + 1] - 1)

GenerateScale(axis, keys, dis) ==
  LET pos == Position(axis.keys, keys)
      scales == [b \in 1..(Len(pos) - 1) |-> Scale(dis, Cells(pos, b))]
      BucketOf(k) == CHOOSE b \in DOMAIN scales : k \in Cells(pos, b)
      ShareOf(k) == scales[BucketOf(k)][k]
  IN  [k \in pos[1]..(Last(pos) - 1) |->
         [bucket |-> BucketOf(k), part |-> ShareOf(k).part, whole |-> ShareOf(k).whole]]

BucketDistances(axes, keys) ==
  LET dis == Distances(axes, keys)
  IN  [i \in DOMAIN axes |-> ToBucketDis(dis[i])]

Scales(axes, keys, dis) == [i \in DOMAIN axes |-> GenerateScale(axes[i], keys, dis[i])]

\* What the column puts into each cell: splitTo assigns it, splitAdd adds it.
Split(c, keys, scale) ==
  IF Len(c.keys) = Len(keys) THEN c.values
  ELSE [k \in 1..(Len(keys) - 1) |->
          IF k \in DOMAIN scale THEN (c.values[scale[k].bucket] * scale[k].part) \div scale[k].whole ELSE 0]

(***************************************************************************)
(* Compact: one axis with the sum of all                                   *)
(***************************************************************************)
AddColumns(chunks, keys, scales) ==
  LET Add(sum, i) == LET added == Split(chunks[i], keys, scales[i])
                     IN  [k \in DOMAIN sum |-> sum[k] + added[k]]
  IN  FoldLeftDomain(Add, ZeroChunk(keys).values, chunks)

Compact(axes) ==
  LET keys == CompactKeys(axes)
      scales == Scales(axes, keys, BucketDistances(axes, keys))
  IN  Axis(keys, [t \in DOMAIN axes[1].columns |-> AddColumns(Columns(axes, t), keys, scales)])
=============================================================================
