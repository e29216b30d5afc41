------------------------------ MODULE Heatmap ------------------------------
(***************************************************************************)
(* From region statistics to the heat map: a sample becomes an axis of at  *)
(* most about PreTarget buckets, the oldest axes of a full layer become    *)
(* one, and a request narrows the axes it gets to its keys, brings them to *)
(* common keys, divides those into about MaxDisplayY rows and cuts the     *)
(* result to its range again.                                              *)
(* There are one fine layer and one coarse one (LayerStat has the rings    *)
(* and their times); two of the four stored columns, the two whose sum is  *)
(* the integration; the other two are carried along like the second.       *)
(* A request works on slices of its own, so nothing else happens meanwhile.*)
(***************************************************************************)
EXTENDS SplitPlane

CONSTANTS Samples,      \* what /regions may answer: [keys, columns] with written and read bytes
          Values,       \* values of more columns to divide, beyond what samples and merges give
          Ranges,       \* the key ranges asked for
          Dirty,        \* written bytes from which a sample is taken for an error
          PreTarget, MaxDisplayY,
          FineLen, MergedAxes,  \* Len and Ratio of the fine layer
          MaxSamples    \* bound: samples taken

Tags == {"integration", "written_bytes", "read_bytes"}
ResponseTags == <<"integration", "written_bytes", "read_bytes">>

\* Keys go up, and only the last one may stand for no limit.
Increasing(keys) ==
  \A i \in 2..Len(keys) : keys[i - 1] < keys[i] \/ (i = Len(keys) /\ keys[i] = Unlimited)

WellFormed(axis, columns) ==
  /\ Len(axis.keys) >= 2 /\ Increasing(axis.keys)
  /\ DOMAIN axis.columns = 1..columns
  /\ \A t \in 1..columns : axis.columns[t] \in [1..(Len(axis.keys) - 1) -> Nat]

\* What PD answers are neighbouring regions in the order of their keys.
ASSUME HeatmapAssumption ==
  /\ PreTarget \in Nat /\ PreTarget >= 2 /\ MaxDisplayY \in Nat /\ MaxDisplayY >= 2
  /\ FineLen \in Nat \ {0} /\ MergedAxes \in 1..FineLen
  /\ MaxSamples \in Nat
  /\ \A s \in Samples : s.keys \in Seq(Nat) /\ s.columns \in Seq(Seq(Nat)) /\ WellFormed(s, 2)
  /\ Ranges \subseteq Nat \X Nat /\ \A r \in Ranges : CheckRange(r[1], r[2])

VARIABLES fine, coarse, \* the axes of the two layers, oldest first
          taken,        \* samples so far
          request       \* the heatmaps request that is served
vars == <<fine, coarse, taken, request>>

NoRequest == [stage |-> "none"]

Integration(written, read) == [b \in DOMAIN written |-> written[b] + read[b]]

Swap(columns, i) == [columns EXCEPT ![1] = columns[i], ![i] = columns[1]]

\* IntoResponseAxis: the column of the tag comes first.
IntoResponseAxis(axis, tag) ==
  LET columns == <<Integration(axis.columns[1], axis.columns[2])>> \o axis.columns
  IN  Axis(axis.keys, Swap(columns, CHOOSE i \in DOMAIN ResponseTags : ResponseTags[i] = tag))

IntoStorageAxis(axis) ==
  LET divided == AxisDivide(axis, PreTarget)
  IN  Axis(divided.keys, Tail(divided.columns))

Wash(axis) ==
  Axis(axis.keys, [t \in DOMAIN axis.columns |->
                     [b \in DOMAIN axis.columns[t] |->
                        IF axis.columns[2][b] >= Dirty THEN 0 ELSE axis.columns[t][b]]])

RegionsAxis(regions) ==
  Wash(Axis(regions.keys, <<Integration(regions.columns[1], regions.columns[2])>> \o regions.columns))

CreateStorageAxis(regions) == IntoStorageAxis(RegionsAxis(regions))

CompactedAxis(axes) == IntoResponseAxis(Compact(axes), "integration")

\* Mutant: the merged axis holds the sum.
MergeAxesSum(axes) == IntoStorageAxis(CompactedAxis(axes))

MergeAxes(axes) == Shrink(IntoStorageAxis(CompactedAxis(axes)), Len(axes))

(***************************************************************************)
(* Samples                                                                 *)
(***************************************************************************)
Init == fine = <<>> /\ coarse = <<>> /\ taken = 0 /\ request = NoRequest

Sample(regions) ==
  /\ request = NoRequest
  /\ taken < MaxSamples
  /\ taken' = taken + 1
  /\ IF Len(fine) = FineLen
     THEN /\ coarse' = Append(coarse, MergeAxes(SubSeq(fine, 1, MergedAxes)))
          /\ fine' = Append(SubSeq(fine, MergedAxes + 1, FineLen), CreateStorageAxis(regions))
     ELSE /\ fine' = Append(fine, CreateStorageAxis(regions))
          /\ UNCHANGED coarse
  /\ UNCHANGED request

(***************************************************************************)
(* A request: Stat.Range, Plane.Pixel (common keys and distances, then the *)
(* scales that the workers compute, then the rows) and Matrix.Range        *)
(***************************************************************************)
EmptyPlane(from, to) == <<CreateEmptyAxis(from, to, Len(ResponseTags))>>

\* The stored axes, or none of them when the time range lies outside.
StatRange(from, to, tag) ==
  /\ request = NoRequest
  /\ \E axes \in {<<>>, coarse \o fine} :
       LET plane == IF axes = <<>> THEN EmptyPlane(from, to)
                    ELSE [i \in DOMAIN axes |-> IntoResponseAxis(AxisRange(axes[i], from, to), tag)]
       IN  request' = [stage |-> "plane", from |-> from, to |-> to, plane |-> plane]
  /\ UNCHANGED <<fine, coarse, taken>>

\* A check that fails is a panic.
Advance(checked, next) ==
  /\ request' = IF checked THEN next ELSE [request EXCEPT !.stage = "panic"]
  /\ UNCHANGED <<fine, coarse, taken>>

NewSplitter ==
  /\ request.stage = "plane"
  /\ \E keys \in {CompactKeys(request.plane)} :
       Advance(\A i \in DOMAIN request.plane : CheckPartOf(keys, request.plane[i].keys),
               [stage |-> "distances", from |-> request.from, to |-> request.to, plane |-> request.plane,
                keys |-> keys, dis |-> BucketDistances(request.plane, keys)])

ScaleWork ==
  /\ request.stage = "distances"
  /\ Advance(TRUE,
             [stage |-> "scaled", from |-> request.from, to |-> request.to, plane |-> request.plane,
              keys |-> request.keys, scales |-> Scales(request.plane, request.keys, request.dis)])

\* The rows of column t of the matrix, one sequence for each axis.
Data(baseKeys, t) ==
  [i \in DOMAIN request.plane |->
     Reduce(Chunk(request.keys, Split(Column(request.plane[i], t), request.keys, request.scales[i])), baseKeys).values]

Pixel ==
  /\ request.stage = "scaled"
  /\ \E sums \in {Chunk(request.keys, AddColumns(Columns(request.plane, 1), request.keys, request.scales))} :
       \E baseKeys \in {Divide(sums, MaxDisplayY, FALSE).keys} :
         Advance(CheckReduceOf(request.keys, baseKeys),
                 [stage |-> "matrix", from |-> request.from, to |-> request.to, plane |-> request.plane,
                  sums |-> sums, keys |-> baseKeys, data |-> [t \in DOMAIN ResponseTags |-> Data(baseKeys, t)]])

MatrixRange ==
  /\ request.stage = "matrix"
  /\ LET start == RangeStart(request.keys, request.from)
         end == RangeEnd(request.keys, request.to)
     IN  Advance(Intersects(request.keys, request.from, request.to),
                 [stage |-> "answer", from |-> request.from, to |-> request.to,
                  keys |-> SubSeq(request.keys, start, end),
                  data |-> [t \in DOMAIN request.data |->
                              [i \in DOMAIN request.plane |-> SubSeq(request.data[t][i], start, end - 1)]]])

Answer == request.stage \in {"answer", "panic"} /\ request' = NoRequest /\ UNCHANGED <<fine, coarse, taken>>

Next ==
  \/ \E regions \in Samples : Sample(regions)
  \/ \E r \in Ranges, tag \in Tags : StatRange(r[1], r[2], tag)
  \/ NewSplitter
  \/ ScaleWork
  \/ Pixel
  \/ MatrixRange
  \/ Answer

Spec == Init /\ [][Next]_vars
-----------------------------------------------------------------------------
Stored == Range(coarse) \cup Range(fine)

Overlaps(keys, b, from, to) ==
  /\ to # Unlimited => keys[b] < to
  /\ keys[b + 1] # Unlimited => from < keys[b + 1]

\* The columns that are divided: of the regions and of the merged axes, before they are stored,
\* and the sums over the plane of a request.
Divisions ==
  LET Stores(chunk) == [chunk |-> chunk, target |-> PreTarget, cold |-> TRUE]
      Shows(chunk) == [chunk |-> chunk, target |-> MaxDisplayY, cold |-> FALSE]
      wide == CHOOSE keys \in {s.keys : s \in Samples} : \A s \in Samples : Len(s.keys) <= Len(keys)
      more == {Chunk(wide, values) : values \in [1..(Len(wide) - 1) -> Values]}
  IN  IF request.stage = "matrix" THEN {Shows(request.sums)}
      ELSE IF taken = 0 /\ request = NoRequest
      THEN UNION {{Stores(chunk), Shows(chunk)} : chunk \in more \cup {Column(RegionsAxis(r), 1) : r \in Samples}}
      ELSE IF request = NoRequest /\ Len(fine) >= MergedAxes
      THEN {Stores(Column(CompactedAxis(SubSeq(fine, 1, MergedAxes)), 1))}
      ELSE {}

\* The binary search of KeysRange finds exactly the buckets that overlap the range; the rows of an
\* answer are such buckets too. On the way the request never meets a check of matrix/util.go or the
\* "unreachable" of Matrix.Range: whatever the axes were cut to, they have increasing keys and one
\* value per bucket in every column, and their common keys hold each of them and still meet the
\* range asked for.
RangeExact ==
  /\ request.stage # "panic"
  /\ request.stage = "none" => \A axis \in Stored, r \in Ranges :
       LET wanted == {b \in 1..(Len(axis.keys) - 1) : Overlaps(axis.keys, b, r[1], r[2])}
       IN  /\ WellFormed(axis, 2)
           /\ Intersects(axis.keys, r[1], r[2]) <=> wanted # {}
           /\ wanted # {} => wanted = RangeStart(axis.keys, r[1])..(RangeEnd(axis.keys, r[2]) - 1)
  /\ request.stage = "plane" => \A axis \in Range(request.plane) : WellFormed(axis, 3)
  /\ request.stage = "answer" =>
       \A b \in 1..(Len(request.keys) - 1) : Overlaps(request.keys, b, request.from, request.to)

\* Each key has its distance to the nearest column that has it.
NearestColumn(plane) ==
  LET keys == CompactKeys(plane)
      n == Len(plane)
      dis == Distances(plane, keys)
      HasKey(j, k) == \E m \in DOMAIN plane[j].keys :
                        keys[k] = plane[j].keys[m] /\ (keys[k] = Unlimited => (k = 1 <=> m = 1))
      Apart(i, j) == Max({i - j, j - i})
  IN  \A i \in 1..n, k \in DOMAIN keys :
        dis[i][k] = Min({Apart(i, j) : j \in {c \in 1..n : HasKey(c, k)}} \cup {n + i, n + (n + 1 - i)})

\* No level is cut: as few and as near cells as SplitLevel and SplitCount allow.
NothingCut(axes) ==
  LET keys == CompactKeys(axes)
      dis == BucketDistances(axes, keys)
      pos == [i \in DOMAIN axes |-> Position(axes[i].keys, keys)]
  IN  \A i \in DOMAIN axes : \A b \in 1..(Len(axes[i].keys) - 1) :
        \A k \in Cells(pos[i], b) : ~IsCut(dis[i], Cells(pos[i], b), dis[i][k])

\* The two sweeps over the columns find the nearest column for each key. A row shows no more than
\* the buckets it touches hold, and a column of the matrix loses, to rounding, less than one for each
\* cell unless levels are cut.
MatrixTrue ==
  /\ request.stage = "plane" => NearestColumn(request.plane)
  /\ request.stage = "matrix" =>
      LET uncut == NothingCut(request.plane)
      IN  \A t \in DOMAIN ResponseTags, i \in DOMAIN request.plane :
        LET axis == request.plane[i]
            values == axis.columns[t]
            rows == request.data[t][i]
            Touched(r) == {b \in DOMAIN values : Overlaps(axis.keys, b, request.keys[r], request.keys[r + 1])}
        IN  /\ \A r \in DOMAIN rows : rows[r] <= MapThenSumSet(LAMBDA b : values[b], Touched(r))
            /\ Total(rows) <= Total(values)
            /\ uncut => Total(values) - Total(rows) < Len(request.sums.keys)

\* When axes become one, its values are the mean of theirs: nothing is invented, and what is lost
\* is less than one for each cell and, by the division, for each bucket.
MergeTrue ==
  [][Len(coarse') > Len(coarse) =>
       LET sources == SubSeq(fine, 1, MergedAxes)
           merged == Last(coarse')
           sum(t) == Total([i \in DOMAIN sources |-> Total(sources[i].columns[t])])
           shown(t) == MergedAxes * Total(merged.columns[t])
           cells == Len(CompactKeys(sources)) - 1
       IN  \A t \in 1..2 :
             /\ shown(t) <= sum(t)
             /\ NothingCut(sources) => sum(t) - shown(t) <= MergedAxes * (cells + Len(merged.keys))]_vars

\* Focus and MergeColdLogicalRange sum on their own; the other columns are summed by Reduce. Both
\* give the same, so that the columns of an axis still belong together.
DivideIsReduce(d, divided) ==
  CheckReduceOf(d.chunk.keys, divided.keys) /\ divided = Reduce(d.chunk, divided.keys)

\* The binary search finds the least threshold that leaves few enough rows: fewer rows never come
\* from a lower threshold, though every cut moves all later ones.
LeastThreshold(d) ==
  LET Fits(threshold) == GetFocusRows(d.chunk, threshold) <= FocusTarget(d.target)
  IN  Threshold(d.chunk, d.target) = Min({h \in 1..(Total(d.chunk.values) + 1) : Fits(h)})

\* Fewer rows than the target and one more for each logical border: the cuts at every ratio buckets
\* fit into what the threshold leaves of the target.
RowsFit(d, divided) ==
  LET keys == d.chunk.keys
      borders == {b \in 2..(Len(keys) - 1) : CrossBorder(keys[b - 1], keys[b])}
  IN  d.target < Len(keys) - 1 => Len(divided.values) < d.target + Cardinality(borders)

\* A row that spans logical ranges only ever has the traffic of cold ones, and whole ones.
BordersKept(d, divided) ==
  LET keys == d.chunk.keys
      inside(r) == {b \in 1..(Len(keys) - 1) : Overlaps(keys, b, divided.keys[r], divided.keys[r + 1])}
      spans(r) == \E b \in inside(r) : CrossBorder(divided.keys[r], keys[b])
  IN  \A r \in DOMAIN divided.values : spans(r) =>
        /\ d.cold
        /\ divided.values[r] <= 2 * ColdThreshold(Threshold(d.chunk, d.target))

\* Every column that is divided becomes few enough rows, by the least threshold that does it, that
\* keep to the logical borders and add up as Reduce would add them up.
DivisionsTrue ==
  \A d \in Divisions :
    LET divided == Divide(d.chunk, d.target, d.cold)
    IN  /\ DivideIsReduce(d, divided) /\ LeastThreshold(d)
        /\ RowsFit(d, divided) /\ BordersKept(d, divided)
=============================================================================
