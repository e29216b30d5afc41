------------------------------ MODULE LayerRange ------------------------------
(***************************************************************************)
(* layerStat.Range over the whole chain, with the ring arithmetic and the  *)
(* binary searches of the code, against what a reader should get; and the  *)
(* layers seen as one Timeline.                                            *)
(***************************************************************************)
EXTENDS LayerStat, Sequences, SequencesExt

NothingFound == [times |-> <<>>, axes |-> <<>>]

\* sort.Search: the least i in 0..n with p[i], or n.
Search(n, p) == CHOOSE i \in 0 .. n :
                  /\ i = n \/ p[i]
                  /\ \A j \in 0 .. i - 1 : ~p[j]

\* Mutant: the last slot is copied again instead of the wrapped part.
RingSliceUnwrapped(l, ring, from, n) ==
    [k \in 1 .. n |-> ring[IF from + k - 1 < LayerLen[l] THEN from + k - 1
                        ELSE LayerLen[l] - 1]]

\* ring[from], ring[from+1], ... n elements, going round: the two appends of
\* the wrapped case of Range.
RingSlice(l, ring, from, n) ==
    IF from + n <= LayerLen[l]
    THEN [k \in 1 .. n |-> ring[from + k - 1]]
    ELSE [k \in 1 .. LayerLen[l] - from |-> ring[from + k - 1]]
         \o [k \in 1 .. from + n - LayerLen[l] |-> ring[k - 1]]

\* The end of the slice: the axis in which e falls is part of it.
Included(stop, size) == IF stop # size THEN stop + 1 ELSE stop

\* The part of layer l added to what the layers below it returned.
RangeLayer(l, s, e, older) ==
    LET size  == Size(l)
        at    == [i \in 0 .. size - 1 |-> RingTimes[l][Slot(l, i)]]
        begin == Search(size, [i \in 0 .. size - 1 |-> at[i] > s])
        stop  == Search(size, [i \in 0 .. size - 1 |-> at[i] >= e])
        n     == Included(stop, size) - begin
        from  == (RingHead[l] + begin) % LayerLen[l]
        first == IF from = RingHead[l] THEN StartTime[l]
                 ELSE RingTimes[l][(from - 1 + LayerLen[l]) % LayerLen[l]]
    IN  IF Empty[l] \/ ~(s < EndTime[l] /\ e > StartTime[l])
        THEN older
        ELSE [times |-> (IF older.times = <<>> THEN <<first>> ELSE older.times)
                        \o RingSlice(l, RingTimes[l], from, n),
              axes  |-> older.axes \o RingSlice(l, RingAxes[l], from, n)]

\* layers[0].Range(s, e): the next layer first.
RangeRoot(s, e) ==
    LET found[l \in 0 .. NumLayers] ==
          IF l = NumLayers THEN NothingFound
          ELSE RangeLayer(l, s, e, found[l + 1])
    IN  found[0]

-----------------------------------------------------------------------------
\* All axes, oldest first, with the span of each.
LayerSpans(l) == [i \in 1 .. Size(l) |->
                    [from |-> Bound(l, i - 1), until |-> Bound(l, i),
                     samples |-> RingAxes[l][Slot(l, i - 1)]]]

Spans == LET line[l \in 0 .. NumLayers] ==
               IF l = NumLayers THEN <<>> ELSE line[l + 1] \o LayerSpans(l)
         IN  line[0]

-----------------------------------------------------------------------------
(***************************************************************************)
(* The layers as a Timeline.  During a call the line also has the axes     *)
(* held by the active calls: what a Reduce has taken out so far lies       *)
(* before the rest of its ring, what waits to be inserted after it.        *)
(***************************************************************************)
Pieces(l) == {[from |-> Bound(l, i - 1), until |-> Bound(l, i),
               samples |-> RingAxes[l][Slot(l, i - 1)]] : i \in 1 .. Size(l)}

TakenOut ==
    IF pc = "reduce"
    THEN {[from |-> EndTime[layer + 1], until |-> StartTime[layer], samples |-> merged]}
    ELSE {}

Waiting ==
    IF pc = "idle"
    THEN {}
    ELSE {[from |-> EndTime[l], until |-> arg[l].endTime, samples |-> arg[l].axis] :
             l \in 0 .. layer}

Segments == (UNION {Pieces(l) : l \in Layers}) \union TakenOut \union Waiting

Line == INSTANCE Timeline WITH
          origin <- StartTime[NumLayers - 1], end <- now, segments <- Segments

\* The layers implement one line of history: nothing is inserted, reordered,
\* duplicated or lost on the way from layer to layer.
ImplementsTimeline == Line!Spec

-----------------------------------------------------------------------------
(***************************************************************************)
(* How much history is kept.  Only the last layer forgets, and only when   *)
(* every layer is full, so what remains is at least the axes that every    *)
(* layer keeps across a Reduce.                                            *)
(***************************************************************************)
Unit == LET unit[l \in Layers] == IF l = 0 THEN 1 ELSE unit[l - 1] * LayerRatio[l - 1]
        IN  unit

GuaranteedSamples ==
    LET kept[l \in Layers] ==
          (IF l = NumLayers - 1 THEN LayerLen[l] ELSE LayerLen[l] - LayerRatio[l] + 1)
          * Unit[l] + (IF l = 0 THEN 0 ELSE kept[l - 1])
    IN  kept[NumLayers - 1]

\* The layers never keep less than that many samples once they were taken
\* (defaultStatConfig adds up the layers to 5 weeks).
RetentionKept ==
    LET kept == Between(taken, StartTime[NumLayers - 1], now)
    IN  Cardinality(kept) >= IF Cardinality(taken) < GuaranteedSamples
                             THEN Cardinality(taken) ELSE GuaranteedSamples

\* The columns of a plane: each axis with the times on either side of it.
Columns(plane) == {[from |-> plane.times[k], until |-> plane.times[k + 1],
                    samples |-> plane.axes[k]] : k \in DOMAIN plane.axes}

\* There is one time more than there are axes, and the times increase.
InOrder(plane) ==
    /\ IF plane.axes = <<>> THEN plane.times = <<>>
       ELSE Len(plane.times) = Len(plane.axes) + 1
    /\ \A i, j \in DOMAIN plane.times : i < j => plane.times[i] < plane.times[j]

\* A reader of any interval gets exactly the axes whose span overlaps it, in
\* order and without a seam where one layer ends and the next begins.
RangeExact ==
    pc = "idle" =>
        \A s \in 0 .. MaxTime + 1 : \A e \in s + 1 .. MaxTime + 2 :
            LET plane == RangeRoot(s, e)
            IN  /\ InOrder(plane)
                /\ Columns(plane) = {p \in Segments : p.until > s /\ p.from < e}
=============================================================================
