---------------------------- MODULE StatStoreProofs ----------------------------
(***************************************************************************)
(* Proofs about StatStore for every chain of layers and any number of      *)
(* crashes, as long as every statement succeeds and no crash has hit the   *)
(* set-up of the table.                                                    *)
(***************************************************************************)
EXTENDS StatStore, LayerStatProofs, SequenceTheorems

\* No statement has failed, and the set-up was not torn.
Sound == ~torn /\ dbErrors = 0

\* The rows of layer l are a copy of its ring.
Mirrored(l) ==
    /\ db[l] \in Seq(Row)
    /\ Len(db[l]) = Size(l) + 1
    /\ \A i \in 0 .. Size(l) : db[l][i + 1].time = Bound(l, i)
    /\ \A i \in 1 .. Size(l) : db[l][i + 1].axis = RingAxes[l][Slot(l, i - 1)]

\* The rows are in order, and none are equal.
Increasing(rows) == \A i, j \in 1 .. Len(rows) : i < j => rows[i].time < rows[j].time

\* The rows of layer l are those of a ring: Restore can load them.
Readable(l) ==
    /\ db[l] \in Seq(Row)
    /\ Len(db[l]) \in 1 .. LayerLen[l] + 1
    /\ Increasing(db[l])
    /\ \A i \in 1 .. Len(db[l]) - 1 :
          Inside(db[l][i + 1].axis, db[l][i].time, db[l][i + 1].time)
    /\ db[l][Len(db[l])].time <= now
    /\ l # 0 => db[l][Len(db[l])].time <= db[l - 1][1].time

StartRow == [time |-> now, axis |-> {}]

\* createStartAxisModels has written the start rows of the first layers.
SettingUp ==
    /\ created \in Layers
    /\ \A l \in Layers : /\ StartTime[l] = now /\ EndTime[l] = now /\ Empty[l]
                         /\ db[l] = IF l < created THEN <<StartRow>> ELSE <<>>

\* What the table holds.
TableOK ==
    CASE proc = "up"       -> \A l \in Layers : Mirrored(l)
      [] proc = "creating" -> SettingUp
      [] proc = "down"     -> \A l \in Layers : IF table THEN Readable(l) ELSE db[l] = <<>>

\* The inductive invariant.
StoreInv ==
    /\ dbErrors \in Nat /\ torn \in BOOLEAN
    /\ proc \in {"down", "creating", "up"}
    /\ Sound => /\ OInv
                /\ DOMAIN db = Layers
                /\ proc # "up" => pc = "idle"
                /\ proc # "down" => table
                /\ TableOK

-----------------------------------------------------------------------------
\* The m-th position of an interval.
LEMMA NthOfInterval ==
    ASSUME NEW a \in Nat, NEW n \in Nat, NEW m \in 1 .. n + 1 - a
    PROVE  (CHOOSE k \in a .. n : Cardinality({j \in a .. n : j <= k}) = m) = m + a - 1
  <1>1. ASSUME NEW k \in a .. n PROVE Cardinality({j \in a .. n : j <= k}) = k - a + 1
    <2>1. {j \in a .. n : j <= k} = a .. k
      OBVIOUS
    <2>2. k \in Int /\ ~(a > k)
      OBVIOUS
    <2>3. Cardinality(a .. k) = IF a > k THEN 0 ELSE k - a + 1
      BY <2>2, FS_Interval
    <2>. QED BY <2>1, <2>2, <2>3
  <1>2. m + a - 1 \in a .. n
    OBVIOUS
  <1>3. Cardinality({j \in a .. n : j <= m + a - 1}) = m
    <2>1. (m + a - 1) - a + 1 = m
      OBVIOUS
    <2>. QED BY <1>1, <1>2, <2>1
  <1>4. \A k \in a .. n : Cardinality({j \in a .. n : j <= k}) = m => k = m + a - 1
    <2>1. \A k \in a .. n : k - a + 1 = m => k = m + a - 1
      OBVIOUS
    <2>. QED BY <1>1, <2>1
  <1>. QED BY <1>2, <1>3, <1>4

\* The rows from position a on.
LEMMA RowsFrom ==
    ASSUME NEW R, NEW rows \in Seq(R), NEW a \in Nat \ {0}, a <= Len(rows) + 1
    PROVE  RowsAt(rows, a .. Len(rows)) = [m \in 1 .. Len(rows) + 1 - a |-> rows[m + a - 1]]
  <1>1. PICK n \in Nat : n = Len(rows)
    OBVIOUS
  <1>2. Cardinality(a .. n) = n + 1 - a
    <2>1. Cardinality(a .. n) = IF a > n THEN 0 ELSE n - a + 1
      BY FS_Interval
    <2>. QED BY <1>1, <2>1
  <1>3. \A m \in 1 .. n + 1 - a :
            (CHOOSE k \in a .. n : Cardinality({j \in a .. n : j <= k}) = m) = m + a - 1
    BY NthOfInterval
  <1>4. RowsAt(rows, a .. n) = [m \in 1 .. n + 1 - a |-> rows[m + a - 1]]
    <2>1. RowsAt(rows, a .. n) =
             [m \in 1 .. n + 1 - a |->
                 rows[CHOOSE k \in a .. n : Cardinality({j \in a .. n : j <= k}) = m]]
      BY <1>2 DEF RowsAt
    <2>2. \A m \in 1 .. n + 1 - a :
             rows[CHOOSE k \in a .. n : Cardinality({j \in a .. n : j <= k}) = m] = rows[m + a - 1]
      BY <1>3
    <2>. QED BY <2>1, <2>2, Zenon
  <1>. QED BY <1>1, <1>4

\* All rows.
LEMMA AllRows ==
    ASSUME NEW R, NEW rows \in Seq(R)
    PROVE  RowsAt(rows, 1 .. Len(rows)) = rows
  <1>1. PICK n \in Nat : n = Len(rows)
    OBVIOUS
  <1>2. RowsAt(rows, 1 .. n) = [m \in 1 .. n + 1 - 1 |-> rows[m + 1 - 1]]
    BY <1>1, RowsFrom
  <1>3. n + 1 - 1 = n /\ \A m \in 1 .. n : m + 1 - 1 = m
    OBVIOUS
  <1>4. RowsAt(rows, 1 .. n) = [m \in 1 .. n |-> rows[m]]
    BY <1>2, <1>3
  <1>5. rows = [m \in 1 .. n |-> rows[m]]
    BY <1>1, LenProperties
  <1>. QED BY <1>1, <1>4, <1>5

\* No rows.
LEMMA NoRows == ASSUME NEW rows PROVE RowsAt(rows, {}) = <<>>
  <1>1. RowsAt(rows, {}) =
           [m \in 1 .. 0 |->
               rows[CHOOSE k \in {} : Cardinality({j \in {} : j <= k}) = m]]
    BY FS_EmptySet, Zenon DEF RowsAt
  <1>2. 1 .. 0 = {}
    OBVIOUS
  <1>. QED BY <1>1, <1>2

\* Times can be compared.
LEMMA RowTimes ==
    ASSUME NEW rows \in Seq(Row)
    PROVE  /\ Len(rows) \in Nat /\ DOMAIN rows = 1 .. Len(rows)
           /\ \A k \in 1 .. Len(rows) : rows[k] \in Row /\ rows[k].time \in Nat
  <1>1. Len(rows) \in Nat /\ DOMAIN rows = 1 .. Len(rows)
    BY LenProperties
  <1>2. \A k \in 1 .. Len(rows) : rows[k] \in Row
    BY <1>1, LenProperties
  <1>3. \A r \in Row : r.time \in Nat
    BY TimeNat DEF Row
  <1>. QED BY <1>1, <1>2, <1>3

\* A new row that is later than the others comes last.
LEMMA InsertLast ==
    ASSUME NEW rows \in Seq(Row), NEW r \in Row, \A k \in 1 .. Len(rows) : rows[k].time < r.time
    PROVE  InsertRow(rows, r) = Append(rows, r)
  <1>1. r.time \in Nat
    BY TimeNat DEF Row
  <1>2. {k \in DOMAIN rows : rows[k].time <= r.time} = 1 .. Len(rows)
    BY <1>1, RowTimes
  <1>3. {k \in DOMAIN rows : rows[k].time > r.time} = {}
    BY <1>1, RowTimes
  <1>4. InsertRow(rows, r) = rows \o <<r>> \o <<>>
    BY <1>2, <1>3, AllRows, NoRows DEF InsertRow
  <1>. QED BY <1>4

\* The row that is deleted is the first one.
LEMMA DeleteOldest ==
    ASSUME NEW rows \in Seq(Row), Increasing(rows), Len(rows) >= 1
    PROVE  DeleteRows(rows, rows[1].time) = Tail(rows)
  <1>1. {k \in DOMAIN rows : rows[k].time # rows[1].time} = 2 .. Len(rows)
    <2>1. \A k \in 2 .. Len(rows) : rows[1].time < rows[k].time
      BY RowTimes DEF Increasing
    <2>. QED BY <2>1, RowTimes
  <1>2. RowsAt(rows, 2 .. Len(rows)) = [m \in 1 .. Len(rows) + 1 - 2 |-> rows[m + 2 - 1]]
    <2>1. 2 \in Nat \ {0} /\ 2 <= Len(rows) + 1
      BY RowTimes
    <2>. QED BY <2>1, RowsFrom
  <1>3. Tail(rows) = [m \in 1 .. Len(rows) - 1 |-> rows[m + 1]]
    <2>1. rows # <<>>
      OBVIOUS
    <2>2. Tail(rows) \in Seq(Row) /\ Len(Tail(rows)) = Len(rows) - 1
          /\ \A m \in 1 .. Len(rows) - 1 : Tail(rows)[m] = rows[m + 1]
      BY <2>1, HeadTailProperties
    <2>3. Tail(rows) = [m \in 1 .. Len(rows) - 1 |-> Tail(rows)[m]]
      BY <2>2, LenProperties
    <2>. QED BY <2>2, <2>3
  <1>4. Len(rows) + 1 - 2 = Len(rows) - 1 /\ \A m \in 1 .. Len(rows) - 1 : m + 2 - 1 = m + 1
    BY RowTimes
  <1>5. RowsAt(rows, 2 .. Len(rows)) = [m \in 1 .. Len(rows) - 1 |-> rows[m + 1]]
    BY <1>2, <1>4
  <1>. QED BY <1>1, <1>3, <1>5 DEF DeleteRows

\* Nothing is trimmed.
LEMMA TrimNone == ASSUME NEW rows \in Seq(Row) PROVE TrimRows(rows, {}) = rows
  <1>1. {k \in DOMAIN rows : \A j \in {} : rows[k].time # rows[j].time} = 1 .. Len(rows)
    BY RowTimes
  <1>. QED BY <1>1, AllRows DEF TrimRows

-----------------------------------------------------------------------------
\* The times of mirrored rows are those of the ring.
LEMMA MirroredTimes ==
    ASSUME OInv, NEW l \in Layers, Mirrored(l)
    PROVE  /\ Len(db[l]) = Size(l) + 1 /\ Size(l) \in 0 .. LayerLen[l] /\ LayerLen[l] \in Nat
           /\ Increasing(db[l])
           /\ db[l][1].time = StartTime[l]
           /\ db[l][Len(db[l])].time = EndTime[l]
           /\ \A k \in 1 .. Len(db[l]) : db[l][k].time <= EndTime[l]
  <1>. USE DEF OInv
  <1>1. Len(db[l]) = Size(l) + 1 /\ Size(l) \in 0 .. LayerLen[l] /\ LayerLen[l] \in Nat
    BY SizeRange, LayerAssumption DEF Mirrored
  <1>2. \A k \in 1 .. Len(db[l]) : db[l][k].time = Bound(l, k - 1)
    <2>1. \A i \in 0 .. Size(l) : db[l][i + 1].time = Bound(l, i)
      BY DEF Mirrored
    <2>. TAKE k \in 1 .. Len(db[l])
    <2>2. k - 1 \in 0 .. Size(l) /\ (k - 1) + 1 = k
      BY <1>1
    <2>3. db[l][(k - 1) + 1].time = Bound(l, k - 1)
      BY <2>1, <2>2
    <2>. QED BY <2>2, <2>3
  <1>3. Increasing(db[l])
    <2>1. \A i, j \in 0 .. Size(l) : i < j => Bound(l, i) < Bound(l, j)
      BY DEF RingSorted
    <2>2. \A i, j \in 1 .. Len(db[l]) : i < j => /\ i - 1 \in 0 .. Size(l)
                                                 /\ j - 1 \in 0 .. Size(l)
                                                 /\ i - 1 < j - 1
      BY <1>1
    <2>. QED BY <1>2, <2>1, <2>2 DEF Increasing
  <1>4. 0 \in 0 .. Size(l) /\ 1 \in 1 .. Len(db[l]) /\ Len(db[l]) \in 1 .. Len(db[l])
        /\ Len(db[l]) - 1 = Size(l) /\ 1 - 1 = 0
    BY <1>1
  <1>5. Bound(l, 0) = StartTime[l] /\ Bound(l, Size(l)) = EndTime[l]
    BY DEF Bound, RingSorted
  <1>6. \A k \in 1 .. Len(db[l]) : db[l][k].time <= EndTime[l]
    <2>1. \A i \in 0 .. Size(l) : Bound(l, i) <= EndTime[l]
      BY BoundRange
    <2>2. \A k \in 1 .. Len(db[l]) : k - 1 \in 0 .. Size(l)
      BY <1>1
    <2>. QED BY <1>2, <2>1, <2>2
  <1>. QED BY <1>1, <1>2, <1>3, <1>4, <1>5, <1>6

\* A copy of the rings can be loaded.
LEMMA MirroredReadable ==
    ASSUME OInv, \A k \in Layers : Mirrored(k), NEW l \in Layers
    PROVE  Readable(l)
  <1>1. db[l] \in Seq(Row)
    BY DEF Mirrored
  <1>2. Len(db[l]) \in 1 .. LayerLen[l] + 1 /\ Increasing(db[l])
    BY MirroredTimes
  <1>3. \A i \in 1 .. Len(db[l]) - 1 : Inside(db[l][i + 1].axis, db[l][i].time, db[l][i + 1].time)
    <2>. TAKE i \in 1 .. Len(db[l]) - 1
    <2>1. i \in 1 .. Size(l) /\ i \in 0 .. Size(l) /\ i - 1 \in 0 .. Size(l) /\ (i - 1) + 1 = i
      BY MirroredTimes
    <2>2. /\ db[l][i + 1].time = Bound(l, i)
          /\ db[l][i + 1].axis = RingAxes[l][Slot(l, i - 1)]
      BY <2>1 DEF Mirrored
    <2>3. db[l][i].time = Bound(l, i - 1)
      <3>1. db[l][(i - 1) + 1].time = Bound(l, i - 1)
        BY <2>1 DEF Mirrored
      <3>. QED BY <2>1, <3>1
    <2>4. Inside(RingAxes[l][Slot(l, i - 1)], Bound(l, i - 1), Bound(l, i))
      BY <2>1 DEF OInv, AxesInside
    <2>. QED BY <2>2, <2>3, <2>4
  <1>4. db[l][Len(db[l])].time <= now
    BY MirroredTimes DEF OInv, PastOnly
  <1>5. l # 0 => db[l][Len(db[l])].time <= db[l - 1][1].time
    BY MirroredTimes, EndsBefore
  <1>. QED BY <1>1, <1>2, <1>3, <1>4, <1>5 DEF Readable

\* A ring and rows that do not change.
LEMMA MirrorKept ==
    ASSUME OInv, NEW l \in Layers, Mirrored(l), db'[l] = db[l],
           Size(l)' = Size(l), RingAxes'[l] = RingAxes[l],
           \A i \in Nat : Slot(l, i)' = Slot(l, i) /\ Bound(l, i)' = Bound(l, i)
    PROVE  Mirrored(l)'
  <1>1. Size(l) \in Nat
    BY SizeRange, LayerAssumption DEF OInv
  <1>2. \A i \in 0 .. Size(l) : i \in Nat
    OBVIOUS
  <1>3. \A i \in 1 .. Size(l) : i - 1 \in Nat
    OBVIOUS
  <1>. QED BY <1>1, <1>2, <1>3 DEF Mirrored

\* Reduce takes the oldest axis out of the ring and deletes the first row.
LEMMA TakeOutMirrored ==
    ASSUME OInv, TakingOut, DOMAIN db = Layers, \A l \in Layers : Mirrored(l),
           db' = [db EXCEPT ![layer] = DeleteRows(@, StartTime[layer])]
    PROVE  DOMAIN db' = Layers /\ \A l \in Layers : Mirrored(l)'
  <1>1. layer \in Layers /\ DOMAIN RingAxes = Layers
        /\ RingAxes[layer] \in [0 .. LayerLen[layer] - 1 -> Axis]
        /\ LayerLen[layer] \in Nat \ {0}
    BY LayerAssumption DEF OInv, TypeOK
  <1>2. DOMAIN db' = Layers
        /\ db'[layer] = DeleteRows(db[layer], StartTime[layer])
        /\ \A l \in Layers \ {layer} : db'[l] = db[l]
    BY <1>1
  <1>3. RingAxes' = [RingAxes EXCEPT ![layer][RingHead[layer]] = {}]
    BY DEF TakingOut, TakeOut
  <1>4. ASSUME NEW l \in Layers, l # layer PROVE Mirrored(l)'
    <2>1. /\ Size(l)' = Size(l)
          /\ \A i \in Nat : Slot(l, i)' = Slot(l, i) /\ Bound(l, i)' = Bound(l, i)
      BY <1>4, TakeOutShift
    <2>2. RingAxes'[l] = RingAxes[l]
      BY <1>1, <1>3, <1>4
    <2>. QED BY <1>2, <1>4, <2>1, <2>2, MirrorKept
  <1>5. ASSUME NEW l \in Layers, l = layer PROVE Mirrored(l)'
    <2>1. PICK n \in Nat : n = Size(layer) /\ n >= 1 /\ n <= LayerLen[layer]
      BY <1>1, TakeOutShift
    <2>2. /\ db[layer] \in Seq(Row) /\ Len(db[layer]) = n + 1
          /\ \A i \in 0 .. n : db[layer][i + 1].time = Bound(layer, i)
          /\ \A i \in 1 .. n : db[layer][i + 1].axis = RingAxes[layer][Slot(layer, i - 1)]
      BY <1>1, <2>1 DEF Mirrored
    <2>3. db'[layer] = Tail(db[layer])
      BY <1>1, <1>2, <2>1, <2>2, MirroredTimes, DeleteOldest
    <2>4. db'[layer] \in Seq(Row) /\ Len(db'[layer]) = n
          /\ \A m \in 1 .. n : db'[layer][m] = db[layer][m + 1]
      <3>1. db[layer] # <<>>
        BY <2>1, <2>2
      <3>2. /\ db'[layer] \in Seq(Row) /\ Len(db'[layer]) = Len(db[layer]) - 1
            /\ \A m \in 1 .. Len(db'[layer]) : db'[layer][m] = db[layer][m + 1]
        <4>1. PICK rows \in Seq(Row) : rows = db[layer]
          BY <2>2
        <4>2. /\ Tail(rows) \in Seq(Row) /\ Len(Tail(rows)) = Len(rows) - 1
              /\ \A m \in 1 .. Len(Tail(rows)) : Tail(rows)[m] = rows[m + 1]
          BY <3>1, <4>1, HeadTailProperties
        <4>. QED BY <2>3, <4>1, <4>2
      <3>3. Len(db[layer]) - 1 = n
        BY <2>2
      <3>. QED BY <3>2, <3>3
    <2>5. Size(layer)' = n - 1
      BY <2>1, TakeOutShift
    <2>6. ASSUME NEW i \in 0 .. n - 1 PROVE db'[layer][i + 1].time = Bound(layer, i)'
      <3>1. i + 1 \in 0 .. n /\ i + 1 \in 1 .. n /\ i \in 0 .. LayerLen[layer] - 1
        BY <1>1, <2>1
      <3>2. Bound(layer, i)' = Bound(layer, i + 1)
        BY <3>1, TakeOutShift
      <3>3. db[layer][(i + 1) + 1].time = Bound(layer, i + 1)
        BY <2>2, <3>1
      <3>. QED BY <2>4, <3>1, <3>2, <3>3
    <2>7. ASSUME NEW i \in 1 .. n - 1
          PROVE  db'[layer][i + 1].axis = RingAxes'[layer][Slot(layer, i - 1)']
      <3>1. /\ i - 1 \in 0 .. LayerLen[layer] - 1 /\ i \in 0 .. LayerLen[layer] - 1
            /\ (i - 1) + 1 = i /\ i + 1 \in 1 .. n /\ (i + 1) - 1 = i
            /\ 0 \in 0 .. LayerLen[layer] - 1 /\ i # 0 /\ i \in Nat
        BY <1>1, <2>1
      <3>2. Slot(layer, i - 1)' = Slot(layer, i)
        <4>1. Slot(layer, i - 1)' = Slot(layer, (i - 1) + 1)
          BY <3>1, TakeOutShift
        <4>. QED BY <3>1, <4>1
      <3>3. Slot(layer, i) # RingHead[layer]
        <4>1. Slot(layer, i) # Slot(layer, 0)
          BY <1>1, <3>1, SlotDistinct DEF OInv
        <4>2. RingHead[layer] \in 0 .. LayerLen[layer] - 1
          BY <1>1 DEF OInv, TypeOK
        <4>3. Slot(layer, 0) = RingHead[layer]
          BY <1>1, <4>2, ModOnce DEF Slot
        <4>. QED BY <4>1, <4>3
      <3>4. RingAxes'[layer][Slot(layer, i)] = RingAxes[layer][Slot(layer, i)]
        <4>1. Slot(layer, i) \in 0 .. LayerLen[layer] - 1
          BY <1>1, <3>1, SlotRange DEF OInv
        <4>. QED BY <1>1, <1>3, <3>3, <4>1
      <3>5. db[layer][(i + 1) + 1].axis = RingAxes[layer][Slot(layer, (i + 1) - 1)]
        BY <2>2, <3>1
      <3>6. db'[layer][i + 1] = db[layer][(i + 1) + 1]
        BY <2>4, <3>1
      <3>. QED BY <3>1, <3>2, <3>4, <3>5, <3>6
    <2>8. n = (n - 1) + 1
      BY <2>1
    <2>9. layer' = layer
      BY DEF TakingOut
    <2>10. Size(l)' = n - 1
      BY <1>5, <2>5, <2>9
    <2>11. \A i \in 0 .. n - 1 : db'[l][i + 1].time = Bound(l, i)'
      BY <1>5, <2>6, <2>9
    <2>12. \A i \in 1 .. n - 1 : db'[l][i + 1].axis = RingAxes'[l][Slot(l, i - 1)']
      BY <1>5, <2>7, <2>9
    <2>. QED BY <1>5, <2>4, <2>8, <2>10, <2>11, <2>12 DEF Mirrored
  <1>. QED BY <1>2, <1>4, <1>5

\* The tail of Append puts the axis into the ring and adds a row.
LEMMA InsertMirrored ==
    ASSUME OInv, Insert, DOMAIN db = Layers, \A l \in Layers : Mirrored(l),
           db' = [db EXCEPT ![layer] =
                    InsertRow(@, [time |-> arg[layer].endTime, axis |-> arg[layer].axis])]
    PROVE  DOMAIN db' = Layers /\ \A l \in Layers : Mirrored(l)'
  <1>. DEFINE r == [time |-> arg[layer].endTime, axis |-> arg[layer].axis]
  <1>1. layer \in Layers /\ DOMAIN RingAxes = Layers /\ Layers \subseteq Nat
        /\ RingAxes[layer] \in [0 .. LayerLen[layer] - 1 -> Axis]
        /\ LayerLen[layer] \in Nat \ {0}
        /\ arg[layer] \in [axis : Axis, endTime : Time]
    <2>1. Layers \subseteq Nat
      BY LayerAssumption DEF Layers
    <2>. QED BY <2>1, LayerAssumption DEF OInv, TypeOK
  <1>2. DOMAIN db' = Layers
        /\ db'[layer] = InsertRow(db[layer], r)
        /\ \A l \in Layers \ {layer} : db'[l] = db[l]
    BY <1>1
  <1>3. RingAxes' = [RingAxes EXCEPT ![layer][RingTail[layer]] = arg[layer].axis]
        /\ pc # "idle"
    BY DEF Insert
  <1>4. ASSUME NEW l \in Layers, l # layer PROVE Mirrored(l)'
    <2>1. /\ Size(l)' = Size(l)
          /\ \A i \in Nat : Slot(l, i)' = Slot(l, i) /\ Bound(l, i)' = Bound(l, i)
      BY <1>4, InsertShift
    <2>2. RingAxes'[l] = RingAxes[l]
      BY <1>1, <1>3, <1>4
    <2>. QED BY <1>2, <1>4, <2>1, <2>2, MirrorKept
  <1>5. ASSUME NEW l \in Layers, l = layer PROVE Mirrored(l)'
    <2>1. PICK n \in Nat : n = Size(l)
      BY <1>5, SizeRange, LayerAssumption DEF OInv
    <2>2. /\ db[l] \in Seq(Row) /\ Len(db[l]) = n + 1
          /\ \A i \in 0 .. n : db[l][i + 1].time = Bound(l, i)
          /\ \A i \in 1 .. n : db[l][i + 1].axis = RingAxes[l][Slot(l, i - 1)]
      BY <2>1 DEF Mirrored
    <2>3. /\ n < LayerLen[l] /\ Size(l)' = n + 1
          /\ \A i \in Nat : Slot(l, i)' = Slot(l, i)
          /\ \A i \in 0 .. n : Bound(l, i)' = Bound(l, i)
          /\ Bound(l, n + 1)' = arg[l].endTime
          /\ RingTail[l] = Slot(l, n)
      BY <1>5, <2>1, InsertShift
    <2>4. r \in Row /\ r.time = arg[l].endTime /\ r.axis = arg[l].axis
      BY <1>1, <1>5 DEF Row
    <2>5. \A k \in 1 .. Len(db[l]) : db[l][k].time < r.time
      <3>1. EndTime[l] < arg[l].endTime
        BY <1>1, <1>3, <1>5 DEF OInv, LayersOrdered
      <3>2. EndTime[l] \in Nat /\ arg[l].endTime \in Nat
        BY <1>1, <1>5, TimeNat DEF OInv, TypeOK
      <3>3. \A k \in 1 .. Len(db[l]) : db[l][k].time \in Nat /\ db[l][k].time <= EndTime[l]
        BY <2>2, RowTimes, MirroredTimes
      <3>. QED BY <2>4, <3>1, <3>2, <3>3
    <2>6. db'[l] = Append(db[l], r)
      BY <1>2, <1>5, <2>2, <2>4, <2>5, InsertLast
    <2>7. /\ db'[l] \in Seq(Row) /\ Len(db'[l]) = n + 2
          /\ \A m \in 1 .. n + 1 : db'[l][m] = db[l][m]
          /\ db'[l][n + 2] = r
      <3>. HIDE DEF r
      <3>0. \A s \in Seq(Row), e \in Row :
               /\ Append(s, e) \in Seq(Row) /\ Len(Append(s, e)) = Len(s) + 1
               /\ \A m \in 1 .. Len(s) : Append(s, e)[m] = s[m]
               /\ Append(s, e)[Len(s) + 1] = e
        BY AppendProperties
      <3>1. /\ Append(db[l], r) \in Seq(Row) /\ Len(Append(db[l], r)) = Len(db[l]) + 1
            /\ \A m \in 1 .. Len(db[l]) : Append(db[l], r)[m] = db[l][m]
            /\ Append(db[l], r)[Len(db[l]) + 1] = r
        BY <2>2, <2>4, <3>0, Zenon
      <3>2. Len(db[l]) = n + 1 /\ Len(db[l]) + 1 = n + 2
        BY <2>2
      <3>. QED BY <2>6, <3>1, <3>2
    <2>8. ASSUME NEW i \in 0 .. n + 1 PROVE db'[l][i + 1].time = Bound(l, i)'
      <3>1. CASE i = n + 1
        BY <2>3, <2>4, <2>7, <3>1
      <3>2. CASE i # n + 1
        BY <2>2, <2>3, <2>7, <3>2
      <3>. QED BY <3>1, <3>2
    <2>9. ASSUME NEW i \in 1 .. n + 1
          PROVE  db'[l][i + 1].axis = RingAxes'[l][Slot(l, i - 1)']
      <3>1. i - 1 \in Nat /\ i - 1 \in 0 .. LayerLen[l] - 1 /\ n \in 0 .. LayerLen[l] - 1
        BY <1>1, <1>5, <2>3
      <3>2. Slot(l, i - 1)' = Slot(l, i - 1)
        BY <2>3, <3>1
      <3>3. Slot(l, i - 1) \in 0 .. LayerLen[l] - 1
        BY <3>1, SlotRange DEF OInv
      <3>4. CASE i = n + 1
        <4>1. i + 1 = n + 2 /\ i - 1 = n
          BY <3>4
        <4>2. RingAxes'[l][RingTail[l]] = arg[l].axis
          BY <1>1, <1>3, <1>5, <2>3, <3>3, <4>1
        <4>. QED BY <2>3, <2>4, <2>7, <3>2, <4>1, <4>2
      <3>5. CASE i # n + 1
        <4>1. i \in 1 .. n /\ i + 1 \in 1 .. n + 1 /\ i - 1 # n
          BY <3>5
        <4>2. Slot(l, i - 1) # RingTail[l]
          BY <2>3, <3>1, <4>1, SlotDistinct DEF OInv
        <4>3. RingAxes'[l][Slot(l, i - 1)] = RingAxes[l][Slot(l, i - 1)]
          BY <1>1, <1>3, <1>5, <3>3, <4>2
        <4>. QED BY <2>2, <2>7, <3>2, <4>1, <4>3
      <3>. QED BY <3>4, <3>5
    <2>10. n + 2 = (n + 1) + 1
      OBVIOUS
    <2>. QED BY <2>3, <2>7, <2>8, <2>9, <2>10 DEF Mirrored
  <1>. QED BY <1>2, <1>4, <1>5

-----------------------------------------------------------------------------
\* While the process is up, its rings are sound and mirrored.
LEMMA UpState ==
    ASSUME StoreInv, Sound, pc # "idle" \/ proc = "up"
    PROVE  proc = "up" /\ OInv /\ DOMAIN db = Layers /\ \A l \in Layers : Mirrored(l)
  <1>1. proc = "up"
    BY DEF StoreInv
  <1>. QED BY <1>1 DEF StoreInv, TableOK

\* What a step of a process that stays up has to keep.
LEMMA StaysUp ==
    ASSUME StoreInv, proc' = proc, torn' = torn, table' = table, dbErrors' \in Nat,
           dbErrors' = 0 => dbErrors = 0,
           Sound /\ Sound' => /\ proc = "up" /\ OInv'
                              /\ DOMAIN db' = Layers /\ \A l \in Layers : Mirrored(l)'
    PROVE  StoreInv'
  <1>1. Sound' => Sound
    BY DEF Sound
  <1>. QED BY <1>1 DEF StoreInv, TableOK

\* A new sample does not touch the rings, nor the rows.
LEMMA SampleStore ==
    ASSUME StoreInv, NEW t \in 1 .. MaxTime, Sample(t)
    PROVE  StoreInv'
  <1>1. proc = "up" /\ StatAppend(t) /\ UNCHANGED storeVars
    BY DEF Sample
  <1>2. dbErrors \in Nat
    BY DEF StoreInv
  <1>3. ASSUME Sound PROVE OInv' /\ DOMAIN db' = Layers /\ \A l \in Layers : Mirrored(l)'
    <2>1. OInv /\ DOMAIN db = Layers /\ \A l \in Layers : Mirrored(l)
      BY <1>1, <1>3, UpState
    <2>2. OInv' /\ Sampled(t)
      BY <1>1, <2>1, SampleOInv, SampleFrame
    <2>3. RingAxes' = RingAxes /\ db' = db
      BY <1>1, <2>2 DEF Sampled, ringVars, storeVars
    <2>4. ASSUME NEW l \in Layers PROVE Mirrored(l)'
      <3>1. Size(l)' = Size(l) /\ \A i \in Nat : Slot(l, i)' = Slot(l, i) /\ Bound(l, i)' = Bound(l, i)
        BY <2>2 DEF Sampled
      <3>. QED BY <2>1, <2>3, <3>1, MirrorKept
    <2>. QED BY <2>1, <2>2, <2>3, <2>4
  <1>. QED BY <1>1, <1>2, <1>3, StaysUp DEF storeVars

\* The two steps that take an axis out.
LEMMA TakeOutStore ==
    ASSUME StoreInv, TakingOut, OInv => OInv', DeleteFirst(layer),
           UNCHANGED <<proc, table, created, crashes, torn>>
    PROVE  StoreInv'
  <1>1. dbErrors' \in Nat /\ (dbErrors' = 0 => dbErrors = 0)
    BY DEF StoreInv, DeleteFirst, Statement
  <1>2. ASSUME Sound, Sound'
        PROVE  proc = "up" /\ OInv' /\ DOMAIN db' = Layers /\ \A l \in Layers : Mirrored(l)'
    <2>1. pc # "idle"
      BY DEF TakingOut
    <2>2. proc = "up" /\ OInv /\ DOMAIN db = Layers /\ \A l \in Layers : Mirrored(l)
      BY <1>2, <2>1, UpState
    <2>3. db' = [db EXCEPT ![layer] = DeleteRows(@, StartTime[layer])]
      BY <1>2 DEF DeleteFirst, Statement, Sound
    <2>. QED BY <2>2, <2>3, TakeOutMirrored
  <1>. QED BY <1>1, <1>2, StaysUp

\* Reduce of the last layer.
LEMMA DropOldestStore ==
    ASSUME StoreInv, DropOldestRow
    PROVE  StoreInv'
  <1>1. DropOldest /\ DeleteFirst(layer) /\ UNCHANGED <<proc, table, created, crashes, torn>>
    BY DEF DropOldestRow
  <1>2. TakingOut
    BY <1>1 DEF DropOldest, TakingOut, clockVars
  <1>. QED BY <1>1, <1>2, DropOldestOInv, TakeOutStore

\* One turn of Reduce's loop.
LEMMA ReduceOneStore ==
    ASSUME StoreInv, ReduceOneRow
    PROVE  StoreInv'
  <1>1. ReduceOne /\ DeleteFirst(layer) /\ UNCHANGED <<proc, table, created, crashes, torn>>
    BY DEF ReduceOneRow
  <1>2. TakingOut
    BY <1>1 DEF ReduceOne, TakingOut, clockVars
  <1>. QED BY <1>1, <1>2, ReduceOneOInv, TakeOutStore

\* Handing over does not touch the rings, nor the rows.
LEMMA HandOverStore ==
    ASSUME StoreInv, HandOverAxis
    PROVE  StoreInv'
  <1>1. HandOver /\ UNCHANGED storeVars
    BY DEF HandOverAxis
  <1>2. dbErrors \in Nat /\ pc = "reduce"
    BY <1>1 DEF StoreInv, HandOver
  <1>3. ASSUME Sound
        PROVE  proc = "up" /\ OInv' /\ DOMAIN db' = Layers /\ \A l \in Layers : Mirrored(l)'
    <2>1. proc = "up" /\ OInv /\ DOMAIN db = Layers /\ \A l \in Layers : Mirrored(l)
      BY <1>2, <1>3, UpState
    <2>2. OInv'
      BY <1>1, <2>1, HandOverOInv
    <2>3. UNCHANGED ringVars /\ db' = db /\ pc' = "append" /\ layer' = layer + 1 /\ layer \in Nat
      BY <1>1, <2>1, LayerAssumption DEF HandOver, storeVars, OInv, TypeOK, Layers
    <2>4. ASSUME NEW l \in Layers PROVE Mirrored(l)'
      <3>1. l \in Nat
        BY LayerAssumption DEF Layers
      <3>2. Reduced(l)' = Reduced(l)
        BY <1>2, <2>3, <3>1 DEF Reduced
      <3>3. Size(l)' = Size(l) /\ \A i \in Nat : Slot(l, i)' = Slot(l, i) /\ Bound(l, i)' = Bound(l, i)
        BY <2>3, <3>2 DEF Size, Slot, Bound, ringVars
      <3>. QED BY <2>1, <2>3, <3>3, MirrorKept DEF ringVars
    <2>. QED BY <2>1, <2>2, <2>3, <2>4
  <1>. QED BY <1>1, <1>2, <1>3, StaysUp DEF storeVars

\* The tail of Append, with its row.
LEMMA InsertStore ==
    ASSUME StoreInv, InsertAxis
    PROVE  StoreInv'
  <1>1. /\ Insert /\ UNCHANGED <<proc, table, created, crashes, torn>>
        /\ Statement([db EXCEPT ![layer] =
              InsertRow(@, [time |-> arg[layer].endTime, axis |-> arg[layer].axis])])
    BY DEF InsertAxis
  <1>2. dbErrors' \in Nat /\ (dbErrors' = 0 => dbErrors = 0) /\ pc # "idle"
    BY <1>1 DEF StoreInv, Statement, Insert
  <1>3. ASSUME Sound, Sound'
        PROVE  proc = "up" /\ OInv' /\ DOMAIN db' = Layers /\ \A l \in Layers : Mirrored(l)'
    <2>1. proc = "up" /\ OInv /\ DOMAIN db = Layers /\ \A l \in Layers : Mirrored(l)
      BY <1>2, <1>3, UpState
    <2>2. db' = [db EXCEPT ![layer] =
              InsertRow(@, [time |-> arg[layer].endTime, axis |-> arg[layer].axis])]
      BY <1>1, <1>3 DEF Statement, Sound
    <2>. QED BY <1>1, <2>1, <2>2, InsertOInv, InsertMirrored
  <1>. QED BY <1>1, <1>2, <1>3, StaysUp

-----------------------------------------------------------------------------
\* Fresh rings are sound when no call runs and their start is past.
LEMMA FreshOInv ==
    ASSUME NEW t \in Time, FreshRings(t), now' \in Time, t <= now',
           taken' \in Axis, taken' \subseteq 1 .. now',
           pc' = "idle", layer' = 0, drained' = 0, merged' = {},
           arg' \in [Layers -> [axis : Axis, endTime : Time]]
    PROVE  OInv'
  <1>0. 0 \in Layers /\ NumLayers \in Nat \ {0} /\ LayerLen \in [Layers -> Nat \ {0}]
    BY LayerAssumption DEF Layers
  <1>1. \A l \in Layers : /\ StartTime'[l] = t /\ EndTime'[l] = t /\ Empty'[l]
                          /\ RingHead'[l] = 0 /\ RingTail'[l] = 0
    BY DEF FreshRings, EachLayer
  <1>2. TypeOK'
    <2>1. StartTime' \in [Layers -> Time] /\ EndTime' \in [Layers -> Time]
          /\ Empty' \in [Layers -> BOOLEAN]
          /\ DOMAIN RingHead' = Layers /\ DOMAIN RingTail' = Layers
      BY DEF FreshRings, EachLayer
    <2>2. DOMAIN RingTimes' = Layers /\ DOMAIN RingAxes' = Layers
      BY DEF FreshRings, EachSlot
    <2>3. 0 \in Time /\ {} \in Axis
      BY LayerAssumption DEF Time, Axis
    <2>4. \A l \in Layers : /\ RingTimes'[l] \in [0 .. LayerLen[l] - 1 -> Time]
                            /\ RingAxes'[l] \in [0 .. LayerLen[l] - 1 -> Axis]
      BY <2>3 DEF FreshRings, EachSlot
    <2>5. \A l \in Layers : 0 \in 0 .. LayerLen[l] - 1
      BY <1>0
    <2>6. merged' \in Axis /\ drained' \in Nat
      BY <2>3
    <2>. QED BY <1>0, <1>1, <2>1, <2>2, <2>4, <2>5, <2>6 DEF TypeOK
  <1>3. \A l \in Layers : Size(l)' = 0 /\ ~Reduced(l)'
    <2>1. \A l \in Layers : ~Reduced(l)'
      BY DEF Reduced
    <2>2. \A l \in Layers : Size(l)' = 0
      BY <1>1 DEF Size
    <2>. QED BY <2>1, <2>2
  <1>4. CallOK'
    <2>1. pc' # "reduce"
      OBVIOUS
    <2>. QED BY <1>1, <1>3, <2>1 DEF CallOK
  <1>5. PastOnly'
    BY <1>1 DEF PastOnly
  <1>6. RingSorted' /\ AxesInside'
    <2>1. \A l \in Layers : Bound(l, 0)' = EndTime'[l]
      BY <1>1 DEF Bound
    <2>2. \A i, j \in 0 .. 0 : ~(i < j)
      OBVIOUS
    <2>3. 1 .. 0 = {}
      OBVIOUS
    <2>. QED BY <1>3, <2>1, <2>2, <2>3 DEF RingSorted, AxesInside
  <1>7. LayersOrdered'
    <2>1. \A l \in Layers \ {0} : l - 1 \in Layers
      BY <1>0 DEF Layers
    <2>2. \A l \in Layers : EndTime'[l] <= Above(l)'
      <3>1. t <= t
        BY TimeNat
      <3>. QED BY <1>1, <2>1, <3>1 DEF Above
    <2>. QED BY <2>2 DEF LayersOrdered
  <1>. QED BY <1>2, <1>4, <1>5, <1>6, <1>7 DEF OInv

\* Before the first start.
LEMMA StoreInitInv == StoreInit => StoreInv
  <1>. SUFFICES ASSUME StoreInit PROVE StoreInv
    OBVIOUS
  <1>1. OInv
    BY InitIInv, ExactIsOrdered DEF StoreInit
  <1>2. pc = "idle" /\ DOMAIN db = Layers /\ ~table /\ proc = "down" /\ \A l \in Layers : db[l] = <<>>
    BY DEF StoreInit, Init
  <1>. QED BY <1>1, <1>2 DEF StoreInv, TableOK, StoreInit

\* Whenever the process dies, the table can be loaded.
LEMMA CrashStore ==
    ASSUME StoreInv, Crash
    PROVE  StoreInv'
  <1>1. /\ proc \in {"creating", "up"} /\ proc' = "down" /\ torn' = (torn \/ proc = "creating")
        /\ FreshRings(0) /\ pc' = "idle" /\ layer' = 0 /\ drained' = 0 /\ merged' = {}
        /\ arg' = EachLayer(NoArg)
        /\ now' = now /\ taken' = taken /\ table' = table /\ db' = db /\ dbErrors' = dbErrors
    BY DEF Crash, StoreInv, clockVars
  <1>2. dbErrors' \in Nat /\ torn' \in BOOLEAN
    BY <1>1 DEF StoreInv
  <1>3. ASSUME Sound' PROVE OInv' /\ DOMAIN db' = Layers /\ TableOK'
    <2>1. Sound /\ proc = "up"
      BY <1>1, <1>3 DEF Sound
    <2>2. OInv /\ DOMAIN db = Layers /\ \A l \in Layers : Mirrored(l)
      BY <2>1, UpState
    <2>3. OInv'
      <3>1. now \in Time /\ taken \in Axis /\ taken \subseteq 1 .. now
        BY <2>2 DEF OInv, TypeOK, PastOnly
      <3>2. 0 \in Time /\ 0 <= now
        BY <3>1, LayerAssumption DEF Time
      <3>3. arg' \in [Layers -> [axis : Axis, endTime : Time]]
        BY <1>1, <3>2 DEF EachLayer, NoArg, Axis
      <3>. QED BY <1>1, <3>1, <3>2, <3>3, FreshOInv
    <2>4. \A l \in Layers : Readable(l)'
      <3>1. \A l \in Layers : Readable(l)
        BY <2>2, MirroredReadable
      <3>. QED BY <1>1, <3>1 DEF Readable
    <2>5. table'
      BY <1>1, <2>1 DEF StoreInv
    <2>. QED BY <1>1, <2>2, <2>3, <2>4, <2>5 DEF TableOK
  <1>. QED BY <1>1, <1>2, <1>3 DEF StoreInv

\* Restore with an empty table, whether it was made now or has been cleared.
LEMMA FreshStartStore ==
    ASSUME StoreInv, proc = "down", NEW t \in now .. now + MaxDown, StartedAt(t), BeginCreating,
           table', db' = [l \in Layers |-> <<>>] \/ (db' = db /\ ~table)
    PROVE  StoreInv'
  <1>1. /\ proc' = "creating" /\ created' = 0 /\ dbErrors' = dbErrors /\ torn' = torn
        /\ t <= MaxTime /\ now' = t /\ FreshRings(t)
        /\ pc' = pc /\ layer' = layer /\ arg' = arg /\ drained' = drained /\ merged' = merged
        /\ taken' = taken
    BY DEF StartedAt, BeginCreating, callVars
  <1>2. dbErrors' \in Nat /\ torn' \in BOOLEAN
    BY <1>1 DEF StoreInv
  <1>3. ASSUME Sound' PROVE OInv' /\ DOMAIN db' = Layers /\ pc' = "idle" /\ TableOK'
    <2>1. OInv /\ DOMAIN db = Layers /\ pc = "idle" /\ TableOK
      BY <1>1, <1>3 DEF StoreInv, Sound
    <2>2. t \in Time /\ t \in Nat /\ now <= t
      <3>1. now \in Nat
        BY <2>1, TimeNat DEF OInv, TypeOK
      <3>2. t \in Nat /\ now <= t
        BY <3>1, StoreAssumption
      <3>. QED BY <1>1, <3>2, LayerAssumption DEF Time
    <2>3. layer = 0 /\ drained = 0 /\ merged = {} /\ arg \in [Layers -> [axis : Axis, endTime : Time]]
      BY <2>1 DEF OInv, CallOK, TypeOK
    <2>4. taken \in Axis /\ taken \subseteq 1 .. t
      <3>1. taken \in Axis /\ taken \subseteq 1 .. now /\ now \in Nat
        BY <2>1, TimeNat DEF OInv, TypeOK, PastOnly
      <3>. QED BY <2>2, <3>1
    <2>5. OInv'
      <3>1. t <= t
        BY <2>2
      <3>. QED BY <1>1, <2>1, <2>2, <2>3, <2>4, <3>1, FreshOInv
    <2>6. DOMAIN db' = Layers /\ \A l \in Layers : db'[l] = <<>>
      BY <2>1 DEF TableOK
    <2>7. SettingUp'
      <3>1. 0 \in Layers /\ \A l \in Layers : ~(l < 0)
        BY LayerAssumption DEF Layers
      <3>2. \A l \in Layers : StartTime'[l] = now' /\ EndTime'[l] = now' /\ Empty'[l]
        BY <1>1 DEF FreshRings, EachLayer
      <3>. QED BY <1>1, <2>6, <3>1, <3>2 DEF SettingUp
    <2>. QED BY <1>1, <2>1, <2>5, <2>6, <2>7 DEF TableOK
  <1>. QED BY <1>1, <1>2, <1>3 DEF StoreInv

\* Restore without a table.
LEMMA StartFirstStore ==
    ASSUME StoreInv, NEW t \in now .. now + MaxDown, StartFirst(t)
    PROVE  StoreInv'
  BY FreshStartStore DEF StartFirst

\* Restore with nothing but a start row in layer 0.
LEMMA StartClearedStore ==
    ASSUME StoreInv, NEW t \in now .. now + MaxDown, StartCleared(t)
    PROVE  StoreInv'
  BY FreshStartStore DEF StartCleared

\* The loop that writes the start rows.
LEMMA CreateStartRowStore ==
    ASSUME StoreInv, CreateStartRow
    PROVE  StoreInv'
  <1>1. /\ proc = "creating" /\ created' = NextCreated
        /\ db' = [db EXCEPT ![created] = InsertRow(@, [time |-> StartTime[created], axis |-> {}])]
        /\ proc' = IF created = NumLayers - 1 THEN "up" ELSE proc
        /\ UNCHANGED <<vars, table, dbErrors, torn>>
    BY DEF CreateStartRow
  <1>2. dbErrors' \in Nat /\ torn' \in BOOLEAN
    BY <1>1 DEF StoreInv
  <1>3. ASSUME Sound' PROVE OInv' /\ DOMAIN db' = Layers /\ pc' = "idle" /\ table' /\ TableOK'
    <2>1. OInv /\ DOMAIN db = Layers /\ pc = "idle" /\ table /\ SettingUp
      BY <1>1, <1>3 DEF StoreInv, Sound, TableOK
    <2>2. OInv'
      BY <1>1, <2>1, StutterOInv
    <2>3. UNCHANGED <<StartTime, EndTime, Empty, RingTimes, RingAxes, RingHead, RingTail, now, pc, table>>
      BY <1>1 DEF vars, ringVars, callVars, clockVars
    <2>4. /\ created \in Layers /\ StartTime[created] = now /\ db[created] = <<>>
          /\ Layers \subseteq Nat /\ NumLayers \in Nat
          /\ \A l \in Layers : db[l] = IF l < created THEN <<StartRow>> ELSE <<>>
      <3>1. Layers \subseteq Nat /\ NumLayers \in Nat
        BY LayerAssumption DEF Layers
      <3>2. created \in Layers /\ ~(created < created)
        BY <2>1, <3>1 DEF SettingUp
      <3>. QED BY <2>1, <3>1, <3>2 DEF SettingUp
    <2>5. StartRow \in Row
      <3>1. now \in Time
        BY <2>1 DEF OInv, TypeOK
      <3>. QED BY <3>1 DEF StartRow, Row, Axis
    <2>6. InsertRow(<<>>, StartRow) = <<StartRow>>
      <3>1. <<>> \in Seq(Row) /\ \A k \in 1 .. Len(<<>>) : <<>>[k].time < StartRow.time
        OBVIOUS
      <3>2. InsertRow(<<>>, StartRow) = Append(<<>>, StartRow)
        BY <2>5, <3>1, InsertLast
      <3>. QED BY <3>2
    <2>7. /\ DOMAIN db' = Layers
          /\ \A l \in Layers : db'[l] = IF l <= created THEN <<StartRow>> ELSE <<>>
      <3>1. db' = [db EXCEPT ![created] = <<StartRow>>]
        BY <1>1, <2>4, <2>6 DEF StartRow
      <3>. QED BY <2>1, <2>4, <3>1
    <2>8. CASE created = NumLayers - 1
      <3>1. proc' = "up" /\ \A l \in Layers : db'[l] = <<StartRow>>
        <4>1. \A l \in Layers : l <= created
          BY <2>4, <2>8 DEF Layers
        <4>. QED BY <1>1, <2>7, <2>8, <4>1
      <3>2. ASSUME NEW l \in Layers PROVE Mirrored(l)'
        <4>1. Size(l)' = 0 /\ Bound(l, 0)' = now
          BY <2>1, <2>3 DEF Size, Bound, SettingUp
        <4>2. db'[l] \in Seq(Row) /\ Len(db'[l]) = 1 /\ db'[l][1].time = now
          <5>1. <<StartRow>> \in Seq(Row) /\ Len(<<StartRow>>) = 1 /\ <<StartRow>>[1] = StartRow
            BY <2>5
          <5>2. StartRow.time = now
            BY DEF StartRow
          <5>. QED BY <3>1, <5>1, <5>2
        <4>3. \A i \in 0 .. 0 : i = 0
          OBVIOUS
        <4>4. 1 .. 0 = {} /\ 0 + 1 = 1
          OBVIOUS
        <4>. QED BY <4>1, <4>2, <4>3, <4>4 DEF Mirrored
      <3>. QED BY <2>1, <2>2, <2>3, <2>7, <3>1, <3>2 DEF TableOK
    <2>9. CASE created # NumLayers - 1
      <3>1. proc' = "creating" /\ created' = created + 1
        BY <1>1, <2>9 DEF NextCreated
      <3>2. created + 1 \in Layers /\ \A l \in Layers : l <= created <=> l < created + 1
        BY <2>4, <2>9 DEF Layers
      <3>3. StartRow' = StartRow
        BY <2>3 DEF StartRow
      <3>4. SettingUp'
        BY <2>1, <2>3, <2>7, <3>1, <3>2, <3>3 DEF SettingUp
      <3>. QED BY <2>1, <2>2, <2>3, <2>7, <3>1, <3>4 DEF TableOK
    <2>. QED BY <2>8, <2>9
  <1>4. proc' \in {"creating", "up"}
    BY <1>1
  <1>. QED BY <1>2, <1>3, <1>4 DEF StoreInv

\* A step that changes nothing.
LEMMA StutterStore ==
    ASSUME StoreInv, UNCHANGED allVars
    PROVE  StoreInv'
  <1>1. UNCHANGED vars /\ UNCHANGED storeVars
    BY DEF allVars
  <1>2. UNCHANGED <<proc, table, db, created, dbErrors, torn>>
    BY <1>1 DEF storeVars
  <1>3. UNCHANGED <<StartTime, EndTime, Empty, RingTimes, RingAxes, RingHead, RingTail, now, pc, layer>>
    BY <1>1 DEF vars, ringVars, callVars, clockVars
  <1>4. Sound => OInv'
    BY <1>1, StutterOInv DEF StoreInv
  <1>5. Sound' = Sound
    BY <1>2 DEF Sound
  <1>6. TableOK' = TableOK
    BY <1>2, <1>3 DEF TableOK, Mirrored, Readable, SettingUp, StartRow, Size, Bound, Slot, Reduced
  <1>. QED BY <1>2, <1>3, <1>4, <1>5, <1>6 DEF StoreInv

-----------------------------------------------------------------------------
\* A layer after Restore: its ring holds what its rows say.
Rebuilt(l) ==
    /\ StartTime'[l] = db[l][1].time
    /\ EndTime'[l] = db[l][Len(db[l])].time
    /\ RingHead'[l] = 0
    /\ RingTail'[l] = (Len(db[l]) - 1) % LayerLen[l]
    /\ Empty'[l] <=> Len(db[l]) = 1
    /\ RingTimes'[l] = [i \in 0 .. LayerLen[l] - 1 |->
                           IF i < Len(db[l]) - 1 THEN db[l][i + 2].time ELSE 0]
    /\ RingAxes'[l] = [i \in 0 .. LayerLen[l] - 1 |->
                           IF i < Len(db[l]) - 1 THEN db[l][i + 2].axis ELSE {}]

\* The errors of one Restore can be counted.
LEMMA KeptFinite ==
    ASSUME NEW kept \in SUBSET Surplus
    PROVE  Cardinality(kept) \in Nat /\ (Cardinality(kept) = 0 => kept = {})
  <1>1. IsFiniteSet(Layers) /\ IsFiniteSet(1 .. MaxTime + 1)
    BY LayerAssumption, FS_Interval DEF Layers
  <1>2. IsFiniteSet(Layers \X (1 .. MaxTime + 1))
    BY <1>1, FS_Product
  <1>3. kept \in SUBSET (Layers \X (1 .. MaxTime + 1))
    BY DEF Surplus
  <1>4. IsFiniteSet(kept)
    BY <1>2, <1>3, FS_Subset
  <1>. QED BY <1>4, FS_CardinalityType, FS_EmptySet

\* Every layer is loaded from the first row to the last, and none is trimmed.
LEMMA RestoreLoads ==
    ASSUME DOMAIN db = Layers, \A l \in Layers : Readable(l),
           NEW t, StartRestored(t), dbErrors = 0, dbErrors' = 0
    PROVE  DOMAIN db' = Layers /\ \A l \in Layers : db'[l] = db[l] /\ Rebuilt(l)
  <1>1. \A l \in Layers : /\ Len(db[l]) \in 1 .. LayerLen[l] + 1 /\ LayerLen[l] \in Nat \ {0}
                          /\ db[l] \in Seq(Row)
    BY LayerAssumption DEF Readable
  <1>2. \A l \in Layers : Loaded(l)
    <2>1. \A l \in Layers : \A k \in 0 .. l : k \in Layers
      BY LayerAssumption DEF Layers
    <2>2. \A k \in Layers : db[k] # <<>>
      <3>1. Len(<<>>) = 0
        OBVIOUS
      <3>. QED BY <1>1, <3>1
    <2>. QED BY <2>1, <2>2 DEF Loaded
  <1>3. \A l \in Layers : Loads(l) = Len(db[l]) - 1
    BY <1>1 DEF Loads
  <1>4. Surplus = {}
    <2>. SUFFICES ASSUME NEW p \in Surplus PROVE FALSE
      OBVIOUS
    <2>1. /\ p[1] \in Layers /\ p[2] \in 1 .. MaxTime + 1
          /\ Loads(p[1]) + 2 <= p[2] /\ p[2] <= Len(db[p[1]])
      BY DEF Surplus
    <2>2. PICK l \in Layers, k \in Int : l = p[1] /\ k = p[2]
      BY <2>1
    <2>3. Loads(l) + 2 <= k /\ k <= Len(db[l])
      BY <2>1, <2>2
    <2>4. Loads(l) = Len(db[l]) - 1 /\ Len(db[l]) \in Nat
      BY <1>1, <1>3
    <2>. QED BY <2>3, <2>4
  <1>5. db' = [l \in Layers |-> TrimRows(db[l], {})]
    <2>1. PICK kept \in SUBSET Surplus :
             db' = [l \in Layers |->
                      TrimRows(db[l], {k \in DOMAIN db[l] : <<l, k>> \in Surplus \ kept})]
      BY DEF StartRestored
    <2>2. \A l \in Layers : {k \in DOMAIN db[l] : <<l, k>> \in Surplus \ kept} = {}
      BY <1>4
    <2>. QED BY <2>1, <2>2
  <1>6. \A l \in Layers : TrimRows(db[l], {}) = db[l]
    BY <1>1, TrimNone
  <1>7. db' = [l \in Layers |-> db[l]]
    BY <1>5, <1>6
  <1>8. ASSUME NEW l \in Layers PROVE Rebuilt(l)
    <2>1. Loaded(l) /\ Loads(l) = Len(db[l]) - 1
      BY <1>2, <1>3
    <2>2. Loads(l) + 1 = Len(db[l])
      BY <1>1, <2>1
    <2>3. StartTime'[l] = db[l][1].time /\ EndTime'[l] = db[l][Len(db[l])].time
      BY <2>1, <2>2 DEF StartRestored
    <2>4. RingHead'[l] = 0 /\ RingTail'[l] = (Len(db[l]) - 1) % LayerLen[l]
      BY <2>1 DEF StartRestored
    <2>5. Empty'[l] <=> Len(db[l]) = 1
      BY <2>1 DEF StartRestored
    <2>6. RingTimes'[l] = [i \in 0 .. LayerLen[l] - 1 |->
                             IF i < Len(db[l]) - 1 THEN db[l][i + 2].time ELSE 0]
      <3>1. RingTimes'[l] = [i \in 0 .. LayerLen[l] - 1 |->
                               IF Loaded(l) /\ i < Loads(l) THEN db[l][i + 2].time ELSE 0]
        BY DEF StartRestored
      <3>. QED BY <2>1, <3>1
    <2>7. RingAxes'[l] = [i \in 0 .. LayerLen[l] - 1 |->
                             IF i < Len(db[l]) - 1 THEN db[l][i + 2].axis ELSE {}]
      <3>1. RingAxes'[l] = [i \in 0 .. LayerLen[l] - 1 |->
                               IF Loaded(l) /\ i < Loads(l) THEN db[l][i + 2].axis ELSE {}]
        BY DEF StartRestored
      <3>. QED BY <2>1, <3>1
    <2>. QED BY <2>3, <2>4, <2>5, <2>6, <2>7 DEF Rebuilt
  <1>. QED BY <1>7, <1>8

\* The sizes, slots and boundaries of a rebuilt ring are those of its rows.
LEMMA RebuiltShape ==
    ASSUME NEW l \in Layers, Readable(l), Rebuilt(l), pc' = "idle", NEW n \in Nat, Len(db[l]) = n + 1
    PROVE  /\ n <= LayerLen[l]
           /\ Size(l)' = n
           /\ \A i \in 0 .. LayerLen[l] - 1 : Slot(l, i)' = i
           /\ \A i \in 0 .. n : Bound(l, i)' = db[l][i + 1].time
           /\ \A i \in 1 .. n : RingAxes'[l][Slot(l, i - 1)'] = db[l][i + 1].axis
  <1>1. PICK L \in Nat \ {0} : L = LayerLen[l]
    BY LayerAssumption
  <1>2. n <= L
    BY <1>1 DEF Readable
  <1>3. RingHead'[l] = 0 /\ RingTail'[l] = n % L /\ (Empty'[l] <=> n = 0)
    <2>1. (n + 1) - 1 = n /\ (n + 1 = 1 <=> n = 0)
      OBVIOUS
    <2>. QED BY <1>1, <2>1 DEF Rebuilt
  <1>4. n % L = IF n = L THEN 0 ELSE n
    <2>1. CASE n = L
      BY <2>1, <1>1
    <2>2. CASE n # L
      <3>1. n \in 0 .. L - 1
        BY <1>1, <1>2, <2>2
      <3>. QED BY <2>2, <3>1, <1>1, ModOnce
    <2>. QED BY <2>1, <2>2
  <1>5. Size(l)' = n
    <2>1. ~Reduced(l)'
      BY DEF Reduced
    <2>2. Size(l)' = IF Empty'[l] THEN 0
                     ELSE IF RingTail'[l] - RingHead'[l] <= 0
                          THEN RingTail'[l] - RingHead'[l] + LayerLen[l]
                          ELSE RingTail'[l] - RingHead'[l]
      BY <2>1 DEF Size
    <2>. QED BY <2>2, <1>1, <1>2, <1>3, <1>4
  <1>6. ASSUME NEW i \in 0 .. L - 1 PROVE Slot(l, i)' = i
    <2>1. Slot(l, i)' = (0 + i) % L
      BY <1>1, <1>3 DEF Slot
    <2>2. 0 + i = i
      BY <1>1
    <2>. QED BY <1>1, <2>1, <2>2, ModOnce
  <1>7. ASSUME NEW i \in 0 .. n PROVE Bound(l, i)' = db[l][i + 1].time
    <2>1. CASE i = 0
      BY <2>1 DEF Bound, Rebuilt
    <2>2. CASE i # 0
      <3>1. i - 1 \in 0 .. L - 1 /\ i - 1 < (n + 1) - 1 /\ (i - 1) + 2 = i + 1
        BY <1>1, <1>2, <2>2
      <3>2. Bound(l, i)' = RingTimes'[l][i - 1]
        BY <2>2, <3>1, <1>6 DEF Bound
      <3>3. RingTimes'[l] = [k \in 0 .. L - 1 |->
                                IF k < (n + 1) - 1 THEN db[l][k + 2].time ELSE 0]
        BY <1>1 DEF Rebuilt
      <3>4. RingTimes'[l][i - 1] = db[l][(i - 1) + 2].time
        BY <3>1, <3>3
      <3>. QED BY <3>1, <3>2, <3>4
    <2>. QED BY <2>1, <2>2
  <1>8. ASSUME NEW i \in 1 .. n PROVE RingAxes'[l][Slot(l, i - 1)'] = db[l][i + 1].axis
    <2>1. i - 1 \in 0 .. L - 1 /\ i - 1 < (n + 1) - 1 /\ (i - 1) + 2 = i + 1
      BY <1>1, <1>2
    <2>2. Slot(l, i - 1)' = i - 1
      BY <2>1, <1>6
    <2>3. RingAxes'[l] = [k \in 0 .. L - 1 |->
                              IF k < (n + 1) - 1 THEN db[l][k + 2].axis ELSE {}]
      BY <1>1 DEF Rebuilt
    <2>4. RingAxes'[l][i - 1] = db[l][(i - 1) + 2].axis
      BY <2>1, <2>3
    <2>. QED BY <2>1, <2>2, <2>4
  <1>. QED BY <1>1, <1>2, <1>5, <1>6, <1>7, <1>8

\* So Restore gives rings that are sound again, and mirrored.
LEMMA RestoreStore ==
    ASSUME StoreInv, NEW t \in now .. now + MaxDown, StartRestored(t)
    PROVE  StoreInv'
  <1>1. /\ proc = "down" /\ proc' = "up" /\ table /\ table' = table /\ torn' = torn
        /\ t <= MaxTime /\ now' = t /\ taken' = taken
        /\ pc' = pc /\ layer' = layer /\ arg' = arg /\ drained' = drained /\ merged' = merged
    BY DEF StartRestored, callVars
  <1>2. dbErrors' \in Nat /\ torn' \in BOOLEAN /\ (dbErrors' = 0 => dbErrors = 0)
    <2>1. PICK kept \in SUBSET Surplus : dbErrors' = dbErrors + Cardinality(kept)
      BY DEF StartRestored
    <2>2. dbErrors \in Nat /\ torn \in BOOLEAN
      BY DEF StoreInv
    <2>3. Cardinality(kept) \in Nat
      BY KeptFinite
    <2>. QED BY <1>1, <2>1, <2>2, <2>3
  <1>3. ASSUME Sound' PROVE OInv' /\ DOMAIN db' = Layers /\ TableOK'
    <2>1. /\ dbErrors = 0 /\ dbErrors' = 0
          /\ OInv /\ DOMAIN db = Layers /\ pc = "idle" /\ \A l \in Layers : Readable(l)
      BY <1>1, <1>2, <1>3 DEF StoreInv, Sound, TableOK
    <2>2. DOMAIN db' = Layers /\ \A l \in Layers : db'[l] = db[l] /\ Rebuilt(l)
      BY <2>1, RestoreLoads
    <2>3. layer = 0 /\ drained = 0 /\ merged = {} /\ pc' = "idle" /\ layer' = 0
          /\ \A l \in Layers : ~Reduced(l)'
      BY <1>1, <2>1 DEF OInv, CallOK, Reduced
    <2>4. now \in Time /\ t \in Time /\ t \in Nat /\ now <= t
      <3>1. now \in Time /\ now \in Nat
        BY <2>1, TimeNat DEF OInv, TypeOK
      <3>2. t \in Nat /\ now <= t
        BY <3>1, StoreAssumption
      <3>. QED BY <1>1, <3>1, <3>2, LayerAssumption DEF Time
    <2>5. ASSUME NEW l \in Layers, NEW n \in Nat, Len(db[l]) = n + 1
          PROVE  /\ Size(l)' = n
                 /\ \A i \in 0 .. n : Bound(l, i)' = db[l][i + 1].time
                 /\ \A i \in 1 .. n : RingAxes'[l][Slot(l, i - 1)'] = db[l][i + 1].axis
      BY <2>1, <2>2, <2>3, <2>5, RebuiltShape
    <2>6. \A l \in Layers : /\ db[l] \in Seq(Row)
                            /\ \E n \in Nat : Len(db[l]) = n + 1
                            /\ \A k \in 1 .. Len(db[l]) :
                                  db[l][k].time \in Time /\ db[l][k].time \in Nat /\ db[l][k].axis \in Axis
      <3>. TAKE l \in Layers
      <3>1. db[l] \in Seq(Row) /\ Len(db[l]) \in 1 .. LayerLen[l] + 1 /\ LayerLen[l] \in Nat
        BY <2>1, LayerAssumption DEF Readable
      <3>2. \E n \in Nat : Len(db[l]) = n + 1
        <4>1. Len(db[l]) - 1 \in Nat /\ Len(db[l]) = (Len(db[l]) - 1) + 1
          BY <3>1
        <4>. QED BY <4>1
      <3>3. \A k \in 1 .. Len(db[l]) : db[l][k] \in Row /\ db[l][k].time \in Nat
        BY <3>1, RowTimes
      <3>4. \A r \in Row : r.time \in Time /\ r.axis \in Axis
        BY DEF Row
      <3>. QED BY <3>1, <3>2, <3>3, <3>4
    <2>7. \A l \in Layers : Mirrored(l)'
      <3>. TAKE l \in Layers
      <3>1. PICK n \in Nat : Len(db[l]) = n + 1
        BY <2>6
      <3>2. /\ Size(l)' = n
            /\ \A i \in 0 .. n : Bound(l, i)' = db[l][i + 1].time
            /\ \A i \in 1 .. n : RingAxes'[l][Slot(l, i - 1)'] = db[l][i + 1].axis
        BY <2>5, <3>1
      <3>3. db'[l] = db[l] /\ db[l] \in Seq(Row)
        BY <2>2, <2>6
      <3>. QED BY <3>1, <3>2, <3>3 DEF Mirrored
    <2>8. TypeOK'
      <3>1. \A l \in Layers : /\ StartTime'[l] \in Time /\ EndTime'[l] \in Time
                              /\ RingHead'[l] \in 0 .. LayerLen[l] - 1
                              /\ RingTail'[l] \in 0 .. LayerLen[l] - 1
        <4>. TAKE l \in Layers
        <4>1. PICK n \in Nat : Len(db[l]) = n + 1
          BY <2>6
        <4>2. 1 \in 1 .. Len(db[l]) /\ Len(db[l]) \in 1 .. Len(db[l]) /\ Len(db[l]) - 1 = n
          BY <4>1
        <4>3. StartTime'[l] = db[l][1].time /\ EndTime'[l] = db[l][Len(db[l])].time
              /\ RingHead'[l] = 0 /\ RingTail'[l] = n % LayerLen[l]
          BY <2>2, <4>2 DEF Rebuilt
        <4>4. LayerLen[l] \in Nat \ {0}
          BY LayerAssumption
        <4>5. n % LayerLen[l] \in 0 .. LayerLen[l] - 1 /\ 0 \in 0 .. LayerLen[l] - 1
          BY <4>4
        <4>. QED BY <2>6, <4>2, <4>3, <4>5
      <3>2. /\ StartTime' \in [Layers -> Time] /\ EndTime' \in [Layers -> Time]
            /\ Empty' \in [Layers -> BOOLEAN]
            /\ DOMAIN RingTimes' = Layers /\ DOMAIN RingAxes' = Layers
            /\ DOMAIN RingHead' = Layers /\ DOMAIN RingTail' = Layers
        <4>1. /\ StartTime' = [l \in Layers |-> StartTime'[l]]
              /\ EndTime' = [l \in Layers |-> EndTime'[l]]
          BY DEF StartRestored
        <4>2. Empty' \in [Layers -> BOOLEAN]
          BY DEF StartRestored
        <4>3. /\ DOMAIN RingTimes' = Layers /\ DOMAIN RingAxes' = Layers
              /\ DOMAIN RingHead' = Layers /\ DOMAIN RingTail' = Layers
          BY DEF StartRestored
        <4>. QED BY <3>1, <4>1, <4>2, <4>3
      <3>3. \A l \in Layers : /\ RingTimes'[l] \in [0 .. LayerLen[l] - 1 -> Time]
                              /\ RingAxes'[l] \in [0 .. LayerLen[l] - 1 -> Axis]
        <4>. TAKE l \in Layers
        <4>1. 0 \in Time /\ {} \in Axis
          BY LayerAssumption DEF Time, Axis
        <4>2. \A i \in 0 .. LayerLen[l] - 1 : i < Len(db[l]) - 1 => i + 2 \in 1 .. Len(db[l])
          BY <2>6
        <4>3. /\ RingTimes'[l] = [i \in 0 .. LayerLen[l] - 1 |->
                                    IF i < Len(db[l]) - 1 THEN db[l][i + 2].time ELSE 0]
              /\ RingAxes'[l] = [i \in 0 .. LayerLen[l] - 1 |->
                                    IF i < Len(db[l]) - 1 THEN db[l][i + 2].axis ELSE {}]
          BY <2>2 DEF Rebuilt
        <4>4. \A i \in 0 .. LayerLen[l] - 1 : i < Len(db[l]) - 1 =>
                 db[l][i + 2].time \in Time /\ db[l][i + 2].axis \in Axis
          BY <2>6, <4>2
        <4>5. RingTimes'[l] \in [0 .. LayerLen[l] - 1 -> Time]
          BY <4>1, <4>3, <4>4
        <4>6. RingAxes'[l] \in [0 .. LayerLen[l] - 1 -> Axis]
          BY <4>1, <4>3, <4>4
        <4>. QED BY <4>5, <4>6
      <3>4. /\ pc' \in {"idle", "append", "reduce", "insert"} /\ layer' \in Layers
            /\ arg' \in [Layers -> [axis : Axis, endTime : Time]]
            /\ drained' \in Nat /\ merged' \in Axis /\ now' \in Time /\ taken' \in Axis
        BY <1>1, <2>1, <2>4 DEF OInv, TypeOK
      <3>. QED BY <3>1, <3>2, <3>3, <3>4 DEF TypeOK
    <2>9. CallOK'
      <3>1. pc' # "reduce" /\ drained' = 0 /\ merged' = {}
        BY <1>1, <2>3
      <3>2. \A l \in Layers : Empty'[l] => RingHead'[l] = RingTail'[l]
        <4>. TAKE l \in Layers
        <4>1. LayerLen[l] \in Nat \ {0} /\ 0 \in 0 .. LayerLen[l] - 1
          BY LayerAssumption
        <4>2. 0 % LayerLen[l] = 0
          BY <4>1, ModOnce
        <4>3. 1 - 1 = 0
          OBVIOUS
        <4>4. /\ RingHead'[l] = 0 /\ RingTail'[l] = (Len(db[l]) - 1) % LayerLen[l]
              /\ Empty'[l] <=> Len(db[l]) = 1
          BY <2>2 DEF Rebuilt
        <4>5. ASSUME Len(db[l]) = 1 PROVE RingTail'[l] = 0
          BY <4>2, <4>3, <4>4, <4>5
        <4>. QED BY <4>4, <4>5
      <3>. QED BY <2>3, <3>1, <3>2 DEF CallOK
    <2>10. \A l \in Layers : /\ StartTime'[l] = Bound(l, 0)'
                             /\ EndTime'[l] = Bound(l, Size(l))'
                             /\ \A i, j \in 0 .. Size(l)' : i < j => Bound(l, i)' < Bound(l, j)'
                             /\ EndTime'[l] <= now
                             /\ StartTime'[l] <= EndTime'[l]
                             /\ \A i \in 1 .. Size(l)' :
                                   Inside(RingAxes'[l][Slot(l, i - 1)'], Bound(l, i - 1)', Bound(l, i)')
      <3>. TAKE l \in Layers
      <3>1. PICK n \in Nat : Len(db[l]) = n + 1
        BY <2>6
      <3>2. /\ Size(l)' = n
            /\ \A i \in 0 .. n : Bound(l, i)' = db[l][i + 1].time
            /\ \A i \in 1 .. n : RingAxes'[l][Slot(l, i - 1)'] = db[l][i + 1].axis
        BY <2>5, <3>1
      <3>3. StartTime'[l] = db[l][1].time /\ EndTime'[l] = db[l][n + 1].time
        BY <2>2, <3>1 DEF Rebuilt
      <3>4. StartTime'[l] = Bound(l, 0)' /\ EndTime'[l] = Bound(l, Size(l))'
        <4>1. 0 \in 0 .. n /\ n \in 0 .. n /\ 0 + 1 = 1
          OBVIOUS
        <4>2. Bound(l, 0)' = db[l][1].time /\ Bound(l, n)' = db[l][n + 1].time
          BY <3>2, <4>1
        <4>3. Bound(l, Size(l))' = Bound(l, n)'
          BY <3>2
        <4>. QED BY <3>3, <4>2, <4>3
      <3>5. Increasing(db[l]) /\ db[l][n + 1].time <= now
            /\ \A i \in 1 .. n : Inside(db[l][i + 1].axis, db[l][i].time, db[l][i + 1].time)
        <4>1. (n + 1) - 1 = n
          OBVIOUS
        <4>. QED BY <2>1, <3>1, <4>1 DEF Readable
      <3>6. \A i, j \in 0 .. n : i < j => Bound(l, i)' < Bound(l, j)'
        <4>1. \A i, j \in 1 .. n + 1 : i < j => db[l][i].time < db[l][j].time
          BY <3>1, <3>5 DEF Increasing
        <4>2. \A i, j \in 0 .. n : i < j =>
                 i + 1 \in 1 .. n + 1 /\ j + 1 \in 1 .. n + 1 /\ i + 1 < j + 1
          OBVIOUS
        <4>. QED BY <3>2, <4>1, <4>2
      <3>7. StartTime'[l] <= EndTime'[l]
        <4>1. 1 \in 1 .. n + 1 /\ n + 1 \in 1 .. n + 1 /\ (1 < n + 1 \/ 1 = n + 1)
          OBVIOUS
        <4>2. db[l][1].time \in Nat /\ db[l][n + 1].time \in Nat
          BY <2>6, <3>1, <4>1
        <4>. QED BY <3>1, <3>3, <3>5, <4>1, <4>2 DEF Increasing
      <3>8. ASSUME NEW i \in 1 .. n
            PROVE  Inside(RingAxes'[l][Slot(l, i - 1)'], Bound(l, i - 1)', Bound(l, i)')
        <4>1. i - 1 \in 0 .. n /\ i \in 0 .. n /\ (i - 1) + 1 = i
          OBVIOUS
        <4>2. Bound(l, i - 1)' = db[l][(i - 1) + 1].time /\ Bound(l, i)' = db[l][i + 1].time
          BY <3>2, <4>1
        <4>. QED BY <3>2, <3>5, <4>1, <4>2
      <3>. QED BY <3>2, <3>3, <3>4, <3>5, <3>6, <3>7, <3>8
    <2>11. RingSorted' /\ AxesInside'
      BY <2>10 DEF RingSorted, AxesInside
    <2>12. PastOnly'
      <3>1. \A l \in Layers : StartTime'[l] \in Nat /\ EndTime'[l] \in Nat
        BY <2>8, TimeNat DEF TypeOK
      <3>2. \A l \in Layers : StartTime'[l] <= now' /\ EndTime'[l] <= now'
        BY <1>1, <2>4, <2>10, <3>1, TimeNat
      <3>3. taken' \subseteq 1 .. now'
        <4>1. taken \subseteq 1 .. now /\ now \in Nat
          BY <2>1, <2>4, TimeNat DEF OInv, PastOnly
        <4>. QED BY <1>1, <2>4, <4>1
      <3>. QED BY <3>2, <3>3 DEF PastOnly
    <2>13. LayersOrdered'
      <3>1. ASSUME NEW l \in Layers PROVE EndTime'[l] <= Above(l)'
        <4>1. CASE l = 0
          BY <2>12, <4>1 DEF PastOnly, Above
        <4>2. CASE l # 0
          <5>1. l - 1 \in Layers
            BY <4>2, LayerAssumption DEF Layers
          <5>2. EndTime'[l] = db[l][Len(db[l])].time /\ StartTime'[l - 1] = db[l - 1][1].time
            BY <2>2, <5>1 DEF Rebuilt
          <5>3. db[l][Len(db[l])].time <= db[l - 1][1].time
            BY <2>1, <4>2 DEF Readable
          <5>. QED BY <4>2, <5>2, <5>3 DEF Above
        <4>. QED BY <4>1, <4>2
      <3>. QED BY <2>3, <3>1 DEF LayersOrdered
    <2>14. OInv'
      BY <2>8, <2>9, <2>11, <2>12, <2>13 DEF OInv
    <2>. QED BY <1>1, <2>2, <2>7, <2>14 DEF TableOK
  <1>. QED BY <1>1, <1>2, <1>3 DEF StoreInv

-----------------------------------------------------------------------------
\* Until a statement fails or a crash hits the set-up of the table, the rows
\* are at every moment a copy of the rings or, while no process runs, what a
\* set of sound rings has left behind (stat.go with stat_persist.go).
THEOREM TableMirrorsRings == StoreSpec => []StoreInv
  <1>1. StoreInit => StoreInv
    BY StoreInitInv
  <1>2. StoreInv /\ [StoreNext]_allVars => StoreInv'
    <2>. SUFFICES ASSUME StoreInv, [StoreNext]_allVars PROVE StoreInv'
      OBVIOUS
    <2>1. ASSUME NEW t \in 1 .. MaxTime, Sample(t) PROVE StoreInv'
      BY <2>1, SampleStore
    <2>2. CASE DropOldestRow
      BY <2>2, DropOldestStore
    <2>3. CASE ReduceOneRow
      BY <2>3, ReduceOneStore
    <2>4. CASE HandOverAxis
      BY <2>4, HandOverStore
    <2>5. CASE InsertAxis
      BY <2>5, InsertStore
    <2>6. ASSUME NEW t \in now .. now + MaxDown, StartFirst(t) PROVE StoreInv'
      BY <2>6, StartFirstStore
    <2>7. ASSUME NEW t \in now .. now + MaxDown, StartCleared(t) PROVE StoreInv'
      BY <2>7, StartClearedStore
    <2>8. ASSUME NEW t \in now .. now + MaxDown, StartRestored(t) PROVE StoreInv'
      BY <2>8, RestoreStore
    <2>9. CASE CreateStartRow
      BY <2>9, CreateStartRowStore
    <2>10. CASE Crash
      BY <2>10, CrashStore
    <2>11. CASE UNCHANGED allVars
      BY <2>11, StutterStore
    <2>. QED BY <2>1, <2>2, <2>3, <2>4, <2>5, <2>6, <2>7, <2>8, <2>9, <2>10, <2>11 DEF StoreNext
  <1>. QED BY <1>1, <1>2, PTL DEF StoreSpec

\* A copy of the rings gives Restore the spans that Range reads from memory.
LEMMA MirroredView ==
    ASSUME StoreInv, Sound, proc = "up", NEW l \in Layers
    PROVE  Loaded(l) /\ db[l][1].time = StartTime[l] /\ LoadedSpans(l) = LayerSpans(l)
  <1>1. OInv /\ \A k \in Layers : Mirrored(k)
    BY UpState
  <1>2. Loaded(l)
    <2>1. \A k \in 0 .. l : k \in Layers
      BY LayerAssumption DEF Layers
    <2>2. ASSUME NEW k \in Layers PROVE db[k] # <<>>
      <3>1. Len(db[k]) = Size(k) + 1 /\ Size(k) \in 0 .. LayerLen[k] /\ LayerLen[k] \in Nat
        BY <1>1, MirroredTimes
      <3>. QED BY <3>1
    <2>. QED BY <2>1, <2>2 DEF Loaded
  <1>3. db[l][1].time = StartTime[l]
    BY <1>1, MirroredTimes
  <1>4. PICK n \in Nat : n = Size(l) /\ Loads(l) = n
    <2>1. Len(db[l]) = Size(l) + 1 /\ Size(l) \in 0 .. LayerLen[l] /\ LayerLen[l] \in Nat
      BY <1>1, MirroredTimes
    <2>. QED BY <2>1 DEF Loads
  <1>5. ASSUME NEW i \in 1 .. n
        PROVE  /\ db[l][i].time = Bound(l, i - 1) /\ db[l][i + 1].time = Bound(l, i)
               /\ db[l][i + 1].axis = RingAxes[l][Slot(l, i - 1)]
    <2>1. i - 1 \in 0 .. n /\ i \in 0 .. n /\ (i - 1) + 1 = i
      OBVIOUS
    <2>2. /\ \A k \in 0 .. n : db[l][k + 1].time = Bound(l, k)
          /\ \A k \in 1 .. n : db[l][k + 1].axis = RingAxes[l][Slot(l, k - 1)]
      BY <1>1, <1>4 DEF Mirrored
    <2>3. db[l][(i - 1) + 1].time = Bound(l, i - 1)
      BY <2>1, <2>2
    <2>. QED BY <2>1, <2>2, <2>3
  <1>6. LoadedSpans(l) = LayerSpans(l)
    BY <1>4, <1>5 DEF LoadedSpans, LayerSpans
  <1>. QED BY <1>2, <1>3, <1>6

\* Sound rings keep their axes apart.
LEMMA SoundApart ==
    ASSUME StoreInv, Sound, proc = "up"
    PROVE  SpansApart
  <1>. SUFFICES ASSUME NEW l \in Layers
                PROVE  /\ \A i \in 1 .. Size(l) :
                             /\ Bound(l, i - 1) < Bound(l, i)
                             /\ RingAxes[l][Slot(l, i - 1)] \subseteq Bound(l, i - 1) + 1 .. Bound(l, i)
                       /\ l # 0 => Bound(l, Size(l)) <= StartTime[l - 1]
    BY DEF SpansApart
  <1>1. OInv
    BY UpState
  <1>2. Size(l) \in 0 .. LayerLen[l] /\ LayerLen[l] \in Nat \ {0}
    BY <1>1, SizeRange, LayerAssumption DEF OInv
  <1>3. ASSUME NEW i \in 1 .. Size(l)
        PROVE  /\ Bound(l, i - 1) < Bound(l, i)
               /\ RingAxes[l][Slot(l, i - 1)] \subseteq Bound(l, i - 1) + 1 .. Bound(l, i)
    <2>1. i - 1 \in 0 .. Size(l) /\ i \in 0 .. Size(l) /\ i - 1 < i /\ i - 1 \in Nat
      BY <1>2
    <2>2. Bound(l, i - 1) < Bound(l, i)
      BY <1>1, <2>1 DEF OInv, RingSorted
    <2>3. Bound(l, i - 1) \in Nat /\ Bound(l, i) \in Nat
      BY <1>1, <2>1, BoundRange, TimeNat DEF OInv
    <2>4. Inside(RingAxes[l][Slot(l, i - 1)], Bound(l, i - 1), Bound(l, i))
      BY <1>1 DEF OInv, AxesInside
    <2>5. RingAxes[l][Slot(l, i - 1)] \subseteq Nat
      <3>1. RingAxes[l][Slot(l, i - 1)] \in Axis
        BY <1>1, <2>1, SlotRange DEF OInv, TypeOK
      <3>. QED BY <3>1, TimeNat DEF Axis
    <2>. QED BY <2>2, <2>3, <2>4, <2>5 DEF Inside
  <1>4. l # 0 => Bound(l, Size(l)) <= StartTime[l - 1]
    BY <1>1, EndsBefore DEF OInv, RingSorted
  <1>. QED BY <1>3, <1>4

\* Whenever the process dies, a restart reads back what the rings held
\* (Stat.Restore): at every moment the rows give the same spans as memory.  These
\* never overlap and show no sample outside their span: after crashes there may
\* be a hole in the history, never a repetition.
THEOREM RestartFaithful == StoreSpec => []RestartKeepsView
  <1>1. StoreInv => RestartKeepsView
    BY MirroredView, SoundApart DEF RestartKeepsView, Sound
  <1>. QED BY <1>1, TableMirrorsRings, PTL

\* What is read from sound rings, with holes or without, is in order.
LEMMA SoundPlanes ==
    ASSUME StoreInv, Sound
    PROVE  PlaneInOrder
  <1>. SUFFICES ASSUME Serving,
                       NEW k \in DOMAIN RangeRoot(0, MaxTime + 1).times \ {1}
                PROVE  RangeRoot(0, MaxTime + 1).times[k - 1] < RangeRoot(0, MaxTime + 1).times[k]
    BY DEF PlaneInOrder
  <1>1. OInv /\ pc = "idle"
    BY UpState DEF Serving
  <1>2. 0 \in Nat /\ MaxTime + 1 \in Nat /\ 0 < MaxTime + 1
    BY LayerAssumption
  <1>3. Answers(RangeRoot(0, MaxTime + 1), 0, 0, MaxTime + 1)
    BY <1>1, <1>2, RangeAnswers, Zenon
  <1>4. PICK times \in Seq(Nat) : /\ times = RangeRoot(0, MaxTime + 1).times
                                  /\ \A i, j \in DOMAIN times : i < j => times[i] < times[j]
    BY <1>3 DEF Answers, InOrder
  <1>5. k \in DOMAIN times /\ k # 1
    BY <1>4
  <1>6. k - 1 \in DOMAIN times /\ k - 1 < k
    BY <1>5
  <1>. QED BY <1>4, <1>5, <1>6

\* The times of a Plane increase (stat.go), also with the holes that crashes
\* leave, unless a statement has failed or the set-up of the table was torn.
THEOREM PlanesInOrder == StoreSpec => [](Sound => PlaneInOrder)
  <1>1. StoreInv => (Sound => PlaneInOrder)
    BY SoundPlanes
  <1>. QED BY <1>1, TableMirrorsRings, PTL

-----------------------------------------------------------------------------
(***************************************************************************)
(* What a crash can lose.                                                  *)
(***************************************************************************)
\* The samples in the table: those of every row but the first of its layer.
RowSamples == UNION {UNION {db[l][k].axis : k \in 2 .. Len(db[l])} : l \in Layers}

\* The samples that the running call has in hand, or has handed down.
InHand == IF pc = "idle" THEN {} ELSE UNION {arg[k].axis : k \in 0 .. layer}
Carried == merged \union InHand

\* The samples that should be kept and are nowhere.
Lost == Between(taken, db[NumLayers - 1][1].time, now) \ (RowSamples \union Carried)

\* A set has no more elements than so many.
AtMost(S, n) == IsFiniteSet(S) /\ Cardinality(S) <= n

RowsSmall == \A l \in Layers : \A k \in 2 .. Len(db[l]) : AtMost(db[l][k].axis, Unit[l])
WaitingSmall == pc # "idle" => \A l \in 0 .. layer : AtMost(arg[l].axis, Unit[l])
MergedSmall == AtMost(merged, drained * Unit[layer])
LostFew == AtMost(Lost, crashes * LossPerCrash)

\* Something has left layer 0, or is leaving it, for the layers below.
Below == (\E m \in Layers \ {0} : Len(db[m]) >= 2) \/ (pc # "idle" /\ layer # 0)

\* Then layer 0 still has an axis, if Reduce leaves it one.
HeadKept == LayerRatio[0] < LayerLen[0] /\ Below => Len(db[0]) >= 2

\* The inductive invariant behind what a crash can do, while there are rings or
\* rows that can be loaded.
LossOK == RowsSmall /\ WaitingSmall /\ MergedSmall /\ LostFew /\ HeadKept
LossInv == crashes \in Nat /\ (Sound /\ table /\ proc # "creating" => LossOK)

\* A part is no larger.
LEMMA AtMostPart ==
    ASSUME NEW S, NEW T, NEW n \in Nat, AtMost(T, n), S \subseteq T
    PROVE  AtMost(S, n)
  <1>1. IsFiniteSet(T) /\ Cardinality(T) \in Nat /\ Cardinality(T) <= n
    BY FS_CardinalityType DEF AtMost
  <1>2. IsFiniteSet(S) /\ Cardinality(S) <= Cardinality(T)
    BY <1>1, FS_Subset
  <1>3. Cardinality(S) \in Nat
    BY <1>2, FS_CardinalityType
  <1>4. Cardinality(S) <= n
    BY <1>1, <1>2, <1>3
  <1>. QED BY <1>2, <1>4 DEF AtMost

\* Two sets together are no larger than the sum.
LEMMA AtMostBoth ==
    ASSUME NEW S, NEW T, NEW m \in Nat, NEW n \in Nat, AtMost(S, m), AtMost(T, n)
    PROVE  AtMost(S \union T, m + n)
  <1>1. IsFiniteSet(S) /\ IsFiniteSet(T) /\ Cardinality(S) <= m /\ Cardinality(T) <= n
    BY DEF AtMost
  <1>2. IsFiniteSet(S \cap T)
    BY <1>1, FS_Subset
  <1>3. Cardinality(S) \in Nat /\ Cardinality(T) \in Nat /\ Cardinality(S \cap T) \in Nat
    BY <1>1, <1>2, FS_CardinalityType
  <1>4. /\ IsFiniteSet(S \union T)
        /\ Cardinality(S \union T) = Cardinality(S) + Cardinality(T) - Cardinality(S \cap T)
    BY <1>1, FS_Union
  <1>5. Cardinality(S \union T) <= m + n
    BY <1>1, <1>3, <1>4
  <1>. QED BY <1>4, <1>5 DEF AtMost

\* What is no larger than n is no larger than a number above n.
LEMMA AtMostMore ==
    ASSUME NEW S, NEW m \in Nat, NEW n \in Nat, AtMost(S, m), m <= n
    PROVE  AtMost(S, n)
  <1>1. IsFiniteSet(S) /\ Cardinality(S) \in Nat /\ Cardinality(S) <= m
    BY FS_CardinalityType DEF AtMost
  <1>2. Cardinality(S) <= n
    BY <1>1
  <1>. QED BY <1>1, <1>2 DEF AtMost

\* Nothing fits anywhere.
LEMMA AtMostNone == ASSUME NEW n \in Nat PROVE AtMost({}, n)
  <1>1. IsFiniteSet({}) /\ Cardinality({}) = 0
    BY FS_EmptySet
  <1>2. 0 <= n
    OBVIOUS
  <1>. QED BY <1>1, <1>2 DEF AtMost

\* What a crash can lose down to layer l.
Losses(L) ==
    /\ L \in [Layers -> Nat]
    /\ L[0] = 1
    /\ \A l \in Layers : l # 0 => L[l] = L[l - 1] + Unit[l]

\* The most a crash can lose is what it can lose down to the last layer.
LEMMA LossIs == \E L : Losses(L) /\ LossPerCrash = L[NumLayers - 1]
  <1>1. \A l \in Layers : Unit[l] \in Nat
    BY UnitIs
  <1>. DEFINE step == [x \in Layers \X Nat |-> IF x[1] = 0 THEN 1 ELSE x[2] + Unit[x[1]]]
  <1>2. step \in [Layers \X Nat -> Nat]
    <2>. SUFFICES ASSUME NEW x \in Layers \X Nat
                  PROVE  (IF x[1] = 0 THEN 1 ELSE x[2] + Unit[x[1]]) \in Nat
      OBVIOUS
    <2>1. x[1] \in Layers /\ x[2] \in Nat
      OBVIOUS
    <2>2. PICK v \in Nat : v = Unit[x[1]]
      BY <1>1, <2>1
    <2>. QED BY <2>1, <2>2
  <1>3. \A l \in Layers : \A u \in Nat : step[<<l, u>>] = IF l = 0 THEN 1 ELSE u + Unit[l]
    OBVIOUS
  <1>. HIDE DEF step
  <1>4. PICK f \in [Layers -> Nat] : IsMade(f, step, NumLayers - 1)
    BY <1>2, MadeUpTo, LastLayer
  <1>. DEFINE Good(v) == v = [l \in Layers |-> IF l = 0 THEN 1 ELSE v[l - 1] + Unit[l]]
  <1>5. Good(f)
    <2>1. ASSUME NEW l \in Layers PROVE f[l] = IF l = 0 THEN 1 ELSE f[l - 1] + Unit[l]
      <3>1. f[l] = IF l = 0 THEN step[<<0, 0>>] ELSE step[<<l, f[l - 1]>>]
        BY <1>4, LastLayer DEF IsMade
      <3>2. CASE l = 0
        BY <1>3, <3>1, <3>2
      <3>3. CASE l # 0
        <4>1. f[l - 1] \in Nat
          BY <3>3, LastLayer
        <4>. QED BY <1>3, <3>1, <3>3, <4>1
      <3>. QED BY <3>2, <3>3
    <2>. QED BY <2>1
  <1>. DEFINE L == CHOOSE v : Good(v)
  <1>6. Good(L)
    BY <1>5, Zenon
  <1>7. LossPerCrash = L[NumLayers - 1]
    BY DEF LossPerCrash
  <1>. HIDE DEF L
  <1>8. \A l \in Layers : L[l] = IF l = 0 THEN 1 ELSE L[l - 1] + Unit[l]
    BY <1>6
  <1>9. \A l \in Layers : L[l] \in Nat
    <2>. DEFINE S == {l \in Layers : L[l] \notin Nat}
    <2>. SUFFICES ASSUME S # {} PROVE FALSE
      OBVIOUS
    <2>1. S \in SUBSET Nat
      BY LastLayer
    <2>2. PICK l \in S : \A j \in S : l <= j
      BY <2>1, Least, Zenon
    <2>3. l \in Layers /\ l \in Nat /\ L[l] \notin Nat
      BY <2>1
    <2>4. PICK v \in Nat : v = Unit[l]
      BY <1>1, <2>3
    <2>5. CASE l = 0
      BY <1>8, <2>3, <2>5
    <2>6. CASE l # 0
      <3>1. l - 1 \in Layers /\ ~(l <= l - 1)
        BY <2>3, <2>6, LastLayer
      <3>2. L[l - 1] \in Nat
        BY <2>2, <3>1
      <3>3. L[l] = L[l - 1] + v
        BY <1>8, <2>3, <2>4, <2>6
      <3>. QED BY <2>3, <3>2, <3>3
    <2>. QED BY <2>5, <2>6
  <1>10. L \in [Layers -> Nat]
    BY <1>6, <1>9
  <1>. QED BY <1>7, <1>8, <1>10, LastLayer DEF Losses

\* Deeper crashes lose no less.
LEMMA LossesGrow ==
    ASSUME NEW L, Losses(L), NEW l \in Layers
    PROVE  \A m \in Layers : l <= m => L[l] <= L[m]
  <1>. DEFINE S == {m \in Layers : l <= m /\ ~(L[l] <= L[m])}
  <1>. SUFFICES ASSUME S # {} PROVE FALSE
    OBVIOUS
  <1>1. S \in SUBSET Nat
    BY LastLayer
  <1>2. PICK m \in S : \A j \in S : m <= j
    BY <1>1, Least, Zenon
  <1>3. m \in Layers /\ m \in Nat /\ l \in Nat /\ l <= m /\ ~(L[l] <= L[m])
    BY <1>1, LastLayer
  <1>4. L[l] \in Nat /\ L[m] \in Nat /\ Unit[m] \in Nat
    BY <1>3, UnitIs DEF Losses
  <1>5. m # l
    BY <1>3, <1>4
  <1>6. m - 1 \in Layers /\ l <= m - 1 /\ ~(m <= m - 1) /\ m # 0
    BY <1>3, <1>5, LastLayer
  <1>7. L[l] <= L[m - 1] /\ L[m - 1] \in Nat
    BY <1>2, <1>6 DEF Losses
  <1>8. L[m] = L[m - 1] + Unit[m]
    BY <1>3, <1>6 DEF Losses
  <1>. QED BY <1>3, <1>4, <1>7, <1>8

\* What the running call carries is no more than a crash may lose.
LEMMA CarriedSmall ==
    ASSUME OInv, WaitingSmall, MergedSmall
    PROVE  AtMost(Carried, LossPerCrash) /\ LossPerCrash \in Nat
  <1>1. PICK L : Losses(L) /\ LossPerCrash = L[NumLayers - 1]
    BY LossIs
  <1>2. /\ \A l \in Layers : L[l] \in Nat /\ Unit[l] \in Nat
        /\ L[0] = 1 /\ \A l \in Layers : l # 0 => L[l] = L[l - 1] + Unit[l]
        /\ LossPerCrash \in Nat
    BY <1>1, UnitIs, LastLayer DEF Losses
  <1>3. layer \in Layers /\ layer \in Nat /\ \A l \in 0 .. layer : l \in Layers
    <2>1. layer \in Layers
      BY DEF OInv, TypeOK
    <2>. QED BY <2>1, LastLayer
  <1>4. ASSUME pc # "idle" PROVE AtMost(InHand, L[layer])
    <2>. DEFINE U(n) == UNION {arg[k].axis : k \in 0 .. n}
    <2>. DEFINE S == {n \in 0 .. layer : ~AtMost(U(n), L[n])}
    <2>1. S = {}
      <3>. SUFFICES ASSUME S # {} PROVE FALSE
        OBVIOUS
      <3>1. S \in SUBSET Nat
        BY <1>3
      <3>2. PICK n \in S : \A j \in S : n <= j
        BY <3>1, Least, Zenon
      <3>3. n \in 0 .. layer /\ n \in Layers /\ n \in Nat /\ ~AtMost(U(n), L[n])
        BY <1>3, <3>1
      <3>4. AtMost(arg[n].axis, Unit[n])
        BY <1>4, <3>3 DEF WaitingSmall
      <3>5. CASE n = 0
        <4>1. U(n) = arg[n].axis
          <5>1. \A k \in 0 .. 0 : k = 0
            OBVIOUS
          <5>. QED BY <3>5, <5>1
        <4>2. Unit[n] = L[n]
          BY <1>2, <3>5, UnitIs
        <4>. QED BY <3>3, <3>4, <4>1, <4>2
      <3>6. CASE n # 0
        <4>1. n - 1 \in 0 .. layer /\ n - 1 \in Layers /\ ~(n <= n - 1)
          BY <1>3, <3>3, <3>6
        <4>2. AtMost(U(n - 1), L[n - 1])
          BY <3>2, <4>1
        <4>3. U(n) = U(n - 1) \union arg[n].axis
          <5>1. \A k \in 0 .. n : k = n \/ k \in 0 .. n - 1
            BY <3>3
          <5>2. n \in 0 .. n /\ \A k \in 0 .. n - 1 : k \in 0 .. n
            BY <3>3
          <5>. QED BY <5>1, <5>2
        <4>. HIDE DEF U
        <4>4. AtMost(U(n), L[n - 1] + Unit[n])
          BY <1>2, <3>3, <3>4, <4>1, <4>2, <4>3, AtMostBoth
        <4>. QED BY <1>2, <3>3, <3>6, <4>4
      <3>. QED BY <3>5, <3>6
    <2>2. layer \in 0 .. layer
      BY <1>3
    <2>3. AtMost(U(layer), L[layer])
      BY <2>1, <2>2
    <2>. QED BY <1>4, <2>3 DEF InHand
  <1>5. NumLayers - 1 \in Layers /\ layer <= NumLayers - 1
    BY <1>3, LastLayer
  <1>6. CASE pc = "idle"
    <2>1. merged = {}
      BY <1>6 DEF OInv, CallOK
    <2>2. Carried = {}
      BY <1>6, <2>1 DEF Carried, InHand
    <2>. QED BY <1>2, <2>2, AtMostNone
  <1>7. CASE pc # "idle" /\ pc # "reduce"
    <2>1. merged = {}
      BY <1>7 DEF OInv, CallOK
    <2>2. AtMost(Carried, L[layer])
      <3>1. Carried = InHand
        BY <2>1 DEF Carried
      <3>. QED BY <1>4, <1>7, <3>1
    <2>3. L[layer] <= LossPerCrash /\ L[layer] \in Nat
      BY <1>1, <1>2, <1>3, <1>5, LossesGrow
    <2>. QED BY <1>2, <2>2, <2>3, AtMostMore
  <1>8. CASE pc = "reduce"
    <2>1. layer # NumLayers - 1 /\ drained \in 1 .. LayerRatio[layer]
      BY <1>8 DEF OInv, CallOK, DropsOldest
    <2>2. layer + 1 \in Layers /\ (layer + 1) - 1 = layer /\ layer + 1 # 0
          /\ layer + 1 <= NumLayers - 1 /\ LayerRatio[layer] \in Nat
      BY <1>3, <2>1, LastLayer
    <2>3. Unit[layer + 1] = Unit[layer] * LayerRatio[layer]
      BY <2>2, UnitIs
    <2>4. drained * Unit[layer] <= Unit[layer + 1] /\ drained * Unit[layer] \in Nat
      <3>1. \A d, r, u \in Nat : d <= r => d * u <= u * r /\ d * u \in Nat
        <4>. TAKE d, r, u \in Nat
        <4>. HAVE d <= r
        <4>1. PICK e \in Nat : r = d + e
          <5>1. r - d \in Nat /\ r = d + (r - d)
            OBVIOUS
          <5>. QED BY <5>1
        <4>2. d * u \in Nat /\ u * e \in Nat
          OBVIOUS
        <4>3. u * r = d * u + u * e
          BY <4>1
        <4>. QED BY <4>2, <4>3
      <3>2. drained \in Nat /\ drained <= LayerRatio[layer] /\ Unit[layer] \in Nat
        BY <1>2, <1>3, <2>1, <2>2
      <3>. QED BY <2>2, <2>3, <3>1, <3>2
    <2>5. AtMost(merged, Unit[layer + 1])
      BY <1>2, <2>2, <2>4, AtMostMore DEF MergedSmall
    <2>6. AtMost(Carried, Unit[layer + 1] + L[layer])
      <3>1. AtMost(InHand, L[layer])
        BY <1>4, <1>8
      <3>. QED BY <1>2, <1>3, <2>2, <2>5, <3>1, AtMostBoth DEF Carried
    <2>7. L[layer + 1] = L[layer] + Unit[layer + 1]
      BY <1>2, <2>2
    <2>8. AtMost(Carried, L[layer + 1])
      <3>1. L[layer] + Unit[layer + 1] = Unit[layer + 1] + L[layer]
        BY <1>2, <1>3, <2>2
      <3>. QED BY <2>6, <2>7, <3>1
    <2>9. L[layer + 1] <= LossPerCrash /\ L[layer + 1] \in Nat
      BY <1>1, <1>2, <1>5, <2>2, LossesGrow
    <2>. QED BY <1>2, <2>8, <2>9, AtMostMore
  <1>. QED BY <1>6, <1>7, <1>8

\* What is lost stays few when nothing more is lost.
LEMMA LostLess ==
    ASSUME crashes \in Nat, LostFew, Lost' \subseteq Lost, crashes' = crashes
    PROVE  LostFew'
  <1>1. LossPerCrash \in Nat
    <2>1. PICK L : Losses(L) /\ LossPerCrash = L[NumLayers - 1]
      BY LossIs
    <2>. QED BY <2>1, LastLayer DEF Losses
  <1>2. crashes * LossPerCrash \in Nat
    BY <1>1
  <1>3. AtMost(Lost', crashes * LossPerCrash)
    BY <1>2, AtMostPart DEF LostFew
  <1>. QED BY <1>3 DEF LostFew

\* The rows of sound rings.
LEMMA RingRows ==
    ASSUME OInv, \A l \in Layers : Mirrored(l)
    PROVE  \A l \in Layers : /\ db[l] \in Seq(Row)
                             /\ Len(db[l]) \in Nat /\ Len(db[l]) >= 1
                             /\ Len(db[l]) = Size(l) + 1 /\ Size(l) \in Nat
                             /\ db[l][1].time = StartTime[l]
                             /\ \A k \in 1 .. Len(db[l]) : db[l][k].time \in Nat
                             /\ \A k \in 2 .. Len(db[l]) :
                                  Inside(db[l][k].axis, db[l][k - 1].time, db[l][k].time)
  <1>. SUFFICES ASSUME NEW l \in Layers
                PROVE  /\ db[l] \in Seq(Row)
                       /\ Len(db[l]) \in Nat /\ Len(db[l]) >= 1
                       /\ Len(db[l]) = Size(l) + 1 /\ Size(l) \in Nat
                       /\ db[l][1].time = StartTime[l]
                       /\ \A k \in 1 .. Len(db[l]) : db[l][k].time \in Nat
                       /\ \A k \in 2 .. Len(db[l]) :
                            Inside(db[l][k].axis, db[l][k - 1].time, db[l][k].time)
    OBVIOUS
  <1>1. Readable(l)
    BY MirroredReadable
  <1>2. Len(db[l]) = Size(l) + 1 /\ Size(l) \in Nat /\ db[l][1].time = StartTime[l]
    BY MirroredTimes
  <1>3. db[l] \in Seq(Row)
    BY <1>1 DEF Readable
  <1>4. Len(db[l]) \in Nat /\ Len(db[l]) >= 1 /\ \A k \in 1 .. Len(db[l]) : db[l][k].time \in Nat
    BY <1>2, <1>3, RowTimes
  <1>5. ASSUME NEW k \in 2 .. Len(db[l])
        PROVE  Inside(db[l][k].axis, db[l][k - 1].time, db[l][k].time)
    <2>1. k - 1 \in 1 .. Len(db[l]) - 1 /\ (k - 1) + 1 = k
      BY <1>4
    <2>2. Inside(db[l][(k - 1) + 1].axis, db[l][k - 1].time, db[l][(k - 1) + 1].time)
      BY <1>1, <2>1 DEF Readable
    <2>. QED BY <2>1, <2>2
  <1>. QED BY <1>2, <1>3, <1>4, <1>5

\* Reduce takes the first axis of a layer from the table, and its end is where the
\* layer begins then.
LEMMA TakeOutRows ==
    ASSUME OInv, TakingOut, DOMAIN db = Layers, \A l \in Layers : Mirrored(l),
           db' = [db EXCEPT ![layer] = DeleteRows(@, StartTime[layer])]
    PROVE  /\ layer \in Layers
           /\ \A l \in Layers \ {layer} : db'[l] = db[l]
           /\ Len(db[layer]) \in Nat /\ Len(db[layer]) >= 2
           /\ Len(db'[layer]) = Len(db[layer]) - 1
           /\ \A m \in 1 .. Len(db[layer]) - 1 : db'[layer][m] = db[layer][m + 1]
           /\ db[layer][2].axis = RingAxes[layer][RingHead[layer]]
           /\ RowSamples \subseteq RowSamples' \union db[layer][2].axis
  <1>1. layer \in Layers /\ LayerLen[layer] \in Nat \ {0}
        /\ RingHead[layer] \in 0 .. LayerLen[layer] - 1
    BY LayerAssumption DEF OInv, TypeOK
  <1>2. db'[layer] = DeleteRows(db[layer], StartTime[layer])
        /\ \A l \in Layers \ {layer} : db'[l] = db[l]
    BY <1>1
  <1>3. Size(layer) >= 1
    BY <1>1, TakeOutShift
  <1>4. /\ db[layer] \in Seq(Row) /\ Len(db[layer]) \in Nat /\ Len(db[layer]) >= 2
        /\ db[layer][1].time = StartTime[layer] /\ Increasing(db[layer]) /\ Size(layer) \in Nat
    <2>1. /\ db[layer] \in Seq(Row) /\ Len(db[layer]) \in Nat
          /\ Len(db[layer]) = Size(layer) + 1 /\ Size(layer) \in Nat
          /\ db[layer][1].time = StartTime[layer]
      BY <1>1, RingRows
    <2>2. Increasing(db[layer])
      BY <1>1, MirroredTimes
    <2>. QED BY <1>3, <2>1, <2>2
  <1>5. /\ Len(db'[layer]) = Len(db[layer]) - 1
        /\ \A m \in 1 .. Len(db[layer]) - 1 : db'[layer][m] = db[layer][m + 1]
    <2>1. Len(db[layer]) >= 1 /\ db[layer] # <<>>
      BY <1>4
    <2>2. db'[layer] = Tail(db[layer])
      BY <1>2, <1>4, <2>1, DeleteOldest
    <2>3. /\ Len(db'[layer]) = Len(db[layer]) - 1
          /\ \A m \in 1 .. Len(db'[layer]) : db'[layer][m] = db[layer][m + 1]
      <3>1. PICK rows \in Seq(Row) : rows = db[layer]
        BY <1>4
      <3>2. /\ Len(Tail(rows)) = Len(rows) - 1
            /\ \A m \in 1 .. Len(Tail(rows)) : Tail(rows)[m] = rows[m + 1]
        BY <2>1, <3>1, HeadTailProperties
      <3>. QED BY <2>2, <3>1, <3>2
    <2>. QED BY <2>3
  <1>6. db[layer][2].axis = RingAxes[layer][RingHead[layer]]
    <2>1. 1 \in 1 .. Size(layer) /\ 1 + 1 = 2 /\ 1 - 1 = 0
      BY <1>3, <1>4
    <2>2. db[layer][1 + 1].axis = RingAxes[layer][Slot(layer, 1 - 1)]
      BY <1>1, <2>1 DEF Mirrored
    <2>3. Slot(layer, 0) = RingHead[layer]
      BY <1>1, ModOnce DEF Slot
    <2>. QED BY <2>1, <2>2, <2>3
  <1>7. ASSUME NEW x \in RowSamples, x \notin db[layer][2].axis PROVE x \in RowSamples'
    <2>1. PICK l \in Layers : \E k \in 2 .. Len(db[l]) : x \in db[l][k].axis
      BY <1>7 DEF RowSamples
    <2>2. PICK k \in 2 .. Len(db[l]) : x \in db[l][k].axis
      BY <2>1
    <2>3. CASE l # layer
      <3>1. db'[l] = db[l]
        BY <1>2, <2>3
      <3>. QED BY <2>2, <3>1 DEF RowSamples
    <2>4. CASE l = layer
      <3>1. k \in Int /\ 2 <= k /\ k <= Len(db[layer]) /\ k # 2
        BY <1>7, <2>2, <2>4
      <3>2. k - 1 \in 2 .. Len(db'[layer]) /\ k - 1 \in 1 .. Len(db[layer]) - 1 /\ (k - 1) + 1 = k
        BY <1>4, <1>5, <3>1
      <3>3. db'[layer][k - 1] = db[layer][k]
        BY <1>5, <3>2
      <3>4. x \in db'[layer][k - 1].axis
        BY <2>2, <2>4, <3>3
      <3>. QED BY <1>1, <3>2, <3>4 DEF RowSamples
    <2>. QED BY <2>3, <2>4
  <1>. QED BY <1>1, <1>2, <1>4, <1>5, <1>6, <1>7

\* The axis that waited is in the table then.
LEMMA InsertRows ==
    ASSUME OInv, Insert, DOMAIN db = Layers, \A l \in Layers : Mirrored(l),
           db' = [db EXCEPT ![layer] =
                    InsertRow(@, [time |-> arg[layer].endTime, axis |-> arg[layer].axis])]
    PROVE  /\ layer \in Layers
           /\ \A l \in Layers \ {layer} : db'[l] = db[l]
           /\ Len(db[layer]) \in Nat /\ Len(db[layer]) >= 1
           /\ Len(db'[layer]) = Len(db[layer]) + 1
           /\ \A m \in 1 .. Len(db[layer]) : db'[layer][m] = db[layer][m]
           /\ db'[layer][Len(db[layer]) + 1].axis = arg[layer].axis
           /\ RowSamples' = RowSamples \union arg[layer].axis
  <1>. DEFINE r == [time |-> arg[layer].endTime, axis |-> arg[layer].axis]
  <1>1. layer \in Layers /\ arg[layer] \in [axis : Axis, endTime : Time] /\ pc # "idle"
        /\ layer <= layer /\ Layers \subseteq Nat
    <2>1. layer \in Layers /\ arg[layer] \in [axis : Axis, endTime : Time] /\ pc # "idle"
      BY DEF OInv, TypeOK, Insert
    <2>. QED BY <2>1, LastLayer
  <1>2. db'[layer] = InsertRow(db[layer], r) /\ \A l \in Layers \ {layer} : db'[l] = db[l]
    BY <1>1
  <1>3. /\ db[layer] \in Seq(Row) /\ Len(db[layer]) \in Nat /\ Len(db[layer]) >= 1
        /\ \A k \in 1 .. Len(db[layer]) : db[layer][k].time \in Nat
    BY <1>1, RingRows
  <1>4. r \in Row /\ r.time = arg[layer].endTime /\ r.axis = arg[layer].axis
    BY <1>1 DEF Row
  <1>5. \A k \in 1 .. Len(db[layer]) : db[layer][k].time < r.time
    <2>1. EndTime[layer] < arg[layer].endTime
      BY <1>1 DEF OInv, LayersOrdered
    <2>2. EndTime[layer] \in Nat /\ arg[layer].endTime \in Nat
      BY <1>1, TimeNat DEF OInv, TypeOK
    <2>3. \A k \in 1 .. Len(db[layer]) : db[layer][k].time <= EndTime[layer]
      BY <1>1, MirroredTimes
    <2>. QED BY <1>3, <1>4, <2>1, <2>2, <2>3
  <1>6. db'[layer] = Append(db[layer], r)
    BY <1>2, <1>3, <1>4, <1>5, InsertLast
  <1>7. /\ Len(db'[layer]) = Len(db[layer]) + 1
        /\ \A m \in 1 .. Len(db[layer]) : db'[layer][m] = db[layer][m]
        /\ db'[layer][Len(db[layer]) + 1] = r
    <2>. HIDE DEF r
    <2>1. \A s \in Seq(Row), e \in Row :
             /\ Len(Append(s, e)) = Len(s) + 1
             /\ \A m \in 1 .. Len(s) : Append(s, e)[m] = s[m]
             /\ Append(s, e)[Len(s) + 1] = e
      BY AppendProperties
    <2>2. /\ Len(Append(db[layer], r)) = Len(db[layer]) + 1
          /\ \A m \in 1 .. Len(db[layer]) : Append(db[layer], r)[m] = db[layer][m]
          /\ Append(db[layer], r)[Len(db[layer]) + 1] = r
      BY <1>3, <1>4, <2>1, Zenon
    <2>. QED BY <1>6, <2>2
  <1>8. db'[layer][Len(db[layer]) + 1].axis = arg[layer].axis
    BY <1>4, <1>7
  <1>9. ASSUME NEW x \in RowSamples PROVE x \in RowSamples'
    <2>1. PICK l \in Layers : \E k \in 2 .. Len(db[l]) : x \in db[l][k].axis
      BY <1>9 DEF RowSamples
    <2>2. PICK k \in 2 .. Len(db[l]) : x \in db[l][k].axis
      BY <2>1
    <2>3. k \in 2 .. Len(db'[l]) /\ db'[l][k] = db[l][k]
      <3>1. CASE l = layer
        <4>1. k \in 1 .. Len(db[layer]) /\ k \in 2 .. Len(db[layer]) + 1
          BY <1>3, <2>2, <3>1
        <4>. QED BY <1>7, <3>1, <4>1
      <3>2. CASE l # layer
        BY <1>2, <2>2, <3>2
      <3>. QED BY <3>1, <3>2
    <2>. QED BY <2>2, <2>3 DEF RowSamples
  <1>10. ASSUME NEW x \in arg[layer].axis PROVE x \in RowSamples'
    <2>1. Len(db[layer]) + 1 \in 2 .. Len(db'[layer])
      BY <1>3, <1>7
    <2>. QED BY <1>1, <1>8, <1>10, <2>1 DEF RowSamples
  <1>11. ASSUME NEW x \in RowSamples', x \notin arg[layer].axis PROVE x \in RowSamples
    <2>1. PICK l \in Layers : \E k \in 2 .. Len(db'[l]) : x \in db'[l][k].axis
      BY <1>11 DEF RowSamples
    <2>2. PICK k \in 2 .. Len(db'[l]) : x \in db'[l][k].axis
      BY <2>1
    <2>3. k \in 2 .. Len(db[l]) /\ db'[l][k] = db[l][k]
      <3>1. CASE l = layer
        <4>1. k # Len(db[layer]) + 1
          BY <1>8, <1>11, <2>2, <3>1
        <4>2. k \in 1 .. Len(db[layer]) /\ k \in 2 .. Len(db[layer])
          BY <1>3, <1>7, <2>2, <3>1, <4>1
        <4>. QED BY <1>7, <3>1, <4>2
      <3>2. CASE l # layer
        BY <1>2, <2>2, <3>2
      <3>. QED BY <3>1, <3>2
    <2>. QED BY <2>2, <2>3 DEF RowSamples
  <1>12. RowSamples' = RowSamples \union arg[layer].axis
    BY <1>9, <1>10, <1>11
  <1>. QED BY <1>1, <1>2, <1>3, <1>7, <1>8, <1>12

\* A sample is in hand from the moment it is taken.
LEMMA SampleLoss ==
    ASSUME StoreInv, LossInv, NEW t \in 1 .. MaxTime, Sample(t)
    PROVE  LossInv'
  <1>1. /\ proc = "up" /\ StatAppend(t) /\ proc' = proc /\ table' = table /\ torn' = torn
        /\ db' = db /\ dbErrors' = dbErrors /\ crashes' = crashes
    BY DEF Sample, storeVars
  <1>. SUFFICES ASSUME Sound PROVE LossOK'
    BY <1>1 DEF LossInv, Sound
  <1>2. OInv /\ LossOK /\ table /\ crashes \in Nat
    BY <1>1, UpState DEF LossInv, StoreInv
  <1>3. /\ pc = "idle" /\ pc' = "append" /\ layer' = layer /\ layer = 0
        /\ drained' = drained /\ merged' = merged /\ merged = {}
        /\ arg' = [arg EXCEPT ![0] = [axis |-> {t}, endTime |-> t]]
        /\ now' = t /\ taken' = taken \union {t}
    BY <1>1, <1>2 DEF StatAppend, OInv, CallOK
  <1>4. arg'[0].axis = {t} /\ \A k \in 0 .. layer' : k = 0
    BY <1>2, <1>3, LastLayer DEF OInv, TypeOK
  <1>5. RowsSmall' /\ MergedSmall'
    BY <1>1, <1>2, <1>3 DEF LossOK, RowsSmall, MergedSmall
  <1>6. WaitingSmall'
    <2>1. AtMost({t}, 1)
      <3>1. IsFiniteSet({t}) /\ Cardinality({t}) = 1
        BY FS_Singleton
      <3>. QED BY <3>1 DEF AtMost
    <2>. QED BY <1>4, <2>1, UnitIs DEF WaitingSmall
  <1>7. HeadKept'
    BY <1>1, <1>2, <1>3 DEF LossOK, HeadKept, Below
  <1>8. LostFew'
    <2>1. ASSUME NEW x \in Lost' PROVE x \in Lost
      <3>1. /\ x \in taken' /\ db[NumLayers - 1][1].time < x /\ x <= t
            /\ x \notin RowSamples /\ x \notin Carried'
        BY <1>1, <1>3, <2>1 DEF Lost, Between, RowSamples
      <3>2. t \in Carried'
        <4>1. 0 \in 0 .. layer' /\ pc' # "idle"
          BY <1>3
        <4>2. arg'[0].axis \subseteq InHand'
          BY <4>1 DEF InHand
        <4>. QED BY <1>4, <4>2 DEF Carried
      <3>3. x \in taken /\ x <= now
        <4>1. x \in taken /\ taken \subseteq 1 .. now
          BY <1>2, <1>3, <3>1, <3>2 DEF OInv, PastOnly
        <4>. QED BY <4>1
      <3>4. Carried = {}
        BY <1>3 DEF Carried, InHand
      <3>. QED BY <3>1, <3>3, <3>4 DEF Lost, Between
    <2>. QED BY <1>1, <1>2, <2>1, LostLess DEF LossOK
  <1>. QED BY <1>5, <1>6, <1>7, <1>8 DEF LossOK

\* What both ways of taking an axis out know of the rows.
LEMMA TakeOutUp ==
    ASSUME StoreInv, LossInv, TakingOut, DeleteFirst(layer), proc' = proc, torn' = torn, Sound'
    PROVE  /\ OInv /\ LossOK /\ DOMAIN db = Layers /\ \A l \in Layers : Mirrored(l)
           /\ crashes \in Nat /\ pc # "idle"
           /\ db' = [db EXCEPT ![layer] = DeleteRows(@, StartTime[layer])]
           /\ RowsSmall'
  <1>1. pc # "idle" /\ dbErrors' = 0 /\ torn = FALSE
    BY DEF TakingOut, Sound, StoreInv
  <1>2. Sound /\ db' = [db EXCEPT ![layer] = DeleteRows(@, StartTime[layer])]
    BY <1>1 DEF DeleteFirst, Statement, Sound, StoreInv
  <1>3. OInv /\ LossOK /\ DOMAIN db = Layers /\ crashes \in Nat /\ \A l \in Layers : Mirrored(l)
    BY <1>1, <1>2, UpState DEF LossInv, StoreInv
  <1>4. /\ layer \in Layers /\ \A l \in Layers \ {layer} : db'[l] = db[l]
        /\ Len(db[layer]) \in Nat /\ Len(db'[layer]) = Len(db[layer]) - 1
        /\ \A m \in 1 .. Len(db[layer]) - 1 : db'[layer][m] = db[layer][m + 1]
    BY <1>2, <1>3, TakeOutRows
  <1>5. RowsSmall'
    <2>. SUFFICES ASSUME NEW l \in Layers, NEW k \in 2 .. Len(db'[l])
                  PROVE  AtMost(db'[l][k].axis, Unit[l])
      BY DEF RowsSmall
    <2>1. CASE l # layer
      BY <1>3, <1>4, <2>1 DEF LossOK, RowsSmall
    <2>2. CASE l = layer
      <3>1. k \in 1 .. Len(db[layer]) - 1 /\ k + 1 \in 2 .. Len(db[layer])
        BY <1>4, <2>2
      <3>2. AtMost(db[layer][k + 1].axis, Unit[layer])
        BY <1>3, <1>4, <3>1 DEF LossOK, RowsSmall
      <3>. QED BY <1>4, <2>2, <3>1, <3>2
    <2>. QED BY <2>1, <2>2
  <1>. QED BY <1>1, <1>2, <1>3, <1>5

\* What the last layer drops is no longer expected.
LEMMA DropOldestLoss ==
    ASSUME StoreInv, LossInv, DropOldestRow
    PROVE  LossInv'
  <1>1. /\ DropOldest /\ DeleteFirst(layer)
        /\ proc' = proc /\ table' = table /\ crashes' = crashes /\ torn' = torn
    BY DEF DropOldestRow
  <1>2. /\ TakingOut /\ pc = "append" /\ pc' = "insert" /\ layer' = layer /\ arg' = arg
        /\ drained' = drained /\ merged' = merged /\ now' = now /\ taken' = taken
        /\ DropsOldest(layer)
    BY <1>1 DEF DropOldest, TakingOut, clockVars
  <1>. SUFFICES ASSUME Sound' PROVE LossOK'
    BY <1>1 DEF LossInv
  <1>3. /\ OInv /\ LossOK /\ DOMAIN db = Layers /\ \A l \in Layers : Mirrored(l)
        /\ crashes \in Nat /\ RowsSmall'
        /\ db' = [db EXCEPT ![layer] = DeleteRows(@, StartTime[layer])]
    BY <1>1, <1>2, TakeOutUp
  <1>4. layer = NumLayers - 1
    BY <1>2, <1>3, LastLayer DEF DropsOldest, OInv, TypeOK
  <1>5. /\ layer \in Layers /\ \A l \in Layers \ {layer} : db'[l] = db[l]
        /\ Len(db[layer]) \in Nat /\ Len(db[layer]) >= 2
        /\ Len(db'[layer]) = Len(db[layer]) - 1
        /\ \A m \in 1 .. Len(db[layer]) - 1 : db'[layer][m] = db[layer][m + 1]
        /\ RowSamples \subseteq RowSamples' \union db[layer][2].axis
    BY <1>2, <1>3, TakeOutRows
  <1>6. WaitingSmall' /\ MergedSmall'
    BY <1>2, <1>3 DEF LossOK, WaitingSmall, MergedSmall
  <1>7. HeadKept'
    <2>. SUFFICES ASSUME LayerRatio[0] < LayerLen[0], Below' PROVE Len(db'[0]) >= 2
      BY DEF HeadKept
    <2>1. CASE layer = 0
      <3>1. \A m \in Layers : m = 0
        BY <1>4, <2>1, LastLayer
      <3>. QED BY <1>2, <2>1, <3>1 DEF Below
    <2>2. CASE layer # 0
      <3>1. Below /\ db'[0] = db[0]
        BY <1>2, <1>5, <2>2, LastLayer DEF Below
      <3>. QED BY <1>3, <3>1 DEF LossOK, HeadKept
    <2>. QED BY <2>1, <2>2
  <1>8. LostFew'
    <2>1. ASSUME NEW x \in Lost' PROVE x \in Lost
      <3>1. Carried' = Carried
        BY <1>2 DEF Carried, InHand
      <3>2. /\ x \in taken /\ db'[NumLayers - 1][1].time < x /\ x <= now
            /\ x \notin RowSamples' /\ x \notin Carried
        BY <1>2, <2>1, <3>1 DEF Lost, Between
      <3>3. db'[layer][1] = db[layer][2]
        <4>1. 1 \in 1 .. Len(db[layer]) - 1 /\ 1 + 1 = 2
          BY <1>5
        <4>. QED BY <1>5, <4>1
      <3>4. /\ 2 \in 2 .. Len(db[layer]) /\ 1 \in 1 .. Len(db[layer]) /\ 2 \in 1 .. Len(db[layer])
            /\ 2 - 1 = 1
        BY <1>5
      <3>5. /\ Inside(db[layer][2].axis, db[layer][1].time, db[layer][2].time)
            /\ db[layer][1].time \in Nat /\ db[layer][2].time \in Nat
            /\ Increasing(db[layer])
        BY <1>3, <1>5, <3>4, RingRows, MirroredTimes
      <3>6. x \in Nat
        BY <1>3, <3>2, TimeNat DEF OInv, TypeOK, Axis
      <3>7. db[layer][2].time < x /\ db[layer][1].time < db[layer][2].time
        BY <1>4, <3>2, <3>3, <3>4, <3>5 DEF Increasing
      <3>8. db[layer][1].time < x /\ x \notin db[layer][2].axis
        BY <3>5, <3>6, <3>7 DEF Inside
      <3>9. x \notin RowSamples
        BY <1>5, <3>2, <3>8
      <3>. QED BY <1>4, <3>2, <3>8, <3>9 DEF Lost, Between
    <2>. QED BY <1>1, <1>3, <2>1, LostLess DEF LossOK
  <1>. QED BY <1>3, <1>6, <1>7, <1>8 DEF LossOK

\* What Reduce takes out of the table is in hand.
LEMMA ReduceOneLoss ==
    ASSUME StoreInv, LossInv, ReduceOneRow
    PROVE  LossInv'
  <1>1. /\ ReduceOne /\ DeleteFirst(layer)
        /\ proc' = proc /\ table' = table /\ crashes' = crashes /\ torn' = torn
    BY DEF ReduceOneRow
  <1>2. /\ TakingOut /\ pc # "idle" /\ pc' = "reduce" /\ layer' = layer /\ arg' = arg
        /\ drained' = drained + 1 /\ now' = now /\ taken' = taken
        /\ merged' = merged \union RingAxes[layer][RingHead[layer]]
        /\ \/ pc = "append" /\ ~DropsOldest(layer)
           \/ pc = "reduce" /\ drained < LayerRatio[layer]
    BY <1>1 DEF ReduceOne, TakingOut, clockVars
  <1>. SUFFICES ASSUME Sound' PROVE LossOK'
    BY <1>1 DEF LossInv
  <1>3. /\ OInv /\ LossOK /\ DOMAIN db = Layers /\ \A l \in Layers : Mirrored(l)
        /\ crashes \in Nat /\ RowsSmall'
        /\ db' = [db EXCEPT ![layer] = DeleteRows(@, StartTime[layer])]
    BY <1>1, <1>2, TakeOutUp
  <1>4. /\ layer \in Layers /\ layer # NumLayers - 1 /\ drained \in Nat
        /\ drained + 1 <= LayerRatio[layer] /\ LayerRatio[layer] \in Nat /\ LayerLen[layer] \in Nat
    <2>1. ~DropsOldest(layer) /\ (pc = "append" => drained = 0) /\ layer \in Layers /\ drained \in Nat
      BY <1>2, <1>3 DEF OInv, CallOK, TypeOK
    <2>. QED BY <1>2, <2>1, LastLayer DEF DropsOldest
  <1>5. /\ \A l \in Layers \ {layer} : db'[l] = db[l]
        /\ Len(db[layer]) \in Nat /\ Len(db[layer]) >= 2
        /\ Len(db'[layer]) = Len(db[layer]) - 1
        /\ db[layer][2].axis = RingAxes[layer][RingHead[layer]]
        /\ RowSamples \subseteq RowSamples' \union db[layer][2].axis
    BY <1>2, <1>3, TakeOutRows
  <1>6. WaitingSmall'
    BY <1>2, <1>3 DEF LossOK, WaitingSmall
  <1>7. MergedSmall'
    <2>1. PICK u \in Nat : u = Unit[layer]
      BY <1>4, UnitIs
    <2>2. PICK d \in Nat : d = drained
      BY <1>4
    <2>3. 2 \in 2 .. Len(db[layer])
      BY <1>5
    <2>4. AtMost(merged, d * u) /\ AtMost(RingAxes[layer][RingHead[layer]], u)
      BY <1>3, <1>4, <1>5, <2>1, <2>2, <2>3 DEF LossOK, MergedSmall, RowsSmall
    <2>5. d * u \in Nat /\ d * u + u = (d + 1) * u
      OBVIOUS
    <2>6. AtMost(merged', (d + 1) * u)
      BY <1>2, <2>4, <2>5, AtMostBoth
    <2>. QED BY <1>2, <2>1, <2>2, <2>6 DEF MergedSmall
  <1>8. HeadKept'
    <2>. SUFFICES ASSUME LayerRatio[0] < LayerLen[0], Below' PROVE Len(db'[0]) >= 2
      BY DEF HeadKept
    <2>1. CASE layer = 0
      <3>1. Size(layer) = LayerLen[layer] - drained
        BY <1>2, <1>3, TakeOutShift
      <3>2. Len(db[layer]) = Size(layer) + 1
        BY <1>3, <1>4, RingRows
      <3>3. Len(db'[layer]) = LayerLen[layer] - drained
        BY <1>4, <1>5, <3>1, <3>2
      <3>4. LayerRatio[layer] < LayerLen[layer]
        BY <2>1
      <3>5. LayerLen[layer] - drained >= 2
        BY <1>4, <3>4
      <3>. QED BY <2>1, <3>3, <3>5
    <2>2. CASE layer # 0
      <3>1. Below /\ db'[0] = db[0]
        BY <1>2, <1>5, <2>2, LastLayer DEF Below
      <3>. QED BY <1>3, <3>1 DEF LossOK, HeadKept
    <2>. QED BY <2>1, <2>2
  <1>9. LostFew'
    <2>1. ASSUME NEW x \in Lost' PROVE x \in Lost
      <3>1. Carried' = Carried \union db[layer][2].axis
        BY <1>2, <1>5 DEF Carried, InHand
      <3>2. NumLayers - 1 \in Layers \ {layer}
        BY <1>4, LastLayer
      <3>3. db'[NumLayers - 1] = db[NumLayers - 1]
        BY <1>5, <3>2
      <3>4. /\ x \in taken /\ db[NumLayers - 1][1].time < x /\ x <= now
            /\ x \notin RowSamples' /\ x \notin Carried'
        BY <1>2, <2>1, <3>3 DEF Lost, Between
      <3>. QED BY <1>5, <3>1, <3>4 DEF Lost, Between
    <2>. QED BY <1>1, <1>3, <2>1, LostLess DEF LossOK
  <1>. QED BY <1>3, <1>6, <1>7, <1>8, <1>9 DEF LossOK

\* The merged axis stays in hand when it is handed down.
LEMMA HandOverLoss ==
    ASSUME StoreInv, LossInv, HandOverAxis
    PROVE  LossInv'
  <1>1. /\ HandOver /\ proc' = proc /\ table' = table /\ torn' = torn
        /\ db' = db /\ dbErrors' = dbErrors /\ crashes' = crashes
    BY DEF HandOverAxis, storeVars
  <1>. SUFFICES ASSUME Sound, table, proc # "creating" PROVE LossOK'
    BY <1>1 DEF LossInv, Sound
  <1>2. /\ pc = "reduce" /\ pc' = "append" /\ layer' = layer + 1
        /\ drained = LayerRatio[layer] /\ drained' = 0 /\ merged' = {}
        /\ arg' = [arg EXCEPT ![layer + 1] = Compacted(layer)]
        /\ now' = now /\ taken' = taken
    BY <1>1 DEF HandOver, clockVars
  <1>3. OInv /\ LossOK /\ crashes \in Nat /\ \A l \in Layers : Mirrored(l)
    BY <1>2, UpState DEF LossInv
  <1>4. /\ layer \in Layers /\ layer \in Nat /\ layer # NumLayers - 1
        /\ layer + 1 \in Layers /\ layer + 1 \in Nat
        /\ (layer + 1) - 1 = layer /\ layer + 1 # 0 /\ DOMAIN arg = Layers
    <2>1. layer \in Layers /\ ~DropsOldest(layer) /\ DOMAIN arg = Layers
      BY <1>2, <1>3 DEF OInv, TypeOK, CallOK
    <2>. QED BY <2>1, LastLayer DEF DropsOldest
  <1>5. /\ arg'[layer + 1].axis = merged
        /\ \A k \in 0 .. layer : arg'[k] = arg[k] /\ k \in 0 .. layer + 1
        /\ \A k \in 0 .. layer + 1 : k = layer + 1 \/ k \in 0 .. layer
        /\ layer + 1 \in 0 .. layer + 1
    <2>1. \A k \in 0 .. layer : k # layer + 1 /\ k \in Layers /\ k \in 0 .. layer + 1
      BY <1>4, LastLayer
    <2>2. \A k \in 0 .. layer + 1 : k = layer + 1 \/ k \in 0 .. layer
      BY <1>4
    <2>3. layer + 1 \in 0 .. layer + 1
      BY <1>4
    <2>. QED BY <1>2, <1>4, <2>1, <2>2, <2>3 DEF Compacted
  <1>6. RowsSmall'
    BY <1>1, <1>3 DEF LossOK, RowsSmall
  <1>7. WaitingSmall'
    <2>1. AtMost(merged, Unit[layer + 1])
      <3>1. Unit[layer + 1] = Unit[layer] * LayerRatio[layer]
        BY <1>4, UnitIs
      <3>2. drained * Unit[layer] = Unit[layer] * LayerRatio[layer]
        <4>1. Unit[layer] \in Nat /\ LayerRatio[layer] \in Nat
          BY <1>4, UnitIs, LastLayer
        <4>. QED BY <1>2, <4>1
      <3>. QED BY <1>3, <3>1, <3>2 DEF LossOK, MergedSmall
    <2>2. \A k \in 0 .. layer : AtMost(arg[k].axis, Unit[k])
      BY <1>2, <1>3 DEF LossOK, WaitingSmall
    <2>. QED BY <1>2, <1>5, <2>1, <2>2 DEF WaitingSmall
  <1>8. MergedSmall'
    <2>1. Unit[layer + 1] \in Nat
      BY <1>4, UnitIs
    <2>2. AtMost({}, 0) /\ 0 * Unit[layer + 1] = 0
      BY <2>1, AtMostNone
    <2>. QED BY <1>2, <2>2 DEF MergedSmall
  <1>9. HeadKept'
    <2>. SUFFICES ASSUME LayerRatio[0] < LayerLen[0] PROVE Len(db[0]) >= 2
      BY <1>1 DEF HeadKept
    <2>1. CASE layer = 0
      <3>1. Size(layer) = LayerLen[layer] - LayerRatio[layer]
        BY <1>2, <1>3 DEF OInv, CallOK
      <3>2. Len(db[layer]) = Size(layer) + 1
        BY <1>3, <1>4, RingRows
      <3>3. LayerRatio[layer] < LayerLen[layer] /\ LayerRatio[layer] \in Nat /\ LayerLen[layer] \in Nat
        BY <1>4, <2>1, LastLayer
      <3>4. Len(db[layer]) >= 2
        BY <3>1, <3>2, <3>3
      <3>. QED BY <2>1, <3>4
    <2>2. CASE layer # 0
      BY <1>2, <1>3, <2>2 DEF LossOK, HeadKept, Below
    <2>. QED BY <2>1, <2>2
  <1>10. LostFew'
    <2>1. InHand' = InHand \union merged
      <3>1. InHand' = UNION {arg'[k].axis : k \in 0 .. layer + 1}
        BY <1>2 DEF InHand
      <3>2. InHand = UNION {arg[k].axis : k \in 0 .. layer}
        BY <1>2 DEF InHand
      <3>. QED BY <1>5, <3>1, <3>2
    <2>2. Carried' = Carried
      BY <1>2, <2>1 DEF Carried
    <2>3. Lost' = Lost
      BY <1>1, <1>2, <2>2 DEF Lost, RowSamples
    <2>. QED BY <1>1, <1>3, <2>3, LostLess DEF LossOK
  <1>. QED BY <1>6, <1>7, <1>8, <1>9, <1>10 DEF LossOK

\* What was in hand is in the table.
LEMMA InsertLoss ==
    ASSUME StoreInv, LossInv, InsertAxis
    PROVE  LossInv'
  <1>1. /\ Insert /\ proc' = proc /\ table' = table /\ crashes' = crashes /\ torn' = torn
        /\ Statement([db EXCEPT ![layer] =
              InsertRow(@, [time |-> arg[layer].endTime, axis |-> arg[layer].axis])])
    BY DEF InsertAxis
  <1>2. /\ pc \in {"append", "insert"} /\ pc' = (IF layer = 0 THEN "idle" ELSE "insert")
        /\ layer' = (IF layer = 0 THEN 0 ELSE layer - 1)
        /\ arg' = [arg EXCEPT ![layer] = NoArg]
        /\ drained' = drained /\ merged' = merged /\ now' = now /\ taken' = taken
    BY <1>1 DEF Insert, clockVars
  <1>. SUFFICES ASSUME Sound', table, proc # "creating" PROVE LossOK'
    BY <1>1 DEF LossInv
  <1>3. Sound /\ db' = [db EXCEPT ![layer] =
              InsertRow(@, [time |-> arg[layer].endTime, axis |-> arg[layer].axis])]
    BY <1>1 DEF Statement, Sound, StoreInv
  <1>4. /\ OInv /\ LossOK /\ DOMAIN db = Layers /\ \A l \in Layers : Mirrored(l)
        /\ crashes \in Nat /\ drained = 0 /\ merged = {}
    <2>1. OInv /\ LossOK /\ DOMAIN db = Layers /\ (\A l \in Layers : Mirrored(l)) /\ crashes \in Nat
      BY <1>2, <1>3, UpState DEF LossInv
    <2>. QED BY <1>2, <2>1 DEF OInv, CallOK
  <1>5. /\ layer \in Layers /\ \A l \in Layers \ {layer} : db'[l] = db[l]
        /\ Len(db[layer]) \in Nat /\ Len(db[layer]) >= 1
        /\ Len(db'[layer]) = Len(db[layer]) + 1
        /\ \A m \in 1 .. Len(db[layer]) : db'[layer][m] = db[layer][m]
        /\ db'[layer][Len(db[layer]) + 1].axis = arg[layer].axis
        /\ RowSamples' = RowSamples \union arg[layer].axis
    BY <1>1, <1>3, <1>4, InsertRows
  <1>6. layer \in Nat /\ DOMAIN arg = Layers /\ layer \in 0 .. layer
        /\ \A k \in 0 .. layer : k \in Layers
    <2>1. layer \in Nat /\ DOMAIN arg = Layers
      BY <1>4, <1>5, LastLayer DEF OInv, TypeOK
    <2>. QED BY <1>5, <2>1, LastLayer
  <1>7. AtMost(arg[layer].axis, Unit[layer])
    BY <1>2, <1>4, <1>6 DEF LossOK, WaitingSmall
  <1>8. RowsSmall'
    <2>. SUFFICES ASSUME NEW l \in Layers, NEW k \in 2 .. Len(db'[l])
                  PROVE  AtMost(db'[l][k].axis, Unit[l])
      BY DEF RowsSmall
    <2>1. CASE l # layer
      BY <1>4, <1>5, <2>1 DEF LossOK, RowsSmall
    <2>2. CASE l = layer /\ k = Len(db[layer]) + 1
      BY <1>5, <1>7, <2>2
    <2>3. CASE l = layer /\ k # Len(db[layer]) + 1
      <3>1. k \in 1 .. Len(db[layer]) /\ k \in 2 .. Len(db[layer])
        BY <1>5, <2>3
      <3>. QED BY <1>4, <1>5, <2>3, <3>1 DEF LossOK, RowsSmall
    <2>. QED BY <2>1, <2>2, <2>3
  <1>9. ASSUME layer # 0
        PROVE  /\ pc' = "insert" /\ layer' = layer - 1
               /\ \A k \in 0 .. layer - 1 : k \in 0 .. layer /\ arg'[k] = arg[k]
               /\ \A k \in 0 .. layer : k = layer \/ k \in 0 .. layer - 1
    <2>1. \A k \in 0 .. layer - 1 : k \in 0 .. layer /\ k # layer
      BY <1>6
    <2>2. \A k \in 0 .. layer : k = layer \/ k \in 0 .. layer - 1
      BY <1>6
    <2>. QED BY <1>2, <1>6, <1>9, <2>1, <2>2
  <1>10. WaitingSmall'
    <2>1. CASE layer = 0
      BY <1>2, <2>1 DEF WaitingSmall
    <2>2. CASE layer # 0
      <3>1. \A k \in 0 .. layer : AtMost(arg[k].axis, Unit[k])
        BY <1>2, <1>4 DEF LossOK, WaitingSmall
      <3>. QED BY <1>9, <2>2, <3>1 DEF WaitingSmall
    <2>. QED BY <2>1, <2>2
  <1>11. MergedSmall'
    <2>1. layer' \in Layers
      BY <1>2, <1>5, LastLayer
    <2>2. Unit[layer'] \in Nat
      BY <2>1, UnitIs
    <2>3. AtMost({}, 0) /\ 0 * Unit[layer'] = 0
      BY <2>2, AtMostNone
    <2>. QED BY <1>2, <1>4, <2>3 DEF MergedSmall
  <1>12. HeadKept'
    <2>. SUFFICES ASSUME LayerRatio[0] < LayerLen[0], Below' PROVE Len(db'[0]) >= 2
      BY DEF HeadKept
    <2>1. CASE layer = 0
      <3>1. Len(db'[layer]) >= 2
        BY <1>5
      <3>. QED BY <2>1, <3>1
    <2>2. CASE layer # 0
      <3>1. Below /\ db'[0] = db[0]
        BY <1>2, <1>5, <2>2, LastLayer DEF Below
      <3>. QED BY <1>4, <3>1 DEF LossOK, HeadKept
    <2>. QED BY <2>1, <2>2
  <1>13. LostFew'
    <2>1. InHand \subseteq InHand' \union arg[layer].axis
      <3>1. InHand = UNION {arg[k].axis : k \in 0 .. layer}
        BY <1>2 DEF InHand
      <3>2. CASE layer = 0
        <4>1. \A k \in 0 .. layer : k = layer
          BY <1>6, <3>2
        <4>. QED BY <3>1, <4>1
      <3>3. CASE layer # 0
        <4>1. InHand' = UNION {arg'[k].axis : k \in 0 .. layer - 1}
          BY <1>9, <3>3 DEF InHand
        <4>2. \A k \in 0 .. layer - 1 : arg'[k] = arg[k]
          BY <1>9, <3>3
        <4>3. \A k \in 0 .. layer : k = layer \/ k \in 0 .. layer - 1
          BY <1>9, <3>3
        <4>. QED BY <3>1, <4>1, <4>2, <4>3
      <3>. QED BY <3>2, <3>3
    <2>2. Carried \subseteq Carried' \union arg[layer].axis
      BY <1>2, <2>1 DEF Carried
    <2>3. db'[NumLayers - 1][1] = db[NumLayers - 1][1]
      <3>1. NumLayers - 1 \in Layers /\ 1 \in 1 .. Len(db[layer])
        BY <1>5, LastLayer
      <3>. QED BY <1>5, <3>1
    <2>4. Lost' \subseteq Lost
      BY <1>2, <1>5, <2>2, <2>3 DEF Lost, Between
    <2>. QED BY <1>1, <1>4, <2>4, LostLess DEF LossOK
  <1>. QED BY <1>8, <1>10, <1>11, <1>12, <1>13 DEF LossOK

\* A crash loses what the running call carries, and nothing else.
LEMMA CrashLoss ==
    ASSUME StoreInv, LossInv, Crash
    PROVE  LossInv'
  <1>1. /\ proc \in {"creating", "up"} /\ proc' = "down" /\ torn' = (torn \/ proc = "creating")
        /\ crashes' = crashes + 1
        /\ pc' = "idle" /\ layer' = 0 /\ drained' = 0 /\ merged' = {}
        /\ now' = now /\ taken' = taken /\ table' = table /\ db' = db /\ dbErrors' = dbErrors
    BY DEF Crash, StoreInv, clockVars
  <1>2. crashes \in Nat /\ crashes' \in Nat
    BY <1>1 DEF LossInv
  <1>. SUFFICES ASSUME Sound', table PROVE LossOK'
    BY <1>1, <1>2 DEF LossInv
  <1>3. Sound /\ proc = "up"
    BY <1>1 DEF Sound
  <1>4. OInv /\ LossOK
    BY <1>3, UpState DEF LossInv
  <1>5. RowsSmall' /\ WaitingSmall'
    BY <1>1, <1>4 DEF LossOK, RowsSmall, WaitingSmall
  <1>6. MergedSmall'
    <2>1. AtMost({}, 0) /\ 0 * Unit[0] = 0
      BY UnitIs, LastLayer, AtMostNone
    <2>. QED BY <1>1, <2>1 DEF MergedSmall
  <1>7. HeadKept'
    BY <1>1, <1>4 DEF LossOK, HeadKept, Below
  <1>8. LostFew'
    <2>1. AtMost(Carried, LossPerCrash) /\ LossPerCrash \in Nat
      BY <1>4, CarriedSmall DEF LossOK
    <2>2. AtMost(Lost, crashes * LossPerCrash)
      BY <1>4 DEF LossOK, LostFew
    <2>3. PICK c, p \in Nat : c = crashes /\ p = LossPerCrash
      BY <1>2, <2>1
    <2>4. c * p \in Nat /\ c * p + p = (c + 1) * p /\ (c + 1) * p \in Nat
      OBVIOUS
    <2>5. AtMost(Lost \union Carried, (c + 1) * p)
      BY <2>1, <2>2, <2>3, <2>4, AtMostBoth
    <2>6. Lost' \subseteq Lost \union Carried
      <3>1. Carried' = {}
        BY <1>1 DEF Carried, InHand
      <3>. QED BY <1>1, <3>1 DEF Lost, RowSamples
    <2>7. AtMost(Lost', (c + 1) * p)
      BY <2>4, <2>5, <2>6, AtMostPart
    <2>. QED BY <1>1, <2>3, <2>7 DEF LostFew
  <1>. QED BY <1>5, <1>6, <1>7, <1>8 DEF LossOK

\* A start with an empty table expects nothing.
LEMMA FreshStartLoss ==
    ASSUME LossInv, BeginCreating
    PROVE  LossInv'
  BY DEF LossInv, BeginCreating

\* When the start rows are written there is nothing that could have been lost.
LEMMA CreateStartRowLoss ==
    ASSUME StoreInv, LossInv, CreateStartRow
    PROVE  LossInv'
  <1>1. /\ proc = "creating" /\ UNCHANGED <<vars, table, crashes, dbErrors, torn>>
        /\ proc' = IF created = NumLayers - 1 THEN "up" ELSE proc
    BY DEF CreateStartRow
  <1>2. UNCHANGED <<StartTime, EndTime, Empty, RingTimes, RingAxes, RingHead, RingTail,
                    now, taken, pc, layer, arg, drained, merged>>
    BY <1>1 DEF vars, ringVars, callVars, clockVars
  <1>. SUFFICES ASSUME Sound', proc' # "creating" PROVE LossOK'
    BY <1>1 DEF LossInv
  <1>3. OInv /\ pc = "idle" /\ SettingUp /\ crashes \in Nat /\ merged = {} /\ drained = 0 /\ layer = 0
    <2>1. OInv /\ pc = "idle" /\ SettingUp /\ crashes \in Nat
      BY <1>1 DEF StoreInv, TableOK, Sound, LossInv
    <2>. QED BY <2>1 DEF OInv, CallOK
  <1>4. proc' = "up"
    BY <1>1
  <1>5. StoreInv' /\ \A l \in Layers : Mirrored(l)'
    <2>1. StoreInv'
      BY CreateStartRowStore
    <2>. QED BY <1>4, <2>1 DEF StoreInv, TableOK
  <1>6. \A l \in Layers : Len(db'[l]) = 1 /\ db'[l][1].time = now
    <2>. TAKE l \in Layers
    <2>1. Size(l)' = 0 /\ Bound(l, 0)' = now
      BY <1>2, <1>3 DEF Size, Bound, SettingUp
    <2>2. /\ Len(db'[l]) = Size(l)' + 1
          /\ \A i \in 0 .. Size(l)' : db'[l][i + 1].time = Bound(l, i)'
      BY <1>5 DEF Mirrored
    <2>3. 0 \in 0 .. 0 /\ 0 + 1 = 1
      OBVIOUS
    <2>. QED BY <2>1, <2>2, <2>3
  <1>7. 2 .. 1 = {} /\ ~(1 >= 2)
    OBVIOUS
  <1>8. RowsSmall' /\ WaitingSmall'
    BY <1>2, <1>3, <1>6, <1>7 DEF RowsSmall, WaitingSmall
  <1>9. MergedSmall'
    <2>1. AtMost({}, 0) /\ 0 * Unit[0] = 0
      BY UnitIs, LastLayer, AtMostNone
    <2>. QED BY <1>2, <1>3, <2>1 DEF MergedSmall
  <1>10. HeadKept'
    BY <1>2, <1>3, <1>6, <1>7 DEF HeadKept, Below
  <1>11. LostFew'
    <2>1. Lost' = {}
      <3>. SUFFICES ASSUME NEW x \in Lost' PROVE FALSE
        OBVIOUS
      <3>1. x \in taken /\ now < x /\ x <= now
        BY <1>2, <1>6, LastLayer DEF Lost, Between
      <3>2. x \in Nat /\ now \in Nat
        BY <1>3, <3>1, TimeNat DEF OInv, TypeOK, Axis
      <3>. QED BY <3>1, <3>2
    <2>2. crashes' * LossPerCrash \in Nat
      <3>1. PICK L : Losses(L) /\ LossPerCrash = L[NumLayers - 1]
        BY LossIs
      <3>2. LossPerCrash \in Nat
        BY <3>1, LastLayer DEF Losses
      <3>. QED BY <1>1, <1>3, <3>2
    <2>. QED BY <2>1, <2>2, AtMostNone DEF LostFew
  <1>. QED BY <1>8, <1>9, <1>10, <1>11 DEF LossOK

\* A restart that finds rows shows what they hold.
LEMMA RestoreLoss ==
    ASSUME StoreInv, LossInv, NEW t \in now .. now + MaxDown, StartRestored(t)
    PROVE  LossInv'
  <1>1. /\ proc = "down" /\ table /\ table' = table /\ torn' = torn /\ crashes' = crashes
        /\ now' = t /\ taken' = taken
        /\ pc' = pc /\ layer' = layer /\ arg' = arg /\ drained' = drained /\ merged' = merged
    BY DEF StartRestored, callVars
  <1>. SUFFICES ASSUME Sound' PROVE LossOK'
    BY <1>1 DEF LossInv
  <1>2. dbErrors = 0 /\ dbErrors' = 0
    <2>1. PICK kept \in SUBSET Surplus : dbErrors' = dbErrors + Cardinality(kept)
      BY DEF StartRestored
    <2>2. dbErrors \in Nat /\ dbErrors' = 0 /\ Cardinality(kept) \in Nat
      BY KeptFinite DEF StoreInv, Sound
    <2>. QED BY <2>1, <2>2
  <1>3. Sound
    BY <1>1, <1>2 DEF Sound
  <1>4. /\ OInv /\ DOMAIN db = Layers /\ pc = "idle" /\ \A l \in Layers : Readable(l)
        /\ LossOK /\ crashes \in Nat
    BY <1>1, <1>3 DEF StoreInv, TableOK, LossInv
  <1>5. DOMAIN db' = Layers /\ \A l \in Layers : db'[l] = db[l]
    BY <1>2, <1>4, RestoreLoads
  <1>6. 0 \in Layers /\ NumLayers - 1 \in Layers
    BY LastLayer
  <1>7. RowsSmall' /\ WaitingSmall' /\ MergedSmall'
    BY <1>1, <1>4, <1>5 DEF LossOK, RowsSmall, WaitingSmall, MergedSmall
  <1>8. HeadKept'
    BY <1>1, <1>4, <1>5, <1>6 DEF LossOK, HeadKept, Below
  <1>9. LostFew'
    <2>1. RowSamples' = RowSamples /\ Carried' = Carried
      BY <1>1, <1>5 DEF RowSamples, Carried, InHand
    <2>2. \A x \in taken : x <= now
      BY <1>4 DEF OInv, PastOnly
    <2>3. Lost' \subseteq Lost
      BY <1>1, <1>5, <1>6, <2>1, <2>2 DEF Lost, Between
    <2>. QED BY <1>1, <1>4, <2>3, LostLess DEF LossOK
  <1>. QED BY <1>7, <1>8, <1>9 DEF LossOK

\* A step that changes nothing.
LEMMA StutterLoss ==
    ASSUME LossInv, UNCHANGED allVars
    PROVE  LossInv'
  <1>1. UNCHANGED vars /\ UNCHANGED storeVars
    BY DEF allVars
  <1>2. UNCHANGED <<proc, table, db, crashes, dbErrors, torn>>
    BY <1>1 DEF storeVars
  <1>3. UNCHANGED <<now, taken, pc, layer, arg, drained, merged>>
    BY <1>1 DEF vars, callVars, clockVars
  <1>4. RowSamples' = RowSamples /\ InHand' = InHand
    BY <1>2, <1>3 DEF RowSamples, InHand
  <1>5. Lost' = Lost
    BY <1>2, <1>3, <1>4 DEF Lost, Carried
  <1>6. RowsSmall' = RowsSmall /\ WaitingSmall' = WaitingSmall /\ MergedSmall' = MergedSmall
    BY <1>2, <1>3 DEF RowsSmall, WaitingSmall, MergedSmall
  <1>7. LostFew' = LostFew /\ HeadKept' = HeadKept
    BY <1>2, <1>3, <1>5 DEF LostFew, HeadKept, Below
  <1>. QED BY <1>2, <1>6, <1>7 DEF LossInv, LossOK, Sound

\* The invariant behind what a crash can do: axes hold at most the samples they
\* were merged of, what is nowhere was in hand when the process died, and layer 0
\* keeps an axis when something has left it (layerStat.Reduce and Append).
THEOREM LossInvariant == StoreSpec => []LossInv
  <1>1. StoreInit => LossInv
    BY DEF StoreInit, LossInv
  <1>2. StoreInv /\ LossInv /\ [StoreNext]_allVars => LossInv'
    <2>. SUFFICES ASSUME StoreInv, LossInv, [StoreNext]_allVars PROVE LossInv'
      OBVIOUS
    <2>1. ASSUME NEW t \in 1 .. MaxTime, Sample(t) PROVE LossInv'
      BY <2>1, SampleLoss
    <2>2. CASE DropOldestRow
      BY <2>2, DropOldestLoss
    <2>3. CASE ReduceOneRow
      BY <2>3, ReduceOneLoss
    <2>4. CASE HandOverAxis
      BY <2>4, HandOverLoss
    <2>5. CASE InsertAxis
      BY <2>5, InsertLoss
    <2>6. ASSUME NEW t \in now .. now + MaxDown, StartFirst(t) PROVE LossInv'
      BY <2>6, FreshStartLoss DEF StartFirst
    <2>7. ASSUME NEW t \in now .. now + MaxDown, StartCleared(t) PROVE LossInv'
      BY <2>7, FreshStartLoss DEF StartCleared
    <2>8. ASSUME NEW t \in now .. now + MaxDown, StartRestored(t) PROVE LossInv'
      BY <2>8, RestoreLoss
    <2>9. CASE CreateStartRow
      BY <2>9, CreateStartRowLoss
    <2>10. CASE Crash
      BY <2>10, CrashLoss
    <2>11. CASE UNCHANGED allVars
      BY <2>11, StutterLoss
    <2>. QED BY <2>1, <2>2, <2>3, <2>4, <2>5, <2>6, <2>7, <2>8, <2>9, <2>10, <2>11 DEF StoreNext
  <1>. QED BY <1>1, <1>2, TableMirrorsRings, PTL DEF StoreSpec

\* What a reader misses is nowhere, and what is cleared is empty.
LEMMA LossLimits ==
    ASSUME StoreInv, LossInv
    PROVE  LossBounded
  <1>. SUFFICES ASSUME Sound
                PROVE  /\ Serving => Cardinality(Missing) <= crashes * LossPerCrash
                       /\ LayerRatio[0] < LayerLen[0] /\ proc = "down" /\ table /\ Len(db[0]) = 1 =>
                             \A l \in Layers : Len(db[l]) = 1
    BY DEF LossBounded, Sound
  <1>1. ASSUME Serving PROVE Cardinality(Missing) <= crashes * LossPerCrash
    <2>1. proc = "up" /\ pc = "idle"
      BY <1>1 DEF Serving
    <2>2. OInv /\ LossOK /\ crashes \in Nat /\ \A l \in Layers : Mirrored(l)
      BY <2>1, UpState DEF LossInv, StoreInv
    <2>3. RowSamples \subseteq Held
      <3>. SUFFICES ASSUME NEW x \in RowSamples PROVE x \in Held
        OBVIOUS
      <3>1. PICK l \in Layers : \E k \in 2 .. Len(db[l]) : x \in db[l][k].axis
        BY DEF RowSamples
      <3>2. PICK k \in 2 .. Len(db[l]) : x \in db[l][k].axis
        BY <3>1
      <3>3. Len(db[l]) = Size(l) + 1 /\ Size(l) \in Nat
        BY <2>2, RingRows
      <3>4. k - 1 \in 1 .. Size(l) /\ (k - 1) + 1 = k
        BY <3>3
      <3>5. db[l][(k - 1) + 1].axis = RingAxes[l][Slot(l, (k - 1) - 1)]
        BY <2>2, <3>4 DEF Mirrored
      <3>6. x \in RingAxes[l][Slot(l, (k - 1) - 1)]
        BY <3>2, <3>4, <3>5
      <3>. QED BY <3>4, <3>6 DEF Held
    <2>4. Missing \subseteq Lost
      <3>1. Carried = {}
        BY <2>1, <2>2 DEF Carried, InHand, OInv, CallOK
      <3>2. db[NumLayers - 1][1].time = StartTime[NumLayers - 1]
        BY <2>2, RingRows, LastLayer
      <3>. QED BY <2>3, <3>1, <3>2 DEF Missing, Lost
    <2>5. crashes * LossPerCrash \in Nat
      <3>1. PICK L : Losses(L) /\ LossPerCrash = L[NumLayers - 1]
        BY LossIs
      <3>2. LossPerCrash \in Nat
        BY <3>1, LastLayer DEF Losses
      <3>. QED BY <2>2, <3>2
    <2>6. AtMost(Missing, crashes * LossPerCrash)
      BY <2>2, <2>4, <2>5, AtMostPart DEF LossOK, LostFew
    <2>. QED BY <2>6 DEF AtMost
  <1>2. ASSUME LayerRatio[0] < LayerLen[0], proc = "down", table, Len(db[0]) = 1,
               NEW l \in Layers
        PROVE  Len(db[l]) = 1
    <2>1. HeadKept /\ Readable(l)
      BY <1>2 DEF StoreInv, TableOK, LossInv, LossOK
    <2>2. Len(db[l]) \in Nat /\ Len(db[l]) >= 1
      <3>1. Len(db[l]) \in 1 .. LayerLen[l] + 1 /\ LayerLen[l] \in Nat
        BY <2>1, LastLayer DEF Readable
      <3>. QED BY <3>1
    <2>3. ~Below
      BY <1>2, <2>1 DEF HeadKept
    <2>4. l # 0 => ~(Len(db[l]) >= 2)
      BY <2>3 DEF Below
    <2>5. CASE l = 0
      BY <1>2, <2>5
    <2>6. CASE l # 0
      <3>1. PICK n \in Nat : n = Len(db[l]) /\ n >= 1
        BY <2>2
      <3>2. ~(n >= 2)
        BY <2>4, <2>6, <3>1
      <3>3. \A k \in Nat : k >= 1 => k >= 2 \/ k = 1
        OBVIOUS
      <3>4. n = 1
        BY <3>1, <3>2, <3>3, Zenon
      <3>. QED BY <3>1, <3>4
    <2>. QED BY <2>5, <2>6
  <1>. QED BY <1>1, <1>2

\* However often and wherever the process dies, a crash loses no more than the
\* running Append carried (LossPerCrash), and Restore clears no layer that
\* holds an axis where Reduce leaves one in layer 0 (stat.go, stat_persist.go).
THEOREM LossesBounded == StoreSpec => []LossBounded
  <1>1. StoreInv /\ LossInv => LossBounded
    BY LossLimits
  <1>. QED BY <1>1, TableMirrorsRings, LossInvariant, PTL
=============================================================================
