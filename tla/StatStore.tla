------------------------------- MODULE StatStore -------------------------------
(***************************************************************************)
(* The storage with its database: every statement of Append and Reduce is  *)
(* its own transaction, its error is ignored, and the process may die      *)
(* between any two of them.  At the next start Stat.Restore rebuilds the   *)
(* rings from the rows (pkg/keyvisual/storage/stat_persist.go, model.go).  *)
(***************************************************************************)
EXTENDS LayerRange

CONSTANTS
    MaxDown,      \* bound: longest time the process stays down
    MaxCrashes,   \* bound: how often it dies
    MaxDbErrors   \* bound: how many statements fail

ASSUME StoreAssumption == MaxDown \in Nat /\ MaxCrashes \in Nat /\ MaxDbErrors \in Nat

VARIABLES
    proc,      \* "down", "creating" (createStartAxisModels runs) or "up"
    table,     \* the table keyviz_axis exists
    db,        \* db[l]: the rows with layer_num = l, ORDER BY time
    created,   \* start rows written by the running createStartAxisModels
    crashes, dbErrors,
    torn       \* history: the process died while it was "creating"

storeVars == <<proc, table, db, created, crashes, dbErrors, torn>>
allVars == <<vars, storeVars>>

Row == [time : Time, axis : Axis]

\* The rows at the positions S, in their order.
RowsAt(rows, S) ==
    [n \in 1 .. Cardinality(S) |->
        rows[CHOOSE k \in S : Cardinality({j \in S : j <= k}) = n]]

\* INSERT keeps the time order the rows are read in; the table has no unique
\* index (gorm v2 does not know the tag unique_index), so equal rows coexist.
InsertRow(rows, r) == RowsAt(rows, {k \in DOMAIN rows : rows[k].time <= r.time})
                      \o <<r>> \o RowsAt(rows, {k \in DOMAIN rows : rows[k].time > r.time})

\* Mutant: the row is not found (the time is not stored as it is compared).
DeleteNothing(rows, t) == rows
DeleteRows(rows, t) == RowsAt(rows, {k \in DOMAIN rows : rows[k].time # t})

\* One statement: it takes effect, or it fails and the caller goes on.
Statement(effect) ==
    \/ db' = effect /\ UNCHANGED dbErrors
    \/ UNCHANGED db /\ dbErrors < MaxDbErrors /\ dbErrors' = dbErrors + 1

StoreInit ==
    /\ Init
    /\ proc = "down"
    /\ table = FALSE
    /\ db = [l \in Layers |-> <<>>]
    /\ created = 0
    /\ crashes = 0
    /\ dbErrors = 0
    /\ torn = FALSE

-----------------------------------------------------------------------------
\* Stat.Append, statement by statement.
Sample(t) ==
    /\ proc = "up"
    /\ StatAppend(t)
    /\ UNCHANGED storeVars

\* Mutant: the row of the oldest axis is deleted, not the start row.
DeleteFirstRing(l) == Statement([db EXCEPT ![l] = DeleteRows(@, RingTimes[l][RingHead[l]])])

\* DeleteFirstAxisFromDb deletes the row at the layer's StartTime.
DeleteFirst(l) == Statement([db EXCEPT ![l] = DeleteRows(@, StartTime[l])])

DropOldestRow ==
    /\ DropOldest
    /\ DeleteFirst(layer)
    /\ UNCHANGED <<proc, table, created, crashes, torn>>

ReduceOneRow ==
    /\ ReduceOne
    /\ DeleteFirst(layer)
    /\ UNCHANGED <<proc, table, created, crashes, torn>>

HandOverAxis ==
    /\ HandOver
    /\ UNCHANGED storeVars

\* InsertLastAxisToDb
InsertAxis ==
    /\ Insert
    /\ Statement([db EXCEPT ![layer] =
                    InsertRow(@, [time |-> arg[layer].endTime, axis |-> arg[layer].axis])])
    /\ UNCHANGED <<proc, table, created, crashes, torn>>

-----------------------------------------------------------------------------
\* newLayerStat for every layer, at start time t.
FreshRings(t) ==
    /\ StartTime' = EachLayer(t)
    /\ EndTime' = EachLayer(t)
    /\ RingTimes' = EachSlot(0)
    /\ RingAxes' = EachSlot({})
    /\ RingHead' = EachLayer(0)
    /\ RingTail' = EachLayer(0)
    /\ Empty' = EachLayer(TRUE)

\* The process comes up at time t, which is never before its last sample.
StartedAt(t) ==
    /\ t <= MaxTime
    /\ now' = t
    /\ FreshRings(t)
    /\ UNCHANGED <<callVars, taken>>

BeginCreating ==
    /\ proc' = "creating"
    /\ created' = 0
    /\ UNCHANGED <<crashes, dbErrors, torn>>

\* Restore, no table yet: create it, then the start rows.
StartFirst(t) ==
    /\ proc = "down"
    /\ ~table
    /\ StartedAt(t)
    /\ table' = TRUE
    /\ BeginCreating
    /\ UNCHANGED db

\* Restore, only the start row in layer 0: clear the table and begin anew.
StartCleared(t) ==
    /\ proc = "down"
    /\ table
    /\ Len(db[0]) = 1
    /\ StartedAt(t)
    /\ db' = [l \in Layers |-> <<>>]
    /\ BeginCreating
    /\ UNCHANGED table

\* The loop of createStartAxisModels.
NextCreated == IF created = NumLayers - 1 THEN 0 ELSE created + 1

\* createStartAxisModels writes the start row of one layer; an error here ends
\* the start, as a crash does.
CreateStartRow ==
    /\ proc = "creating"
    /\ db' = [db EXCEPT ![created] =
                InsertRow(@, [time |-> StartTime[created], axis |-> {}])]
    /\ created' = NextCreated
    /\ proc' = IF created = NumLayers - 1 THEN "up" ELSE proc
    /\ UNCHANGED <<vars, table, crashes, dbErrors, torn>>

\* Layers below the first one without rows are loaded, the others stay fresh.
Loaded(l) == \A k \in 0 .. l : db[k] # <<>>

\* Mutant: the newest row is not loaded.
LoadsButNewest(l) == IF Len(db[l]) = 1 THEN 0 ELSE Len(db[l]) - 2

\* Rows loaded into the ring of layer l: the first row only gives StartTime,
\* what exceeds the ring is trimmed from the new end.
Loads(l) == IF Len(db[l]) - 1 > LayerLen[l] THEN LayerLen[l] ELSE Len(db[l]) - 1

\* The rows beyond those, which Restore deletes one by one.
Surplus == {p \in Layers \X (1 .. MaxTime + 1) :
              /\ Loaded(p[1])
              /\ Loads(p[1]) + 2 <= p[2]
              /\ p[2] <= Len(db[p[1]])}

TrimRows(rows, ks) ==
    RowsAt(rows, {k \in DOMAIN rows : \A j \in ks : rows[k].time # rows[j].time})

\* Restore, rows found.
StartRestored(t) ==
    /\ proc = "down"
    /\ table
    /\ Len(db[0]) # 1
    /\ t <= MaxTime
    /\ now' = t
    /\ StartTime' = [l \in Layers |-> IF Loaded(l) THEN db[l][1].time ELSE t]
    /\ EndTime' = [l \in Layers |-> IF Loaded(l) THEN db[l][Loads(l) + 1].time ELSE t]
    /\ RingHead' = [l \in Layers |-> 0]
    /\ RingTail' = [l \in Layers |-> IF Loaded(l) THEN Loads(l) % LayerLen[l] ELSE 0]
    /\ Empty' = [l \in Layers |-> ~Loaded(l) \/ Len(db[l]) = 1]
    /\ RingTimes' = [l \in Layers |-> [i \in 0 .. LayerLen[l] - 1 |->
                       IF Loaded(l) /\ i < Loads(l) THEN db[l][i + 2].time ELSE 0]]
    /\ RingAxes' = [l \in Layers |-> [i \in 0 .. LayerLen[l] - 1 |->
                       IF Loaded(l) /\ i < Loads(l) THEN db[l][i + 2].axis ELSE {}]]
    /\ \E kept \in SUBSET Surplus :
          /\ dbErrors' = dbErrors + Cardinality(kept)
          /\ dbErrors' <= MaxDbErrors
          /\ db' = [l \in Layers |->
                      TrimRows(db[l], {k \in DOMAIN db[l] : <<l, k>> \in Surplus \ kept})]
    /\ proc' = "up"
    /\ UNCHANGED <<callVars, taken, table, created, crashes, torn>>

\* The process dies, or is stopped when no call runs; memory is gone.
Crash ==
    /\ proc # "down"
    /\ crashes < MaxCrashes
    /\ crashes' = crashes + 1
    /\ proc' = "down"
    /\ torn' = (torn \/ proc = "creating")
    /\ created' = 0
    /\ FreshRings(0)
    /\ pc' = "idle"
    /\ layer' = 0
    /\ arg' = EachLayer(NoArg)
    /\ drained' = 0
    /\ merged' = {}
    /\ UNCHANGED <<clockVars, table, db, dbErrors>>

StoreNext ==
    \/ \E t \in 1 .. MaxTime : Sample(t)
    \/ DropOldestRow
    \/ ReduceOneRow
    \/ HandOverAxis
    \/ InsertAxis
    \/ \E t \in now .. now + MaxDown : StartFirst(t)
    \/ \E t \in now .. now + MaxDown : StartCleared(t)
    \/ \E t \in now .. now + MaxDown : StartRestored(t)
    \/ CreateStartRow
    \/ Crash

StoreSpec == StoreInit /\ [][StoreNext]_allVars

-----------------------------------------------------------------------------
\* So few statements have failed that no layer above l can have lost all its
\* rows: Restore does not load what is below such a layer, nor delete it.
FewErrors(l) == \A k \in 0 .. l - 1 : dbErrors <= LayerLen[k] - LayerRatio[k]

\* Rows are what the code writes; the rest of the store state has its type.
\* Statements that failed leave at most one row each behind, as long as they
\* are few: the table does not grow with the samples.
StoreTypeOK ==
    /\ TypeOK
    /\ proc \in {"down", "creating", "up"}
    /\ table \in BOOLEAN
    /\ \A l \in Layers : /\ db[l] \in Seq(Row)
                        /\ FewErrors(l) => Len(db[l]) <= LayerLen[l] + 1 + dbErrors
    /\ created \in Layers
    /\ crashes \in 0 .. MaxCrashes
    /\ dbErrors \in 0 .. MaxDbErrors
    /\ torn \in BOOLEAN

\* A reader can be served.
Serving == proc = "up" /\ pc = "idle"

\* The axes Restore would load into layer l from the rows as they are.
LoadedSpans(l) == [i \in 1 .. Loads(l) |->
                     [from |-> db[l][i].time, until |-> db[l][i + 1].time,
                      samples |-> db[l][i + 1].axis]]

\* An axis never shows a sample outside its span, and the spans of all layers
\* come in order, though after a crash there may be a hole between two layers:
\* no sample is in two places.
SpansApart ==
    \A l \in Layers :
        /\ \A i \in 1 .. Size(l) :
              /\ Bound(l, i - 1) < Bound(l, i)
              /\ RingAxes[l][Slot(l, i - 1)] \subseteq Bound(l, i - 1) + 1 .. Bound(l, i)
        /\ l # 0 => Bound(l, Size(l)) <= StartTime[l - 1]

\* At every moment the rows are a faithful copy of the rings, after earlier
\* crashes too: whenever the process dies, the restart finds what the rings
\* held, with no overlap, and only what the running call carries is lost.
RestartKeepsView ==
    proc = "up" /\ ~torn /\ dbErrors = 0 =>
        /\ \A l \in Layers : /\ Loaded(l)
                             /\ db[l][1].time = StartTime[l]
                             /\ LoadedSpans(l) = LayerSpans(l)
        /\ SpansApart

\* The samples a reader can be shown.
Held == UNION {UNION {RingAxes[l][Slot(l, i - 1)] : i \in 1 .. Size(l)} : l \in Layers}

Missing == Between(taken, StartTime[NumLayers - 1], now) \ Held

\* The most one crash can lose: for every layer that merges, the axes whose
\* rows Reduce has deleted but not yet stored merged, and the new sample.
LossPerCrash ==
    LET loss[l \in Layers] == IF l = 0 THEN 1 ELSE loss[l - 1] + Unit[l]
    IN  loss[NumLayers - 1]

\* A crash in the middle of Append loses a bounded piece of the history that
\* the storage should still keep.  Restore clears the table when layer 0 has
\* but its start row; where Reduce leaves an axis in layer 0, as in
\* defaultStatConfig, that never takes an axis of another layer with it.
LossBounded ==
    ~torn /\ dbErrors = 0 =>
        /\ Serving => Cardinality(Missing) <= crashes * LossPerCrash
        /\ LayerRatio[0] < LayerLen[0] /\ proc = "down" /\ table /\ Len(db[0]) = 1 =>
              \A l \in Layers : Len(db[l]) = 1

\* A failed statement leaves a bounded number of rows behind; and as long as no
\* statement fails, no sample is counted in two axes, not even after a setup
\* that was torn.
DamageBounded ==
    /\ StoreTypeOK
    /\ Serving /\ dbErrors = 0 =>
         \A i, j \in DOMAIN Spans : i # j => Spans[i].samples \intersect Spans[j].samples = {}

-----------------------------------------------------------------------------
\* Package storage "stores the input axes in order, and can get a Plane by
\* time interval" (stat.go): whatever was read back, the times of a Plane
\* increase.
PlaneInOrder ==
    Serving =>
      LET times == RangeRoot(0, MaxTime + 1).times
      IN  \A k \in DOMAIN times \ {1} : times[k - 1] < times[k]
=============================================================================
