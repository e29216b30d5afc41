------------------------------ MODULE LayerStat ------------------------------
(***************************************************************************)
(* The in-memory half of the key visualizer's storage                      *)
(* (pkg/keyvisual/storage/stat.go): a chain of layers, each a ring of      *)
(* axes.  A new axis is appended to layer 0; a layer that is full first    *)
(* merges its Ratio oldest axes into one and appends that to the next      *)
(* layer, and the last layer drops its oldest axis.                        *)
(*                                                                         *)
(* One Stat.Append is a chain of nested layerStat.Append / Reduce calls    *)
(* under Stat.mutex.  It is split here at its database statements, so that *)
(* StatStore can crash or fail between any two of them.  Readers take the  *)
(* same mutex: they see the states with pc = "idle" only.                  *)
(*                                                                         *)
(* An axis is abstracted to the set of the samples (end times passed to    *)
(* Stat.Append) whose statistics it holds.                                 *)
(*                                                                         *)
(* A definition marked "Mutant" is a plausible bug in the definition that  *)
(* follows it and part of no specification: the properties refute it.      *)
(***************************************************************************)
EXTENDS Integers, FiniteSets

CONSTANTS
    NumLayers,   \* number of layers
    LayerLen,    \* LayerLen[l]: slots in the ring of layer l
    LayerRatio,  \* LayerRatio[l]: axes merged into one when layer l is full
    MaxTime,     \* bound: the clock stops here
    MaxGap       \* bound: longest time between two samples

Layers == 0 .. NumLayers - 1

ASSUME LayerAssumption ==
    /\ NumLayers \in Nat \ {0}
    /\ LayerLen \in [Layers -> Nat \ {0}]
    /\ LayerRatio \in [Layers -> Nat]
    /\ \A l \in Layers : LayerRatio[l] <= LayerLen[l]
    /\ \A l \in 0 .. NumLayers - 2 : LayerRatio[l] # 0
    /\ MaxTime \in Nat
    /\ MaxGap \in Nat

VARIABLES
    StartTime, EndTime,    \* the fields of layerStat, as functions of the layer
    RingTimes, RingAxes,
    RingHead, RingTail, Empty,
    pc,       \* where the running Stat.Append is, "idle" when there is none
    layer,    \* the innermost active layerStat.Append works on this layer
    arg,      \* arg[l]: the axis and endTime passed to layer l's Append
    drained,  \* axes the running Reduce has taken out so far
    merged,   \* the samples in those axes
    now,      \* the clock
    taken     \* history: the samples handed to Stat.Append

ringVars == <<StartTime, EndTime, RingTimes, RingAxes, RingHead, RingTail, Empty>>
callVars == <<pc, layer, arg, drained, merged>>
clockVars == <<now, taken>>
vars == <<ringVars, callVars, clockVars>>

NoArg == [axis |-> {}, endTime |-> 0]

EachLayer(v) == [l \in Layers |-> v]
EachSlot(v) == [l \in Layers |-> [i \in 0 .. LayerLen[l] - 1 |-> v]]

\* newLayerStat for every layer, at start time 0.
Init ==
    /\ StartTime = EachLayer(0)
    /\ EndTime = EachLayer(0)
    /\ RingTimes = EachSlot(0)
    /\ RingAxes = EachSlot({})
    /\ RingHead = EachLayer(0)
    /\ RingTail = EachLayer(0)
    /\ Empty = EachLayer(TRUE)
    /\ pc = "idle"
    /\ layer = 0
    /\ arg = EachLayer(NoArg)
    /\ drained = 0
    /\ merged = {}
    /\ now = 0
    /\ taken = {}

-----------------------------------------------------------------------------
\* Mutant: one slot is kept free.
FullEarly(l) == (RingTail[l] + 1) % LayerLen[l] = RingHead[l]
Full(l) == RingHead[l] = RingTail[l] /\ ~Empty[l]

\* Reduce drops instead of merging
DropsOldest(l) == LayerRatio[l] = 0 \/ l = NumLayers - 1

Succ(l, i) == (i + 1) % LayerLen[l]

\* Take the oldest axis out of the ring of layer l: the body both of Reduce's
\* early return and of its loop.
TakeOut(l) ==
    /\ StartTime' = [StartTime EXCEPT ![l] = RingTimes[l][RingHead[l]]]
    /\ RingAxes' = [RingAxes EXCEPT ![l][RingHead[l]] = {}]
    /\ RingHead' = [RingHead EXCEPT ![l] = Succ(l, RingHead[l])]
    /\ UNCHANGED <<EndTime, RingTimes, RingTail, Empty>>

\* Mutant: the merged axis gets the end of the layer.
CompactedAtEnd(l) == [axis |-> merged, endTime |-> EndTime[l]]

\* The axis that Reduce appends to the next layer.
Compacted(l) == [axis |-> merged, endTime |-> StartTime[l]]

\* The input calls Stat.Append with a sample taken at time t.
StatAppend(t) ==
    /\ pc = "idle"
    /\ t \in now + 1 .. now + MaxGap
    /\ t <= MaxTime
    /\ pc' = "append"
    /\ arg' = [arg EXCEPT ![0] = [axis |-> {t}, endTime |-> t]]
    /\ now' = t
    /\ taken' = taken \union {t}
    /\ UNCHANGED <<ringVars, layer, drained, merged>>

\* Append on a full last layer: Reduce drops the oldest axis.
DropOldest ==
    /\ pc = "append"
    /\ Full(layer)
    /\ DropsOldest(layer)
    /\ TakeOut(layer)
    /\ pc' = "insert"
    /\ UNCHANGED <<layer, arg, drained, merged, clockVars>>

\* Mutant: the axes taken out before are forgotten.
ReduceOneKeepsLast ==
    /\ \/ pc = "append" /\ Full(layer) /\ ~DropsOldest(layer)
       \/ pc = "reduce" /\ drained < LayerRatio[layer]
    /\ TakeOut(layer)
    /\ pc' = "reduce"
    /\ drained' = drained + 1
    /\ merged' = RingAxes[layer][RingHead[layer]]
    /\ UNCHANGED <<layer, arg, clockVars>>

\* Append on any other full layer: one turn of Reduce's loop.
ReduceOne ==
    /\ \/ pc = "append" /\ Full(layer) /\ ~DropsOldest(layer)
       \/ pc = "reduce" /\ drained < LayerRatio[layer]
    /\ TakeOut(layer)
    /\ pc' = "reduce"
    /\ drained' = drained + 1
    /\ merged' = merged \union RingAxes[layer][RingHead[layer]]
    /\ UNCHANGED <<layer, arg, clockVars>>

\* Reduce calls Append on the next layer with the compacted axis.
HandOver ==
    /\ pc = "reduce"
    /\ drained = LayerRatio[layer]
    /\ arg' = [arg EXCEPT ![layer + 1] = Compacted(layer)]
    /\ layer' = layer + 1
    /\ pc' = "append"
    /\ drained' = 0
    /\ merged' = {}
    /\ UNCHANGED <<ringVars, clockVars>>

\* The tail of Append, where there is room or Reduce has returned; it returns
\* to the Reduce of the layer above, or to Stat.Append.
Insert ==
    /\ \/ pc = "append" /\ ~Full(layer)
       \/ pc = "insert"
    /\ RingAxes' = [RingAxes EXCEPT ![layer][RingTail[layer]] = arg[layer].axis]
    /\ RingTimes' = [RingTimes EXCEPT ![layer][RingTail[layer]] = arg[layer].endTime]
    /\ Empty' = [Empty EXCEPT ![layer] = FALSE]
    /\ EndTime' = [EndTime EXCEPT ![layer] = arg[layer].endTime]
    /\ RingTail' = [RingTail EXCEPT ![layer] = Succ(layer, RingTail[layer])]
    /\ arg' = [arg EXCEPT ![layer] = NoArg]
    /\ pc' = IF layer = 0 THEN "idle" ELSE "insert"
    /\ layer' = IF layer = 0 THEN 0 ELSE layer - 1
    /\ UNCHANGED <<StartTime, RingHead, drained, merged, clockVars>>

Next ==
    \/ \E t \in 1 .. MaxTime : StatAppend(t)
    \/ DropOldest
    \/ ReduceOne
    \/ HandOver
    \/ Insert

Spec == Init /\ [][Next]_vars

-----------------------------------------------------------------------------
Time == 0 .. MaxTime
Axis == SUBSET Time

\* Every variable has its type: times are clock values, ring indices stay
\* inside the ring, and the call stack never leaves the chain of layers.
TypeOK ==
    /\ StartTime \in [Layers -> Time]
    /\ EndTime \in [Layers -> Time]
    /\ DOMAIN RingTimes = Layers /\ DOMAIN RingAxes = Layers
    /\ \A l \in Layers :
          /\ RingTimes[l] \in [0 .. LayerLen[l] - 1 -> Time]
          /\ RingAxes[l] \in [0 .. LayerLen[l] - 1 -> Axis]
          /\ RingHead[l] \in 0 .. LayerLen[l] - 1
          /\ RingTail[l] \in 0 .. LayerLen[l] - 1
    /\ DOMAIN RingHead = Layers /\ DOMAIN RingTail = Layers
    /\ Empty \in [Layers -> BOOLEAN]
    /\ pc \in {"idle", "append", "reduce", "insert"}
    /\ layer \in Layers
    /\ arg \in [Layers -> [axis : Axis, endTime : Time]]
    /\ drained \in Nat
    /\ merged \in Axis
    /\ now \in Time
    /\ taken \in Axis

\* Layer l has been reduced by the running call and not yet inserted into.
Reduced(l) ==
    \/ pc \in {"reduce", "insert"} /\ l <= layer
    \/ pc = "append" /\ l < layer

\* How many axes layer l holds.  Range computes the second case (size <= 0
\* means a full ring); a ring being reduced may be drained to nothing.
Size(l) ==
    LET d == RingTail[l] - RingHead[l]
    IN  IF Empty[l] THEN 0
        ELSE IF Reduced(l) THEN (IF d < 0 THEN d + LayerLen[l] ELSE d)
        ELSE (IF d <= 0 THEN d + LayerLen[l] ELSE d)

Slot(l, i) == (RingHead[l] + i) % LayerLen[l]

\* The boundaries of layer l's axes: its i-th axis spans
\* (Bound(l, i-1), Bound(l, i)].
Bound(l, i) == IF i = 0 THEN StartTime[l] ELSE RingTimes[l][Slot(l, i - 1)]

Between(samples, from, to) == {t \in samples : from < t /\ t <= to}

\* Within a layer the boundaries increase strictly and end at EndTime, so the
\* binary searches of Range are on sorted data.
RingSorted ==
    \A l \in Layers :
        /\ \A i, j \in 0 .. Size(l) : i < j => Bound(l, i) < Bound(l, j)
        /\ Bound(l, Size(l)) = EndTime[l]

\* Every axis holds the samples of its own span, all of them and no others,
\* however often they were merged on the way (matrix.Plane: "The EndTime of
\* each axis is the StartTime of its next axis").
AxesExact ==
    \A l \in Layers : \A i \in 1 .. Size(l) :
        RingAxes[l][Slot(l, i - 1)] = Between(taken, Bound(l, i - 1), Bound(l, i))

\* Where the history above layer l begins.
Above(l) == IF l = 0 THEN now ELSE StartTime[l - 1]

\* Between a layer and what is above it there is nothing when no call runs,
\* and the axis on its way down when one does: a sample is never lost between
\* two layers, nor seen in both.
LayersLinked ==
    \A l \in Layers :
        IF pc # "idle" /\ l <= layer
        THEN /\ EndTime[l] < arg[l].endTime
             /\ arg[l].endTime = Above(l)
             /\ arg[l].axis = Between(taken, EndTime[l], Above(l))
        ELSE IF pc = "reduce" /\ l = layer + 1
        THEN /\ EndTime[l] < Above(l)
             /\ merged = Between(taken, EndTime[l], Above(l))
        ELSE EndTime[l] = Above(l)

\* Every time in memory is past.
PastOnly ==
    /\ taken \subseteq 1 .. now
    /\ \A l \in Layers : StartTime[l] <= now /\ EndTime[l] <= now

\* The running call: which layers it may be in, and what it has drained.
CallOK ==
    /\ pc = "idle" => layer = 0
    /\ \A l \in Layers : Reduced(l) => ~Empty[l]
    /\ \A l \in Layers : Empty[l] => RingHead[l] = RingTail[l]
    /\ pc = "reduce" => /\ ~DropsOldest(layer)
                        /\ drained \in 1 .. LayerRatio[layer]
                        /\ Size(layer) = LayerLen[layer] - drained
    /\ pc # "reduce" => drained = 0 /\ merged = {}

\* The inductive invariant.
IInv == TypeOK /\ CallOK /\ PastOnly /\ RingSorted /\ AxesExact /\ LayersLinked

-----------------------------------------------------------------------------
(***************************************************************************)
(* What is left of this when samples have been lost in a crash.            *)
(***************************************************************************)
Inside(samples, from, to) == \A t \in samples : from < t /\ t <= to

\* Every axis holds samples of its own span only.
AxesInside ==
    \A l \in Layers : \A i \in 1 .. Size(l) :
        Inside(RingAxes[l][Slot(l, i - 1)], Bound(l, i - 1), Bound(l, i))

\* A layer ends no later than what is above it begins, and the axis on its way
\* down fits between the two: there may be a hole, but no overlap.
LayersOrdered ==
    \A l \in Layers :
        IF pc # "idle" /\ l <= layer
        THEN /\ EndTime[l] < arg[l].endTime
             /\ arg[l].endTime = Above(l)
             /\ Inside(arg[l].axis, EndTime[l], Above(l))
        ELSE IF pc = "reduce" /\ l = layer + 1
        THEN /\ EndTime[l] < Above(l)
             /\ Inside(merged, EndTime[l], Above(l))
        ELSE EndTime[l] <= Above(l)

\* The inductive invariant of the layers where crashes happen.
OInv == TypeOK /\ CallOK /\ PastOnly /\ RingSorted /\ AxesInside /\ LayersOrdered
=============================================================================
