---------------------------- MODULE LayerStatProofs ----------------------------
(***************************************************************************)
(* Proofs about LayerStat for every number of layers, every ring length    *)
(* and every ratio, that it implements Timeline (LayerRange), and how much *)
(* history the layers keep.                                                *)
(***************************************************************************)
EXTENDS LayerRange, SequenceTheorems, WellFoundedInduction, FiniteSetTheorems, TLAPS

\* An index of a ring is its own remainder, and going once round a ring leads back.
LEMMA ModOnce ==
    ASSUME NEW n \in Nat \ {0}, NEW x \in 0 .. n - 1
    PROVE  x % n = x /\ (x + n) % n = x
  OBVIOUS

\* From one head, different offsets lead to different slots.
LEMMA ModInjective ==
    ASSUME NEW n \in Nat \ {0}, NEW h \in 0 .. n - 1, NEW i \in 0 .. n - 1, NEW j \in 0 .. n - 1,
           (h + i) % n = (h + j) % n
    PROVE  i = j
  OBVIOUS

\* Moving the head by one moves every slot by one.
LEMMA ModNext ==
    ASSUME NEW n \in Nat \ {0}, NEW h \in 0 .. n - 1, NEW i \in 0 .. n - 1
    PROVE  (((h + 1) % n) + i) % n = (h + (i + 1)) % n
  <1>1. CASE h + 1 = n
    <2>1. (h + 1) % n = 0 /\ h + (i + 1) = n + i
      BY <1>1
    <2>2. (n + i) % n = i % n
      BY ModOnce
    <2>. QED BY <2>1, <2>2
  <1>2. CASE h + 1 # n
    <2>1. (h + 1) % n = h + 1
      BY <1>2
    <2>2. (h + 1) + i = h + (i + 1)
      OBVIOUS
    <2>. QED BY <2>1, <2>2
  <1>. QED BY <1>1, <1>2

\* The size of a ring is within its length, and a ring that is not being
\* reduced and is not empty holds at least one axis.
LEMMA SizeRange ==
    ASSUME TypeOK, NEW l \in Layers
    PROVE  /\ Size(l) \in 0 .. LayerLen[l]
           /\ Size(l) = 0 <=> Empty[l] \/ (Reduced(l) /\ RingHead[l] = RingTail[l])
           /\ Reduced(l) => Size(l) < LayerLen[l]
  <1>1. /\ LayerLen[l] \in Nat \ {0}
        /\ RingHead[l] \in 0 .. LayerLen[l] - 1
        /\ RingTail[l] \in 0 .. LayerLen[l] - 1
        /\ Empty[l] \in BOOLEAN
    BY LayerAssumption DEF TypeOK
  <1>. DEFINE d == RingTail[l] - RingHead[l]
  <1>2. d \in Int /\ -LayerLen[l] < d /\ d < LayerLen[l] /\ (d = 0 <=> RingHead[l] = RingTail[l])
    BY <1>1
  <1>3. CASE Empty[l]
    BY <1>3, <1>1 DEF Size
  <1>4. CASE ~Empty[l]
    BY <1>4, <1>1, <1>2 DEF Size
  <1>. QED BY <1>3, <1>4

\* Slots are indices of the ring.
LEMMA SlotRange ==
    ASSUME TypeOK, NEW l \in Layers, NEW i \in Nat
    PROVE  Slot(l, i) \in 0 .. LayerLen[l] - 1
  BY LayerAssumption DEF TypeOK, Slot

\* Two axes of a layer never share a slot.
LEMMA SlotDistinct ==
    ASSUME TypeOK, NEW l \in Layers,
           NEW i \in 0 .. LayerLen[l] - 1, NEW j \in 0 .. LayerLen[l] - 1, i # j
    PROVE  Slot(l, i) # Slot(l, j)
  <1>1. /\ LayerLen[l] \in Nat \ {0}
        /\ RingHead[l] \in 0 .. LayerLen[l] - 1
    BY LayerAssumption DEF TypeOK
  <1>. QED BY <1>1, ModInjective DEF Slot

\* Tail is the slot behind the newest axis.
LEMMA SlotOfSize ==
    ASSUME TypeOK, CallOK, NEW l \in Layers
    PROVE  Slot(l, Size(l)) = RingTail[l]
  <1>1. /\ LayerLen[l] \in Nat \ {0}
        /\ RingHead[l] \in 0 .. LayerLen[l] - 1
        /\ RingTail[l] \in 0 .. LayerLen[l] - 1
        /\ Empty[l] => RingHead[l] = RingTail[l]
    BY LayerAssumption DEF TypeOK, CallOK
  <1>. DEFINE d == RingTail[l] - RingHead[l]
  <1>2. Size(l) = d \/ Size(l) = d + LayerLen[l]
    BY <1>1 DEF Size
  <1>3. RingHead[l] + d = RingTail[l] /\ RingHead[l] + (d + LayerLen[l]) = RingTail[l] + LayerLen[l]
    BY <1>1
  <1>4. Slot(l, Size(l)) = RingTail[l] % LayerLen[l] \/ Slot(l, Size(l)) = (RingTail[l] + LayerLen[l]) % LayerLen[l]
    BY <1>2, <1>3 DEF Slot
  <1>. QED BY <1>1, <1>4, ModOnce

\* The boundaries are times, none of them after EndTime.
LEMMA BoundRange ==
    ASSUME TypeOK, RingSorted, NEW l \in Layers, NEW i \in 0 .. Size(l)
    PROVE  Bound(l, i) \in Time /\ Bound(l, i) <= EndTime[l]
  <1>1. Size(l) \in Nat /\ i \in Nat
    BY SizeRange, LayerAssumption
  <1>2. \A k \in 0 .. Size(l) : Bound(l, k) \in Time
    <2>. SUFFICES ASSUME NEW k \in 0 .. Size(l) PROVE Bound(l, k) \in Time
      OBVIOUS
    <2>1. CASE k = 0
      BY <2>1 DEF Bound, TypeOK
    <2>2. CASE k # 0
      <3>1. k - 1 \in Nat
        BY <2>2, <1>1
      <3>2. Slot(l, k - 1) \in 0 .. LayerLen[l] - 1
        BY <3>1, SlotRange
      <3>. QED BY <2>2, <3>2 DEF Bound, TypeOK
    <2>. QED BY <2>1, <2>2
  <1>3. Bound(l, Size(l)) = EndTime[l] /\ (i < Size(l) => Bound(l, i) < Bound(l, Size(l)))
    BY <1>1 DEF RingSorted
  <1>. QED BY <1>1, <1>2, <1>3, LayerAssumption DEF Time

\* Spans over the past are not changed by a new sample.
LEMMA BetweenPast ==
    ASSUME NEW S \in SUBSET Int, NEW a \in Int, NEW b \in Int, NEW t \in Int, b < t
    PROVE  Between(S \union {t}, a, b) = Between(S, a, b)
  BY DEF Between

\* The empty span holds no sample.
LEMMA BetweenSame ==
    ASSUME NEW S \in SUBSET Int, NEW a \in Int
    PROVE  Between(S, a, a) = {}
  <1>1. \A x \in S : ~(a < x /\ x <= a)
    OBVIOUS
  <1>. QED BY <1>1, Zenon DEF Between

\* Times are natural numbers.
LEMMA TimeNat == Time \subseteq Nat
  BY LayerAssumption DEF Time

\* Two adjacent spans make one.
LEMMA BetweenJoin ==
    ASSUME NEW S \in SUBSET Int, NEW a \in Int, NEW b \in Int, NEW c \in Int, a <= b, b <= c
    PROVE  Between(S, a, b) \union Between(S, b, c) = Between(S, a, c)
  <1>1. \A t \in S : (a < t /\ t <= b) \/ (b < t /\ t <= c) <=> a < t /\ t <= c
    OBVIOUS
  <1>. QED BY <1>1, Zenon DEF Between

\* The samples in a span are inside it.
LEMMA InsideBetween ==
    ASSUME NEW S, NEW a, NEW b
    PROVE  Inside(Between(S, a, b), a, b)
  BY DEF Inside, Between

\* Two axes of adjacent spans make one of the joint span.
LEMMA InsideJoin ==
    ASSUME NEW P \in SUBSET Int, NEW Q \in SUBSET Int, NEW a \in Int, NEW b \in Int, NEW c \in Int,
           a <= b, b <= c, Inside(P, a, b), Inside(Q, b, c)
    PROVE  Inside(P \union Q, a, c)
  BY DEF Inside

\* While nothing is lost, the weaker invariant holds too.
LEMMA ExactIsOrdered ==
    ASSUME IInv
    PROVE  OInv
  <1>. USE DEF IInv
  <1>1. AxesInside
    BY InsideBetween DEF AxesInside, AxesExact
  <1>2. \A l \in Layers : EndTime[l] \in Nat
    BY TimeNat DEF TypeOK
  <1>3. LayersOrdered
    BY <1>2, InsideBetween DEF LayersOrdered, LayersLinked
  <1>. QED BY <1>1, <1>3 DEF OInv

-----------------------------------------------------------------------------
\* newLayerStat establishes the invariant.
LEMMA InitIInv == Init => IInv
  <1>. SUFFICES ASSUME Init PROVE IInv
    OBVIOUS
  <1>0. 0 \in Layers /\ NumLayers \in Nat \ {0}
    BY LayerAssumption DEF Layers
  <1>1. TypeOK
    BY <1>0, LayerAssumption DEF Init, TypeOK, EachLayer, EachSlot, NoArg, Time, Axis, Layers
  <1>2. \A l \in Layers : Size(l) = 0 /\ ~Reduced(l)
    BY <1>0 DEF Init, Size, EachLayer, Reduced
  <1>3. CallOK
    BY <1>0, <1>2 DEF Init, CallOK, EachLayer
  <1>4. PastOnly
    BY <1>0 DEF Init, PastOnly, EachLayer
  <1>5. RingSorted /\ AxesExact
    BY <1>2 DEF Init, RingSorted, AxesExact, Bound, EachLayer
  <1>6. LayersLinked
    <2>1. \A l \in Layers \ {0} : l - 1 \in Layers
      BY <1>0 DEF Layers
    <2>. QED BY <2>1 DEF Init, LayersLinked, EachLayer, Above
  <1>. QED BY <1>1, <1>3, <1>4, <1>5, <1>6 DEF IInv

-----------------------------------------------------------------------------
\* What StatAppend does, as far as the proofs use it.
Sampled(t) ==
    /\ 0 \in Layers /\ Layers \subseteq Nat
    /\ pc = "idle" /\ pc' = "append" /\ layer = 0 /\ layer' = 0
    /\ t \in Nat /\ now < t /\ now' = t /\ taken' = taken \union {t}
    /\ now \in Nat /\ taken \subseteq 1 .. now
    /\ UNCHANGED ringVars
    /\ UNCHANGED <<drained, merged>>
    /\ arg' = [arg EXCEPT ![0] = [axis |-> {t}, endTime |-> t]]
    /\ arg'[0] = [axis |-> {t}, endTime |-> t]
    /\ \A l \in Layers : Reduced(l)' = Reduced(l) /\ Size(l)' = Size(l) /\ Size(l) \in Nat
    /\ \A l \in Layers, i \in Nat : Bound(l, i)' = Bound(l, i) /\ Slot(l, i)' = Slot(l, i)
    /\ \A l \in Layers \ {0} : Above(l)' = Above(l) /\ ~(l <= 0) /\ ~(l <= layer')
    /\ Above(0)' = t /\ Above(0) = now

\* And so it does.
LEMMA SampleFrame ==
    ASSUME OInv, NEW t \in 1 .. MaxTime, StatAppend(t)
    PROVE  Sampled(t)
  <1>0. 0 \in Layers /\ NumLayers \in Nat \ {0} /\ Layers \subseteq Nat
    BY LayerAssumption DEF Layers
  <1>. USE DEF OInv
  <1>1. /\ pc = "idle" /\ pc' = "append" /\ layer = 0 /\ layer' = 0
        /\ t \in Nat /\ now < t /\ now' = t /\ taken' = taken \union {t}
        /\ now \in Nat /\ taken \subseteq 1 .. now
        /\ UNCHANGED ringVars
        /\ UNCHANGED <<drained, merged>>
        /\ arg' = [arg EXCEPT ![0] = [axis |-> {t}, endTime |-> t]]
    BY LayerAssumption DEF StatAppend, CallOK, TypeOK, PastOnly, Time
  <1>2. arg'[0] = [axis |-> {t}, endTime |-> t]
    BY <1>0, <1>1 DEF TypeOK
  <1>3. \A l \in Layers : Reduced(l)' = Reduced(l) /\ Size(l)' = Size(l)
    BY <1>0, <1>1 DEF Reduced, Size, ringVars
  <1>4. \A l \in Layers, i \in Nat : Bound(l, i)' = Bound(l, i) /\ Slot(l, i)' = Slot(l, i)
    BY <1>1 DEF Bound, Slot, ringVars
  <1>5. \A l \in Layers : Size(l) \in Nat
    BY SizeRange, LayerAssumption
  <1>6. \A l \in Layers \ {0} : Above(l)' = Above(l) /\ ~(l <= 0) /\ ~(l <= layer')
    BY <1>0, <1>1 DEF Above, ringVars
  <1>7. Above(0)' = t /\ Above(0) = now
    BY <1>1 DEF Above
  <1>. QED BY <1>0, <1>1, <1>2, <1>3, <1>4, <1>5, <1>6, <1>7 DEF Sampled

\* It is of the types of the state.
LEMMA SampleType ==
    ASSUME TypeOK, CallOK, NEW t \in 1 .. MaxTime, StatAppend(t)
    PROVE  TypeOK'
  <1>1. /\ pc' = "append" /\ layer' = 0 /\ now' = t /\ taken' = taken \union {t}
        /\ arg' = [arg EXCEPT ![0] = [axis |-> {t}, endTime |-> t]]
        /\ UNCHANGED ringVars /\ UNCHANGED <<drained, merged>>
    BY DEF StatAppend, CallOK
  <1>2. t \in Time /\ {t} \in Axis
    BY LayerAssumption DEF Time, Axis
  <1>3. 0 \in Layers
    BY LayerAssumption DEF Layers
  <1>4. taken' \in Axis
    BY <1>1, <1>2 DEF TypeOK, Axis
  <1>5. arg' \in [Layers -> [axis : Axis, endTime : Time]]
    BY <1>1, <1>2 DEF TypeOK
  <1>. QED BY <1>1, <1>2, <1>3, <1>4, <1>5 DEF TypeOK, ringVars

\* A new sample handed to Stat.Append keeps the weaker invariant ...
LEMMA SampleOInv ==
    ASSUME OInv, NEW t \in 1 .. MaxTime, StatAppend(t)
    PROVE  OInv'
  <1>. USE DEF OInv
  <1>0. Sampled(t)
    BY SampleFrame
  <1>1. TypeOK'
    BY SampleType
  <1>2. CallOK'
    BY <1>0 DEF Sampled, CallOK, ringVars
  <1>3. PastOnly'
    <2>1. \A l \in Layers : StartTime[l] \in Nat /\ EndTime[l] \in Nat
      BY LayerAssumption DEF TypeOK, Time
    <2>2. \A l \in Layers : StartTime[l]' <= now' /\ EndTime[l]' <= now'
      BY <2>1, <1>0 DEF Sampled, PastOnly, ringVars
    <2>. QED BY <2>2, <1>0 DEF Sampled, PastOnly
  <1>4. RingSorted'
    BY <1>0 DEF Sampled, RingSorted, ringVars
  <1>5. AxesInside'
    <2>. SUFFICES ASSUME NEW l \in Layers, NEW i \in 1 .. Size(l)'
                  PROVE  Inside(RingAxes[l][Slot(l, i - 1)], Bound(l, i - 1), Bound(l, i))'
      BY DEF AxesInside
    <2>1. i \in 1 .. Size(l) /\ i \in Nat /\ i - 1 \in Nat
      BY <1>0 DEF Sampled
    <2>2. Inside(RingAxes[l][Slot(l, i - 1)], Bound(l, i - 1), Bound(l, i))
      BY <2>1 DEF AxesInside
    <2>. QED BY <2>1, <2>2, <1>0 DEF Sampled, ringVars
  <1>6. LayersOrdered'
    <2>1. \A l \in Layers : EndTime[l] <= Above(l)
      BY <1>0 DEF Sampled, LayersOrdered
    <2>2. EndTime[0] \in Nat /\ now \in Nat /\ t \in Nat /\ now < t /\ EndTime[0] <= now
      <3>1. 0 \in Layers /\ Above(0) = now /\ now \in Nat /\ t \in Nat /\ now < t
        BY <1>0 DEF Sampled
      <3>. QED BY <3>1, <2>1, TimeNat DEF TypeOK
    <2>3. EndTime[0] < t /\ Inside({t}, EndTime[0], t)
      BY <2>2 DEF Inside
    <2>4. ASSUME NEW l \in Layers \ {0}
          PROVE  EndTime'[l] <= Above(l)' /\ ~(l <= layer') /\ pc' # "reduce"
      BY <2>1, <1>0 DEF Sampled, ringVars
    <2>5. /\ EndTime'[0] < arg'[0].endTime /\ arg'[0].endTime = Above(0)'
          /\ Inside(arg'[0].axis, EndTime'[0], Above(0)')
      BY <2>3, <1>0 DEF Sampled, ringVars
    <2>6. pc' = "append" /\ layer' = 0
      BY <1>0 DEF Sampled
    <2>. QED BY <2>4, <2>5, <2>6 DEF LayersOrdered
  <1>. QED BY <1>1, <1>2, <1>3, <1>4, <1>5, <1>6

\* ... and, if nothing was lost, the full one.
LEMMA SampleIInv ==
    ASSUME IInv, NEW t \in 1 .. MaxTime, StatAppend(t)
    PROVE  IInv'
  <1>. USE DEF IInv
  <1>1. OInv
    BY ExactIsOrdered
  <1>0. Sampled(t)
    BY <1>1, SampleFrame
  <1>2. (TypeOK /\ CallOK /\ PastOnly /\ RingSorted)'
    BY <1>1, SampleOInv DEF OInv
  <1>3. AxesExact'
    <2>. SUFFICES ASSUME NEW l \in Layers, NEW i \in 1 .. Size(l)'
                  PROVE  (RingAxes[l][Slot(l, i - 1)]
                           = Between(taken, Bound(l, i - 1), Bound(l, i)))'
      BY DEF AxesExact
    <2>0. i \in 1 .. Size(l)
      BY <1>1, <1>0 DEF Sampled
    <2>1. Size(l) \in Nat /\ i \in 0 .. Size(l) /\ i - 1 \in 0 .. Size(l)
      BY <2>0, <1>1, <1>0 DEF Sampled
    <2>2. /\ Bound(l, i - 1) \in Time /\ Bound(l, i) \in Time /\ Bound(l, i) <= EndTime[l]
      BY <2>1, BoundRange
    <2>3. EndTime[l] \in Time /\ EndTime[l] <= now
      BY DEF PastOnly, TypeOK
    <2>4. Bound(l, i) < t /\ Bound(l, i) \in Int /\ Bound(l, i - 1) \in Int /\ taken \in SUBSET Int
      <3>1. now < t /\ now \in Nat /\ t \in Nat /\ taken \subseteq 1 .. now
        BY <1>1, <1>0 DEF Sampled
      <3>. QED BY <2>2, <2>3, <3>1, LayerAssumption DEF Time
    <2>5. Between(taken', Bound(l, i - 1), Bound(l, i)) = Between(taken, Bound(l, i - 1), Bound(l, i))
      <3>1. taken' = taken \union {t} /\ t \in Int
        BY <1>1, <1>0 DEF Sampled
      <3>. QED BY <2>4, <3>1, BetweenPast
    <2>6. RingAxes[l][Slot(l, i - 1)] = Between(taken, Bound(l, i - 1), Bound(l, i))
      BY <2>0 DEF AxesExact
    <2>7. i \in Nat /\ i - 1 \in Nat
      BY <2>1
    <2>8. /\ Bound(l, i - 1)' = Bound(l, i - 1) /\ Bound(l, i)' = Bound(l, i)
          /\ Slot(l, i - 1)' = Slot(l, i - 1) /\ RingAxes' = RingAxes
      BY <2>7, <1>1, <1>0 DEF Sampled, ringVars
    <2>. QED BY <2>5, <2>6, <2>8
  <1>4. LayersLinked'
    <2>1. \A l \in Layers : EndTime[l] = Above(l)
      BY <1>1, <1>0 DEF Sampled, LayersLinked
    <2>2. Between(taken', now, t) = {t}
      <3>1. taken \in SUBSET Int /\ taken \subseteq 1 .. now /\ now \in Int /\ t \in Int /\ now < t
        BY <1>1, <1>0 DEF Sampled
      <3>2. Between(taken \union {t}, now, t) = {t}
        <4>1. \A x \in taken \union {t} : now < x /\ x <= t <=> x = t
          BY <3>1
        <4>. QED BY <4>1, Zenon DEF Between
      <3>. QED BY <1>1, <3>2, <1>0 DEF Sampled
    <2>. QED BY <1>1, <2>1, <2>2, <1>0 DEF Sampled, LayersLinked, ringVars
  <1>. QED BY <1>2, <1>3, <1>4

-----------------------------------------------------------------------------
\* What TakeOut does to a ring that holds an axis.
TakingOut ==
    /\ \/ pc = "append" /\ Full(layer)
       \/ pc = "reduce" /\ drained < LayerRatio[layer]
    /\ TakeOut(layer)
    /\ pc' \in {"reduce", "insert"}
    /\ UNCHANGED <<layer, arg, now, taken>>

\* Taking an axis out keeps the types.
LEMMA TakeOutType ==
    ASSUME OInv, TakingOut
    PROVE  /\ StartTime' \in [Layers -> Time]
           /\ StartTime' = [StartTime EXCEPT ![layer] = RingTimes[layer][RingHead[layer]]]
           /\ DOMAIN RingAxes' = Layers /\ DOMAIN RingHead' = Layers
           /\ \A l \in Layers : /\ RingAxes'[l] \in [0 .. LayerLen[l] - 1 -> Axis]
                                /\ RingHead'[l] \in 0 .. LayerLen[l] - 1
  <1>. USE DEF OInv
  <1>1. layer \in Layers /\ LayerLen[layer] \in Nat \ {0} /\ RingHead[layer] \in 0 .. LayerLen[layer] - 1
    BY LayerAssumption DEF TypeOK
  <1>2. RingTimes[layer][RingHead[layer]] \in Time
    BY <1>1 DEF TypeOK
  <1>3. Succ(layer, RingHead[layer]) \in 0 .. LayerLen[layer] - 1
    BY <1>1 DEF Succ
  <1>4. {} \in Axis
    BY DEF Axis
  <1>. QED BY <1>1, <1>2, <1>3, <1>4 DEF TypeOK, TakingOut, TakeOut

\* Taking an axis out shifts the axes of its layer by one and leaves the others.
LEMMA TakeOutShift ==
    ASSUME OInv, TakingOut
    PROVE  /\ \A l \in Layers \ {layer} :
                 /\ Size(l)' = Size(l) /\ Reduced(l)' = Reduced(l)
                 /\ \A i \in Nat : Slot(l, i)' = Slot(l, i) /\ Bound(l, i)' = Bound(l, i)
           /\ ~Empty[layer] /\ Reduced(layer)'
           /\ Size(layer) \in 1 .. LayerLen[layer]
           /\ Size(layer) = LayerLen[layer] - drained
           /\ Size(layer)' = Size(layer) - 1
           /\ \A i \in 0 .. LayerLen[layer] - 1 :
                 Slot(layer, i)' = Slot(layer, i + 1) /\ Bound(layer, i)' = Bound(layer, i + 1)
  <1>. USE DEF OInv
  <1>1. /\ layer \in Layers /\ Layers \subseteq Nat
        /\ LayerLen[layer] \in Nat \ {0}
        /\ RingHead[layer] \in 0 .. LayerLen[layer] - 1
        /\ RingTail[layer] \in 0 .. LayerLen[layer] - 1
        /\ LayerRatio[layer] \in Nat /\ LayerRatio[layer] <= LayerLen[layer]
    BY LayerAssumption, SMTT(30) DEF TypeOK, Layers
  <1>2. ~Empty[layer] /\ Reduced(layer)'
    BY <1>1 DEF TakingOut, TakeOut, Full, CallOK, Reduced
  <1>3. \A l \in Layers \ {layer} :
           /\ StartTime'[l] = StartTime[l] /\ RingTimes'[l] = RingTimes[l]
           /\ RingHead'[l] = RingHead[l] /\ RingTail'[l] = RingTail[l] /\ Empty'[l] = Empty[l]
           /\ Reduced(l)' = Reduced(l)
    BY <1>1 DEF TakingOut, TakeOut, TypeOK, Reduced
  <1>4. /\ RingHead'[layer] = Succ(layer, RingHead[layer]) /\ RingTail' = RingTail
        /\ StartTime'[layer] = RingTimes[layer][RingHead[layer]]
        /\ RingTimes' = RingTimes /\ Empty' = Empty /\ layer' = layer
    BY <1>1 DEF TakingOut, TakeOut, TypeOK
  <1>5. /\ Size(layer) \in 1 .. LayerLen[layer] /\ Size(layer)' = Size(layer) - 1
        /\ Size(layer) = LayerLen[layer] - drained
    <2>1. CASE pc = "append" /\ Full(layer)
      <3>1. ~Reduced(layer) /\ RingHead[layer] = RingTail[layer]
        BY <2>1, <1>1 DEF Reduced, Full
      <3>2. Size(layer) = LayerLen[layer]
        BY <3>1, <1>1, <1>2 DEF Size
      <3>3. LET d == RingTail[layer] - Succ(layer, RingHead[layer])
            IN  Size(layer)' = IF d < 0 THEN d + LayerLen[layer] ELSE d
        BY <1>2, <1>4 DEF Size
      <3>4. Succ(layer, RingHead[layer])
              = IF RingHead[layer] + 1 = LayerLen[layer] THEN 0 ELSE RingHead[layer] + 1
        BY <1>1 DEF Succ
      <3>5. drained = 0
        BY <2>1 DEF CallOK
      <3>. QED BY <3>1, <3>2, <3>3, <3>4, <3>5, <1>1
    <2>2. CASE pc = "reduce" /\ drained < LayerRatio[layer]
      <3>1. Reduced(layer) /\ Size(layer) = LayerLen[layer] - drained /\ drained \in 1 .. LayerRatio[layer]
        BY <2>2, <1>1 DEF Reduced, CallOK
      <3>2. Size(layer) \in 1 .. LayerLen[layer] - 1
        BY <3>1, <2>2, <1>1
      <3>3. RingHead[layer] # RingTail[layer]
        BY <3>1, <3>2, <1>1, <1>2 DEF Size
      <3>4. LET d == RingTail[layer] - RingHead[layer]
            IN  Size(layer) = IF d < 0 THEN d + LayerLen[layer] ELSE d
        BY <3>1, <1>2 DEF Size
      <3>5. LET d == RingTail[layer] - Succ(layer, RingHead[layer])
            IN  Size(layer)' = IF d < 0 THEN d + LayerLen[layer] ELSE d
        BY <1>2, <1>4 DEF Size
      <3>6. Succ(layer, RingHead[layer])
              = IF RingHead[layer] + 1 = LayerLen[layer] THEN 0 ELSE RingHead[layer] + 1
        BY <1>1 DEF Succ
      <3>. QED BY <3>1, <3>2, <3>3, <3>4, <3>5, <3>6, <1>1
    <2>. QED BY <2>1, <2>2 DEF TakingOut
  <1>6. ASSUME NEW i \in 0 .. LayerLen[layer] - 1
        PROVE  Slot(layer, i)' = Slot(layer, i + 1) /\ Bound(layer, i)' = Bound(layer, i + 1)
    <2>0. \A k \in 0 .. LayerLen[layer] - 1 : Slot(layer, k)' = Slot(layer, k + 1)
      <3>. SUFFICES ASSUME NEW k \in 0 .. LayerLen[layer] - 1
                    PROVE  Slot(layer, k)' = Slot(layer, k + 1)
        OBVIOUS
      <3>1. Slot(layer, k)' = (((RingHead[layer] + 1) % LayerLen[layer]) + k) % LayerLen[layer]
        BY <1>4 DEF Slot, Succ
      <3>2. Slot(layer, k + 1) = (RingHead[layer] + (k + 1)) % LayerLen[layer]
        BY DEF Slot
      <3>. QED BY <3>1, <3>2, <1>1, ModNext
    <2>1. Slot(layer, i)' = Slot(layer, i + 1)
      BY <2>0
    <2>2. CASE i = 0
      <3>1. Slot(layer, 0) = RingHead[layer]
        BY <1>1, ModOnce DEF Slot
      <3>. QED BY <2>1, <2>2, <3>1, <1>4 DEF Bound
    <2>3. CASE i # 0
      <3>1. i - 1 \in 0 .. LayerLen[layer] - 1 /\ (i - 1) + 1 = i /\ (i + 1) - 1 = i /\ i + 1 # 0
        BY <2>3, <1>1
      <3>2. Slot(layer, i - 1)' = Slot(layer, (i - 1) + 1)
        BY <3>1, <2>0
      <3>. QED BY <2>1, <2>3, <3>1, <3>2, <1>4 DEF Bound
    <2>. QED BY <2>1, <2>2, <2>3
  <1>7. ASSUME NEW l \in Layers \ {layer}
        PROVE  /\ Size(l)' = Size(l)
               /\ \A i \in Nat : Slot(l, i)' = Slot(l, i) /\ Bound(l, i)' = Bound(l, i)
    BY <1>3 DEF Size, Slot, Bound
  <1>. QED BY <1>2, <1>3, <1>5, <1>6, <1>7

\* The ring stays sorted, its axes inside their spans, and what is taken out is
\* of the span that StartTime moves over.
LEMMA TakeOutKeeps ==
    ASSUME OInv, TakingOut
    PROVE  /\ RingSorted' /\ AxesInside'
           /\ StartTime[layer] < StartTime'[layer]
           /\ StartTime'[layer] <= EndTime[layer]
           /\ Inside(RingAxes[layer][RingHead[layer]], StartTime[layer], StartTime'[layer])
  <1>. USE DEF OInv
  <1>1. /\ layer \in Layers /\ LayerLen[layer] \in Nat \ {0}
        /\ RingHead[layer] \in 0 .. LayerLen[layer] - 1
        /\ Size(layer) \in 1 .. LayerLen[layer]
        /\ Size(layer)' = Size(layer) - 1
        /\ \A l \in Layers : Size(l) \in Nat
    BY TakeOutShift, SizeRange, LayerAssumption DEF TypeOK
  <1>2. /\ StartTime'[layer] = RingTimes[layer][RingHead[layer]]
        /\ EndTime' = EndTime /\ taken' = taken /\ layer' = layer
        /\ RingAxes' = [RingAxes EXCEPT ![layer][RingHead[layer]] = {}]
    BY <1>1 DEF TakingOut, TakeOut, TypeOK
  <1>3. /\ Slot(layer, 0) = RingHead[layer]
        /\ Bound(layer, 0) = StartTime[layer] /\ Bound(layer, 1) = StartTime'[layer]
    BY <1>1, <1>2, ModOnce DEF Slot, Bound
  <1>4. RingSorted'
    <2>1. ASSUME NEW l \in Layers \ {layer}
          PROVE  /\ \A i, j \in 0 .. Size(l)' : i < j => Bound(l, i)' < Bound(l, j)'
                 /\ Bound(l, Size(l))' = EndTime[l]
      BY <1>1, <1>2, TakeOutShift DEF RingSorted
    <2>2. ASSUME NEW i \in 0 .. Size(layer) - 1, NEW j \in 0 .. Size(layer) - 1, i < j
          PROVE  Bound(layer, i)' < Bound(layer, j)'
      <3>1. i + 1 \in 0 .. Size(layer) /\ j + 1 \in 0 .. Size(layer) /\ i + 1 < j + 1
        BY <2>2, <1>1
      <3>2. i \in 0 .. LayerLen[layer] - 1 /\ j \in 0 .. LayerLen[layer] - 1
        BY <1>1
      <3>3. Bound(layer, i + 1) < Bound(layer, j + 1)
        BY <3>1, <1>1 DEF RingSorted
      <3>. QED BY <3>2, <3>3, TakeOutShift
    <2>3. Bound(layer, Size(layer))' = EndTime[layer]
      <3>1. PICK n \in 1 .. LayerLen[layer] : n = Size(layer)
        BY <1>1
      <3>2. n - 1 \in 0 .. LayerLen[layer] - 1 /\ (n - 1) + 1 = n
        BY <1>1
      <3>3. Bound(layer, n - 1)' = Bound(layer, n)
        BY <3>2, TakeOutShift
      <3>4. Size(layer)' = n - 1 /\ Bound(layer, n) = EndTime[layer]
        BY <3>1, <1>1 DEF RingSorted
      <3>. QED BY <3>3, <3>4
    <2>4. Size(layer)' = Size(layer) - 1
      BY <1>1
    <2>. QED BY <2>1, <2>2, <2>3, <2>4, <1>1, <1>2 DEF RingSorted
  <1>5. AxesInside'
    <2>. SUFFICES ASSUME NEW l \in Layers, NEW i \in 1 .. Size(l)'
                  PROVE  Inside(RingAxes[l][Slot(l, i - 1)], Bound(l, i - 1), Bound(l, i))'
      BY DEF AxesInside
    <2>1. CASE l # layer
      <3>1. i \in 1 .. Size(l) /\ i \in Nat /\ i - 1 \in Nat
        BY <2>1, <1>1, TakeOutShift
      <3>2. RingAxes'[l] = RingAxes[l]
        BY <2>1, <1>2 DEF TypeOK
      <3>3. Inside(RingAxes[l][Slot(l, i - 1)], Bound(l, i - 1), Bound(l, i))
        BY <3>1 DEF AxesInside
      <3>4. Slot(l, i - 1)' = Slot(l, i - 1) /\ Bound(l, i - 1)' = Bound(l, i - 1) /\ Bound(l, i)' = Bound(l, i)
        BY <2>1, <3>1, TakeOutShift
      <3>. QED BY <3>2, <3>3, <3>4, <1>2
    <2>2. CASE l = layer
      <3>1. /\ i \in 1 .. Size(layer) - 1
            /\ i \in 0 .. LayerLen[layer] - 1 /\ i - 1 \in 0 .. LayerLen[layer] - 1
            /\ i + 1 \in 1 .. Size(layer) /\ (i - 1) + 1 = i /\ (i + 1) - 1 = i
        BY <2>2, <1>1, <1>2
      <3>2. Inside(RingAxes[layer][Slot(layer, i)], Bound(layer, i), Bound(layer, i + 1))
        BY <3>1, <1>1 DEF AxesInside
      <3>3. Slot(layer, i) # RingHead[layer]
        <4>1. 0 \in 0 .. LayerLen[layer] - 1 /\ i # 0
          BY <3>1, <1>1
        <4>. QED BY <3>1, <4>1, <1>1, <1>3, SlotDistinct
      <3>4. Slot(layer, i) \in 0 .. LayerLen[layer] - 1
        BY <3>1, <1>1, SlotRange
      <3>5. RingAxes'[layer][Slot(layer, i)] = RingAxes[layer][Slot(layer, i)]
        BY <3>3, <3>4, <1>1, <1>2 DEF TypeOK
      <3>6. /\ Slot(layer, i - 1)' = Slot(layer, i)
            /\ Bound(layer, i - 1)' = Bound(layer, i) /\ Bound(layer, i)' = Bound(layer, i + 1)
        BY <3>1, TakeOutShift
      <3>. QED BY <2>2, <3>2, <3>5, <3>6, <1>2
    <2>. QED BY <2>1, <2>2
  <1>6. StartTime[layer] < StartTime'[layer] /\ StartTime'[layer] <= EndTime[layer]
    <2>1. 0 \in 0 .. Size(layer) /\ 1 \in 0 .. Size(layer) /\ 0 < 1
      BY <1>1
    <2>. QED BY <2>1, <1>1, <1>3, BoundRange DEF RingSorted
  <1>7. Inside(RingAxes[layer][RingHead[layer]], StartTime[layer], StartTime'[layer])
    <2>1. 1 \in 1 .. Size(layer) /\ 1 - 1 = 0
      BY <1>1
    <2>. QED BY <2>1, <1>1, <1>3 DEF AxesInside
  <1>. QED BY <1>4, <1>5, <1>6, <1>7

\* What the two steps that take an axis out have in common.
LEMMA TakeOutCommon ==
    ASSUME OInv, TakingOut
    PROVE  /\ PastOnly'
           /\ \A l \in Layers : Reduced(l)' => ~Empty'[l]
           /\ \A l \in Layers : Empty'[l] => RingHead'[l] = RingTail'[l]
           /\ \A l \in Layers : l # layer + 1 => Above(l)' = Above(l)
  <1>. USE DEF OInv
  <1>1. layer \in Layers /\ Layers \subseteq Nat /\ NumLayers \in Nat
    BY LayerAssumption DEF TypeOK, Layers
  <1>2. /\ UNCHANGED <<EndTime, RingTail, Empty, layer, now, taken>>
        /\ StartTime' = [StartTime EXCEPT ![layer] = RingTimes[layer][RingHead[layer]]]
        /\ RingHead' = [RingHead EXCEPT ![layer] = Succ(layer, RingHead[layer])]
    BY DEF TakingOut, TakeOut
  <1>3. \A l \in Layers \ {layer} : StartTime'[l] = StartTime[l] /\ RingHead'[l] = RingHead[l]
    BY <1>1, <1>2 DEF TypeOK
  <1>4. PastOnly'
    <2>1. /\ \A l \in Layers : StartTime[l] \in Nat /\ EndTime[l] \in Nat /\ StartTime'[l] \in Nat
          /\ now \in Nat
      <3>1. StartTime' \in [Layers -> Time]
        BY TakeOutType
      <3>. QED BY <3>1, TimeNat DEF TypeOK
    <2>2. StartTime'[layer] <= EndTime[layer]
      BY TakeOutKeeps
    <2>. QED BY <1>1, <1>2, <1>3, <2>1, <2>2 DEF PastOnly
  <1>5. ~Empty[layer] /\ \A l \in Layers \ {layer} : Reduced(l)' = Reduced(l)
    BY TakeOutShift
  <1>6. \A l \in Layers : l # layer + 1 => Above(l)' = Above(l)
    <2>. SUFFICES ASSUME NEW l \in Layers, l # layer + 1 PROVE Above(l)' = Above(l)
      OBVIOUS
    <2>1. CASE l = 0
      BY <2>1, <1>2 DEF Above
    <2>2. CASE l # 0
      <3>1. l - 1 \in Layers \ {layer}
        BY <2>2, <1>1 DEF Layers
      <3>. QED BY <2>2, <3>1, <1>3 DEF Above
    <2>. QED BY <2>1, <2>2
  <1>. QED BY <1>2, <1>3, <1>4, <1>5, <1>6 DEF CallOK

\* The layer whose oldest axis is taken out, and the axis.
LEMMA OldestTypes ==
    ASSUME TypeOK
    PROVE  /\ layer \in Layers /\ Layers \subseteq Nat /\ drained \in Nat
           /\ LayerRatio[layer] \in Nat /\ LayerLen[layer] \in Nat
           /\ RingHead[layer] \in 0 .. LayerLen[layer] - 1
           /\ RingAxes[layer][RingHead[layer]] \in Axis
  <1>1. layer \in Layers /\ drained \in Nat /\ RingHead[layer] \in 0 .. LayerLen[layer] - 1
        /\ RingAxes[layer] \in [0 .. LayerLen[layer] - 1 -> Axis]
    BY DEF TypeOK
  <1>2. Layers \subseteq Nat
    BY LayerAssumption DEF Layers
  <1>3. LayerRatio[layer] \in Nat /\ LayerLen[layer] \in Nat
    BY <1>1, LayerAssumption
  <1>. QED BY <1>1, <1>2, <1>3

\* Reduce returns early in the last layer alone.
LEMMA DropsInLast ==
    ASSUME TypeOK, DropOldest
    PROVE  layer = NumLayers - 1 /\ \A l \in Layers : l <= layer /\ l # layer + 1
  <1>1. NumLayers \in Nat \ {0} /\ Layers = 0 .. NumLayers - 1
    BY LayerAssumption DEF Layers
  <1>2. layer \in Layers /\ (LayerRatio[layer] = 0 \/ layer = NumLayers - 1)
    BY DEF DropOldest, DropsOldest, TypeOK
  <1>3. \A l \in 0 .. NumLayers - 2 : LayerRatio[l] # 0
    BY LayerAssumption
  <1>4. layer \in 0 .. NumLayers - 2 \/ layer = NumLayers - 1
    BY <1>1, <1>2
  <1>5. layer = NumLayers - 1
    BY <1>2, <1>3, <1>4
  <1>. QED BY <1>1, <1>5

\* The early return of Reduce keeps the weaker invariant.
LEMMA DropOldestOInv ==
    ASSUME OInv, DropOldest
    PROVE  OInv'
  <1>. USE DEF OInv
  <1>1. /\ TakingOut /\ pc = "append" /\ pc' = "insert"
        /\ UNCHANGED <<EndTime, RingTimes, RingTail, Empty, layer, arg, drained, merged, now, taken>>
    BY DEF DropOldest, TakingOut, TakeOut, clockVars
  <1>2. layer = NumLayers - 1 /\ \A l \in Layers : l <= layer /\ l # layer + 1
    BY DropsInLast
  <1>3. TypeOK'
    BY <1>1, TakeOutType DEF TypeOK
  <1>4. CallOK'
    BY <1>1, TakeOutCommon DEF CallOK
  <1>5. LayersOrdered'
    BY <1>1, <1>2, TakeOutCommon DEF LayersOrdered
  <1>. QED BY <1>1, <1>3, <1>4, <1>5, TakeOutCommon, TakeOutKeeps

\* One turn of Reduce's loop keeps the weaker invariant.
LEMMA ReduceOneOInv ==
    ASSUME OInv, ReduceOne
    PROVE  OInv'
  <1>. USE DEF OInv
  <1>1. /\ TakingOut /\ pc \in {"append", "reduce"} /\ pc' = "reduce"
        /\ drained' = drained + 1
        /\ merged' = merged \union RingAxes[layer][RingHead[layer]]
        /\ UNCHANGED <<EndTime, RingTimes, RingTail, Empty, layer, arg, now, taken>>
    BY DEF ReduceOne, TakingOut, TakeOut, clockVars
  <1>2. /\ layer \in Layers /\ Layers \subseteq Nat /\ drained \in Nat
        /\ LayerRatio[layer] \in Nat /\ LayerLen[layer] \in Nat
        /\ RingHead[layer] \in 0 .. LayerLen[layer] - 1
        /\ RingAxes[layer][RingHead[layer]] \in Axis
    BY OldestTypes
  <1>3. ~DropsOldest(layer) /\ layer + 1 \in Layers
    <2>1. ~DropsOldest(layer)
      BY <1>1 DEF ReduceOne, CallOK
    <2>. QED BY <1>2, <2>1, LayerAssumption DEF DropsOldest, Layers
  <1>4. TypeOK'
    BY <1>1, <1>2, TakeOutType, SMTT(30) DEF TypeOK, Axis
  <1>5. CallOK'
    <2>1. drained' \in 1 .. LayerRatio[layer]
      BY <1>1, <1>2, <1>3 DEF ReduceOne, CallOK, DropsOldest
    <2>2. Size(layer)' = LayerLen[layer] - drained'
      BY <1>1, <1>2, TakeOutShift
    <2>3. ~DropsOldest(layer)'
      BY <1>1, <1>3 DEF DropsOldest
    <2>. QED BY <1>1, <2>1, <2>2, <2>3, TakeOutCommon DEF CallOK
  <1>6. LayersOrdered'
    <2>1. \A l \in Layers : l # layer + 1 => Above(l)' = Above(l)
      BY <1>1, TakeOutCommon
    <2>2. /\ EndTime[layer + 1] < Above(layer + 1)'
          /\ Inside(merged', EndTime[layer + 1], Above(layer + 1)')
      <3>1. Above(layer + 1) = StartTime[layer] /\ Above(layer + 1)' = StartTime'[layer]
        BY <1>1, <1>2 DEF Above
      <3>2. /\ StartTime[layer] < StartTime'[layer]
            /\ Inside(RingAxes[layer][RingHead[layer]], StartTime[layer], StartTime'[layer])
        BY <1>1, TakeOutKeeps
      <3>3. /\ EndTime[layer + 1] \in Int /\ StartTime[layer] \in Int /\ StartTime'[layer] \in Int
            /\ merged \in SUBSET Int /\ RingAxes[layer][RingHead[layer]] \in SUBSET Int
        <4>1. StartTime' \in [Layers -> Time]
          BY <1>1, TakeOutType
        <4>2. merged \in SUBSET Int /\ RingAxes[layer][RingHead[layer]] \in SUBSET Int
          <5>1. Axis \subseteq SUBSET Int
            BY TimeNat DEF Axis
          <5>2. merged \in Axis
            BY DEF TypeOK
          <5>. QED BY <1>2, <5>1, <5>2
        <4>3. StartTime[layer] \in Time /\ StartTime'[layer] \in Time /\ EndTime[layer + 1] \in Time
          BY <4>1, <1>2, <1>3 DEF TypeOK
        <4>4. Time \subseteq Int
          BY TimeNat
        <4>. QED BY <4>2, <4>3, <4>4, Zenon
      <3>4. ~(layer + 1 <= layer)
        BY <1>2
      <3>5. /\ EndTime[layer + 1] <= StartTime[layer]
            /\ Inside(merged, EndTime[layer + 1], StartTime[layer])
        <4>1. CASE pc = "append"
          <5>1. EndTime[layer + 1] <= StartTime[layer] /\ merged = {}
            BY <4>1, <1>3, <3>1, <3>4 DEF LayersOrdered, CallOK
          <5>. QED BY <5>1 DEF Inside
        <4>2. CASE pc = "reduce"
          <5>1. /\ EndTime[layer + 1] < StartTime[layer]
                /\ Inside(merged, EndTime[layer + 1], StartTime[layer])
            BY <4>2, <1>3, <3>1, <3>4 DEF LayersOrdered
          <5>. QED BY <5>1, <3>3
        <4>. QED BY <1>1, <4>1, <4>2
      <3>6. Inside(merged', EndTime[layer + 1], StartTime'[layer])
        BY <1>1, <3>2, <3>3, <3>5, InsideJoin
      <3>. QED BY <3>1, <3>2, <3>3, <3>5, <3>6
    <2>3. \A l \in Layers : l <= layer => l # layer + 1
      BY <1>2
    <2>. QED BY <1>1, <1>2, <2>1, <2>2, <2>3 DEF LayersOrdered
  <1>. QED BY <1>4, <1>5, <1>6, TakeOutCommon, TakeOutKeeps, <1>1

\* If nothing was lost, the axes stay exact, and what is taken out is exactly
\* the span that StartTime moves over.
LEMMA TakeOutExact ==
    ASSUME IInv, TakingOut
    PROVE  /\ AxesExact'
           /\ RingAxes[layer][RingHead[layer]]
                = Between(taken, StartTime[layer], StartTime'[layer])
  <1>. USE DEF IInv
  <1>0. OInv
    BY ExactIsOrdered
  <1>1. /\ layer \in Layers /\ LayerLen[layer] \in Nat \ {0}
        /\ RingHead[layer] \in 0 .. LayerLen[layer] - 1
        /\ Size(layer) \in 1 .. LayerLen[layer]
        /\ Size(layer)' = Size(layer) - 1
        /\ \A l \in Layers : Size(l) \in Nat
    <2>1. layer \in Layers /\ LayerLen[layer] \in Nat \ {0} /\ RingHead[layer] \in 0 .. LayerLen[layer] - 1
      BY LayerAssumption DEF TypeOK
    <2>2. Size(layer) \in 1 .. LayerLen[layer] /\ Size(layer)' = Size(layer) - 1
      BY <1>0, TakeOutShift
    <2>3. \A l \in Layers : Size(l) \in Nat
      BY SizeRange, LayerAssumption
    <2>. QED BY <2>1, <2>2, <2>3
  <1>2. /\ StartTime'[layer] = RingTimes[layer][RingHead[layer]]
        /\ EndTime' = EndTime /\ taken' = taken /\ layer' = layer
        /\ RingAxes' = [RingAxes EXCEPT ![layer][RingHead[layer]] = {}]
    BY <1>1 DEF TakingOut, TakeOut, TypeOK
  <1>3. /\ Slot(layer, 0) = RingHead[layer]
        /\ Bound(layer, 0) = StartTime[layer] /\ Bound(layer, 1) = StartTime'[layer]
    BY <1>1, <1>2, ModOnce DEF Slot, Bound
  <1>4. AxesExact'
    <2>. SUFFICES ASSUME NEW l \in Layers, NEW i \in 1 .. Size(l)'
                  PROVE  (RingAxes[l][Slot(l, i - 1)]
                            = Between(taken, Bound(l, i - 1), Bound(l, i)))'
      BY DEF AxesExact
    <2>1. CASE l # layer
      <3>1. i \in 1 .. Size(l) /\ i \in Nat /\ i - 1 \in Nat
        BY <2>1, <1>1, <1>0, TakeOutShift
      <3>2. RingAxes'[l] = RingAxes[l]
        BY <2>1, <1>2 DEF TypeOK
      <3>3. RingAxes[l][Slot(l, i - 1)] = Between(taken, Bound(l, i - 1), Bound(l, i))
        BY <3>1 DEF AxesExact
      <3>4. Slot(l, i - 1)' = Slot(l, i - 1) /\ Bound(l, i - 1)' = Bound(l, i - 1) /\ Bound(l, i)' = Bound(l, i)
        BY <2>1, <3>1, <1>0, TakeOutShift
      <3>. QED BY <3>2, <3>3, <3>4, <1>2
    <2>2. CASE l = layer
      <3>1. /\ i \in 1 .. Size(layer) - 1
            /\ i \in 0 .. LayerLen[layer] - 1 /\ i - 1 \in 0 .. LayerLen[layer] - 1
            /\ i + 1 \in 1 .. Size(layer) /\ (i - 1) + 1 = i /\ (i + 1) - 1 = i
        BY <2>2, <1>1, <1>2
      <3>2. RingAxes[layer][Slot(layer, i)] = Between(taken, Bound(layer, i), Bound(layer, i + 1))
        BY <3>1, <1>1 DEF AxesExact
      <3>3. Slot(layer, i) # RingHead[layer]
        <4>1. 0 \in 0 .. LayerLen[layer] - 1 /\ i # 0
          BY <3>1, <1>1
        <4>. QED BY <3>1, <4>1, <1>1, <1>3, SlotDistinct
      <3>4. Slot(layer, i) \in 0 .. LayerLen[layer] - 1
        BY <3>1, <1>1, SlotRange
      <3>5. RingAxes'[layer][Slot(layer, i)] = RingAxes[layer][Slot(layer, i)]
        BY <3>3, <3>4, <1>1, <1>2 DEF TypeOK
      <3>6. /\ Slot(layer, i - 1)' = Slot(layer, i)
            /\ Bound(layer, i - 1)' = Bound(layer, i) /\ Bound(layer, i)' = Bound(layer, i + 1)
        BY <3>1, <1>0, TakeOutShift
      <3>. QED BY <2>2, <3>2, <3>5, <3>6, <1>2
    <2>. QED BY <2>1, <2>2
  <1>5. RingAxes[layer][RingHead[layer]] = Between(taken, StartTime[layer], StartTime'[layer])
    <2>1. 1 \in 1 .. Size(layer) /\ 1 - 1 = 0
      BY <1>1
    <2>. QED BY <2>1, <1>1, <1>3 DEF AxesExact
  <1>. QED BY <1>4, <1>5

\* The early return of Reduce keeps the full invariant.
LEMMA DropOldestIInv ==
    ASSUME IInv, DropOldest
    PROVE  IInv'
  <1>. USE DEF IInv
  <1>1. OInv /\ OInv'
    BY ExactIsOrdered, DropOldestOInv
  <1>2. /\ TakingOut /\ pc = "append" /\ pc' = "insert"
        /\ UNCHANGED <<EndTime, RingTimes, RingTail, Empty, layer, arg, drained, merged, now, taken>>
    BY DEF DropOldest, TakingOut, TakeOut, clockVars
  <1>3. layer = NumLayers - 1 /\ \A l \in Layers : l <= layer /\ l # layer + 1
    BY DropsInLast
  <1>4. LayersLinked'
    BY <1>1, <1>2, <1>3, TakeOutCommon DEF LayersLinked
  <1>5. (TypeOK /\ CallOK /\ PastOnly /\ RingSorted)'
    BY <1>1 DEF OInv
  <1>. QED BY <1>2, <1>4, <1>5, TakeOutExact

\* One turn of Reduce's loop keeps the full invariant.
LEMMA ReduceOneIInv ==
    ASSUME IInv, ReduceOne
    PROVE  IInv'
  <1>. USE DEF IInv
  <1>0. OInv /\ OInv'
    BY ExactIsOrdered, ReduceOneOInv
  <1>1. /\ TakingOut /\ pc \in {"append", "reduce"} /\ pc' = "reduce"
        /\ drained' = drained + 1
        /\ merged' = merged \union RingAxes[layer][RingHead[layer]]
        /\ UNCHANGED <<EndTime, RingTimes, RingTail, Empty, layer, arg, now, taken>>
    BY DEF ReduceOne, TakingOut, TakeOut, clockVars
  <1>2. /\ layer \in Layers /\ Layers \subseteq Nat /\ drained \in Nat
        /\ LayerRatio[layer] \in Nat /\ LayerLen[layer] \in Nat
        /\ RingHead[layer] \in 0 .. LayerLen[layer] - 1
        /\ RingAxes[layer][RingHead[layer]] \in Axis
    BY OldestTypes
  <1>3. ~DropsOldest(layer) /\ layer + 1 \in Layers
    <2>1. ~DropsOldest(layer)
      BY <1>1 DEF ReduceOne, CallOK
    <2>. QED BY <1>2, <2>1, LayerAssumption DEF DropsOldest, Layers
  <1>5. (TypeOK /\ CallOK /\ PastOnly /\ RingSorted)'
    BY <1>0 DEF OInv
  <1>6. LayersLinked'
    <2>1. \A l \in Layers : l # layer + 1 => Above(l)' = Above(l)
      BY <1>0, <1>1, TakeOutCommon
    <2>2. /\ EndTime[layer + 1] < Above(layer + 1)'
          /\ merged' = Between(taken, EndTime[layer + 1], Above(layer + 1)')
      <3>1. Above(layer + 1) = StartTime[layer] /\ Above(layer + 1)' = StartTime'[layer]
        BY <1>1, <1>2 DEF Above
      <3>2. /\ StartTime[layer] < StartTime'[layer]
            /\ RingAxes[layer][RingHead[layer]] = Between(taken, StartTime[layer], StartTime'[layer])
        BY <1>0, <1>1, TakeOutKeeps, TakeOutExact
      <3>3. /\ EndTime[layer + 1] \in Int /\ StartTime[layer] \in Int /\ StartTime'[layer] \in Int
            /\ taken \in SUBSET Int
        <4>1. StartTime' \in [Layers -> Time]
          BY <1>0, <1>1, TakeOutType
        <4>. QED BY <4>1, <1>2, <1>3, TimeNat DEF TypeOK, Axis
      <3>4. ~(layer + 1 <= layer)
        BY <1>2
      <3>5. /\ EndTime[layer + 1] <= StartTime[layer]
            /\ merged = Between(taken, EndTime[layer + 1], StartTime[layer])
        <4>1. CASE pc = "append"
          <5>1. EndTime[layer + 1] = StartTime[layer] /\ merged = {}
            BY <4>1, <1>3, <3>1, <3>4 DEF LayersLinked, CallOK
          <5>. QED BY <5>1, <3>3, BetweenSame
        <4>2. CASE pc = "reduce"
          <5>1. EndTime[layer + 1] < StartTime[layer] /\ merged = Between(taken, EndTime[layer + 1], StartTime[layer])
            BY <4>2, <1>3, <3>1, <3>4 DEF LayersLinked
          <5>. QED BY <5>1, <3>3
        <4>. QED BY <1>1, <4>1, <4>2
      <3>. QED BY <1>1, <3>1, <3>2, <3>3, <3>5, BetweenJoin
    <2>3. \A l \in Layers : l <= layer => l # layer + 1
      BY <1>2
    <2>. QED BY <1>1, <1>2, <2>1, <2>2, <2>3 DEF LayersLinked
  <1>. QED BY <1>1, <1>5, <1>6, TakeOutExact

-----------------------------------------------------------------------------
\* The call of the next layer with the merged axis keeps the weaker
\* invariant ...
LEMMA HandOverOInv ==
    ASSUME OInv, HandOver
    PROVE  OInv'
  <1>. USE DEF OInv
  <1>1. /\ pc = "reduce" /\ pc' = "append" /\ layer' = layer + 1 /\ drained' = 0 /\ merged' = {}
        /\ arg' = [arg EXCEPT ![layer + 1] = [axis |-> merged, endTime |-> StartTime[layer]]]
        /\ UNCHANGED ringVars /\ now' = now /\ taken' = taken
    BY DEF HandOver, Compacted, clockVars
  <1>2. layer \in Layers /\ Layers \subseteq Nat /\ layer + 1 \in Layers
    BY <1>1, LayerAssumption DEF TypeOK, Layers, CallOK, DropsOldest
  <1>3. TypeOK'
    <2>1. [axis |-> merged, endTime |-> StartTime[layer]] \in [axis : Axis, endTime : Time]
      BY <1>2 DEF TypeOK
    <2>2. {} \in Axis /\ 0 \in Nat
      BY DEF Axis
    <2>. QED BY <1>1, <1>2, <2>1, <2>2 DEF TypeOK, ringVars
  <1>4. \A l \in Layers : Reduced(l)' = Reduced(l) /\ Above(l)' = Above(l)
    BY <1>1, <1>2 DEF Reduced, ringVars, Above
  <1>5. \A l \in Layers : Size(l)' = Size(l)
    BY <1>1, <1>4 DEF Size, ringVars
  <1>6. \A l \in Layers, i \in Nat : Bound(l, i)' = Bound(l, i) /\ Slot(l, i)' = Slot(l, i)
    BY <1>1 DEF Bound, Slot, ringVars
  <1>7. CallOK'
    BY <1>1, <1>4 DEF CallOK, ringVars
  <1>8. PastOnly'
    BY <1>1 DEF PastOnly, ringVars
  <1>9. RingSorted' /\ AxesInside'
    <2>1. \A l \in Layers : Size(l) \in Nat
      BY SizeRange, LayerAssumption
    <2>2. RingSorted'
      BY <1>1, <1>5, <1>6, <2>1 DEF RingSorted, ringVars
    <2>3. ASSUME NEW l \in Layers, NEW i \in 1 .. Size(l)'
          PROVE  Inside(RingAxes[l][Slot(l, i - 1)], Bound(l, i - 1), Bound(l, i))'
      <3>1. i \in 1 .. Size(l) /\ i \in Nat /\ i - 1 \in Nat
        BY <1>5, <2>1
      <3>2. Inside(RingAxes[l][Slot(l, i - 1)], Bound(l, i - 1), Bound(l, i))
        BY <3>1 DEF AxesInside
      <3>. QED BY <3>1, <3>2, <1>1, <1>6 DEF ringVars
    <2>. QED BY <2>2, <2>3 DEF AxesInside
  <1>10. LayersOrdered'
    <2>1. arg'[layer + 1] = [axis |-> merged, endTime |-> StartTime[layer]]
      BY <1>1, <1>2 DEF TypeOK
    <2>2. \A l \in Layers \ {layer + 1} : arg'[l] = arg[l]
      BY <1>1, <1>2 DEF TypeOK
    <2>3. Above(layer + 1) = StartTime[layer] /\ ~(layer + 1 <= layer)
      BY <1>2 DEF Above
    <2>4. /\ EndTime[layer + 1] < StartTime[layer]
          /\ Inside(merged, EndTime[layer + 1], StartTime[layer])
      BY <1>1, <1>2, <2>3 DEF LayersOrdered
    <2>5. \A l \in Layers \ {layer + 1} : l <= layer + 1 <=> l <= layer
      BY <1>2
    <2>. QED BY <1>1, <1>2, <1>4, <2>1, <2>2, <2>3, <2>4, <2>5 DEF LayersOrdered, ringVars
  <1>. QED BY <1>3, <1>7, <1>8, <1>9, <1>10

\* ... and, if nothing was lost, the full one.
LEMMA HandOverIInv ==
    ASSUME IInv, HandOver
    PROVE  IInv'
  <1>. USE DEF IInv
  <1>0. OInv /\ OInv'
    BY ExactIsOrdered, HandOverOInv
  <1>1. /\ pc = "reduce" /\ pc' = "append" /\ layer' = layer + 1 /\ drained' = 0 /\ merged' = {}
        /\ arg' = [arg EXCEPT ![layer + 1] = [axis |-> merged, endTime |-> StartTime[layer]]]
        /\ UNCHANGED ringVars /\ now' = now /\ taken' = taken
    BY DEF HandOver, Compacted, clockVars
  <1>2. layer \in Layers /\ Layers \subseteq Nat /\ layer + 1 \in Layers
    BY <1>1, LayerAssumption DEF TypeOK, Layers, CallOK, DropsOldest
  <1>4. \A l \in Layers : Reduced(l)' = Reduced(l) /\ Above(l)' = Above(l)
    BY <1>1, <1>2 DEF Reduced, ringVars, Above
  <1>5. \A l \in Layers : Size(l)' = Size(l)
    BY <1>1, <1>4 DEF Size, ringVars
  <1>6. \A l \in Layers, i \in Nat : Bound(l, i)' = Bound(l, i) /\ Slot(l, i)' = Slot(l, i)
    BY <1>1 DEF Bound, Slot, ringVars
  <1>7. (TypeOK /\ CallOK /\ PastOnly /\ RingSorted)'
    BY <1>0 DEF OInv
  <1>8. AxesExact'
    <2>1. \A l \in Layers : Size(l) \in Nat
      BY SizeRange, LayerAssumption
    <2>2. ASSUME NEW l \in Layers, NEW i \in 1 .. Size(l)'
          PROVE  (RingAxes[l][Slot(l, i - 1)] = Between(taken, Bound(l, i - 1), Bound(l, i)))'
      <3>1. i \in 1 .. Size(l) /\ i \in Nat /\ i - 1 \in Nat
        BY <1>5, <2>1
      <3>2. RingAxes[l][Slot(l, i - 1)] = Between(taken, Bound(l, i - 1), Bound(l, i))
        BY <3>1 DEF AxesExact
      <3>. QED BY <3>1, <3>2, <1>1, <1>6 DEF ringVars
    <2>. QED BY <2>2 DEF AxesExact
  <1>9. LayersLinked'
    <2>1. arg'[layer + 1] = [axis |-> merged, endTime |-> StartTime[layer]]
      BY <1>1, <1>2 DEF TypeOK
    <2>2. \A l \in Layers \ {layer + 1} : arg'[l] = arg[l]
      BY <1>1, <1>2 DEF TypeOK
    <2>3. Above(layer + 1) = StartTime[layer] /\ ~(layer + 1 <= layer)
      BY <1>2 DEF Above
    <2>4. /\ EndTime[layer + 1] < StartTime[layer]
          /\ merged = Between(taken, EndTime[layer + 1], StartTime[layer])
      BY <1>1, <1>2, <2>3 DEF LayersLinked
    <2>5. \A l \in Layers \ {layer + 1} : l <= layer + 1 <=> l <= layer
      BY <1>2
    <2>. QED BY <1>1, <1>2, <1>4, <2>1, <2>2, <2>3, <2>4, <2>5 DEF LayersLinked, ringVars
  <1>. QED BY <1>7, <1>8, <1>9

-----------------------------------------------------------------------------
\* What Insert does to the rings: one more axis in this one, behind the others.
LEMMA InsertShift ==
    ASSUME OInv, Insert
    PROVE  /\ \A l \in Layers : Reduced(l)' <=> l # layer /\ Reduced(l)
           /\ \A l \in Layers \ {layer} :
                 /\ Size(l)' = Size(l)
                 /\ \A i \in Nat : Slot(l, i)' = Slot(l, i) /\ Bound(l, i)' = Bound(l, i)
           /\ \A n \in Nat : n = Size(layer) =>
                 \A l \in Layers : l = layer =>
                 /\ n < LayerLen[l]
                 /\ Size(l)' = n + 1
                 /\ \A i \in Nat : Slot(l, i)' = Slot(l, i)
                 /\ \A i \in 0 .. n : Bound(l, i)' = Bound(l, i)
                 /\ Bound(l, n + 1)' = arg[l].endTime
                 /\ RingTail[l] = Slot(l, n)
  <1>. USE DEF OInv
  <1>1. /\ layer \in Layers /\ Layers \subseteq Nat /\ 0 \in Layers
        /\ LayerLen[layer] \in Nat \ {0}
        /\ RingHead[layer] \in 0 .. LayerLen[layer] - 1
        /\ RingTail[layer] \in 0 .. LayerLen[layer] - 1
    BY LayerAssumption DEF TypeOK, Layers
  <1>2. /\ pc = "insert" \/ (pc = "append" /\ ~Full(layer))
        /\ pc' = IF layer = 0 THEN "idle" ELSE "insert"
        /\ layer' = IF layer = 0 THEN 0 ELSE layer - 1
        /\ StartTime' = StartTime /\ RingHead' = RingHead
        /\ RingTimes' = [RingTimes EXCEPT ![layer][RingTail[layer]] = arg[layer].endTime]
        /\ Empty' = [Empty EXCEPT ![layer] = FALSE]
        /\ RingTail' = [RingTail EXCEPT ![layer] = Succ(layer, RingTail[layer])]
    BY DEF Insert
  <1>3. ASSUME NEW l \in Layers
        PROVE  Reduced(l)' <=> l # layer /\ Reduced(l)
    <2>1. l \in Nat /\ layer \in Nat
      BY <1>1
    <2>. QED BY <1>2, <2>1 DEF Reduced
  <1>4. ASSUME NEW l \in Layers \ {layer}
        PROVE  /\ Size(l)' = Size(l)
               /\ \A i \in Nat : Slot(l, i)' = Slot(l, i) /\ Bound(l, i)' = Bound(l, i)
    <2>1. RingTail'[l] = RingTail[l] /\ Empty'[l] = Empty[l] /\ RingTimes'[l] = RingTimes[l]
      BY <1>1, <1>2 DEF TypeOK
    <2>. QED BY <1>2, <1>3, <2>1 DEF Size, Slot, Bound
  <1>5. ASSUME NEW n \in Nat, n = Size(layer), NEW l \in Layers, l = layer
        PROVE  /\ n < LayerLen[l]
               /\ Size(l)' = n + 1
               /\ \A i \in Nat : Slot(l, i)' = Slot(l, i)
               /\ \A i \in 0 .. n : Bound(l, i)' = Bound(l, i)
               /\ Bound(l, n + 1)' = arg[l].endTime
               /\ RingTail[l] = Slot(l, n)
    <2>1. /\ RingTail'[l] = Succ(l, RingTail[l]) /\ ~Empty'[l]
          /\ RingTimes'[l] = [RingTimes[l] EXCEPT ![RingTail[l]] = arg[l].endTime]
      BY <1>1, <1>2, <1>5 DEF TypeOK
    <2>2. n < LayerLen[l]
      <3>1. CASE Reduced(l)
        BY <3>1, <1>5, SizeRange
      <3>2. CASE ~Reduced(l)
        <4>1. pc = "append" /\ (RingHead[l] # RingTail[l] \/ Empty[l])
          BY <3>2, <1>1, <1>2, <1>5 DEF Reduced, Full
        <4>. QED BY <3>2, <4>1, <1>1, <1>5 DEF Size
      <3>. QED BY <3>1, <3>2
    <2>3. Succ(l, RingTail[l]) = IF RingTail[l] + 1 = LayerLen[l] THEN 0 ELSE RingTail[l] + 1
      BY <1>1, <1>5 DEF Succ
    <2>4. Size(l)' = n + 1
      <3>1. LET d == Succ(l, RingTail[l]) - RingHead[l]
            IN  Size(l)' = IF d <= 0 THEN d + LayerLen[l] ELSE d
        BY <1>2, <1>3, <1>5, <2>1 DEF Size
      <3>2. LET d == RingTail[l] - RingHead[l]
            IN  n = IF d < 0 THEN d + LayerLen[l] ELSE d
        <4>1. Empty[l] => RingHead[l] = RingTail[l]
          BY DEF CallOK
        <4>. QED BY <4>1, <2>2, <1>1, <1>5 DEF Size
      <3>. QED BY <3>1, <3>2, <2>2, <2>3, <1>1, <1>5
    <2>5. RingTail[l] = Slot(l, n)
      BY <1>5, SlotOfSize
    <2>6. \A i \in Nat : Slot(l, i)' = Slot(l, i)
      BY <1>2 DEF Slot
    <2>7. ASSUME NEW i \in 0 .. n PROVE Bound(l, i)' = Bound(l, i)
      <3>1. CASE i = 0
        BY <3>1, <1>2 DEF Bound
      <3>2. CASE i # 0
        <4>1. /\ i - 1 \in 0 .. LayerLen[l] - 1 /\ n \in 0 .. LayerLen[l] - 1 /\ i - 1 # n
              /\ i - 1 \in Nat
          BY <3>2, <2>2, <1>1, <1>5
        <4>2. Slot(l, i - 1) # RingTail[l]
          BY <4>1, <2>5, SlotDistinct
        <4>3. Slot(l, i - 1) \in 0 .. LayerLen[l] - 1
          BY <4>1, SlotRange
        <4>4. RingTimes'[l][Slot(l, i - 1)] = RingTimes[l][Slot(l, i - 1)]
          BY <4>2, <4>3, <2>1 DEF TypeOK
        <4>. QED BY <3>2, <4>1, <4>4, <2>6 DEF Bound
      <3>. QED BY <3>1, <3>2
    <2>8. Bound(l, n + 1)' = arg[l].endTime
      <3>1. n + 1 # 0 /\ (n + 1) - 1 = n
        OBVIOUS
      <3>2. RingTimes'[l][RingTail[l]] = arg[l].endTime
        BY <2>1, <1>1, <1>5 DEF TypeOK
      <3>. QED BY <3>1, <3>2, <2>5, <2>6 DEF Bound
    <2>. QED BY <2>2, <2>4, <2>5, <2>6, <2>7, <2>8
  <1>. QED BY <1>3, <1>4, <1>5

\* Insert, the tail of Append, keeps the weaker invariant ...
LEMMA InsertOInv ==
    ASSUME OInv, Insert
    PROVE  OInv'
  <1>. USE DEF OInv
  <1>. PICK n \in Nat : n = Size(layer)
    <2>1. layer \in Layers
      BY DEF TypeOK
    <2>. QED BY <2>1, SizeRange, LayerAssumption
  <1>. PICK m \in Layers : m = layer
    BY DEF TypeOK
  <1>1. /\ Layers \subseteq Nat /\ 0 \in Layers
        /\ LayerLen[m] \in Nat \ {0}
        /\ RingTail[m] \in 0 .. LayerLen[m] - 1
        /\ arg[m].axis \in Axis /\ arg[m].endTime \in Time
    BY LayerAssumption, SMTT(30) DEF TypeOK, Layers
  <1>2. /\ pc \in {"append", "insert"}
        /\ pc' = IF m = 0 THEN "idle" ELSE "insert"
        /\ layer' = IF m = 0 THEN 0 ELSE m - 1
        /\ StartTime' = StartTime /\ RingHead' = RingHead
        /\ RingTimes' = [RingTimes EXCEPT ![m][RingTail[m]] = arg[m].endTime]
        /\ RingAxes' = [RingAxes EXCEPT ![m][RingTail[m]] = arg[m].axis]
        /\ Empty' = [Empty EXCEPT ![m] = FALSE]
        /\ EndTime' = [EndTime EXCEPT ![m] = arg[m].endTime]
        /\ RingTail' = [RingTail EXCEPT ![m] = Succ(m, RingTail[m])]
        /\ arg' = [arg EXCEPT ![m] = NoArg]
        /\ drained' = drained /\ merged' = merged /\ now' = now /\ taken' = taken
    BY DEF Insert, clockVars
  <1>3. /\ n < LayerLen[m] /\ n = Size(m) /\ Size(m)' = n + 1
        /\ \A i \in Nat : Slot(m, i)' = Slot(m, i)
        /\ \A i \in 0 .. n : Bound(m, i)' = Bound(m, i)
        /\ Bound(m, n + 1)' = arg[m].endTime
        /\ RingTail[m] = Slot(m, n)
    BY InsertShift
  <1>4. \A l \in Layers \ {m} :
           /\ Size(l)' = Size(l)
           /\ \A i \in Nat : Slot(l, i)' = Slot(l, i) /\ Bound(l, i)' = Bound(l, i)
    BY InsertShift
  <1>5. \A l \in Layers : Reduced(l)' <=> l # m /\ Reduced(l)
    BY InsertShift
  <1>6. /\ EndTime[m] < arg[m].endTime /\ arg[m].endTime = Above(m)
        /\ Inside(arg[m].axis, EndTime[m], Above(m))
    BY <1>1, <1>2 DEF LayersOrdered
  <1>7. EndTime'[m] = Above(m) /\ \A l \in Layers \ {m} : EndTime'[l] = EndTime[l]
    BY <1>1, <1>2, <1>6 DEF TypeOK
  <1>8. \A l \in Layers : Above(l)' = Above(l)
    BY <1>2 DEF Above
  <1>9. Above(m) <= now
    <2>1. CASE m = 0
      BY <2>1, LayerAssumption DEF Above, TypeOK, Time
    <2>2. CASE m # 0
      <3>1. m - 1 \in Layers
        BY <2>2, <1>1, LayerAssumption DEF Layers
      <3>. QED BY <2>2, <3>1 DEF Above, PastOnly
    <2>. QED BY <2>1, <2>2
  <1>10. TypeOK'
    <2>1. Succ(m, RingTail[m]) \in 0 .. LayerLen[m] - 1
      BY <1>1 DEF Succ
    <2>2. NoArg \in [axis : Axis, endTime : Time]
      BY LayerAssumption DEF NoArg, Axis, Time
    <2>3. layer' \in Layers
      BY <1>1, <1>2, LayerAssumption DEF Layers
    <2>4. /\ EndTime' \in [Layers -> Time] /\ Empty' \in [Layers -> BOOLEAN]
          /\ arg' \in [Layers -> [axis : Axis, endTime : Time]]
      BY <1>1, <1>2, <2>2 DEF TypeOK
    <2>5. /\ DOMAIN RingTimes' = Layers /\ DOMAIN RingAxes' = Layers
          /\ \A l \in Layers : /\ RingTimes'[l] \in [0 .. LayerLen[l] - 1 -> Time]
                               /\ RingAxes'[l] \in [0 .. LayerLen[l] - 1 -> Axis]
      BY <1>1, <1>2 DEF TypeOK
    <2>6. /\ DOMAIN RingTail' = Layers
          /\ \A l \in Layers : RingTail'[l] \in 0 .. LayerLen[l] - 1
      BY <1>1, <1>2, <2>1 DEF TypeOK
    <2>7. pc' \in {"idle", "insert"}
      BY <1>2
    <2>. QED BY <1>2, <2>3, <2>4, <2>5, <2>6, <2>7 DEF TypeOK
  <1>11. CallOK'
    <2>1. drained = 0 /\ merged = {}
      BY <1>2 DEF CallOK
    <2>2. \A l \in Layers : Empty'[l] => Empty[l] /\ l # m
      BY <1>1, <1>2 DEF TypeOK
    <2>3. \A l \in Layers \ {m} : RingTail'[l] = RingTail[l]
      BY <1>2 DEF TypeOK
    <2>4. pc' \in {"idle", "insert"} /\ (pc' = "idle" => layer' = 0)
      BY <1>2
    <2>. QED BY <1>2, <1>5, <2>1, <2>2, <2>3, <2>4 DEF CallOK
  <1>12. PastOnly'
    BY <1>2, <1>7, <1>9 DEF PastOnly
  <1>13. RingSorted'
    <2>1. ASSUME NEW l \in Layers \ {m}
          PROVE  /\ \A i, j \in 0 .. Size(l)' : i < j => Bound(l, i)' < Bound(l, j)'
                 /\ Bound(l, Size(l))' = EndTime'[l]
      <3>1. Size(l) \in Nat /\ Size(l)' = Size(l)
        BY <1>4, SizeRange, LayerAssumption
      <3>2. Bound(l, Size(l))' = Bound(l, Size(l))
        BY <3>1, <1>4
      <3>. QED BY <3>1, <3>2, <1>4, <1>7 DEF RingSorted
    <2>2. ASSUME NEW i \in 0 .. n + 1, NEW j \in 0 .. n + 1, i < j
          PROVE  Bound(m, i)' < Bound(m, j)'
      <3>1. i \in 0 .. n /\ Bound(m, i)' = Bound(m, i)
        BY <2>2, <1>3
      <3>2. CASE j \in 0 .. n
        BY <2>2, <3>1, <3>2, <1>3 DEF RingSorted
      <3>3. CASE j = n + 1
        <4>1. Bound(m, i) \in Time /\ Bound(m, i) <= EndTime[m] /\ EndTime[m] \in Time
          BY <3>1, <1>3, BoundRange DEF TypeOK
        <4>2. Bound(m, j)' = arg[m].endTime
          BY <3>3, <1>3
        <4>3. Bound(m, i) \in Nat /\ EndTime[m] \in Nat /\ arg[m].endTime \in Nat
          BY <4>1, <1>1, TimeNat
        <4>4. Bound(m, i) < arg[m].endTime
          BY <4>1, <4>3, <1>6
        <4>. QED BY <3>1, <4>2, <4>4
      <3>. QED BY <3>2, <3>3
    <2>3. Bound(m, Size(m))' = EndTime'[m]
      BY <1>3, <1>6, <1>7
    <2>. QED BY <1>3, <2>1, <2>2, <2>3 DEF RingSorted
  <1>14. AxesInside'
    <2>1. ASSUME NEW l \in Layers \ {m}, NEW i \in 1 .. Size(l)'
          PROVE  Inside(RingAxes[l][Slot(l, i - 1)], Bound(l, i - 1), Bound(l, i))'
      <3>1. Size(l) \in Nat /\ i \in 1 .. Size(l) /\ i \in Nat /\ i - 1 \in Nat
        BY <1>4, SizeRange, LayerAssumption
      <3>2. Inside(RingAxes[l][Slot(l, i - 1)], Bound(l, i - 1), Bound(l, i))
        BY <3>1 DEF AxesInside
      <3>3. RingAxes'[l] = RingAxes[l]
        BY <1>1, <1>2 DEF TypeOK
      <3>. QED BY <3>1, <3>2, <3>3, <1>2, <1>4
    <2>2. ASSUME NEW i \in 1 .. n + 1
          PROVE  Inside(RingAxes[m][Slot(m, i - 1)], Bound(m, i - 1), Bound(m, i))'
      <3>1. CASE i = n + 1
        <4>1. i - 1 = n
          BY <3>1
        <4>2. RingAxes'[m][Slot(m, n)] = arg[m].axis
          BY <1>1, <1>2, <1>3 DEF TypeOK
        <4>3. Bound(m, n)' = EndTime[m]
          <5>1. Bound(m, n)' = Bound(m, n)
            BY <1>3
          <5>2. Bound(m, n) = EndTime[m]
            BY <1>3 DEF RingSorted
          <5>. QED BY <5>1, <5>2
        <4>4. Bound(m, n + 1)' = Above(m)
          BY <1>3, <1>6
        <4>. QED BY <3>1, <4>1, <4>2, <4>3, <4>4, <1>2, <1>3, <1>6
      <3>2. CASE i # n + 1
        <4>1. i \in 1 .. n /\ i \in 0 .. n /\ i - 1 \in 0 .. n /\ i - 1 \in Nat /\ i - 1 # n
          BY <3>2
        <4>2. Inside(RingAxes[m][Slot(m, i - 1)], Bound(m, i - 1), Bound(m, i))
          BY <4>1, <1>3 DEF AxesInside
        <4>3. Slot(m, i - 1) # RingTail[m] /\ Slot(m, i - 1) \in 0 .. LayerLen[m] - 1
          <5>1. i - 1 \in 0 .. LayerLen[m] - 1 /\ n \in 0 .. LayerLen[m] - 1
            BY <4>1, <1>1, <1>3
          <5>. QED BY <4>1, <5>1, <1>3, SlotDistinct, SlotRange
        <4>4. RingAxes'[m][Slot(m, i - 1)] = RingAxes[m][Slot(m, i - 1)]
          BY <4>3, <1>1, <1>2 DEF TypeOK
        <4>. QED BY <4>1, <4>2, <4>4, <1>2, <1>3
      <3>. QED BY <3>1, <3>2
    <2>. QED BY <1>3, <2>1, <2>2 DEF AxesInside
  <1>15. LayersOrdered'
    <2>1. ASSUME NEW l \in Layers, l < m
          PROVE  /\ EndTime'[l] < arg'[l].endTime /\ arg'[l].endTime = Above(l)
                 /\ Inside(arg'[l].axis, EndTime'[l], Above(l))
      <3>1. l # m /\ l <= m
        BY <2>1, <1>1
      <3>2. arg'[l] = arg[l] /\ EndTime'[l] = EndTime[l]
        BY <3>1, <1>2, <1>7 DEF TypeOK
      <3>. QED BY <3>1, <3>2, <1>2 DEF LayersOrdered
    <2>2. ASSUME NEW l \in Layers, l > m
          PROVE  EndTime'[l] <= Above(l)
      <3>1. l # m /\ ~(l <= m)
        BY <2>2, <1>1
      <3>. QED BY <3>1, <1>2, <1>7 DEF LayersOrdered
    <2>0. EndTime'[m] <= Above(m)
      <3>1. arg[m].endTime \in Nat
        BY <1>1, TimeNat
      <3>2. EndTime'[m] = Above(m) /\ Above(m) \in Nat
        BY <3>1, <1>6, <1>7
      <3>. QED BY <3>2
    <2>3. ASSUME NEW l \in Layers, l > m \/ l = m
          PROVE  EndTime'[l] <= Above(l)' /\ ~(pc' # "idle" /\ l <= layer') /\ pc' # "reduce"
      BY <2>0, <2>2, <2>3, <1>1, <1>2, <1>8
    <2>4. CASE m = 0
      <3>1. \A l \in Layers : l = m \/ l > m
        BY <2>4, <1>1
      <3>. QED BY <2>3, <3>1 DEF LayersOrdered
    <2>5. CASE m # 0
      <3>1. \A l \in Layers : (l <= m - 1 <=> l < m) /\ (l < m \/ l = m \/ l > m)
        BY <1>1
      <3>2. layer' = m - 1 /\ pc' = "insert" /\ \A l \in Layers : Above(l)' = Above(l)
        BY <2>5, <1>2, <1>8
      <3>. QED BY <2>1, <2>3, <3>1, <3>2 DEF LayersOrdered
    <2>. QED BY <2>4, <2>5
  <1>. QED BY <1>10, <1>11, <1>12, <1>13, <1>14, <1>15

\* ... and, if nothing was lost, the full one.
LEMMA InsertIInv ==
    ASSUME IInv, Insert
    PROVE  IInv'
  <1>. USE DEF IInv
  <1>0. OInv /\ OInv'
    BY ExactIsOrdered, InsertOInv
  <1>. PICK n \in Nat : n = Size(layer)
    <2>1. layer \in Layers
      BY DEF TypeOK
    <2>. QED BY <2>1, SizeRange, LayerAssumption
  <1>. PICK m \in Layers : m = layer
    BY DEF TypeOK
  <1>1. /\ Layers \subseteq Nat /\ 0 \in Layers
        /\ LayerLen[m] \in Nat \ {0}
        /\ RingTail[m] \in 0 .. LayerLen[m] - 1
        /\ arg[m].axis \in Axis /\ arg[m].endTime \in Time
    BY LayerAssumption, SMTT(30) DEF TypeOK, Layers
  <1>2. /\ pc \in {"append", "insert"}
        /\ pc' = IF m = 0 THEN "idle" ELSE "insert"
        /\ layer' = IF m = 0 THEN 0 ELSE m - 1
        /\ StartTime' = StartTime /\ RingHead' = RingHead
        /\ RingTimes' = [RingTimes EXCEPT ![m][RingTail[m]] = arg[m].endTime]
        /\ RingAxes' = [RingAxes EXCEPT ![m][RingTail[m]] = arg[m].axis]
        /\ Empty' = [Empty EXCEPT ![m] = FALSE]
        /\ EndTime' = [EndTime EXCEPT ![m] = arg[m].endTime]
        /\ RingTail' = [RingTail EXCEPT ![m] = Succ(m, RingTail[m])]
        /\ arg' = [arg EXCEPT ![m] = NoArg]
        /\ drained' = drained /\ merged' = merged /\ now' = now /\ taken' = taken
    BY DEF Insert, clockVars
  <1>3. /\ n < LayerLen[m] /\ n = Size(m) /\ Size(m)' = n + 1
        /\ \A i \in Nat : Slot(m, i)' = Slot(m, i)
        /\ \A i \in 0 .. n : Bound(m, i)' = Bound(m, i)
        /\ Bound(m, n + 1)' = arg[m].endTime
        /\ RingTail[m] = Slot(m, n)
    BY <1>0, InsertShift
  <1>4. \A l \in Layers \ {m} :
           /\ Size(l)' = Size(l)
           /\ \A i \in Nat : Slot(l, i)' = Slot(l, i) /\ Bound(l, i)' = Bound(l, i)
    BY <1>0, InsertShift
  <1>5. \A l \in Layers : Reduced(l)' <=> l # m /\ Reduced(l)
    BY <1>0, InsertShift
  <1>6. /\ EndTime[m] < arg[m].endTime /\ arg[m].endTime = Above(m)
        /\ arg[m].axis = Between(taken, EndTime[m], Above(m))
    BY <1>1, <1>2 DEF LayersLinked
  <1>7. EndTime'[m] = Above(m) /\ \A l \in Layers \ {m} : EndTime'[l] = EndTime[l]
    BY <1>1, <1>2, <1>6 DEF TypeOK
  <1>8. \A l \in Layers : Above(l)' = Above(l)
    BY <1>2 DEF Above
  <1>9. (TypeOK /\ CallOK /\ PastOnly /\ RingSorted)'
    BY <1>0 DEF OInv
  <1>10. AxesExact'
    <2>1. ASSUME NEW l \in Layers \ {m}, NEW i \in 1 .. Size(l)'
          PROVE  (RingAxes[l][Slot(l, i - 1)] = Between(taken, Bound(l, i - 1), Bound(l, i)))'
      <3>1. Size(l) \in Nat /\ i \in 1 .. Size(l) /\ i \in Nat /\ i - 1 \in Nat
        BY <1>4, SizeRange, LayerAssumption
      <3>2. RingAxes[l][Slot(l, i - 1)] = Between(taken, Bound(l, i - 1), Bound(l, i))
        BY <3>1 DEF AxesExact
      <3>3. RingAxes'[l] = RingAxes[l]
        BY <1>1, <1>2 DEF TypeOK
      <3>. QED BY <3>1, <3>2, <3>3, <1>2, <1>4
    <2>2. ASSUME NEW i \in 1 .. n + 1
          PROVE  (RingAxes[m][Slot(m, i - 1)] = Between(taken, Bound(m, i - 1), Bound(m, i)))'
      <3>1. CASE i = n + 1
        <4>1. i - 1 = n
          BY <3>1
        <4>2. RingAxes'[m][Slot(m, n)] = arg[m].axis
          BY <1>1, <1>2, <1>3 DEF TypeOK
        <4>3. Bound(m, n)' = EndTime[m]
          <5>1. Bound(m, n)' = Bound(m, n)
            BY <1>3
          <5>2. Bound(m, n) = EndTime[m]
            BY <1>3 DEF RingSorted
          <5>. QED BY <5>1, <5>2
        <4>4. Bound(m, n + 1)' = Above(m)
          BY <1>3, <1>6
        <4>. QED BY <3>1, <4>1, <4>2, <4>3, <4>4, <1>2, <1>3, <1>6
      <3>2. CASE i # n + 1
        <4>1. i \in 1 .. n /\ i \in 0 .. n /\ i - 1 \in 0 .. n /\ i - 1 \in Nat /\ i - 1 # n
          BY <3>2
        <4>2. RingAxes[m][Slot(m, i - 1)] = Between(taken, Bound(m, i - 1), Bound(m, i))
          BY <4>1, <1>3 DEF AxesExact
        <4>3. Slot(m, i - 1) # RingTail[m] /\ Slot(m, i - 1) \in 0 .. LayerLen[m] - 1
          <5>1. i - 1 \in 0 .. LayerLen[m] - 1 /\ n \in 0 .. LayerLen[m] - 1
            BY <4>1, <1>1, <1>3
          <5>. QED BY <4>1, <5>1, <1>3, SlotDistinct, SlotRange
        <4>4. RingAxes'[m][Slot(m, i - 1)] = RingAxes[m][Slot(m, i - 1)]
          BY <4>3, <1>1, <1>2 DEF TypeOK
        <4>. QED BY <4>1, <4>2, <4>4, <1>2, <1>3
      <3>. QED BY <3>1, <3>2
    <2>. QED BY <1>3, <2>1, <2>2 DEF AxesExact
  <1>11. LayersLinked'
    <2>1. ASSUME NEW l \in Layers, l < m
          PROVE  /\ EndTime'[l] < arg'[l].endTime /\ arg'[l].endTime = Above(l)
                 /\ arg'[l].axis = Between(taken, EndTime'[l], Above(l))
      <3>1. l # m /\ l <= m
        BY <2>1, <1>1
      <3>2. arg'[l] = arg[l] /\ EndTime'[l] = EndTime[l]
        BY <3>1, <1>2, <1>7 DEF TypeOK
      <3>. QED BY <3>1, <3>2, <1>2 DEF LayersLinked
    <2>2. ASSUME NEW l \in Layers, l > m
          PROVE  EndTime'[l] = Above(l)
      <3>1. l # m /\ ~(l <= m)
        BY <2>2, <1>1
      <3>. QED BY <3>1, <1>2, <1>7 DEF LayersLinked
    <2>3. CASE m = 0
      <3>1. \A l \in Layers : l = m \/ l > m
        BY <2>3, <1>1
      <3>. QED BY <2>2, <2>3, <3>1, <1>2, <1>7, <1>8 DEF LayersLinked
    <2>4. CASE m # 0
      <3>1. \A l \in Layers : (l <= m - 1 <=> l < m) /\ (l < m \/ l = m \/ l > m)
        BY <1>1
      <3>. QED BY <2>1, <2>2, <2>4, <3>1, <1>2, <1>7, <1>8 DEF LayersLinked
    <2>. QED BY <2>3, <2>4
  <1>. QED BY <1>9, <1>10, <1>11

-----------------------------------------------------------------------------
\* A step that changes nothing keeps the weaker invariant ...
LEMMA StutterOInv ==
    ASSUME OInv, UNCHANGED vars
    PROVE  OInv'
  <1>. USE DEF OInv, vars, ringVars, callVars, clockVars
  <1>1. \A l \in Layers : Reduced(l)' = Reduced(l) /\ Size(l)' = Size(l) /\ Above(l)' = Above(l)
    BY DEF Reduced, Size, Above
  <1>2. TypeOK' /\ PastOnly'
    BY DEF TypeOK, PastOnly
  <1>3. CallOK'
    BY <1>1 DEF CallOK, Reduced, DropsOldest, Size
  <1>4. RingSorted' /\ AxesInside'
    BY <1>1 DEF RingSorted, AxesInside, Bound, Slot, Size, Reduced
  <1>5. LayersOrdered'
    BY <1>1 DEF LayersOrdered
  <1>. QED BY <1>2, <1>3, <1>4, <1>5

\* ... and the full one.
LEMMA StutterIInv ==
    ASSUME IInv, UNCHANGED vars
    PROVE  IInv'
  <1>. USE DEF IInv, vars, ringVars, callVars, clockVars
  <1>1. \A l \in Layers : Reduced(l)' = Reduced(l) /\ Size(l)' = Size(l) /\ Above(l)' = Above(l)
    BY DEF Reduced, Size, Above
  <1>2. TypeOK' /\ PastOnly'
    BY DEF TypeOK, PastOnly
  <1>3. CallOK'
    BY <1>1 DEF CallOK, Reduced, DropsOldest, Size
  <1>4. RingSorted' /\ AxesExact'
    BY <1>1 DEF RingSorted, AxesExact, Bound, Slot, Size, Reduced
  <1>5. LayersLinked'
    BY <1>1 DEF LayersLinked
  <1>. QED BY <1>2, <1>3, <1>4, <1>5

\* The storage keeps its invariant in every state of every chain of layers:
\* through a cascade of Reduce of any depth each ring stays sorted, each axis
\* holds exactly the samples of its span, and adjacent layers stay linked.
THEOREM LayersCorrect == Spec => []IInv
  <1>1. Init => IInv
    BY InitIInv
  <1>2. IInv /\ [Next]_vars => IInv'
    <2>. SUFFICES ASSUME IInv, [Next]_vars PROVE IInv'
      OBVIOUS
    <2>1. ASSUME NEW t \in 1 .. MaxTime, StatAppend(t) PROVE IInv'
      BY <2>1, SampleIInv
    <2>2. CASE DropOldest
      BY <2>2, DropOldestIInv
    <2>3. CASE ReduceOne
      BY <2>3, ReduceOneIInv
    <2>4. CASE HandOver
      BY <2>4, HandOverIInv
    <2>5. CASE Insert
      BY <2>5, InsertIInv
    <2>6. CASE UNCHANGED vars
      BY <2>6, StutterIInv
    <2>. QED BY <2>1, <2>2, <2>3, <2>4, <2>5, <2>6 DEF Next
  <1>. QED BY <1>1, <1>2, PTL DEF Spec

\* Ring indices stay inside the rings and the cascade of Append and Reduce
\* stays inside the chain of layers.
THEOREM TypeCorrect == Spec => []TypeOK
  <1>1. IInv => TypeOK
    BY DEF IInv
  <1>. QED BY <1>1, LayersCorrect, PTL

\* Range's binary searches always run on strictly increasing times.
THEOREM RingsSorted == Spec => []RingSorted
  <1>1. IInv => RingSorted
    BY DEF IInv
  <1>. QED BY <1>1, LayersCorrect, PTL

\* No axis ever holds a sample from outside its span or lacks one from inside.
THEOREM AxesCorrect == Spec => []AxesExact
  <1>1. IInv => AxesExact
    BY DEF IInv
  <1>. QED BY <1>1, LayersCorrect, PTL

\* No sample is lost or seen twice where one layer ends and the next begins.
THEOREM LayersJoin == Spec => []LayersLinked
  <1>1. IInv => LayersLinked
    BY DEF IInv
  <1>. QED BY <1>1, LayersCorrect, PTL

-----------------------------------------------------------------------------
(***************************************************************************)
(* The layers implement a Timeline.                                        *)
(***************************************************************************)
\* A set of numbers that is not empty has a least one.
LEMMA Least ==
    ASSUME NEW S \in SUBSET Nat, S # {}
    PROVE  \E x \in S : \A y \in S : x <= y
  <1>. DEFINE R == OpToRel(<, Nat)
  <1>1. IsWellFoundedOn(R, Nat)
    BY NatLessThanWellFounded
  <1>2. \A x, y \in Nat : <<y, x>> \in R <=> y < x
    BY DEF OpToRel
  <1>. HIDE DEF R
  <1>3. PICK x \in S : \A y \in S : ~(<<y, x>> \in R)
    BY <1>1, WFMin
  <1>4. \A y \in S : ~(y < x)
    BY <1>2, <1>3
  <1>. QED BY <1>4

\* A layer ends no later than the one above it begins.
LEMMA EndsBefore ==
    ASSUME OInv, NEW l \in Layers, l # 0
    PROVE  l - 1 \in Layers /\ EndTime[l] <= StartTime[l - 1]
  <1>1. l - 1 \in Layers /\ Layers \subseteq Int
    BY LayerAssumption DEF Layers
  <1>2. EndTime[l] \in Nat /\ StartTime[l - 1] \in Nat
    BY <1>1, TimeNat DEF OInv, TypeOK
  <1>3. Above(l) = StartTime[l - 1]
    BY DEF Above
  <1>4. EndTime[l] < Above(l) \/ EndTime[l] <= Above(l)
    BY DEF OInv, LayersOrdered
  <1>. QED BY <1>1, <1>2, <1>3, <1>4

\* Times can be compared, and a layer begins before it ends.
LEMMA LayerTimes ==
    ASSUME OInv, NEW l \in Layers
    PROVE  /\ l \in Nat /\ l < NumLayers
           /\ StartTime[l] \in Nat /\ EndTime[l] \in Nat /\ StartTime[l] <= EndTime[l]
           /\ Size(l) \in Nat
           /\ Size(l) # 0 => StartTime[l] < EndTime[l]
  <1>1. l \in Nat /\ l < NumLayers
    BY LayerAssumption DEF Layers
  <1>2. Size(l) \in Nat
    BY SizeRange, LayerAssumption DEF OInv
  <1>3. StartTime[l] \in Nat /\ EndTime[l] \in Nat
    BY TimeNat DEF OInv, TypeOK
  <1>4. Bound(l, 0) = StartTime[l] /\ Bound(l, Size(l)) = EndTime[l]
    BY DEF Bound, OInv, RingSorted
  <1>5. 0 \in 0 .. Size(l) /\ Size(l) \in 0 .. Size(l) /\ (Size(l) # 0 => 0 < Size(l))
    BY <1>2
  <1>6. Size(l) # 0 => StartTime[l] < EndTime[l]
    BY <1>4, <1>5 DEF OInv, RingSorted
  <1>7. StartTime[l] <= EndTime[l]
    <2>1. CASE Size(l) = 0
      BY <1>3, <1>4, <2>1
    <2>2. CASE Size(l) # 0
      BY <1>3, <1>6, <2>2
    <2>. QED BY <2>1, <2>2
  <1>. QED BY <1>1, <1>2, <1>3, <1>6, <1>7

\* A layer ends no later than any of those above it begins: among the layers
\* above it that begin earlier there would be a lowest one.
LEMMA EndsBeforeAll ==
    ASSUME OInv, NEW l \in Layers, NEW k \in Layers, k < l
    PROVE  EndTime[l] <= StartTime[k]
  <1>. DEFINE S == {d \in Nat : d < l /\ StartTime[l - 1 - d] < EndTime[l]}
  <1>. SUFFICES ASSUME ~(EndTime[l] <= StartTime[k]) PROVE FALSE
    OBVIOUS
  <1>0. l \in Nat /\ k \in Nat /\ EndTime[l] \in Nat /\ StartTime[k] \in Nat
        /\ Layers \subseteq Nat /\ NumLayers \in Nat
    BY LayerTimes, LayerAssumption DEF Layers
  <1>1. \A d \in Nat : d < l => l - 1 - d \in Layers /\ l - 1 - d # l
    BY <1>0 DEF Layers
  <1>2. l - 1 - k \in S
    <2>1. l - 1 - k \in Nat /\ l - 1 - k < l /\ l - 1 - (l - 1 - k) = k
      BY <1>0
    <2>2. StartTime[l - 1 - (l - 1 - k)] < EndTime[l]
      BY <1>0, <2>1
    <2>. QED BY <2>1, <2>2
  <1>3. PICK d \in S : \A e \in S : d <= e
    BY <1>2, Least
  <1>4. d \in Nat /\ d < l /\ StartTime[l - 1 - d] < EndTime[l]
    OBVIOUS
  <1>. HIDE DEF S
  <1>5. CASE d = 0
    <2>1. l # 0 /\ l - 1 - d = l - 1 /\ l - 1 \in Layers
      BY <1>0, <1>1, <1>4, <1>5
    <2>2. EndTime[l] <= StartTime[l - 1]
      BY <2>1, EndsBefore
    <2>. QED BY <1>0, <1>4, <2>1, <2>2, LayerTimes
  <1>6. CASE d # 0
    <2>0. d - 1 \in Nat /\ d - 1 < l
      BY <1>0, <1>4, <1>6
    <2>1. PICK m \in Layers : m = l - 1 - (d - 1)
      BY <1>1, <2>0
    <2>2. m # 0 /\ m - 1 = l - 1 - d /\ d - 1 \in Nat /\ d - 1 < l
      BY <1>0, <1>1, <1>4, <1>6, <2>1
    <2>3. EndTime[m] <= StartTime[m - 1] /\ m - 1 \in Layers
      BY <2>2, EndsBefore
    <2>4. StartTime[m] < EndTime[l]
      BY <1>0, <1>4, <2>2, <2>3, LayerTimes
    <2>5. d - 1 \in S
      BY <2>1, <2>2, <2>4 DEF S
    <2>6. d <= d - 1
      BY <1>3, <2>5
    <2>. QED BY <1>4, <2>6
  <1>. QED BY <1>5, <1>6

\* The oldest axis of a layer, seen as a segment.
Oldest(l) == [from |-> StartTime[l], until |-> RingTimes[l][RingHead[l]],
              samples |-> RingAxes[l][RingHead[l]]]

\* Where the segments of a layer lie.
LEMMA PiecesInside ==
    ASSUME OInv, NEW l \in Layers, NEW s \in Pieces(l)
    PROVE  /\ s.from \in Nat /\ s.until \in Nat
           /\ StartTime[l] <= s.from /\ s.from < s.until /\ s.until <= EndTime[l]
           /\ StartTime[l] < EndTime[l]
  <1>1. PICK i \in 1 .. Size(l) : s.from = Bound(l, i - 1) /\ s.until = Bound(l, i)
    BY DEF Pieces
  <1>2. Size(l) \in Nat /\ i \in Int /\ 1 <= i /\ i <= Size(l)
    BY LayerTimes
  <1>3. i - 1 \in 0 .. Size(l) /\ i \in 0 .. Size(l) /\ 0 \in 0 .. Size(l) /\ i - 1 < i
        /\ (i - 1 = 0 \/ 0 < i - 1)
    BY <1>2
  <1>4. Bound(l, i - 1) \in Nat /\ Bound(l, i) \in Nat /\ Bound(l, i) <= EndTime[l]
    BY <1>3, BoundRange, TimeNat DEF OInv
  <1>5. Bound(l, i - 1) < Bound(l, i)
    BY <1>3 DEF OInv, RingSorted
  <1>6. Bound(l, 0) = StartTime[l] /\ StartTime[l] \in Nat /\ EndTime[l] \in Nat
    BY LayerTimes DEF Bound
  <1>7. StartTime[l] <= Bound(l, i - 1)
    <2>1. CASE i - 1 = 0
      BY <1>4, <1>6, <2>1
    <2>2. CASE 0 < i - 1
      <3>1. Bound(l, 0) < Bound(l, i - 1)
        BY <1>3, <2>2 DEF OInv, RingSorted
      <3>. QED BY <1>4, <1>6, <3>1
    <2>. QED BY <1>3, <2>1, <2>2
  <1>. QED BY <1>1, <1>4, <1>5, <1>6, <1>7

\* Layers that a step does not touch keep their segments.
LEMMA PiecesSame ==
    ASSUME OInv, NEW l \in Layers, Size(l)' = Size(l), RingAxes'[l] = RingAxes[l],
           \A i \in Nat : Slot(l, i)' = Slot(l, i) /\ Bound(l, i)' = Bound(l, i)
    PROVE  Pieces(l)' = Pieces(l)
  <1>1. \A i \in 1 .. Size(l) : i \in Nat /\ i - 1 \in Nat
    BY LayerTimes
  <1>. QED BY <1>1 DEF Pieces

\* Taking an axis out takes away the oldest segment of the layer, and that one
\* only.
LEMMA PiecesTakeOut ==
    ASSUME OInv, TakingOut
    PROVE  /\ layer \in Layers
           /\ StartTime'[layer] = Oldest(layer).until
           /\ \A k \in Layers \ {layer} : Pieces(k)' = Pieces(k) /\ StartTime'[k] = StartTime[k]
           /\ \A k \in Layers : k = layer =>
                 /\ Pieces(k) = Pieces(k)' \union {Oldest(k)}
                 /\ \A s \in Pieces(k)' : StartTime[k] < s.from
           /\ StartTime[layer] < Oldest(layer).until /\ Oldest(layer).until <= EndTime[layer]
  <1>0. /\ layer \in Layers /\ layer' = layer /\ LayerLen[layer] \in Nat \ {0}
        /\ DOMAIN RingAxes = Layers
        /\ RingHead[layer] \in 0 .. LayerLen[layer] - 1
        /\ RingAxes[layer] \in [0 .. LayerLen[layer] - 1 -> Axis]
        /\ RingAxes' = [RingAxes EXCEPT ![layer][RingHead[layer]] = {}]
        /\ StartTime' = [StartTime EXCEPT ![layer] = RingTimes[layer][RingHead[layer]]]
        /\ DOMAIN StartTime = Layers
    BY LayerAssumption DEF OInv, TypeOK, TakingOut, TakeOut
  <1>1. PICK n \in Nat : /\ n = Size(layer) /\ n >= 1 /\ n <= LayerLen[layer]
                         /\ Size(layer)' = n - 1
    BY <1>0, TakeOutShift
  <1>2. ASSUME NEW k \in Layers \ {layer} PROVE Pieces(k)' = Pieces(k) /\ StartTime'[k] = StartTime[k]
    <2>1. RingAxes'[k] = RingAxes[k] /\ StartTime'[k] = StartTime[k]
      BY <1>0
    <2>. QED BY <2>1, TakeOutShift, PiecesSame
  <1>3. Slot(layer, 0) = RingHead[layer]
    BY <1>0, ModOnce DEF Slot
  <1>4. Bound(layer, 0) = StartTime[layer] /\ Bound(layer, 1) = RingTimes[layer][RingHead[layer]]
    BY <1>3 DEF Bound
  <1>5. ASSUME NEW i \in 1 .. n - 1
        PROVE  /\ Bound(layer, i - 1)' = Bound(layer, i) /\ Bound(layer, i)' = Bound(layer, i + 1)
               /\ RingAxes'[layer][Slot(layer, i - 1)'] = RingAxes[layer][Slot(layer, i)]
    <2>1. /\ i - 1 \in 0 .. LayerLen[layer] - 1 /\ i \in 0 .. LayerLen[layer] - 1
          /\ (i - 1) + 1 = i /\ i # 0 /\ 0 \in 0 .. LayerLen[layer] - 1 /\ i \in Nat
      BY <1>0, <1>1
    <2>2. /\ Slot(layer, i - 1)' = Slot(layer, (i - 1) + 1)
          /\ Bound(layer, i - 1)' = Bound(layer, (i - 1) + 1)
          /\ Bound(layer, i)' = Bound(layer, i + 1)
      BY <2>1, TakeOutShift
    <2>3. Slot(layer, i) # RingHead[layer]
      BY <1>0, <1>3, <2>1, SlotDistinct DEF OInv
    <2>4. Slot(layer, i) \in 0 .. LayerLen[layer] - 1
      BY <1>0, <2>1, SlotRange DEF OInv
    <2>5. RingAxes'[layer][Slot(layer, i)] = RingAxes[layer][Slot(layer, i)]
      BY <1>0, <2>3, <2>4
    <2>. QED BY <2>1, <2>2, <2>5
  <1>. DEFINE piece(i) == [from |-> Bound(layer, i - 1), until |-> Bound(layer, i),
                           samples |-> RingAxes[layer][Slot(layer, i - 1)]]
  <1>6. Pieces(layer) = {piece(i) : i \in 1 .. n}
    BY <1>1 DEF Pieces
  <1>7. Pieces(layer)' = {piece(i) : i \in 2 .. n}
    <2>. DEFINE next(i) == [from |-> Bound(layer, i - 1)', until |-> Bound(layer, i)',
                            samples |-> RingAxes'[layer][Slot(layer, i - 1)']]
    <2>1. \A i \in 1 .. n - 1 : next(i) = piece(i + 1)
      <3>. TAKE i \in 1 .. n - 1
      <3>1. (i + 1) - 1 = i
        OBVIOUS
      <3>. QED BY <1>5, <3>1
    <2>2. Pieces(layer)' = {piece(i + 1) : i \in 1 .. n - 1}
      <3>1. Pieces(layer)' = {next(i) : i \in 1 .. n - 1}
        BY <1>0, <1>1 DEF Pieces
      <3>. HIDE DEF piece, next
      <3>. QED BY <2>1, <3>1
    <2>3. \A i \in 1 .. n - 1 : i + 1 \in 2 .. n
      BY <1>1
    <2>4. \A i \in 2 .. n : i - 1 \in 1 .. n - 1 /\ (i - 1) + 1 = i
      BY <1>1
    <2>. HIDE DEF piece
    <2>. QED BY <2>2, <2>3, <2>4
  <1>8. piece(1) = Oldest(layer)
    <2>1. 1 - 1 = 0
      OBVIOUS
    <2>. QED BY <1>3, <1>4, <2>1 DEF Oldest
  <1>9. Pieces(layer) = Pieces(layer)' \union {Oldest(layer)}
    <2>1. \A i \in 1 .. n : i = 1 \/ i \in 2 .. n
      OBVIOUS
    <2>2. 1 \in 1 .. n /\ \A i \in 2 .. n : i \in 1 .. n
      BY <1>1
    <2>. HIDE DEF piece
    <2>. QED BY <1>6, <1>7, <1>8, <2>1, <2>2
  <1>10. \A s \in Pieces(layer)' : StartTime[layer] < s.from
    <2>1. ASSUME NEW i \in 2 .. n PROVE StartTime[layer] < piece(i).from
      <3>1. 0 \in 0 .. n /\ i - 1 \in 0 .. n /\ 0 < i - 1
        OBVIOUS
      <3>2. Bound(layer, 0) < Bound(layer, i - 1)
        BY <1>0, <1>1, <3>1 DEF OInv, RingSorted
      <3>. QED BY <1>4, <3>2
    <2>. HIDE DEF piece
    <2>. QED BY <1>7, <2>1
  <1>11. StartTime'[layer] = Oldest(layer).until
    BY <1>0 DEF Oldest
  <1>12. StartTime[layer] < Oldest(layer).until /\ Oldest(layer).until <= EndTime[layer]
    <2>1. Oldest(layer) \in Pieces(layer)
      BY <1>9
    <2>. QED BY <1>0, <2>1, PiecesInside DEF Oldest
  <1>13. ASSUME NEW k \in Layers, k = layer
         PROVE  /\ Pieces(k) = Pieces(k)' \union {Oldest(k)}
                /\ \A s \in Pieces(k)' : StartTime[k] < s.from
    <2>1. Pieces(k)' = Pieces(layer)'
      BY <1>0, <1>13 DEF Pieces
    <2>2. Pieces(k) = Pieces(layer) /\ Oldest(k) = Oldest(layer)
      BY <1>13
    <2>. QED BY <1>9, <1>10, <1>13, <2>1, <2>2
  <1>. QED BY <1>0, <1>2, <1>11, <1>12, <1>13

\* What waits for the ring of layer l, seen as a segment.
Inserted(l) == [from |-> EndTime[l], until |-> arg[l].endTime, samples |-> arg[l].axis]

\* Insert makes it the newest segment of its layer.
LEMMA PiecesInsert ==
    ASSUME OInv, Insert
    PROVE  /\ \A k \in Layers \ {layer} : Pieces(k)' = Pieces(k)
           /\ \A k \in Layers : k = layer => Pieces(k)' = Pieces(k) \union {Inserted(k)}
  <1>0. /\ layer \in Layers /\ DOMAIN RingAxes = Layers /\ LayerLen[layer] \in Nat \ {0}
        /\ RingAxes[layer] \in [0 .. LayerLen[layer] - 1 -> Axis]
        /\ RingAxes' = [RingAxes EXCEPT ![layer][RingTail[layer]] = arg[layer].axis]
    BY LayerAssumption DEF OInv, TypeOK, Insert
  <1>1. ASSUME NEW k \in Layers \ {layer} PROVE Pieces(k)' = Pieces(k)
    <2>1. RingAxes'[k] = RingAxes[k]
      BY <1>0
    <2>. QED BY <2>1, InsertShift, PiecesSame
  <1>2. ASSUME NEW k \in Layers, k = layer PROVE Pieces(k)' = Pieces(k) \union {Inserted(k)}
    <2>1. PICK n \in Nat : n = Size(k)
      BY LayerTimes
    <2>2. /\ n < LayerLen[k] /\ Size(k)' = n + 1
          /\ \A i \in Nat : Slot(k, i)' = Slot(k, i)
          /\ \A i \in 0 .. n : Bound(k, i)' = Bound(k, i)
          /\ Bound(k, n + 1)' = arg[k].endTime
          /\ RingTail[k] = Slot(k, n)
      BY <1>2, <2>1, InsertShift
    <2>. DEFINE piece(i) == [from |-> Bound(k, i - 1), until |-> Bound(k, i),
                             samples |-> RingAxes[k][Slot(k, i - 1)]]
                next(i) == [from |-> Bound(k, i - 1)', until |-> Bound(k, i)',
                            samples |-> RingAxes'[k][Slot(k, i - 1)']]
    <2>3. Pieces(k) = {piece(i) : i \in 1 .. n}
      BY <2>1 DEF Pieces
    <2>4. Pieces(k)' = {next(i) : i \in 1 .. n + 1}
      BY <2>2 DEF Pieces
    <2>5. ASSUME NEW i \in 1 .. n PROVE next(i) = piece(i)
      <3>1. /\ i - 1 \in Nat /\ i - 1 \in 0 .. n /\ i \in 0 .. n /\ i - 1 # n
            /\ i - 1 \in 0 .. LayerLen[k] - 1 /\ n \in 0 .. LayerLen[k] - 1
        BY <1>0, <1>2, <2>2
      <3>2. Slot(k, i - 1) # RingTail[k] /\ Slot(k, i - 1) \in 0 .. LayerLen[k] - 1
        BY <1>2, <2>2, <3>1, SlotDistinct, SlotRange DEF OInv
      <3>3. RingAxes'[k][Slot(k, i - 1)] = RingAxes[k][Slot(k, i - 1)]
        BY <1>0, <1>2, <3>2
      <3>. QED BY <2>2, <3>1, <3>3
    <2>6. next(n + 1) = Inserted(k)
      <3>1. (n + 1) - 1 = n /\ n \in 0 .. n
        OBVIOUS
      <3>2. Bound(k, n) = EndTime[k]
        BY <2>1 DEF OInv, RingSorted
      <3>3. Slot(k, n) \in 0 .. LayerLen[k] - 1
        BY SlotRange DEF OInv
      <3>4. RingAxes'[k][Slot(k, n)] = arg[k].axis
        BY <1>0, <1>2, <2>2, <3>3
      <3>. QED BY <2>2, <3>1, <3>2, <3>4 DEF Inserted
    <2>7. \A i \in 1 .. n + 1 : i = n + 1 \/ i \in 1 .. n
      OBVIOUS
    <2>8. n + 1 \in 1 .. n + 1 /\ \A i \in 1 .. n : i \in 1 .. n + 1
      OBVIOUS
    <2>. HIDE DEF piece, next
    <2>. QED BY <2>3, <2>4, <2>5, <2>6, <2>7, <2>8
  <1>. QED BY <1>1, <1>2

\* The segments, one by one.
LEMMA SegmentsAre ==
    /\ \A s : s \in Segments <=> \/ \E l \in Layers : s \in Pieces(l)
                                 \/ s \in TakenOut
                                 \/ s \in Waiting
    /\ \A s : s \in Segments' <=> \/ \E l \in Layers : s \in Pieces(l)'
                                  \/ s \in TakenOut'
                                  \/ s \in Waiting'
  <1>1. ASSUME NEW s
        PROVE  s \in Segments <=> \/ \E l \in Layers : s \in Pieces(l)
                                  \/ s \in TakenOut
                                  \/ s \in Waiting
    BY DEF Segments
  <1>2. ASSUME NEW s
        PROVE  s \in Segments' <=> \/ \E l \in Layers : s \in Pieces(l)'
                                   \/ s \in TakenOut'
                                   \/ s \in Waiting'
    BY DEF Segments
  <1>. QED BY <1>1, <1>2

\* What waits is in the layers from 0 to the innermost active one.
LEMMA WaitingIs ==
    ASSUME OInv
    PROVE  /\ pc = "idle" => Waiting = {}
           /\ pc # "idle" => Waiting = {Inserted(l) : l \in 0 .. layer}
           /\ \A l \in 0 .. layer : l \in Layers /\ l <= layer
           /\ layer \in Layers /\ layer \in Nat
  <1>1. layer \in Layers /\ layer \in Nat /\ \A l \in 0 .. layer : l \in Layers /\ l <= layer
    BY LayerAssumption DEF OInv, TypeOK, Layers
  <1>. QED BY <1>1 DEF Waiting, Inserted

\* Where the other segments lie, seen from the layer that a call works on.
LEMMA Apart ==
    ASSUME OInv, NEW s
    PROVE  /\ \A k \in Layers : s \in Pieces(k) =>
                 /\ s.from \in Nat /\ s.until \in Nat /\ s.from < s.until
                 /\ k = layer => StartTime[layer] <= s.from
                 /\ k < layer => EndTime[layer] <= s.from
                 /\ k > layer => /\ layer + 1 \in Layers
                                 /\ s.until <= StartTime[layer]
                                 /\ s.until <= EndTime[layer + 1]
           /\ s \in Waiting => s.from \in Nat /\ EndTime[layer] <= s.from
  <1>0. layer \in Layers /\ Layers \subseteq Nat
        /\ \A l \in Layers : StartTime[l] \in Nat /\ EndTime[l] \in Nat /\ StartTime[l] <= EndTime[l]
    BY LayerTimes DEF OInv, TypeOK
  <1>1. ASSUME NEW k \in Layers, s \in Pieces(k)
        PROVE  /\ s.from \in Nat /\ s.until \in Nat /\ s.from < s.until
               /\ k = layer => StartTime[layer] <= s.from
               /\ k < layer => EndTime[layer] <= s.from
               /\ k > layer => /\ layer + 1 \in Layers
                               /\ s.until <= StartTime[layer]
                               /\ s.until <= EndTime[layer + 1]
    <2>1. /\ s.from \in Nat /\ s.until \in Nat /\ s.from < s.until
          /\ StartTime[k] <= s.from /\ s.until <= EndTime[k]
      BY <1>1, PiecesInside
    <2>2. k < layer => EndTime[layer] <= StartTime[k]
      BY <1>0, EndsBeforeAll
    <2>3. k > layer => EndTime[k] <= StartTime[layer]
      BY <1>0, EndsBeforeAll
    <2>4. ASSUME k > layer PROVE layer + 1 \in Layers /\ EndTime[k] <= EndTime[layer + 1]
      <3>1. layer + 1 \in Layers /\ (k = layer + 1 \/ layer + 1 < k)
        BY <1>0, <2>4, LayerAssumption DEF Layers
      <3>2. layer + 1 < k => EndTime[k] <= StartTime[layer + 1]
        BY <3>1, EndsBeforeAll
      <3>. QED BY <1>0, <3>1, <3>2
    <2>5. k = layer => StartTime[layer] <= s.from
      BY <2>1
    <2>6. k < layer => EndTime[layer] <= s.from
      BY <1>0, <2>1, <2>2
    <2>7. k > layer => s.until <= StartTime[layer]
      BY <1>0, <2>1, <2>3
    <2>8. k > layer => layer + 1 \in Layers /\ s.until <= EndTime[layer + 1]
      BY <1>0, <2>1, <2>4
    <2>. QED BY <2>1, <2>5, <2>6, <2>7, <2>8
  <1>2. ASSUME s \in Waiting PROVE s.from \in Nat /\ EndTime[layer] <= s.from
    <2>1. pc # "idle"
      BY <1>2, WaitingIs
    <2>2. PICK l \in 0 .. layer : s = Inserted(l)
      BY <1>2, <2>1, WaitingIs
    <2>3. l \in Layers /\ l <= layer /\ s.from = EndTime[l]
      BY <2>2, WaitingIs DEF Inserted
    <2>4. l < layer => EndTime[layer] <= StartTime[l]
      BY <1>0, <2>3, EndsBeforeAll
    <2>5. l < layer \/ l = layer
      BY <1>0, <2>3
    <2>6. EndTime[l] \in Nat /\ StartTime[l] \in Nat /\ StartTime[l] <= EndTime[l] /\ EndTime[layer] \in Nat
      BY <1>0, <2>3
    <2>. QED BY <2>3, <2>4, <2>5, <2>6
  <1>. QED BY <1>1, <1>2

\* A new sample extends the line.
LEMMA SampleLine ==
    ASSUME IInv, NEW t \in 1 .. MaxTime, StatAppend(t)
    PROVE  Line!Extend(t)
  <1>0. OInv /\ Sampled(t)
    BY ExactIsOrdered, SampleFrame
  <1>1. /\ t > now /\ now' = t /\ StartTime' = StartTime /\ RingAxes' = RingAxes
        /\ pc = "idle" /\ pc' = "append" /\ layer = 0 /\ layer' = 0 /\ EndTime' = EndTime
        /\ arg'[0] = [axis |-> {t}, endTime |-> t]
    BY <1>0 DEF Sampled, ringVars
  <1>2. ASSUME NEW l \in Layers PROVE Pieces(l)' = Pieces(l)
    <2>1. Size(l)' = Size(l) /\ \A i \in Nat : Slot(l, i)' = Slot(l, i) /\ Bound(l, i)' = Bound(l, i)
      BY <1>0 DEF Sampled
    <2>. QED BY <1>0, <1>1, <2>1, PiecesSame
  <1>3. TakenOut = {} /\ TakenOut' = {} /\ Waiting = {}
    BY <1>1 DEF TakenOut, Waiting
  <1>4. EndTime[0] = now
    <2>1. 0 \in Layers /\ Above(0) = now
      BY <1>0 DEF Sampled
    <2>. QED BY <1>1, <2>1 DEF IInv, LayersLinked
  <1>5. Waiting' = {[from |-> now, until |-> t, samples |-> {t}]}
    <2>1. Waiting' = {[from |-> EndTime'[l], until |-> arg'[l].endTime, samples |-> arg'[l].axis] :
                        l \in 0 .. 0}
      BY <1>1 DEF Waiting
    <2>2. 0 .. 0 = {0}
      OBVIOUS
    <2>3. arg'[0].endTime = t /\ arg'[0].axis = {t}
      BY <1>1
    <2>. QED BY <1>1, <1>4, <2>1, <2>2, <2>3
  <1>6. Segments' = Segments \union {[from |-> now, until |-> t, samples |-> {t}]}
    BY <1>2, <1>3, <1>5, SegmentsAre
  <1>. QED BY <1>1, <1>6 DEF Line!Extend

\* The first axis that Reduce takes out is still the same segment; each further
\* one is merged with what was taken out before, which is its neighbour.
LEMMA ReduceOneLine ==
    ASSUME IInv, ReduceOne
    PROVE  UNCHANGED Line!vars \/ \E a, b \in Segments : Line!Coarsen(a, b)
  <1>0. OInv /\ TakingOut
    BY ExactIsOrdered DEF ReduceOne, TakingOut, clockVars
  <1>1. /\ layer' = layer /\ pc # "idle" /\ pc' = "reduce" /\ now' = now
        /\ EndTime' = EndTime /\ arg' = arg
        /\ merged' = merged \union RingAxes[layer][RingHead[layer]]
        /\ \/ pc = "append" /\ Full(layer) /\ ~DropsOldest(layer)
           \/ pc = "reduce"
    BY DEF ReduceOne, TakeOut, clockVars
  <1>2. layer + 1 \in Layers /\ layer # NumLayers - 1 /\ NumLayers - 1 \in Layers
        /\ layer \in Nat /\ layer \in Layers
    <2>1. ~DropsOldest(layer)
      BY <1>0, <1>1 DEF OInv, CallOK
    <2>. QED BY <1>0, <2>1, LayerAssumption DEF DropsOldest, OInv, TypeOK, Layers
  <1>3. Waiting' = Waiting
    BY <1>1 DEF Waiting
  <1>4. StartTime'[NumLayers - 1] = StartTime[NumLayers - 1]
    BY <1>0, <1>2, PiecesTakeOut
  <1>5. /\ Above(layer + 1) = StartTime[layer] /\ (layer + 1) - 1 = layer /\ layer + 1 # 0
        /\ ~(layer + 1 <= layer)
    BY <1>2 DEF Above
  <1>6. CASE pc = "append"
    <2>1. EndTime[layer + 1] = StartTime[layer]
      BY <1>2, <1>5, <1>6 DEF IInv, LayersLinked
    <2>2. merged = {}
      BY <1>6 DEF IInv, CallOK
    <2>3. TakenOut = {} /\ TakenOut' = {Oldest(layer)}
      <3>1. TakenOut' = {[from |-> EndTime[layer + 1], until |-> StartTime'[layer], samples |-> merged']}
        BY <1>1 DEF TakenOut
      <3>2. merged' = RingAxes[layer][RingHead[layer]]
        BY <1>1, <2>2
      <3>3. StartTime'[layer] = RingTimes[layer][RingHead[layer]]
        BY <1>0, PiecesTakeOut DEF Oldest
      <3>. QED BY <1>6, <2>1, <3>1, <3>2, <3>3 DEF TakenOut, Oldest
    <2>4. Segments' = Segments
      <3>1. /\ \A k \in Layers \ {layer} : Pieces(k)' = Pieces(k)
            /\ \A k \in Layers : k = layer => Pieces(k) = Pieces(k)' \union {Oldest(layer)}
        BY <1>0, PiecesTakeOut
      <3>2. ASSUME NEW s PROVE s \in Segments' <=> s \in Segments
        BY <1>2, <1>3, <2>3, <3>1, SegmentsAre
      <3>. QED BY <3>2
    <2>. QED BY <1>1, <1>4, <2>4 DEF Line!vars
  <1>7. CASE pc = "reduce"
    <2>. DEFINE a == [from |-> EndTime[layer + 1], until |-> StartTime[layer], samples |-> merged]
                b == Oldest(layer)
                c == [from |-> a.from, until |-> b.until, samples |-> a.samples \union b.samples]
    <2>1. TakenOut = {a}
      BY <1>7 DEF TakenOut
    <2>2. TakenOut' = {c}
      <3>1. TakenOut' = {[from |-> EndTime[layer + 1], until |-> StartTime'[layer], samples |-> merged']}
        BY <1>1 DEF TakenOut
      <3>2. c = [from |-> EndTime[layer + 1], until |-> RingTimes[layer][RingHead[layer]],
                 samples |-> merged \union RingAxes[layer][RingHead[layer]]]
        BY DEF Oldest
      <3>3. StartTime'[layer] = RingTimes[layer][RingHead[layer]]
        BY <1>0, PiecesTakeOut DEF Oldest
      <3>. QED BY <1>1, <3>1, <3>2, <3>3
    <2>3. EndTime[layer + 1] < StartTime[layer]
      BY <1>2, <1>5, <1>7 DEF IInv, LayersLinked
    <2>4. a.from = EndTime[layer + 1] /\ a.until = StartTime[layer]
          /\ b.from = StartTime[layer] /\ StartTime[layer] < b.until /\ b.until <= EndTime[layer]
          /\ b.until \in Nat
      BY <1>0, <1>2, PiecesTakeOut, PiecesInside, Zenon DEF Oldest
    <2>5. /\ \A k \in Layers \ {layer} : Pieces(k)' = Pieces(k)
          /\ \A k \in Layers : k = layer =>
                /\ Pieces(k) = Pieces(k)' \union {b}
                /\ \A s \in Pieces(k)' : StartTime[layer] < s.from
      BY <1>0, PiecesTakeOut
    <2>6. /\ StartTime[layer] \in Nat /\ EndTime[layer] \in Nat /\ EndTime[layer + 1] \in Nat
          /\ StartTime[layer] < EndTime[layer]
      <3>1. Oldest(layer) \in Pieces(layer)
        BY <1>2, <2>5
      <3>. QED BY <1>0, <1>2, <3>1, LayerTimes, PiecesInside
    <2>. HIDE DEF a, b, c
    <2>7. ASSUME NEW k \in Layers, NEW s \in Pieces(k)' PROVE s # a /\ s # b
      <3>1. CASE k = layer
        <4>1. s \in Pieces(k) /\ StartTime[layer] < s.from
          BY <2>5, <2>7, <3>1
        <4>2. s.from \in Nat
          BY <1>0, <4>1, Apart
        <4>3. s.from # a.from /\ s.from # b.from
          BY <2>3, <2>4, <2>6, <4>1, <4>2
        <4>. QED BY <4>3
      <3>2. CASE k # layer
        <4>1. s \in Pieces(k)
          BY <2>5, <2>7, <3>2
        <4>2. /\ s.from \in Nat /\ s.until \in Nat
              /\ k < layer => EndTime[layer] <= s.from
              /\ k > layer => s.until <= StartTime[layer] /\ s.until <= EndTime[layer + 1]
          BY <1>0, <4>1, Apart
        <4>3. k < layer \/ k > layer
          BY <1>2, <3>2, LayerAssumption DEF Layers
        <4>4. k < layer => s.from # a.from /\ s.from # b.from
          BY <2>3, <2>4, <2>6, <4>2
        <4>5. k > layer => s.until # a.until /\ s.until # b.until
          BY <2>3, <2>4, <2>6, <4>2
        <4>. QED BY <4>3, <4>4, <4>5
      <3>. QED BY <3>1, <3>2
    <2>8. ASSUME NEW s \in Waiting PROVE s # a /\ s # b
      <3>1. s.from \in Nat /\ EndTime[layer] <= s.from
        BY <1>0, <2>8, Apart
      <3>2. s.from # a.from /\ s.from # b.from
        BY <2>3, <2>4, <2>6, <3>1
      <3>. QED BY <3>2
    <2>9. a \in Segments /\ b \in Segments
      BY <1>2, <2>1, <2>5, SegmentsAre
    <2>10. Segments' = (Segments \ {a, b}) \union {c}
      <3>1. ASSUME NEW s PROVE s \in Segments' <=> s \in (Segments \ {a, b}) \union {c}
        <4>1. s \in Segments' => s \in (Segments \ {a, b}) \union {c}
          <5>1. ASSUME NEW k \in Layers, s \in Pieces(k)' PROVE s \in Segments \ {a, b}
            BY <1>2, <2>5, <2>7, <5>1, SegmentsAre
          <5>2. ASSUME s \in Waiting' PROVE s \in Segments \ {a, b}
            BY <1>3, <2>8, <5>2, SegmentsAre
          <5>. QED BY <2>2, <5>1, <5>2, SegmentsAre
        <4>2. s \in (Segments \ {a, b}) \union {c} => s \in Segments'
          <5>1. s = c => s \in Segments'
            BY <2>2, SegmentsAre
          <5>2. ASSUME NEW k \in Layers, s \in Pieces(k), s # b PROVE s \in Segments'
            BY <2>5, <5>2, SegmentsAre
          <5>3. s \in Waiting => s \in Segments'
            BY <1>3, SegmentsAre
          <5>4. s \in TakenOut => s = a
            BY <2>1
          <5>. QED BY <5>1, <5>2, <5>3, <5>4, SegmentsAre
        <4>. QED BY <4>1, <4>2
      <3>. QED BY <3>1
    <2>11. a.until = b.from /\ c = [from |-> a.from, until |-> b.until,
                                   samples |-> a.samples \union b.samples]
      BY <2>4 DEF c
    <2>12. Line!Coarsen(a, b)
      BY <1>1, <1>4, <2>10, <2>11 DEF Line!Coarsen
    <2>. QED BY <2>9, <2>12
  <1>. QED BY <1>1, <1>6, <1>7

\* What the last layer drops is the oldest segment of the line.
LEMMA DropOldestLine ==
    ASSUME IInv, DropOldest
    PROVE  \E s \in Segments : Line!Forget(s)
  <1>0. OInv /\ TakingOut
    BY ExactIsOrdered DEF DropOldest, TakingOut, clockVars
  <1>1. /\ layer' = layer /\ pc = "append" /\ pc' = "insert" /\ now' = now
        /\ EndTime' = EndTime /\ arg' = arg /\ DropsOldest(layer)
    BY DEF DropOldest, TakeOut, clockVars
  <1>2. layer = NumLayers - 1 /\ layer \in Layers /\ layer \in Nat
    BY <1>0, <1>1, LayerAssumption DEF DropsOldest, OInv, TypeOK, Layers
  <1>3. Waiting' = Waiting
    BY <1>1 DEF Waiting
  <1>4. TakenOut = {} /\ TakenOut' = {}
    BY <1>1 DEF TakenOut
  <1>. DEFINE b == Oldest(layer)
  <1>5. /\ \A k \in Layers \ {layer} : Pieces(k)' = Pieces(k)
        /\ \A k \in Layers : k = layer =>
              /\ Pieces(k) = Pieces(k)' \union {b}
              /\ \A s \in Pieces(k)' : StartTime[layer] < s.from
        /\ StartTime'[layer] = b.until
    BY <1>0, PiecesTakeOut
  <1>6. b.from = StartTime[layer]
    BY DEF Oldest
  <1>7. /\ StartTime[layer] \in Nat /\ EndTime[layer] \in Nat
        /\ StartTime[layer] < EndTime[layer]
    <2>1. Oldest(layer) \in Pieces(layer)
      BY <1>2, <1>5
    <2>. QED BY <1>0, <1>2, <2>1, LayerTimes, PiecesInside
  <1>. HIDE DEF b
  <1>8. ASSUME NEW k \in Layers, NEW s \in Pieces(k)' PROVE s # b
    <2>1. CASE k = layer
      <3>1. s \in Pieces(k) /\ StartTime[layer] < s.from
        BY <1>5, <1>8, <2>1
      <3>2. s.from \in Nat
        BY <1>0, <3>1, Apart
      <3>. QED BY <1>6, <1>7, <3>1, <3>2
    <2>2. CASE k # layer
      <3>1. s \in Pieces(k)
        BY <1>5, <1>8, <2>2
      <3>2. k < layer
        BY <1>2, <2>2, LayerAssumption DEF Layers
      <3>3. s.from \in Nat /\ EndTime[layer] <= s.from
        BY <1>0, <3>1, <3>2, Apart
      <3>. QED BY <1>6, <1>7, <3>3
    <2>. QED BY <2>1, <2>2
  <1>9. ASSUME NEW s \in Waiting PROVE s # b
    <2>1. s.from \in Nat /\ EndTime[layer] <= s.from
      BY <1>0, <1>9, Apart
    <2>. QED BY <1>6, <1>7, <2>1
  <1>10. b \in Segments
    BY <1>2, <1>5, SegmentsAre
  <1>11. Segments' = Segments \ {b}
    <2>1. ASSUME NEW s PROVE s \in Segments' <=> s \in Segments /\ s # b
      <3>1. ASSUME s \in Segments' PROVE s \in Segments /\ s # b
        <4>1. ASSUME NEW k \in Layers, s \in Pieces(k)' PROVE s \in Segments /\ s # b
          BY <1>2, <1>5, <1>8, <4>1, SegmentsAre
        <4>. QED BY <1>3, <1>4, <1>9, <3>1, <4>1, SegmentsAre
      <3>2. ASSUME s \in Segments, s # b PROVE s \in Segments'
        <4>1. ASSUME NEW k \in Layers, s \in Pieces(k) PROVE s \in Segments'
          BY <1>5, <3>2, <4>1, SegmentsAre
        <4>. QED BY <1>3, <1>4, <3>2, <4>1, SegmentsAre
      <3>. QED BY <3>1, <3>2
    <2>. QED BY <2>1
  <1>12. Line!Forget(b)
    BY <1>1, <1>2, <1>5, <1>6, <1>11 DEF Line!Forget
  <1>. QED BY <1>10, <1>12

\* Handing the merged axis over moves no segment: it waits for the next ring
\* instead of lying before its own.
LEMMA HandOverLine ==
    ASSUME IInv, HandOver
    PROVE  UNCHANGED Line!vars
  <1>0. OInv
    BY ExactIsOrdered
  <1>1. /\ pc = "reduce" /\ pc' = "append" /\ layer' = layer + 1 /\ now' = now
        /\ arg' = [arg EXCEPT ![layer + 1] = [axis |-> merged, endTime |-> StartTime[layer]]]
        /\ UNCHANGED ringVars
    BY DEF HandOver, Compacted, clockVars
  <1>2. /\ StartTime' = StartTime /\ EndTime' = EndTime /\ RingTimes' = RingTimes
        /\ RingAxes' = RingAxes /\ RingHead' = RingHead /\ RingTail' = RingTail /\ Empty' = Empty
    BY <1>1 DEF ringVars
  <1>3. layer \in Layers /\ layer \in Nat /\ Layers \subseteq Nat /\ layer + 1 \in Layers
    BY <1>0, <1>1, LayerAssumption DEF OInv, TypeOK, Layers, CallOK, DropsOldest
  <1>4. ASSUME NEW k \in Layers PROVE Pieces(k)' = Pieces(k)
    <2>1. /\ \A i \in Nat : Slot(k, i)' = Slot(k, i)
          /\ \A i \in Nat : Bound(k, i)' = Bound(k, i)
      BY <1>2 DEF Slot, Bound
    <2>2. Size(k)' = Size(k)
      <3>1. Reduced(k)' <=> Reduced(k) \/ FALSE
        BY <1>1, <1>3 DEF Reduced
      <3>. QED BY <1>2, <3>1 DEF Size
    <2>. QED BY <1>0, <1>2, <2>1, <2>2, PiecesSame
  <1>5. TakenOut = {[from |-> EndTime[layer + 1], until |-> StartTime[layer], samples |-> merged]}
        /\ TakenOut' = {}
    BY <1>1 DEF TakenOut
  <1>6. Waiting' = Waiting \union TakenOut
    <2>. DEFINE w(l) == [from |-> EndTime[l], until |-> arg'[l].endTime, samples |-> arg'[l].axis]
    <2>1. Waiting' = {w(l) : l \in 0 .. layer + 1}
      BY <1>1, <1>2 DEF Waiting
    <2>2. Waiting = {Inserted(l) : l \in 0 .. layer}
      BY <1>0, <1>1, WaitingIs
    <2>3. DOMAIN arg = Layers
      BY <1>0 DEF OInv, TypeOK
    <2>4. \A l \in 0 .. layer : w(l) = Inserted(l)
      <3>1. \A l \in 0 .. layer : l \in Layers /\ l # layer + 1
        BY <1>0, <1>3, WaitingIs
      <3>. QED BY <1>1, <2>3, <3>1 DEF Inserted
    <2>5. TakenOut = {w(layer + 1)}
      BY <1>1, <1>3, <1>5, <2>3
    <2>6. /\ \A l \in 0 .. layer + 1 : l = layer + 1 \/ l \in 0 .. layer
          /\ \A l \in 0 .. layer : l \in 0 .. layer + 1
          /\ layer + 1 \in 0 .. layer + 1
      BY <1>3
    <2>. HIDE DEF w
    <2>. QED BY <2>1, <2>2, <2>4, <2>5, <2>6
  <1>7. Segments' = Segments
    <2>1. ASSUME NEW s PROVE s \in Segments' <=> s \in Segments
      BY <1>4, <1>5, <1>6, SegmentsAre
    <2>. QED BY <2>1
  <1>. QED BY <1>1, <1>2, <1>7 DEF Line!vars

\* Inserting an axis moves no segment: it is in the ring instead of waiting
\* for it.
LEMMA InsertLine ==
    ASSUME IInv, Insert
    PROVE  UNCHANGED Line!vars
  <1>0. OInv
    BY ExactIsOrdered
  <1>1. /\ pc \in {"append", "insert"} /\ now' = now /\ StartTime' = StartTime
        /\ EndTime' = [EndTime EXCEPT ![layer] = arg[layer].endTime]
        /\ arg' = [arg EXCEPT ![layer] = NoArg]
        /\ pc' = IF layer = 0 THEN "idle" ELSE "insert"
        /\ layer' = IF layer = 0 THEN 0 ELSE layer - 1
    BY DEF Insert, clockVars
  <1>2. layer \in Layers /\ layer \in Nat
    BY <1>0, WaitingIs
  <1>3. /\ \A k \in Layers \ {layer} : Pieces(k)' = Pieces(k)
        /\ \A k \in Layers : k = layer => Pieces(k)' = Pieces(k) \union {Inserted(k)}
    BY <1>0, PiecesInsert
  <1>4. TakenOut = {} /\ TakenOut' = {}
    BY <1>1 DEF TakenOut
  <1>5. Waiting = Waiting' \union {Inserted(layer)}
    <2>1. Waiting = {Inserted(l) : l \in 0 .. layer}
      BY <1>0, <1>1, WaitingIs
    <2>2. CASE layer = 0
      <3>1. Waiting' = {} /\ 0 .. layer = {layer}
        BY <1>1, <2>2 DEF Waiting
      <3>. QED BY <2>1, <3>1
    <2>3. CASE layer # 0
      <3>. DEFINE w(l) == [from |-> EndTime'[l], until |-> arg'[l].endTime, samples |-> arg'[l].axis]
      <3>1. Waiting' = {w(l) : l \in 0 .. layer - 1}
        BY <1>1, <2>3 DEF Waiting
      <3>2. DOMAIN arg = Layers /\ DOMAIN EndTime = Layers
        BY <1>0 DEF OInv, TypeOK
      <3>3. \A l \in 0 .. layer - 1 : l \in Layers /\ l # layer
        BY <1>2, LayerAssumption DEF Layers
      <3>4. \A l \in 0 .. layer - 1 : w(l) = Inserted(l)
        BY <1>1, <3>2, <3>3 DEF Inserted
      <3>5. /\ \A l \in 0 .. layer : l = layer \/ l \in 0 .. layer - 1
            /\ \A l \in 0 .. layer - 1 : l \in 0 .. layer
            /\ layer \in 0 .. layer
        BY <1>2
      <3>. HIDE DEF w
      <3>. QED BY <2>1, <3>1, <3>4, <3>5
    <2>. QED BY <2>2, <2>3
  <1>6. Segments' = Segments
    <2>1. \A s : (\E k \in Layers : s \in Pieces(k)')
                 <=> (\E k \in Layers : s \in Pieces(k)) \/ s = Inserted(layer)
      <3>1. ASSUME NEW s, NEW k \in Layers, s \in Pieces(k)'
            PROVE  (\E j \in Layers : s \in Pieces(j)) \/ s = Inserted(layer)
        BY <1>3, <3>1
      <3>2. ASSUME NEW s, NEW k \in Layers, s \in Pieces(k)
            PROVE  \E j \in Layers : s \in Pieces(j)'
        BY <1>3, <3>2
      <3>3. ASSUME NEW s, s = Inserted(layer)
            PROVE  \E j \in Layers : s \in Pieces(j)'
        <4>1. PICK j \in Layers : j = layer
          BY <1>2
        <4>2. s \in Pieces(j)'
          BY <1>3, <3>3, <4>1
        <4>. QED BY <4>2
      <3>. QED BY <3>1, <3>2, <3>3
    <2>2. ASSUME NEW s PROVE s \in Segments' <=> s \in Segments
      BY <1>4, <1>5, <2>1, SegmentsAre
    <2>. QED BY <2>2
  <1>. QED BY <1>1, <1>6 DEF Line!vars

\* A step that changes nothing changes no segment.
LEMMA StutterLine ==
    ASSUME UNCHANGED vars
    PROVE  UNCHANGED Line!vars
  <1>1. /\ StartTime' = StartTime /\ EndTime' = EndTime /\ RingTimes' = RingTimes
        /\ RingAxes' = RingAxes /\ RingHead' = RingHead /\ RingTail' = RingTail /\ Empty' = Empty
        /\ pc' = pc /\ layer' = layer /\ arg' = arg /\ merged' = merged /\ now' = now
    BY DEF vars, ringVars, callVars, clockVars
  <1>2. \A k : Size(k)' = Size(k)
    BY <1>1 DEF Size, Reduced
  <1>3. \A k, i : Slot(k, i)' = Slot(k, i) /\ Bound(k, i)' = Bound(k, i)
    BY <1>1 DEF Slot, Bound
  <1>4. ASSUME NEW k \in Layers PROVE Pieces(k)' = Pieces(k)
    BY <1>1, <1>2, <1>3 DEF Pieces
  <1>5. TakenOut' = TakenOut /\ Waiting' = Waiting
    BY <1>1 DEF TakenOut, Waiting
  <1>6. ASSUME NEW s PROVE s \in Segments' <=> s \in Segments
    BY <1>4, <1>5, SegmentsAre
  <1>7. Segments' = Segments
    BY <1>6
  <1>. QED BY <1>1, <1>7 DEF Line!vars

\* New layers are an empty line.
LEMMA InitLine == Init => Line!Init
  <1>. SUFFICES ASSUME Init PROVE Line!Init
    OBVIOUS
  <1>1. ASSUME NEW l \in Layers PROVE Pieces(l) = {}
    <2>1. Size(l) = 0
      BY DEF Init, EachLayer, Size
    <2>2. 1 .. 0 = {}
      OBVIOUS
    <2>. QED BY <2>1, <2>2 DEF Pieces
  <1>2. TakenOut = {} /\ Waiting = {}
    BY DEF Init, TakenOut, Waiting
  <1>3. \A s : s \notin Segments
    BY <1>1, <1>2, SegmentsAre
  <1>4. StartTime[NumLayers - 1] = 0 /\ now = 0
    BY LayerAssumption DEF Init, EachLayer, Layers
  <1>. QED BY <1>3, <1>4 DEF Line!Init

\* Whatever the number of layers, their lengths and their ratios, the layers
\* are one line of history: Stat.Append extends it at the new end, Reduce
\* merges neighbours, the last layer forgets the oldest segment, and nothing
\* else happens to it.
THEOREM ImplementsLine == Spec => ImplementsTimeline
  <1>1. ASSUME IInv, [Next]_vars PROVE [Line!Next]_(Line!vars)
    <2>1. ASSUME NEW t \in 1 .. MaxTime, StatAppend(t) PROVE Line!Next
      BY <1>1, <2>1, SampleLine DEF Line!Next
    <2>2. CASE DropOldest
      BY <1>1, <2>2, DropOldestLine DEF Line!Next
    <2>3. CASE ReduceOne
      BY <1>1, <2>3, ReduceOneLine DEF Line!Next
    <2>4. CASE HandOver
      BY <1>1, <2>4, HandOverLine
    <2>5. CASE Insert
      BY <1>1, <2>5, InsertLine
    <2>6. CASE UNCHANGED vars
      BY <2>6, StutterLine
    <2>. QED BY <1>1, <2>1, <2>2, <2>3, <2>4, <2>5, <2>6 DEF Next
  <1>. QED BY <1>1, InitLine, LayersCorrect, PTL DEF Spec, ImplementsTimeline, Line!Spec

\* A new sample keeps the line in one piece ...
LEMMA ExtendOneLine ==
    ASSUME Line!OneLine, NEW t \in 1 .. MaxTime, Line!Extend(t)
    PROVE  Line!OneLine'
  <1>. DEFINE o == StartTime[NumLayers - 1]
              c == [from |-> now, until |-> t, samples |-> {t}]
  <1>1. /\ t > now /\ now' = t /\ o' = o /\ Segments' = Segments \union {c}
    BY DEF Line!Extend
  <1>2. c.from = now /\ c.until = t
    OBVIOUS
  <1>3. /\ o \in Nat /\ now \in Nat /\ t \in Nat /\ o <= now
        /\ \A s \in Segments : /\ s.from \in Nat /\ s.until \in Nat
                               /\ o <= s.from /\ s.from < s.until /\ s.until <= now
        /\ \A s, r \in Segments : s = r \/ s.until <= r.from \/ r.until <= s.from
        /\ \A m \in o + 1 .. now : \E s \in Segments : s.from < m /\ m <= s.until
    BY LayerAssumption DEF Line!OneLine, Line!In
  <1>. HIDE DEF c
  <1>4. \A s \in Segments' : s \in Segments \/ s = c
    BY <1>1
  <1>5. \A s \in Segments' : /\ s.from \in Nat /\ s.until \in Nat
                             /\ o <= s.from /\ s.from < s.until /\ s.until <= t
    <2>1. ASSUME NEW s \in Segments
          PROVE  /\ s.from \in Nat /\ s.until \in Nat
                 /\ o <= s.from /\ s.from < s.until /\ s.until <= t
      <3>1. /\ s.from \in Nat /\ s.until \in Nat
            /\ o <= s.from /\ s.from < s.until /\ s.until <= now
        BY <1>3
      <3>. HIDE DEF o
      <3>. QED BY <1>1, <1>3, <3>1
    <2>2. /\ c.from \in Nat /\ c.until \in Nat
          /\ o <= c.from /\ c.from < c.until /\ c.until <= t
      BY <1>1, <1>2, <1>3
    <2>. HIDE DEF o
    <2>. QED BY <1>4, <2>1, <2>2
  <1>6. \A s, r \in Segments' : s = r \/ s.until <= r.from \/ r.until <= s.from
    BY <1>2, <1>3, <1>4
  <1>7. ASSUME NEW m \in o + 1 .. t PROVE \E s \in Segments' : s.from < m /\ m <= s.until
    <2>1. m \in o + 1 .. now \/ (now < m /\ m <= t)
      BY <1>1, <1>3
    <2>2. c \in Segments' /\ \A s \in Segments : s \in Segments'
      BY <1>1
    <2>. QED BY <1>2, <1>3, <2>1, <2>2
  <1>8. o' \in Nat /\ now' \in Nat /\ o' <= now'
    BY <1>1, <1>3
  <1>. HIDE DEF o
  <1>9. /\ \A s \in Segments' : /\ s.from \in Nat /\ s.until \in Nat
                                /\ o' <= s.from /\ s.from < s.until /\ s.until <= now'
        /\ \A m \in o' + 1 .. now' : \E s \in Segments' : s.from < m /\ m <= s.until
    BY <1>1, <1>5, <1>7
  <1>. QED BY <1>6, <1>8, <1>9 DEF Line!OneLine, Line!In, o

\* ... so does the merging of two neighbours ...
LEMMA CoarsenOneLine ==
    ASSUME Line!OneLine, NEW a \in Segments, NEW b \in Segments, Line!Coarsen(a, b)
    PROVE  Line!OneLine'
  <1>. DEFINE o == StartTime[NumLayers - 1]
              c == [from |-> a.from, until |-> b.until, samples |-> a.samples \union b.samples]
  <1>1. /\ a.until = b.from /\ now' = now /\ o' = o
        /\ Segments' = (Segments \ {a, b}) \union {c}
    BY DEF Line!Coarsen
  <1>2. c.from = a.from /\ c.until = b.until
    OBVIOUS
  <1>3. /\ o \in Nat /\ now \in Nat /\ o <= now
        /\ \A s \in Segments : /\ s.from \in Nat /\ s.until \in Nat
                               /\ o <= s.from /\ s.from < s.until /\ s.until <= now
        /\ \A s, r \in Segments : s = r \/ s.until <= r.from \/ r.until <= s.from
        /\ \A m \in o + 1 .. now : \E s \in Segments : s.from < m /\ m <= s.until
    BY DEF Line!OneLine, Line!In
  <1>. HIDE DEF c, o
  <1>4. \A s \in Segments' : s = c \/ (s \in Segments /\ s # a /\ s # b)
    BY <1>1
  <1>5. /\ a.from \in Nat /\ b.until \in Nat /\ a.until \in Nat /\ b.from \in Nat
        /\ a.from < a.until /\ b.from < b.until /\ o <= a.from /\ b.until <= now
    BY <1>3
  <1>6. \A s \in Segments' : /\ s.from \in Nat /\ s.until \in Nat
                             /\ o <= s.from /\ s.from < s.until /\ s.until <= now
    <2>1. /\ c.from \in Nat /\ c.until \in Nat
          /\ o <= c.from /\ c.from < c.until /\ c.until <= now
      BY <1>1, <1>2, <1>5
    <2>. QED BY <1>3, <1>4, <2>1
  <1>7. \A s \in Segments : s # a /\ s # b => s.until <= a.from \/ b.until <= s.from
    <2>. SUFFICES ASSUME NEW s \in Segments, s # a, s # b
                  PROVE  s.until <= a.from \/ b.until <= s.from
      OBVIOUS
    <2>1. s.from \in Nat /\ s.until \in Nat /\ s.from < s.until
      BY <1>3
    <2>2. s.until <= a.from \/ a.until <= s.from
      BY <1>3
    <2>3. s.until <= b.from \/ b.until <= s.from
      BY <1>3
    <2>. QED BY <1>1, <1>5, <2>1, <2>2, <2>3
  <1>8. \A s, r \in Segments' : s = r \/ s.until <= r.from \/ r.until <= s.from
    BY <1>2, <1>3, <1>4, <1>7
  <1>9. ASSUME NEW m \in o + 1 .. now PROVE \E s \in Segments' : s.from < m /\ m <= s.until
    <2>1. PICK s \in Segments : s.from < m /\ m <= s.until
      BY <1>3
    <2>2. CASE s = a \/ s = b
      <3>1. m \in Int /\ c \in Segments'
        BY <1>1, <1>3
      <3>2. c.from < m /\ m <= c.until
        BY <1>1, <1>2, <1>5, <2>1, <2>2, <3>1
      <3>. QED BY <3>1, <3>2
    <2>3. CASE s # a /\ s # b
      <3>1. s \in Segments'
        BY <1>1, <2>3
      <3>. QED BY <2>1, <3>1
    <2>. QED BY <2>2, <2>3
  <1>10. /\ o' \in Nat /\ now' \in Nat /\ o' <= now'
         /\ \A s \in Segments' : /\ s.from \in Nat /\ s.until \in Nat
                                 /\ o' <= s.from /\ s.from < s.until /\ s.until <= now'
         /\ \A m \in o' + 1 .. now' : \E s \in Segments' : s.from < m /\ m <= s.until
    BY <1>1, <1>3, <1>6, <1>9
  <1>. QED BY <1>8, <1>10 DEF Line!OneLine, Line!In, o

\* ... and the loss of the oldest segment.
LEMMA ForgetOneLine ==
    ASSUME Line!OneLine, NEW b \in Segments, Line!Forget(b)
    PROVE  Line!OneLine'
  <1>. DEFINE o == StartTime[NumLayers - 1]
  <1>1. b.from = o /\ now' = now /\ o' = b.until /\ Segments' = Segments \ {b}
    BY DEF Line!Forget
  <1>2. /\ o \in Nat /\ now \in Nat /\ o <= now
        /\ \A s \in Segments : /\ s.from \in Nat /\ s.until \in Nat
                               /\ o <= s.from /\ s.from < s.until /\ s.until <= now
        /\ \A s, r \in Segments : s = r \/ s.until <= r.from \/ r.until <= s.from
        /\ \A m \in o + 1 .. now : \E s \in Segments : s.from < m /\ m <= s.until
    BY DEF Line!OneLine, Line!In
  <1>. HIDE DEF o
  <1>3. b.until \in Nat /\ o < b.until /\ b.until <= now
    BY <1>1, <1>2
  <1>4. \A s \in Segments' : s \in Segments /\ s # b
    BY <1>1
  <1>5. ASSUME NEW s \in Segments' PROVE b.until <= s.from
    <2>1. s.from \in Nat /\ s.until \in Nat /\ s.from < s.until /\ o <= s.from
      BY <1>2, <1>4
    <2>2. s.until <= b.from \/ b.until <= s.from
      BY <1>2, <1>4
    <2>. QED BY <1>1, <1>2, <2>1, <2>2
  <1>6. ASSUME NEW m \in b.until + 1 .. now PROVE \E s \in Segments' : s.from < m /\ m <= s.until
    <2>1. m \in o + 1 .. now /\ m \in Int /\ ~(m <= b.until)
      BY <1>2, <1>3
    <2>2. PICK s \in Segments : s.from < m /\ m <= s.until
      BY <1>2, <2>1
    <2>3. s \in Segments'
      BY <1>1, <2>1, <2>2
    <2>. QED BY <2>2, <2>3
  <1>7. /\ o' \in Nat /\ now' \in Nat /\ o' <= now'
        /\ \A s \in Segments' : /\ s.from \in Nat /\ s.until \in Nat
                                /\ o' <= s.from /\ s.from < s.until /\ s.until <= now'
        /\ \A s, r \in Segments' : s = r \/ s.until <= r.from \/ r.until <= s.from
        /\ \A m \in o' + 1 .. now' : \E s \in Segments' : s.from < m /\ m <= s.until
    <2>1. /\ o' \in Nat /\ now' \in Nat /\ o' <= now'
      BY <1>1, <1>2, <1>3
    <2>2. \A s \in Segments' : /\ s.from \in Nat /\ s.until \in Nat
                               /\ o' <= s.from /\ s.from < s.until /\ s.until <= now'
      BY <1>1, <1>2, <1>4, <1>5
    <2>3. \A s, r \in Segments' : s = r \/ s.until <= r.from \/ r.until <= s.from
      BY <1>2, <1>4
    <2>4. \A m \in o' + 1 .. now' : \E s \in Segments' : s.from < m /\ m <= s.until
      BY <1>1, <1>6
    <2>. QED BY <2>1, <2>2, <2>3, <2>4
  <1>. QED BY <1>7 DEF Line!OneLine, Line!In, o

\* On a line in one piece, every moment is in one segment and in no other.
LEMMA OneLineCovered ==
    ASSUME Line!OneLine
    PROVE  Line!Covered
  <1>. DEFINE o == StartTime[NumLayers - 1]
  <1>1. /\ o \in Nat /\ now \in Nat
        /\ \A s \in Segments : s.from \in Nat /\ s.until \in Nat
        /\ \A s, r \in Segments : s = r \/ s.until <= r.from \/ r.until <= s.from
        /\ \A m \in o + 1 .. now : \E s \in Segments : s.from < m /\ m <= s.until
    BY DEF Line!OneLine, Line!In
  <1>. HIDE DEF o
  <1>2. ASSUME NEW m \in o + 1 .. now
        PROVE  \E s \in Segments : /\ s.from < m /\ m <= s.until
                                   /\ \A r \in Segments : r.from < m /\ m <= r.until => r = s
    <2>1. PICK s \in Segments : s.from < m /\ m <= s.until
      BY <1>1
    <2>2. ASSUME NEW r \in Segments, r.from < m, m <= r.until PROVE r = s
      <3>1. /\ m \in Int /\ s.from \in Nat /\ s.until \in Nat /\ r.from \in Nat /\ r.until \in Nat
            /\ (s = r \/ s.until <= r.from \/ r.until <= s.from)
        BY <1>1
      <3>. QED BY <2>1, <2>2, <3>1
    <2>. QED BY <2>1, <2>2
  <1>. QED BY <1>2 DEF Line!Covered, Line!In, o

\* Whatever the number of layers, their lengths and their ratios, the history
\* from the oldest time kept to the newest has no gap and no overlap, at every
\* step of a cascade: each moment is in one axis only.
THEOREM LineCovered == Spec => []Line!Covered
  <1>1. Init => Line!OneLine
    <2>. SUFFICES ASSUME Init PROVE Line!OneLine
      OBVIOUS
    <2>1. Line!Init
      BY InitLine
    <2>2. StartTime[NumLayers - 1] = 0 /\ now = 0 /\ Segments = {}
      BY <2>1 DEF Line!Init
    <2>3. 0 + 1 .. 0 = {}
      OBVIOUS
    <2>. QED BY <2>2, <2>3 DEF Line!OneLine
  <1>2. ASSUME Line!OneLine, [Line!Next]_(Line!vars) PROVE Line!OneLine'
    <2>1. ASSUME NEW t \in 1 .. MaxTime, Line!Extend(t) PROVE Line!OneLine'
      BY <1>2, <2>1, ExtendOneLine
    <2>2. ASSUME NEW a \in Segments, NEW b \in Segments, Line!Coarsen(a, b) PROVE Line!OneLine'
      BY <1>2, <2>2, CoarsenOneLine
    <2>3. ASSUME NEW b \in Segments, Line!Forget(b) PROVE Line!OneLine'
      BY <1>2, <2>3, ForgetOneLine
    <2>4. CASE UNCHANGED Line!vars
      <3>1. StartTime[NumLayers - 1]' = StartTime[NumLayers - 1] /\ now' = now /\ Segments' = Segments
        BY <2>4 DEF Line!vars
      <3>. QED BY <1>2, <3>1 DEF Line!OneLine, Line!In
    <2>. QED BY <1>2, <2>1, <2>2, <2>3, <2>4 DEF Line!Next
  <1>3. Line!OneLine => Line!Covered
    BY OneLineCovered
  <1>. QED BY <1>1, <1>2, <1>3, ImplementsLine, PTL DEF Spec, ImplementsTimeline, Line!Spec

-----------------------------------------------------------------------------
(***************************************************************************)
(* A reader gets the axes that overlap its interval.                       *)
(***************************************************************************)
\* sort.Search finds the first index with the property.
LEMMA SearchFirst ==
    ASSUME NEW n \in Nat, NEW p
    PROVE  /\ Search(n, p) \in 0 .. n
           /\ Search(n, p) = n \/ p[Search(n, p)]
           /\ \A j \in 0 .. Search(n, p) - 1 : ~p[j]
  <1>. DEFINE S == {i \in 0 .. n : i = n \/ p[i]}
  <1>1. S \in SUBSET Nat /\ n \in S
    OBVIOUS
  <1>2. PICK i \in S : \A j \in S : i <= j
    BY <1>1, Least
  <1>3. i \in 0 .. n /\ (i = n \/ p[i])
    BY <1>2
  <1>4. \A j \in 0 .. i - 1 : ~p[j]
    <2>1. ASSUME NEW j \in 0 .. i - 1, p[j] PROVE FALSE
      <3>1. j \in 0 .. n /\ ~(i <= j)
        BY <1>3
      <3>2. j \in S
        BY <2>1, <3>1
      <3>. QED BY <1>2, <3>1, <3>2
    <2>. QED BY <2>1
  <1>. QED BY <1>3, <1>4 DEF Search

\* The n elements of a ring of layer l from a slot on, going round.
IsSlice(seq, l, ring, from, n) ==
    /\ Len(seq) = n
    /\ \A k \in 1 .. n : seq[k] = ring[(from + (k - 1)) % LayerLen[l]]

\* A slice of a ring is its elements from a slot on, once round at most.
LEMMA RingSliceIs ==
    ASSUME NEW l \in Layers, LayerLen[l] \in Nat \ {0}
    PROVE  \A S : \A ring \in [0 .. LayerLen[l] - 1 -> S] :
             \A from \in 0 .. LayerLen[l] - 1 : \A n \in 1 .. LayerLen[l] :
                /\ RingSlice(l, ring, from, n) \in Seq(S)
                /\ IsSlice(RingSlice(l, ring, from, n), l, ring, from, n)
  <1>. TAKE S
  <1>. TAKE ring \in [0 .. LayerLen[l] - 1 -> S]
  <1>. TAKE from \in 0 .. LayerLen[l] - 1
  <1>. TAKE n \in 1 .. LayerLen[l]
  <1>. DEFINE m == LayerLen[l]
  <1>0. m \in Nat \ {0}
    OBVIOUS
  <1>1. CASE from + n <= m
    <2>. DEFINE f == [k \in 1 .. n |-> ring[from + k - 1]]
    <2>1. \A k \in 1 .. n : from + k - 1 \in 0 .. m - 1 /\ from + k - 1 = from + (k - 1)
      BY <1>0, <1>1
    <2>2. f \in Seq(S) /\ Len(f) = n
      BY <2>1
    <2>3. \A k \in 1 .. n : (from + (k - 1)) % m = from + (k - 1)
      BY <1>0, <2>1, ModOnce
    <2>4. RingSlice(l, ring, from, n) = f
      BY <1>1 DEF RingSlice
    <2>. QED BY <2>1, <2>2, <2>3, <2>4 DEF IsSlice
  <1>2. CASE ~(from + n <= m)
    <2>0. PICK a \in Nat, c \in Nat : a = m - from /\ c = from + n - m
      BY <1>0, <1>2
    <2>. DEFINE f == [k \in 1 .. a |-> ring[from + k - 1]]
                g == [k \in 1 .. c |-> ring[k - 1]]
    <2>1. /\ \A k \in 1 .. a : from + k - 1 \in 0 .. m - 1 /\ from + k - 1 = from + (k - 1)
          /\ \A k \in 1 .. c : k - 1 \in 0 .. m - 1
          /\ a + c = n /\ m = from + a
      <3>1. n \in Nat /\ from \in Nat /\ m \in Nat /\ n <= m /\ from < m
        BY <1>0
      <3>. HIDE DEF m
      <3>2. a + c = n /\ m = from + a
        BY <2>0, <3>1
      <3>3. \A k \in 1 .. a : from + k - 1 \in 0 .. m - 1 /\ from + k - 1 = from + (k - 1)
        BY <2>0, <3>1
      <3>4. \A k \in 1 .. c : k - 1 \in 0 .. m - 1
        BY <2>0, <3>1
      <3>. QED BY <3>2, <3>3, <3>4
    <2>2. f \in Seq(S) /\ Len(f) = a /\ g \in Seq(S) /\ Len(g) = c
      <3>1. f \in Seq(S) /\ Len(f) = a
        BY <2>1
      <3>2. g \in Seq(S) /\ Len(g) = c
        BY <2>1
      <3>. QED BY <3>1, <3>2
    <2>3. RingSlice(l, ring, from, n) = f \o g
      BY <1>2, <2>0 DEF RingSlice
    <2>4. /\ f \o g \in Seq(S) /\ Len(f \o g) = n
          /\ \A k \in 1 .. n : (f \o g)[k] = IF k <= a THEN f[k] ELSE g[k - a]
      <3>1. \A u, v \in Seq(S) : /\ u \o v \in Seq(S) /\ Len(u \o v) = Len(u) + Len(v)
                                 /\ \A k \in 1 .. Len(u) + Len(v) :
                                       (u \o v)[k] = IF k <= Len(u) THEN u[k] ELSE v[k - Len(u)]
        BY ConcatProperties
      <3>. HIDE DEF f, g
      <3>. QED BY <2>1, <2>2, <3>1
    <2>5. ASSUME NEW k \in 1 .. n PROVE (f \o g)[k] = ring[(from + (k - 1)) % m]
      <3>1. CASE k <= a
        <4>1. k \in 1 .. a
          BY <3>1
        <4>2. (from + (k - 1)) % m = from + k - 1
          BY <1>0, <2>1, <4>1, ModOnce
        <4>3. (f \o g)[k] = f[k]
          BY <2>4, <3>1
        <4>. QED BY <4>1, <4>2, <4>3
      <3>2. CASE ~(k <= a)
        <4>1. k - a \in 1 .. c /\ k - a - 1 \in 0 .. m - 1 /\ from + (k - 1) = (k - a - 1) + m
          <5>1. n \in Nat /\ from \in Nat /\ m \in Nat /\ n <= m /\ k \in 1 .. n
            BY <1>0
          <5>. HIDE DEF m
          <5>. QED BY <2>0, <2>1, <3>2, <5>1
        <4>2. (from + (k - 1)) % m = k - a - 1
          BY <1>0, <4>1, ModOnce
        <4>3. (f \o g)[k] = g[k - a]
          BY <2>4, <3>2
        <4>. QED BY <4>1, <4>2, <4>3
      <3>. QED BY <3>1, <3>2
    <2>. HIDE DEF f, g
    <2>. QED BY <2>3, <2>4, <2>5 DEF IsSlice
  <1>. QED BY <1>1, <1>2

\* What the interval from s to e meets of layer l are its axes from the b-th on,
\* n of them, and Range puts them behind what the older layers returned.
Adds(l, s, e, older) ==
    \E b \in Nat, n \in Nat \ {0} :
       /\ b + n <= Size(l)
       /\ \A i \in 1 .. Size(l) : i \in b + 1 .. b + n <=> Bound(l, i) > s /\ Bound(l, i - 1) < e
       /\ \E times \in Seq(Nat), axes \in Seq(Axis) :
             /\ RangeLayer(l, s, e, older) =
                  [times |-> (IF older.times = <<>> THEN <<Bound(l, b)>> ELSE older.times)
                             \o times,
                   axes  |-> older.axes \o axes]
             /\ Len(times) = n /\ Len(axes) = n
             /\ \A k \in 1 .. n : /\ times[k] = Bound(l, b + k)
                                  /\ axes[k] = RingAxes[l][Slot(l, b + k - 1)]

\* What Range adds for a layer that the interval meets.
LEMMA LayerPart ==
    ASSUME OInv, pc = "idle", NEW l \in Layers, NEW s \in Nat, NEW e \in Nat, s < e, NEW older,
           ~Empty[l], s < EndTime[l], e > StartTime[l]
    PROVE  Adds(l, s, e, older)
  <1>0. /\ LayerLen[l] \in Nat \ {0} /\ RingHead[l] \in 0 .. LayerLen[l] - 1
        /\ RingTimes[l] \in [0 .. LayerLen[l] - 1 -> Nat]
        /\ RingAxes[l] \in [0 .. LayerLen[l] - 1 -> Axis]
        /\ StartTime[l] \in Nat /\ EndTime[l] \in Nat
    BY LayerAssumption, TimeNat DEF OInv, TypeOK
  <1>1. PICK size \in Nat : size = Size(l) /\ 1 <= size /\ size <= LayerLen[l]
    <2>1. Size(l) \in 0 .. LayerLen[l] /\ Size(l) # 0
      BY SizeRange DEF OInv, Reduced
    <2>. QED BY <1>0, <2>1
  <1>2. \A i \in 0 .. size - 1 : RingTimes[l][Slot(l, i)] = Bound(l, i + 1)
    <2>. SUFFICES ASSUME NEW i \in 0 .. size - 1 PROVE RingTimes[l][Slot(l, i)] = Bound(l, i + 1)
      OBVIOUS
    <2>1. i + 1 # 0 /\ (i + 1) - 1 = i
      OBVIOUS
    <2>. QED BY <2>1 DEF Bound
  <1>3. /\ \A i \in 0 .. size : Bound(l, i) \in Nat
        /\ \A i, j \in 0 .. size : i < j => Bound(l, i) < Bound(l, j)
        /\ Bound(l, size) = EndTime[l] /\ Bound(l, 0) = StartTime[l]
    BY <1>1, BoundRange, TimeNat DEF OInv, RingSorted, Bound
  <1>. DEFINE at == [i \in 0 .. size - 1 |-> RingTimes[l][Slot(l, i)]]
              later == [i \in 0 .. size - 1 |-> at[i] > s]
              late == [i \in 0 .. size - 1 |-> at[i] >= e]
  <1>4. \A i \in 0 .. size - 1 : /\ later[i] <=> Bound(l, i + 1) > s
                                 /\ late[i] <=> Bound(l, i + 1) >= e
    BY <1>2
  <1>. HIDE DEF later, late
  <1>5. PICK b : /\ b = Search(size, later) /\ b \in 0 .. size /\ (b = size \/ later[b])
                 /\ \A j \in 0 .. b - 1 : ~later[j]
    BY SearchFirst
  <1>6. PICK stop : /\ stop = Search(size, late) /\ stop \in 0 .. size /\ (stop = size \/ late[stop])
                    /\ \A j \in 0 .. stop - 1 : ~late[j]
    BY SearchFirst
  <1>7. b < size /\ Bound(l, b + 1) > s
    <2>1. size - 1 \in 0 .. size - 1 /\ (size - 1) + 1 = size
      BY <1>1
    <2>2. later[size - 1]
      BY <1>3, <1>4, <2>1
    <2>3. b # size
      BY <1>5, <2>1, <2>2
    <2>. QED BY <1>4, <1>5, <2>3
  <1>8. b <= stop
    <2>1. CASE stop = size
      BY <1>5, <1>7, <2>1
    <2>2. CASE stop # size
      <3>1. stop \in 0 .. size - 1 /\ Bound(l, stop + 1) >= e /\ stop + 1 \in 0 .. size
        BY <1>4, <1>6, <2>2
      <3>2. Bound(l, stop + 1) > s
        BY <1>3, <3>1
      <3>3. ~(stop \in 0 .. b - 1)
        BY <1>4, <1>5, <3>1, <3>2
      <3>. QED BY <1>5, <1>6, <3>3
    <2>. QED BY <2>1, <2>2
  <1>9. PICK n \in Nat \ {0} : n = Included(stop, size) - b /\ b + n <= size
                               /\ b + n = Included(stop, size)
    <2>1. CASE stop = size
      BY <1>5, <1>7, <2>1 DEF Included
    <2>2. CASE stop # size
      BY <1>5, <1>6, <1>8, <2>2 DEF Included
    <2>. QED BY <2>1, <2>2
  <1>10. \A i \in 1 .. size : i \in b + 1 .. b + n <=> Bound(l, i) > s /\ Bound(l, i - 1) < e
    <2>. SUFFICES ASSUME NEW i \in 1 .. size
                  PROVE  i \in b + 1 .. b + n <=> Bound(l, i) > s /\ Bound(l, i - 1) < e
      OBVIOUS
    <2>0. i - 1 \in 0 .. size - 1 /\ (i - 1) + 1 = i /\ i \in Int
          /\ b \in Nat /\ stop \in Nat /\ size \in Nat
      BY <1>5, <1>6
    <2>1. Bound(l, i) > s <=> i >= b + 1
      <3>1. ASSUME i >= b + 1 PROVE Bound(l, i) > s
        <4>1. CASE i = b + 1
          BY <1>7, <4>1
        <4>2. CASE i # b + 1
          <5>1. b + 1 \in 0 .. size /\ i \in 0 .. size /\ b + 1 < i
            BY <2>0, <3>1, <4>2
          <5>2. Bound(l, b + 1) < Bound(l, i) /\ Bound(l, b + 1) \in Nat /\ Bound(l, i) \in Nat
            BY <1>3, <5>1
          <5>. QED BY <1>7, <5>2
        <4>. QED BY <4>1, <4>2
      <3>2. ASSUME ~(i >= b + 1) PROVE ~(Bound(l, i) > s)
        <4>1. i - 1 \in 0 .. b - 1
          BY <2>0, <3>2
        <4>2. ~later[i - 1]
          BY <1>5, <4>1
        <4>. QED BY <1>4, <2>0, <4>2
      <3>. QED BY <3>1, <3>2
    <2>2. Bound(l, i - 1) < e <=> i <= b + n
      <3>1. CASE i = 1
        <4>1. i - 1 = 0 /\ i <= b + n
          BY <1>9, <2>0, <3>1
        <4>. QED BY <1>3, <4>1
      <3>2. CASE i # 1
        <4>1. i - 2 \in 0 .. size - 1 /\ (i - 2) + 1 = i - 1 /\ i - 1 \in 0 .. size
          BY <2>0, <3>2
        <4>2. late[i - 2] <=> Bound(l, i - 1) >= e
          BY <1>4, <4>1
        <4>3. Bound(l, i - 1) \in Nat
          BY <1>3, <4>1
        <4>4. ASSUME i <= b + n PROVE ~late[i - 2]
          <5>1. i - 2 \in 0 .. stop - 1
            <6>1. CASE stop = size
              BY <2>0, <3>2, <6>1
            <6>2. CASE stop # size
              BY <1>9, <2>0, <3>2, <4>4, <6>2 DEF Included
            <6>. QED BY <6>1, <6>2
          <5>. QED BY <1>6, <5>1
        <4>5. ASSUME ~(i <= b + n) PROVE late[i - 2]
          <5>1. stop # size /\ b + n = stop + 1
            BY <1>9, <2>0, <4>5 DEF Included
          <5>2. stop \in 0 .. size - 1 /\ late[stop] /\ stop + 1 \in 0 .. size
            BY <1>6, <2>0, <5>1
          <5>3. Bound(l, stop + 1) >= e
            BY <1>4, <5>2
          <5>4. stop + 1 = i - 1 \/ stop + 1 < i - 1
            BY <2>0, <4>5, <5>1
          <5>5. stop + 1 < i - 1 => Bound(l, stop + 1) < Bound(l, i - 1)
            BY <1>3, <4>1, <5>2
          <5>6. Bound(l, stop + 1) \in Nat
            BY <1>3, <5>2
          <5>7. Bound(l, i - 1) >= e
            BY <4>3, <5>3, <5>4, <5>5, <5>6
          <5>. QED BY <4>2, <5>7
        <4>. QED BY <4>2, <4>3, <4>4, <4>5
      <3>. QED BY <3>1, <3>2
    <2>. QED BY <1>5, <2>0, <2>1, <2>2
  <1>11. PICK from \in 0 .. LayerLen[l] - 1 : from = (RingHead[l] + b) % LayerLen[l]
    BY <1>0, <1>5
  <1>. DEFINE first == IF from = RingHead[l] THEN StartTime[l]
                       ELSE RingTimes[l][(from - 1 + LayerLen[l]) % LayerLen[l]]
              times == RingSlice(l, RingTimes[l], from, n)
              axes == RingSlice(l, RingAxes[l], from, n)
  <1>19. n \in 1 .. LayerLen[l]
    <2>1. b \in Nat /\ size \in Nat /\ LayerLen[l] \in Nat /\ size <= LayerLen[l]
          /\ n \in Nat \ {0} /\ b + n <= size
      BY <1>0, <1>1, <1>5, <1>9
    <2>. QED BY <2>1
  <1>12. first = Bound(l, b)
    <2>1. from = Slot(l, b)
      BY <1>11 DEF Slot
    <2>2. CASE b = 0
      <3>1. from = RingHead[l]
        <4>1. RingHead[l] \in 0 .. LayerLen[l] - 1 /\ LayerLen[l] \in Nat \ {0}
          BY <1>0
        <4>2. RingHead[l] + b = RingHead[l]
          BY <2>2, <4>1
        <4>. QED BY <1>11, <4>1, <4>2, ModOnce
      <3>. QED BY <1>3, <2>2, <3>1
    <2>3. CASE b # 0
      <3>1. b \in 0 .. LayerLen[l] - 1 /\ 0 \in 0 .. LayerLen[l] - 1 /\ b - 1 \in 0 .. LayerLen[l] - 1
            /\ (b - 1) + 1 = b
        <4>1. LayerLen[l] \in Nat /\ b \in Nat /\ b < LayerLen[l]
          BY <1>0, <1>1, <1>5, <1>7
        <4>. QED BY <2>3, <4>1
      <3>2. Slot(l, 0) = RingHead[l]
        BY <1>0, ModOnce DEF Slot
      <3>3. from # RingHead[l]
        BY <2>1, <2>3, <3>1, <3>2, SlotDistinct DEF OInv
      <3>4. (from - 1 + LayerLen[l]) % LayerLen[l] = Slot(l, b - 1)
        <4>. DEFINE m == LayerLen[l]
                    h == RingHead[l]
        <4>1. m \in Nat \ {0} /\ h \in 0 .. m - 1 /\ b \in 1 .. m - 1
          BY <1>0, <2>3, <3>1
        <4>. HIDE DEF m, h
        <4>2. CASE h + b < m
          <5>1. h + b \in 0 .. m - 1 /\ h + (b - 1) \in 0 .. m - 1
                /\ h + b - 1 + m = (h + (b - 1)) + m
            BY <4>1, <4>2
          <5>2. (h + b) % m = h + b /\ (h + (b - 1)) % m = h + (b - 1)
            BY <4>1, <5>1, ModOnce
          <5>3. (h + b - 1 + m) % m = h + (b - 1)
            BY <4>1, <5>1, ModOnce
          <5>4. ((h + b) % m) - 1 + m = h + b - 1 + m
            BY <4>1, <5>1, <5>2
          <5>5. (((h + b) % m) - 1 + m) % m = (h + (b - 1)) % m
            BY <5>2, <5>3, <5>4
          <5>. QED BY <1>11, <5>5 DEF Slot, m, h
        <4>3. CASE ~(h + b < m)
          <5>1. h + b - m \in 0 .. m - 1 /\ h + b = (h + b - m) + m
            BY <4>1, <4>3
          <5>2. (h + b) % m = h + b - m
            BY <4>1, <5>1, ModOnce
          <5>3. ((h + b) % m) - 1 + m = h + (b - 1)
            BY <4>1, <5>2
          <5>4. (((h + b) % m) - 1 + m) % m = (h + (b - 1)) % m
            BY <5>3
          <5>. QED BY <1>11, <5>4 DEF Slot, m, h
        <4>. QED BY <4>2, <4>3
      <3>. QED BY <2>3, <3>3, <3>4 DEF Bound
    <2>. QED BY <2>2, <2>3
  <1>13. ASSUME NEW k \in 1 .. n
         PROVE  /\ b + k - 1 \in 0 .. size - 1 /\ (b + k - 1) + 1 = b + k
                /\ (from + (k - 1)) % LayerLen[l] = Slot(l, b + k - 1)
    <2>1. b + k - 1 \in 0 .. size - 1 /\ (b + k - 1) + 1 = b + k /\ b + k - 1 < LayerLen[l]
      <3>1. b \in Nat /\ size \in Nat /\ LayerLen[l] \in Nat /\ size <= LayerLen[l]
            /\ n \in Nat \ {0} /\ b + n <= size /\ k \in 1 .. n
        BY <1>0, <1>1, <1>5, <1>9
      <3>. QED BY <3>1
    <2>2. (from + (k - 1)) % LayerLen[l] = Slot(l, b + k - 1)
      <3>. DEFINE m == LayerLen[l]
                  h == RingHead[l]
      <3>1. m \in Nat \ {0} /\ h \in 0 .. m - 1 /\ b \in 0 .. m - 1 /\ b + k - 1 \in 0 .. m - 1
        <4>1. b \in Nat /\ size \in Nat /\ b < size /\ size <= m /\ m \in Nat \ {0}
              /\ h \in 0 .. m - 1
          BY <1>0, <1>1, <1>5, <1>7
        <4>2. b + k - 1 \in 0 .. m - 1
          BY <1>0, <1>1, <2>1
        <4>. QED BY <4>1, <4>2
      <3>. HIDE DEF m, h
      <3>2. CASE h + b < m
        <4>1. (h + b) % m = h + b /\ h + b + (k - 1) = h + (b + k - 1)
          BY <3>1, <3>2
        <4>. QED BY <1>11, <4>1 DEF Slot, m, h
      <3>3. CASE ~(h + b < m)
        <4>1. h + b - m \in 0 .. m - 1 /\ h + b = (h + b - m) + m
          BY <3>1, <3>3
        <4>2. (h + b) % m = h + b - m
          BY <3>1, <4>1, ModOnce
        <4>3. /\ (h + b - m) + (k - 1) \in 0 .. m - 1
              /\ h + (b + k - 1) = ((h + b - m) + (k - 1)) + m
          BY <3>1, <3>3
        <4>4. /\ ((h + b - m) + (k - 1)) % m = (h + b - m) + (k - 1)
              /\ (h + (b + k - 1)) % m = (h + b - m) + (k - 1)
          BY <3>1, <4>3, ModOnce
        <4>. QED BY <1>11, <4>2, <4>4 DEF Slot, m, h
      <3>. QED BY <3>2, <3>3
    <2>. QED BY <2>1, <2>2
  <1>14. /\ times \in Seq(Nat) /\ axes \in Seq(Axis) /\ Len(times) = n /\ Len(axes) = n
         /\ \A k \in 1 .. n : times[k] = RingTimes[l][(from + (k - 1)) % LayerLen[l]]
                              /\ axes[k] = RingAxes[l][(from + (k - 1)) % LayerLen[l]]
    <2>1. ASSUME NEW S, NEW ring \in [0 .. LayerLen[l] - 1 -> S]
          PROVE  /\ RingSlice(l, ring, from, n) \in Seq(S)
                 /\ IsSlice(RingSlice(l, ring, from, n), l, ring, from, n)
      <3>1. from \in 0 .. LayerLen[l] - 1 /\ n \in 1 .. LayerLen[l]
        BY <1>11, <1>19
      <3>. QED BY <1>0, <3>1, RingSliceIs, Zenon
    <2>2. times \in Seq(Nat) /\ IsSlice(times, l, RingTimes[l], from, n)
      <3>1. RingTimes[l] \in [0 .. LayerLen[l] - 1 -> Nat]
        BY <1>0
      <3>. QED BY <2>1, <3>1, Zenon
    <2>3. axes \in Seq(Axis) /\ IsSlice(axes, l, RingAxes[l], from, n)
      <3>1. RingAxes[l] \in [0 .. LayerLen[l] - 1 -> Axis]
        BY <1>0
      <3>. QED BY <2>1, <3>1, Zenon
    <2>. HIDE DEF times, axes
    <2>. QED BY <2>2, <2>3 DEF IsSlice
  <1>15. RangeLayer(l, s, e, older) =
           [times |-> (IF older.times = <<>> THEN <<first>> ELSE older.times) \o times,
            axes  |-> older.axes \o axes]
    <2>1. ~(Empty[l] \/ ~(s < EndTime[l] /\ e > StartTime[l])) /\ size = Size(l)
      BY <1>1
    <2>2. b = Search(size, later) /\ stop = Search(size, late) /\ n = Included(stop, size) - b
      BY <1>5, <1>6, <1>9
    <2>. QED BY <1>11, <2>1, <2>2 DEF RangeLayer, later, late
  <1>. HIDE DEF first, times, axes
  <1>16. \A k \in 1 .. n : /\ times[k] = Bound(l, b + k)
                           /\ axes[k] = RingAxes[l][Slot(l, b + k - 1)]
    BY <1>2, <1>13, <1>14
  <1>17. b \in Nat /\ b + n <= Size(l)
    BY <1>1, <1>5, <1>9
  <1>18. \E ts \in Seq(Nat), as \in Seq(Axis) :
            /\ RangeLayer(l, s, e, older) =
                 [times |-> (IF older.times = <<>> THEN <<Bound(l, b)>> ELSE older.times) \o ts,
                  axes  |-> older.axes \o as]
            /\ Len(ts) = n /\ Len(as) = n
            /\ \A k \in 1 .. n : /\ ts[k] = Bound(l, b + k)
                                 /\ as[k] = RingAxes[l][Slot(l, b + k - 1)]
    BY <1>12, <1>14, <1>15, <1>16
  <1>. QED BY <1>1, <1>10, <1>17, <1>18 DEF Adds

\* w is u, m elements, and then v, n elements.
IsConcat(w, S, u, m, v, n) ==
    /\ w \in Seq(S) /\ Len(w) = m + n /\ DOMAIN w = 1 .. m + n
    /\ \A i \in 1 .. m : w[i] = u[i] /\ u[i] \in S
    /\ \A i \in 1 .. n : w[m + i] = v[i] /\ v[i] \in S

\* Elements of a concatenation.
LEMMA Concatenated ==
    ASSUME NEW S, NEW u \in Seq(S), NEW v \in Seq(S), NEW m \in Nat, NEW n \in Nat,
           Len(u) = m, Len(v) = n
    PROVE  IsConcat(u \o v, S, u, m, v, n)
  <1>1. /\ u \o v \in Seq(S) /\ Len(u \o v) = m + n
        /\ \A i \in 1 .. m + n : (u \o v)[i] = IF i <= m THEN u[i] ELSE v[i - m]
    BY ConcatProperties
  <1>2. \A i \in 1 .. m : i \in 1 .. m + n /\ i <= m
    OBVIOUS
  <1>3. \A i \in 1 .. n : m + i \in 1 .. m + n /\ ~(m + i <= m) /\ (m + i) - m = i
    OBVIOUS
  <1>4. \A i \in 1 .. m : (u \o v)[i] = u[i]
    BY <1>1, <1>2
  <1>5. \A i \in 1 .. n : (u \o v)[m + i] = v[i]
    BY <1>1, <1>3
  <1>6. (\A i \in 1 .. m : u[i] \in S) /\ (\A i \in 1 .. n : v[i] \in S)
    OBVIOUS
  <1>7. DOMAIN (u \o v) = 1 .. m + n
    BY <1>1
  <1>. QED BY <1>1, <1>4, <1>5, <1>6, <1>7 DEF IsConcat

\* A plane continued by n columns: the seam is the last time it had before.
Continues(times, axes, m, n, t0, a0, t1, a1) ==
    /\ times \in Seq(Nat) /\ axes \in Seq(Axis)
    /\ Len(times) = m + 1 + n /\ Len(axes) = m + n
    /\ times[m + 1 + n] = t1[n]
    /\ InOrder([times |-> times, axes |-> axes])
    /\ \A p : p \in Columns([times |-> times, axes |-> axes]) <=>
          \/ p \in Columns([times |-> t0, axes |-> a0])
          \/ \E k \in 1 .. n :
                p = [from |-> IF k = 1 THEN t0[m + 1] ELSE t1[k - 1],
                     until |-> t1[k], samples |-> a1[k]]

\* What comes of appending columns to a plane in order.
LEMMA Continued ==
    ASSUME NEW m \in Nat, NEW n \in Nat \ {0},
           NEW t0 \in Seq(Nat), NEW a0 \in Seq(Axis), Len(t0) = m + 1, Len(a0) = m,
           \A i, j \in 1 .. m + 1 : i < j => t0[i] < t0[j],
           NEW t1 \in Seq(Nat), NEW a1 \in Seq(Axis), Len(t1) = n, Len(a1) = n,
           \A i, j \in 1 .. n : i < j => t1[i] < t1[j],
           \A j \in 1 .. n : t0[m + 1] < t1[j]
    PROVE  Continues(t0 \o t1, a0 \o a1, m, n, t0, a0, t1, a1)
  <1>1. PICK times : times = t0 \o t1
    OBVIOUS
  <1>2. PICK axes : axes = a0 \o a1
    OBVIOUS
  <1>3. /\ times \in Seq(Nat) /\ Len(times) = m + 1 + n /\ DOMAIN times = 1 .. m + 1 + n
        /\ \A i \in 1 .. m + 1 : times[i] = t0[i] /\ t0[i] \in Nat
        /\ \A i \in 1 .. n : times[m + 1 + i] = t1[i] /\ t1[i] \in Nat
    <2>1. m + 1 \in Nat /\ n \in Nat
      OBVIOUS
    <2>2. IsConcat(t0 \o t1, Nat, t0, m + 1, t1, n)
      BY <2>1, Concatenated, Zenon
    <2>. QED BY <1>1, <2>2 DEF IsConcat
  <1>4. /\ axes \in Seq(Axis) /\ Len(axes) = m + n /\ DOMAIN axes = 1 .. m + n
        /\ \A i \in 1 .. m : axes[i] = a0[i]
        /\ \A i \in 1 .. n : axes[m + i] = a1[i]
    <2>1. n \in Nat
      OBVIOUS
    <2>2. IsConcat(a0 \o a1, Axis, a0, m, a1, n)
      BY <2>1, Concatenated, Zenon
    <2>. QED BY <1>2, <2>2 DEF IsConcat
  <1>5. ASSUME NEW i \in 1 .. m + 1 + n, NEW j \in 1 .. m + 1 + n, i < j
        PROVE  times[i] < times[j]
    <2>1. CASE j <= m + 1
      <3>1. i \in 1 .. m + 1 /\ j \in 1 .. m + 1
        BY <1>5, <2>1
      <3>. QED BY <1>3, <1>5, <3>1
    <2>2. CASE ~(j <= m + 1) /\ i <= m + 1
      <3>1. PICK c \in 1 .. n : j = m + 1 + c
        <4>1. j - (m + 1) \in 1 .. n /\ j = m + 1 + (j - (m + 1))
          BY <2>2
        <4>. QED BY <4>1
      <3>2. i \in 1 .. m + 1 /\ m + 1 \in 1 .. m + 1 /\ (i < m + 1 \/ i = m + 1)
        BY <2>2
      <3>3. t0[m + 1] < t1[c] /\ (i < m + 1 => t0[i] < t0[m + 1])
        BY <3>2
      <3>4. t0[m + 1] \in Nat /\ t0[i] \in Nat /\ t1[c] \in Nat /\ times[i] = t0[i] /\ times[j] = t1[c]
        BY <1>3, <3>1, <3>2
      <3>. QED BY <3>2, <3>3, <3>4
    <2>3. CASE ~(j <= m + 1) /\ ~(i <= m + 1)
      <3>1. PICK b \in 1 .. n, c \in 1 .. n : i = m + 1 + b /\ j = m + 1 + c
        <4>1. /\ j - (m + 1) \in 1 .. n /\ j = m + 1 + (j - (m + 1))
              /\ i - (m + 1) \in 1 .. n /\ i = m + 1 + (i - (m + 1))
          BY <2>3
        <4>. QED BY <4>1
      <3>2. b < c
        BY <1>5, <3>1
      <3>. QED BY <1>3, <3>1, <3>2
    <2>. QED BY <2>1, <2>2, <2>3
  <1>6. InOrder([times |-> times, axes |-> axes])
    <2>1. axes # <<>> /\ Len(times) = Len(axes) + 1
      BY <1>3, <1>4
    <2>. QED BY <1>3, <1>5, <2>1 DEF InOrder
  <1>7. times[m + 1 + n] = t1[n]
    BY <1>3
  <1>8. ASSUME NEW p
        PROVE  p \in Columns([times |-> times, axes |-> axes]) <=>
                 \/ p \in Columns([times |-> t0, axes |-> a0])
                 \/ \E k \in 1 .. n :
                       p = [from |-> IF k = 1 THEN t0[m + 1] ELSE t1[k - 1],
                            until |-> t1[k], samples |-> a1[k]]
    <2>. DEFINE col(k) == [from |-> times[k], until |-> times[k + 1], samples |-> axes[k]]
                low(k) == [from |-> t0[k], until |-> t0[k + 1], samples |-> a0[k]]
                new(k) == [from |-> IF k = 1 THEN t0[m + 1] ELSE t1[k - 1],
                           until |-> t1[k], samples |-> a1[k]]
    <2>1. p \in Columns([times |-> times, axes |-> axes]) <=> \E k \in 1 .. m + n : p = col(k)
      BY <1>4 DEF Columns
    <2>2. p \in Columns([times |-> t0, axes |-> a0]) <=> \E k \in 1 .. m : p = low(k)
      <3>1. DOMAIN a0 = 1 .. m
        OBVIOUS
      <3>. QED BY <3>1 DEF Columns
    <2>3. \A k \in 1 .. m : k \in 1 .. m + n /\ col(k) = low(k)
      <3>. SUFFICES ASSUME NEW k \in 1 .. m PROVE k \in 1 .. m + n /\ col(k) = low(k)
        OBVIOUS
      <3>1. k \in 1 .. m + n /\ k \in 1 .. m + 1 /\ k + 1 \in 1 .. m + 1
        OBVIOUS
      <3>2. times[k] = t0[k] /\ times[k + 1] = t0[k + 1] /\ axes[k] = a0[k]
        BY <1>3, <1>4, <3>1
      <3>. QED BY <3>1, <3>2
    <2>4. \A k \in 1 .. n : m + k \in 1 .. m + n /\ col(m + k) = new(k)
      <3>. SUFFICES ASSUME NEW k \in 1 .. n PROVE m + k \in 1 .. m + n /\ col(m + k) = new(k)
        OBVIOUS
      <3>1. m + k \in 1 .. m + n /\ m + k + 1 = m + 1 + k
        OBVIOUS
      <3>2. times[m + k + 1] = t1[k] /\ axes[m + k] = a1[k]
        BY <1>3, <1>4, <3>1
      <3>3. times[m + k] = IF k = 1 THEN t0[m + 1] ELSE t1[k - 1]
        <4>1. CASE k = 1
          <5>1. m + k = m + 1 /\ m + 1 \in 1 .. m + 1
            BY <4>1
          <5>. QED BY <1>3, <4>1, <5>1
        <4>2. CASE k # 1
          <5>1. k - 1 \in 1 .. n /\ m + k = m + 1 + (k - 1)
            BY <4>2
          <5>2. times[m + 1 + (k - 1)] = t1[k - 1]
            BY <1>3, <5>1
          <5>. QED BY <4>2, <5>1, <5>2
        <4>. QED BY <4>1, <4>2
      <3>. QED BY <3>1, <3>2, <3>3
    <2>5. ASSUME NEW k \in 1 .. m + n PROVE k \in 1 .. m \/ \E c \in 1 .. n : k = m + c
      <3>1. k \in 1 .. m \/ (k - m \in 1 .. n /\ k = m + (k - m))
        OBVIOUS
      <3>. QED BY <3>1
    <2>. HIDE DEF col, low, new
    <2>6. (\E k \in 1 .. m + n : p = col(k)) <=>
             (\E k \in 1 .. m : p = low(k)) \/ (\E k \in 1 .. n : p = new(k))
      <3>1. ASSUME NEW k \in 1 .. m + n, p = col(k)
            PROVE  (\E c \in 1 .. m : p = low(c)) \/ (\E c \in 1 .. n : p = new(c))
        <4>1. CASE k \in 1 .. m
          BY <2>3, <3>1, <4>1
        <4>2. ASSUME NEW c \in 1 .. n, k = m + c PROVE p = new(c)
          BY <2>4, <3>1, <4>2
        <4>. QED BY <2>5, <4>1, <4>2
      <3>2. ASSUME NEW k \in 1 .. m, p = low(k) PROVE \E c \in 1 .. m + n : p = col(c)
        BY <2>3, <3>2
      <3>3. ASSUME NEW k \in 1 .. n, p = new(k) PROVE \E c \in 1 .. m + n : p = col(c)
        BY <2>4, <3>3
      <3>. QED BY <3>1, <3>2, <3>3
    <2>7. (\E k \in 1 .. n : p = new(k)) <=>
              \E k \in 1 .. n : p = [from |-> IF k = 1 THEN t0[m + 1] ELSE t1[k - 1],
                                     until |-> t1[k], samples |-> a1[k]]
      BY DEF new
    <2>. QED BY <2>1, <2>2, <2>6, <2>7
  <1>. QED BY <1>1, <1>2, <1>3, <1>4, <1>6, <1>7, <1>8 DEF Continues

\* What the layers from l on return for an interval: a plane in order that
\* ends no later than layer l.
Answers(r, l, s, e) ==
    /\ r.times \in Seq(Nat) /\ r.axes \in Seq(Axis)
    /\ InOrder(r)
    /\ r.axes # <<>> => l \in Layers /\ s < EndTime[l] /\ r.times[Len(r.times)] <= EndTime[l]

\* One layer ends where the one above it begins.
Linked == \A l \in Layers : l # 0 => EndTime[l] = StartTime[l - 1]

\* What the interval from s to e meets of layer l.
Met(p, l, s, e) == p \in Pieces(l) /\ p.until > s /\ p.from < e

\* The columns of the answer are what the interval meets, and they reach the
\* end of layer l when the interval goes on from there.
Complete(r, l, s, e) ==
    /\ \A p : p \in Columns(r) <=> \E k \in Layers : k >= l /\ Met(p, k, s, e)
    /\ r.axes # <<>> /\ e > EndTime[l] => r.times[Len(r.times)] = EndTime[l]

\* A layer that the interval does not meet adds nothing, and nothing is missing.
LEMMA RangeSkip ==
    ASSUME OInv, pc = "idle", NEW l \in Layers, NEW s \in Nat, NEW e \in Nat, s < e, NEW older,
           Answers(older, l + 1, s, e), Empty[l] \/ ~(s < EndTime[l] /\ e > StartTime[l])
    PROVE  /\ RangeLayer(l, s, e, older) = older
           /\ Answers(older, l, s, e)
           /\ Linked /\ Complete(older, l + 1, s, e) => Complete(older, l, s, e)
  <1>1. RangeLayer(l, s, e, older) = older
    BY DEF RangeLayer
  <1>2. /\ l \in Nat /\ Layers \subseteq Nat
        /\ StartTime[l] \in Nat /\ EndTime[l] \in Nat /\ StartTime[l] <= EndTime[l]
        /\ Size(l) \in Nat /\ (Empty[l] => Size(l) = 0)
    BY LayerTimes DEF Size
  <1>3. l + 1 \in Layers => EndTime[l + 1] \in Nat /\ EndTime[l + 1] <= StartTime[l]
    <2>. SUFFICES ASSUME l + 1 \in Layers PROVE EndTime[l + 1] \in Nat /\ EndTime[l + 1] <= StartTime[l]
      OBVIOUS
    <2>1. l + 1 # 0 /\ (l + 1) - 1 = l
      BY <1>2
    <2>2. EndTime[l + 1] \in Nat
      BY LayerTimes
    <2>3. EndTime[l + 1] <= StartTime[(l + 1) - 1]
      BY <2>1, EndsBefore
    <2>. QED BY <2>1, <2>2, <2>3
  <1>4. older.axes # <<>> => Len(older.times) \in 1 .. Len(older.times)
    BY DEF Answers, InOrder
  <1>5. older.axes # <<>> => older.times[Len(older.times)] \in Nat
    BY <1>4 DEF Answers
  <1>6. Answers(older, l, s, e)
    <2>1. older.axes # <<>> => s < EndTime[l] /\ older.times[Len(older.times)] <= EndTime[l]
      BY <1>2, <1>3, <1>5 DEF Answers
    <2>. QED BY <2>1 DEF Answers
  <1>7. ASSUME Linked, Complete(older, l + 1, s, e) PROVE Complete(older, l, s, e)
    <2>1. ASSUME NEW p, Met(p, l, s, e) PROVE FALSE
      <3>1. p \in Pieces(l) /\ p.until > s /\ p.from < e
        BY <2>1 DEF Met
      <3>2. p.from \in Nat /\ p.until \in Nat /\ StartTime[l] <= p.from /\ p.until <= EndTime[l]
            /\ StartTime[l] < EndTime[l]
        BY <3>1, PiecesInside
      <3>3. Empty[l] => Pieces(l) = {}
        BY <1>2 DEF Pieces
      <3>. QED BY <1>2, <3>1, <3>2, <3>3
    <2>2. \A k \in Layers : k >= l <=> k = l \/ k >= l + 1
      BY <1>2
    <2>3. \A p : p \in Columns(older) <=> \E k \in Layers : k >= l + 1 /\ Met(p, k, s, e)
      BY <1>7 DEF Complete
    <2>4. \A p : p \in Columns(older) <=> \E k \in Layers : k >= l /\ Met(p, k, s, e)
      BY <2>1, <2>2, <2>3
    <2>5. ASSUME older.axes # <<>>, e > EndTime[l]
          PROVE  older.times[Len(older.times)] = EndTime[l]
      <3>1. l + 1 \in Layers /\ s < EndTime[l + 1]
        BY <2>5 DEF Answers
      <3>2. EndTime[l + 1] = StartTime[l]
        <4>1. l + 1 # 0 /\ (l + 1) - 1 = l
          BY <1>2
        <4>. QED BY <1>7, <3>1, <4>1 DEF Linked
      <3>3. s < EndTime[l] /\ e > StartTime[l] /\ e > EndTime[l + 1]
        BY <1>2, <1>3, <2>5, <3>1, <3>2
      <3>4. StartTime[l] = EndTime[l]
        <4>1. Bound(l, 0) = StartTime[l] /\ Bound(l, Size(l)) = EndTime[l] /\ Size(l) = 0
          BY <1>2, <3>3 DEF Bound, OInv, RingSorted
        <4>. QED BY <4>1
      <3>5. older.times[Len(older.times)] = EndTime[l + 1]
        BY <1>7, <2>5, <3>3 DEF Complete
      <3>. QED BY <3>2, <3>4, <3>5
    <2>. QED BY <2>4, <2>5 DEF Complete
  <1>. QED BY <1>1, <1>6, <1>7

\* A layer that the interval meets adds the axes that it meets, behind those
\* of the layers below.
LEMMA RangeAdd ==
    ASSUME OInv, pc = "idle", NEW l \in Layers, NEW s \in Nat, NEW e \in Nat, s < e, NEW older,
           Answers(older, l + 1, s, e), ~Empty[l], s < EndTime[l], e > StartTime[l]
    PROVE  /\ Answers(RangeLayer(l, s, e, older), l, s, e)
           /\ Linked /\ Complete(older, l + 1, s, e) => Complete(RangeLayer(l, s, e, older), l, s, e)
  <1>. DEFINE last == older.times[Len(older.times)]
  <1>0. Adds(l, s, e, older)
    BY LayerPart, Zenon
  <1>1. PICK b \in Nat, n \in Nat \ {0} :
           /\ b + n <= Size(l)
           /\ \A i \in 1 .. Size(l) : i \in b + 1 .. b + n <=> Bound(l, i) > s /\ Bound(l, i - 1) < e
           /\ \E times \in Seq(Nat), axes \in Seq(Axis) :
                 /\ RangeLayer(l, s, e, older) =
                      [times |-> (IF older.times = <<>> THEN <<Bound(l, b)>> ELSE older.times)
                                 \o times,
                       axes  |-> older.axes \o axes]
                 /\ Len(times) = n /\ Len(axes) = n
                 /\ \A k \in 1 .. n : /\ times[k] = Bound(l, b + k)
                                      /\ axes[k] = RingAxes[l][Slot(l, b + k - 1)]
    BY <1>0, Zenon DEF Adds
  <1>2. PICK times \in Seq(Nat), axes \in Seq(Axis) :
                    /\ RangeLayer(l, s, e, older) =
                         [times |-> (IF older.times = <<>> THEN <<Bound(l, b)>> ELSE older.times)
                                    \o times,
                          axes  |-> older.axes \o axes]
                    /\ Len(times) = n /\ Len(axes) = n
                    /\ \A k \in 1 .. n : /\ times[k] = Bound(l, b + k)
                                         /\ axes[k] = RingAxes[l][Slot(l, b + k - 1)]
    BY <1>1
  <1>3. /\ l \in Nat /\ Layers \subseteq Nat /\ Size(l) \in Nat
        /\ StartTime[l] \in Nat /\ EndTime[l] \in Nat
        /\ \A i \in 0 .. Size(l) : Bound(l, i) \in Nat /\ Bound(l, i) <= EndTime[l]
        /\ \A i, j \in 0 .. Size(l) : i < j => Bound(l, i) < Bound(l, j)
        /\ Bound(l, 0) = StartTime[l] /\ Bound(l, Size(l)) = EndTime[l]
    BY LayerTimes, BoundRange, TimeNat DEF OInv, RingSorted, Bound
  <1>4. ASSUME older.axes # <<>>
        PROVE  /\ l + 1 \in Layers /\ s < EndTime[l + 1] /\ last <= EndTime[l + 1]
               /\ EndTime[l + 1] \in Nat /\ EndTime[l + 1] <= StartTime[l]
               /\ Linked => EndTime[l + 1] = StartTime[l]
               /\ Len(older.times) = Len(older.axes) + 1 /\ last \in Nat
    <2>1. l + 1 \in Layers /\ s < EndTime[l + 1] /\ last <= EndTime[l + 1]
      BY <1>4 DEF Answers
    <2>2. l + 1 # 0 /\ (l + 1) - 1 = l
      BY <1>3
    <2>3. EndTime[l + 1] \in Nat /\ EndTime[l + 1] <= StartTime[l]
      BY <2>1, <2>2, EndsBefore, LayerTimes
    <2>4. Linked => EndTime[l + 1] = StartTime[l]
      BY <2>1, <2>2 DEF Linked
    <2>5. Len(older.times) = Len(older.axes) + 1
      BY <1>4 DEF Answers, InOrder
    <2>6. Len(older.times) \in 1 .. Len(older.times) /\ older.times \in Seq(Nat)
      BY <2>5 DEF Answers
    <2>7. last \in Nat
      BY <2>6
    <2>. QED BY <2>1, <2>3, <2>4, <2>5, <2>7
  <1>. HIDE DEF last
  <1>5. older.axes # <<>> => b = 0
    <2>1. ASSUME older.axes # <<>> PROVE 1 \in b + 1 .. b + n
      <3>1. 1 \in 1 .. Size(l) /\ 1 - 1 = 0 /\ 1 \in 0 .. Size(l) /\ 0 \in 0 .. Size(l)
        BY <1>1, <1>3
      <3>2. Bound(l, 0) < Bound(l, 1) /\ Bound(l, 1) \in Nat
        BY <1>3, <3>1
      <3>3. Bound(l, 1) > s
        BY <1>3, <1>4, <2>1, <3>2
      <3>4. Bound(l, 1 - 1) < e
        BY <1>3, <3>1
      <3>. QED BY <1>1, <3>1, <3>3, <3>4
    <2>. QED BY <2>1
  <1>6. /\ b \in 0 .. Size(l) /\ Bound(l, b) \in Nat
        /\ \A k \in 1 .. n : b + k \in 0 .. Size(l) /\ b < b + k
        /\ \A i, j \in 1 .. n : i < j => b + i < b + j
    <2>1. PICK size \in Nat : size = Size(l)
      BY <1>3
    <2>2. b + n <= size
      BY <1>1, <2>1
    <2>3. b \in 0 .. size /\ \A k \in 1 .. n : b + k \in 0 .. size /\ b < b + k
      BY <2>2
    <2>4. \A i, j \in 1 .. n : i < j => b + i < b + j
      OBVIOUS
    <2>. QED BY <1>3, <2>1, <2>3, <2>4
  <1>7. PICK t0 : t0 = IF older.times = <<>> THEN <<Bound(l, b)>> ELSE older.times
    OBVIOUS
  <1>8. PICK m \in Nat : m = Len(older.axes)
    BY DEF Answers
  <1>9. older.axes = <<>> <=> older.times = <<>>
    BY DEF Answers, InOrder
  <1>10. /\ t0 \in Seq(Nat) /\ Len(t0) = m + 1
         /\ \A i, j \in 1 .. m + 1 : i < j => t0[i] < t0[j]
         /\ t0[m + 1] = IF older.axes = <<>> THEN Bound(l, b) ELSE last
    <2>1. CASE older.axes = <<>>
      <3>1. t0 = <<Bound(l, b)>> /\ m = 0
        BY <1>7, <1>8, <1>9, <2>1
      <3>2. t0 \in Seq(Nat) /\ Len(t0) = 1 /\ t0[1] = Bound(l, b)
        BY <1>6, <3>1
      <3>3. \A i, j \in 1 .. m + 1 : ~(i < j)
        BY <3>1
      <3>. QED BY <2>1, <3>1, <3>2, <3>3
    <2>2. CASE older.axes # <<>>
      <3>1. t0 = older.times /\ Len(t0) = m + 1 /\ t0 \in Seq(Nat) /\ DOMAIN t0 = 1 .. m + 1
        BY <1>4, <1>7, <1>8, <1>9, <2>2 DEF Answers
      <3>2. \A i, j \in DOMAIN older.times : i < j => older.times[i] < older.times[j]
        BY DEF Answers, InOrder
      <3>. QED BY <2>2, <3>1, <3>2 DEF last
    <2>. QED BY <2>1, <2>2
  <1>11. t0[m + 1] \in Nat /\ t0[m + 1] <= Bound(l, b)
    <2>1. CASE older.axes = <<>>
      <3>1. t0[m + 1] = Bound(l, b)
        BY <1>10, <2>1
      <3>. QED BY <1>6, <3>1
    <2>2. CASE older.axes # <<>>
      <3>1. t0[m + 1] = last /\ b = 0
        BY <1>5, <1>10, <2>2
      <3>. QED BY <1>3, <1>4, <2>2, <3>1
    <2>. QED BY <2>1, <2>2
  <1>12. /\ \A i, j \in 1 .. n : i < j => times[i] < times[j]
         /\ \A j \in 1 .. n : t0[m + 1] < times[j]
    <2>1. ASSUME NEW i \in 1 .. n, NEW j \in 1 .. n, i < j PROVE times[i] < times[j]
      <3>1. b + i \in 0 .. Size(l) /\ b + j \in 0 .. Size(l) /\ b + i < b + j
        BY <1>6, <2>1
      <3>. QED BY <1>2, <1>3, <3>1
    <2>2. ASSUME NEW j \in 1 .. n PROVE t0[m + 1] < times[j]
      <3>1. b + j \in 0 .. Size(l) /\ b < b + j
        BY <1>6
      <3>2. Bound(l, b) < Bound(l, b + j) /\ Bound(l, b + j) \in Nat
        BY <1>3, <1>6, <3>1
      <3>3. times[j] = Bound(l, b + j)
        BY <1>2
      <3>4. Bound(l, b) \in Nat /\ t0[m + 1] \in Nat /\ t0[m + 1] <= Bound(l, b)
        BY <1>6, <1>11
      <3>. QED BY <3>2, <3>3, <3>4
    <2>. QED BY <2>1, <2>2
  <1>13. PICK r : r = RangeLayer(l, s, e, older)
    OBVIOUS
  <1>14. r = [times |-> t0 \o times, axes |-> older.axes \o axes]
    BY <1>2, <1>7, <1>13
  <1>15. Continues(t0 \o times, older.axes \o axes, m, n, t0, older.axes, times, axes)
    <2>1. older.axes \in Seq(Axis) /\ Len(older.axes) = m /\ Len(times) = n /\ Len(axes) = n
      BY <1>2, <1>8 DEF Answers
    <2>. QED BY <1>10, <1>12, <2>1, Continued, Zenon
  <1>16. r.times \in Seq(Nat) /\ r.axes \in Seq(Axis) /\ InOrder(r)
         /\ r.times[Len(r.times)] = Bound(l, b + n)
    <2>1. r.times = t0 \o times /\ r.axes = older.axes \o axes
      BY <1>14
    <2>2. r.times[Len(r.times)] = times[n]
      BY <1>15, <2>1 DEF Continues
    <2>3. n \in 1 .. n
      OBVIOUS
    <2>. QED BY <1>2, <1>14, <1>15, <2>1, <2>2, <2>3 DEF Continues
  <1>17. Answers(r, l, s, e)
    <2>1. n \in 1 .. n /\ b + n \in 0 .. Size(l)
      BY <1>6
    <2>2. r.times[Len(r.times)] <= EndTime[l]
      BY <1>3, <1>16, <2>1
    <2>. QED BY <1>16, <2>2 DEF Answers
  <1>18. ASSUME Linked, Complete(older, l + 1, s, e) PROVE Complete(r, l, s, e)
    <2>. DEFINE new(k) == [from |-> IF k = 1 THEN t0[m + 1] ELSE times[k - 1],
                           until |-> times[k], samples |-> axes[k]]
                piece(i) == [from |-> Bound(l, i - 1), until |-> Bound(l, i),
                             samples |-> RingAxes[l][Slot(l, i - 1)]]
    <2>1. t0[m + 1] = Bound(l, b)
      <3>1. CASE older.axes = <<>>
        BY <1>10, <3>1
      <3>2. CASE older.axes # <<>>
        <4>1. EndTime[l + 1] = StartTime[l] /\ b = 0 /\ e > EndTime[l + 1]
          BY <1>4, <1>5, <1>18, <3>2
        <4>2. last = EndTime[l + 1]
          BY <1>18, <3>2, <4>1 DEF Complete, last
        <4>. QED BY <1>3, <1>10, <3>2, <4>1, <4>2
      <3>. QED BY <3>1, <3>2
    <2>2. \A p : p \in Columns([times |-> t0, axes |-> older.axes]) <=> p \in Columns(older)
      <3>1. CASE older.axes = <<>>
        <4>1. DOMAIN older.axes = {}
          BY <3>1
        <4>. QED BY <4>1 DEF Columns
      <3>2. CASE older.axes # <<>>
        BY <1>7, <1>9, <3>2 DEF Columns
      <3>. QED BY <3>1, <3>2
    <2>3. ASSUME NEW k \in 1 .. n PROVE b + k \in 1 .. Size(l) /\ new(k) = piece(b + k)
      <3>1. times[k] = Bound(l, b + k) /\ axes[k] = RingAxes[l][Slot(l, b + k - 1)]
        BY <1>2
      <3>2. (IF k = 1 THEN t0[m + 1] ELSE times[k - 1]) = Bound(l, b + k - 1)
        <4>1. CASE k = 1
          <5>1. b + k - 1 = b
            BY <4>1
          <5>. QED BY <2>1, <4>1, <5>1
        <4>2. CASE k # 1
          <5>1. k - 1 \in 1 .. n /\ b + (k - 1) = b + k - 1
            BY <4>2
          <5>2. times[k - 1] = Bound(l, b + (k - 1))
            BY <1>2, <5>1
          <5>. QED BY <4>2, <5>1, <5>2
        <4>. QED BY <4>1, <4>2
      <3>3. b + k \in 1 .. Size(l)
        <4>1. b + k \in 0 .. Size(l) /\ b < b + k
          BY <1>6
        <4>. QED BY <1>3, <4>1
      <3>4. new(k) = [from |-> Bound(l, b + k - 1), until |-> Bound(l, b + k),
                      samples |-> RingAxes[l][Slot(l, b + k - 1)]]
        BY <3>1, <3>2
      <3>. QED BY <3>3, <3>4
    <2>4. \A p : Met(p, l, s, e) <=> \E i \in 1 .. Size(l) : /\ p = piece(i)
                                                            /\ Bound(l, i) > s /\ Bound(l, i - 1) < e
      <3>1. \A i : piece(i).until = Bound(l, i) /\ piece(i).from = Bound(l, i - 1)
        OBVIOUS
      <3>2. \A p : p \in Pieces(l) <=> \E i \in 1 .. Size(l) : p = piece(i)
        BY DEF Pieces
      <3>. HIDE DEF piece
      <3>. QED BY <3>1, <3>2 DEF Met
    <2>5. ASSUME NEW i \in 1 .. Size(l), i \in b + 1 .. b + n PROVE \E k \in 1 .. n : i = b + k
      <3>1. i - b \in 1 .. n /\ i = b + (i - b)
        BY <2>5
      <3>. QED BY <3>1
    <2>6. \A k \in 1 .. n : b + k \in b + 1 .. b + n
      OBVIOUS
    <2>. HIDE DEF new, piece
    <2>7. ASSUME NEW p PROVE Met(p, l, s, e) <=> \E k \in 1 .. n : p = new(k)
      <3>1. ASSUME Met(p, l, s, e) PROVE \E k \in 1 .. n : p = new(k)
        <4>1. PICK i \in 1 .. Size(l) : p = piece(i) /\ i \in b + 1 .. b + n
          BY <1>1, <2>4, <3>1
        <4>2. PICK k \in 1 .. n : i = b + k
          BY <2>5, <4>1
        <4>. QED BY <2>3, <4>1, <4>2
      <3>2. ASSUME NEW k \in 1 .. n, p = new(k) PROVE Met(p, l, s, e)
        <4>1. b + k \in 1 .. Size(l) /\ p = piece(b + k) /\ b + k \in b + 1 .. b + n
          BY <2>3, <2>6, <3>2
        <4>2. Bound(l, b + k) > s /\ Bound(l, b + k - 1) < e
          BY <1>1, <4>1
        <4>. QED BY <2>4, <4>1, <4>2
      <3>. QED BY <3>1, <3>2
    <2>8. ASSUME NEW p PROVE p \in Columns(r) <=> \/ p \in Columns(older)
                                                  \/ \E k \in 1 .. n : p = new(k)
      BY <1>14, <1>15, <2>2 DEF Continues, new
    <2>9. ASSUME NEW p PROVE p \in Columns(r) <=> \E k \in Layers : k >= l /\ Met(p, k, s, e)
      <3>1. \A k \in Layers : k >= l <=> k = l \/ k >= l + 1
        BY <1>3
      <3>2. p \in Columns(older) <=> \E k \in Layers : k >= l + 1 /\ Met(p, k, s, e)
        BY <1>18 DEF Complete
      <3>. QED BY <1>3, <2>7, <2>8, <3>1, <3>2
    <2>10. ASSUME e > EndTime[l] PROVE r.times[Len(r.times)] = EndTime[l]
      <3>1. Size(l) # 0
        BY SizeRange DEF OInv, Reduced
      <3>2. Size(l) \in 1 .. Size(l) /\ Size(l) \in 0 .. Size(l) /\ Size(l) - 1 \in 0 .. Size(l)
        BY <1>3, <3>1
      <3>3. Bound(l, Size(l)) > s /\ Bound(l, Size(l) - 1) < e
        <4>1. Size(l) - 1 < Size(l)
          BY <1>3
        <4>2. Bound(l, Size(l) - 1) < Bound(l, Size(l)) /\ Bound(l, Size(l) - 1) \in Nat
          BY <1>3, <3>2, <4>1
        <4>. QED BY <1>3, <2>10, <4>2
      <3>4. Size(l) \in b + 1 .. b + n
        BY <1>1, <3>2, <3>3
      <3>5. Size(l) = b + n
        <4>1. PICK size \in Nat : size = Size(l)
          BY <1>3
        <4>2. b + n <= size /\ size \in b + 1 .. b + n
          BY <1>1, <3>4, <4>1
        <4>3. size <= b + n
          BY <4>2
        <4>4. size = b + n
          BY <4>2, <4>3
        <4>. QED BY <4>1, <4>4
      <3>. QED BY <1>3, <1>16, <3>5
    <2>. QED BY <2>9, <2>10 DEF Complete
  <1>. QED BY <1>13, <1>17, <1>18

\* One turn of the recursion of Range.
LEMMA RangeStep ==
    ASSUME OInv, pc = "idle", NEW l \in Layers, NEW s \in Nat, NEW e \in Nat, s < e, NEW older,
           Answers(older, l + 1, s, e)
    PROVE  /\ Answers(RangeLayer(l, s, e, older), l, s, e)
           /\ Linked /\ Complete(older, l + 1, s, e) => Complete(RangeLayer(l, s, e, older), l, s, e)
  <1>1. CASE Empty[l] \/ ~(s < EndTime[l] /\ e > StartTime[l])
    <2>1. /\ RangeLayer(l, s, e, older) = older
          /\ Answers(older, l, s, e)
          /\ Linked /\ Complete(older, l + 1, s, e) => Complete(older, l, s, e)
      BY <1>1, RangeSkip, Zenon
    <2>. QED BY <2>1
  <1>2. CASE ~(Empty[l] \/ ~(s < EndTime[l] /\ e > StartTime[l]))
    BY <1>2, RangeAdd, Zenon
  <1>. QED BY <1>1, <1>2

\* f has what the layers from a on return, layer by layer.
IsFound(f, a, s, e) ==
    f = [l \in a .. NumLayers |-> IF l = NumLayers THEN NothingFound
                                  ELSE RangeLayer(l, s, e, f[l + 1])]

\* The recursion of Range ends: there is such a function for every layer.
LEMMA FoundFrom ==
    ASSUME NEW s, NEW e
    PROVE  \A d \in 0 .. NumLayers : \E f : IsFound(f, NumLayers - d, s, e)
  <1>. DEFINE S == {d \in 0 .. NumLayers : ~\E f : IsFound(f, NumLayers - d, s, e)}
  <1>0. NumLayers \in Nat
    BY LayerAssumption
  <1>. SUFFICES ASSUME S # {} PROVE FALSE
    OBVIOUS
  <1>1. S \in SUBSET Nat
    BY <1>0
  <1>2. PICK d \in S : \A c \in S : d <= c
    BY <1>1, Least, Zenon
  <1>3. d \in 0 .. NumLayers /\ ~\E f : IsFound(f, NumLayers - d, s, e)
    OBVIOUS
  <1>4. CASE d = 0
    <2>1. NumLayers - d = NumLayers /\ NumLayers .. NumLayers = {NumLayers}
      BY <1>0, <1>4
    <2>2. IsFound([l \in {NumLayers} |-> NothingFound], NumLayers - d, s, e)
      BY <2>1 DEF IsFound
    <2>. QED BY <1>3, <2>2
  <1>5. CASE d # 0
    <2>1. d - 1 \in 0 .. NumLayers /\ ~(d <= d - 1)
      BY <1>0, <1>3, <1>5
    <2>2. d - 1 \notin S
      BY <1>2, <2>1
    <2>3. PICK f : IsFound(f, NumLayers - (d - 1), s, e)
      BY <2>1, <2>2
    <2>4. PICK a \in Int : a = NumLayers - d
      BY <1>0, <1>3
    <2>5. /\ NumLayers - (d - 1) = a + 1 /\ a # NumLayers /\ a \in a .. NumLayers
          /\ a + 1 \in a + 1 .. NumLayers /\ a + 1 # a
      BY <1>0, <1>3, <1>5, <2>4
    <2>6. \A l \in a .. NumLayers : l # a => l \in a + 1 .. NumLayers
      BY <1>0, <2>4
    <2>7. \A l \in a + 1 .. NumLayers : /\ l \in a .. NumLayers /\ l # a
                                        /\ l # NumLayers => l + 1 # a /\ l + 1 \in a .. NumLayers
      BY <1>0, <2>4
    <2>. DEFINE g == [l \in a .. NumLayers |-> IF l = a THEN RangeLayer(a, s, e, f[a + 1]) ELSE f[l]]
    <2>8. \A l \in a + 1 .. NumLayers :
             f[l] = IF l = NumLayers THEN NothingFound ELSE RangeLayer(l, s, e, f[l + 1])
      BY <2>3, <2>5 DEF IsFound
    <2>9. g[a] = RangeLayer(a, s, e, f[a + 1]) /\ \A l \in a + 1 .. NumLayers : g[l] = f[l]
      BY <2>5, <2>7
    <2>10. \A l \in a + 1 .. NumLayers : l # NumLayers => l + 1 \in a + 1 .. NumLayers
      BY <1>0, <2>4
    <2>. HIDE DEF g
    <2>11. \A l \in a .. NumLayers :
              g[l] = IF l = NumLayers THEN NothingFound ELSE RangeLayer(l, s, e, g[l + 1])
      <3>. SUFFICES ASSUME NEW l \in a .. NumLayers
                    PROVE  g[l] = IF l = NumLayers THEN NothingFound ELSE RangeLayer(l, s, e, g[l + 1])
        OBVIOUS
      <3>1. CASE l = a
        BY <2>5, <2>9, <3>1
      <3>2. CASE l # a
        <4>1. l \in a + 1 .. NumLayers
          BY <2>6, <3>2
        <4>. QED BY <2>8, <2>9, <2>10, <4>1
      <3>. QED BY <3>1, <3>2
    <2>12. g = [l \in a .. NumLayers |-> IF l = NumLayers THEN NothingFound
                                         ELSE RangeLayer(l, s, e, g[l + 1])]
      <3>1. g = [l \in a .. NumLayers |-> g[l]]
        BY DEF g
      <3>. QED BY <2>11, <3>1
    <2>13. IsFound(g, NumLayers - d, s, e)
      BY <2>4, <2>12 DEF IsFound
    <2>. QED BY <1>3, <2>13
  <1>. QED BY <1>4, <1>5

\* What Range returns is what the recursion finds for layer 0.
LEMMA RangeRootIs ==
    ASSUME NEW s, NEW e
    PROVE  \E f : IsFound(f, 0, s, e) /\ RangeRoot(s, e) = f[0]
  <1>1. NumLayers \in 0 .. NumLayers /\ NumLayers - NumLayers = 0
    BY LayerAssumption
  <1>2. \E f : IsFound(f, 0, s, e)
    BY <1>1, FoundFrom
  <1>. DEFINE found == CHOOSE f : f = [l \in 0 .. NumLayers |->
                                          IF l = NumLayers THEN NothingFound
                                          ELSE RangeLayer(l, s, e, f[l + 1])]
  <1>3. IsFound(found, 0, s, e)
    BY <1>2 DEF IsFound
  <1>4. RangeRoot(s, e) = found[0]
    BY DEF RangeRoot
  <1>. QED BY <1>3, <1>4

\* Whatever was lost before, a reader gets a plane in order; and when nothing
\* was, it has all that the interval meets.
LEMMA RangeAnswers ==
    ASSUME OInv, pc = "idle", NEW s \in Nat, NEW e \in Nat, s < e
    PROVE  /\ Answers(RangeRoot(s, e), 0, s, e)
           /\ Linked => Complete(RangeRoot(s, e), 0, s, e)
  <1>1. PICK f : IsFound(f, 0, s, e) /\ RangeRoot(s, e) = f[0]
    BY RangeRootIs
  <1>. DEFINE Good(l) == /\ Answers(f[l], l, s, e)
                         /\ Linked => Complete(f[l], l, s, e)
              S == {d \in 0 .. NumLayers : ~Good(NumLayers - d)}
  <1>2. NumLayers \in Nat /\ Layers = 0 .. NumLayers - 1
    BY LayerAssumption DEF Layers
  <1>3. Good(NumLayers)
    <2>1. f[NumLayers] = NothingFound
      BY <1>1, <1>2 DEF IsFound
    <2>2. Answers(NothingFound, NumLayers, s, e)
      BY DEF Answers, InOrder, NothingFound
    <2>3. Complete(NothingFound, NumLayers, s, e)
      <3>1. Columns(NothingFound) = {}
        BY DEF Columns, NothingFound
      <3>2. \A k \in Layers : ~(k >= NumLayers)
        BY <1>2
      <3>. QED BY <3>1, <3>2 DEF Complete, NothingFound
    <2>. QED BY <2>1, <2>2, <2>3
  <1>4. ASSUME NEW l \in Layers, Good(l + 1) PROVE Good(l)
    <2>1. l \in 0 .. NumLayers /\ l # NumLayers
      BY <1>2
    <2>2. f[l] = RangeLayer(l, s, e, f[l + 1])
      BY <1>1, <2>1 DEF IsFound
    <2>3. Answers(f[l + 1], l + 1, s, e)
      BY <1>4
    <2>4. /\ Answers(RangeLayer(l, s, e, f[l + 1]), l, s, e)
          /\ Linked /\ Complete(f[l + 1], l + 1, s, e) => Complete(RangeLayer(l, s, e, f[l + 1]), l, s, e)
      BY <2>3, RangeStep, Zenon
    <2>. QED BY <1>4, <2>2, <2>4
  <1>. HIDE DEF Good
  <1>5. S = {}
    <2>. SUFFICES ASSUME S # {} PROVE FALSE
      OBVIOUS
    <2>1. S \in SUBSET Nat
      BY <1>2
    <2>2. PICK d \in S : \A c \in S : d <= c
      BY <2>1, Least, Zenon
    <2>3. d \in 0 .. NumLayers /\ ~Good(NumLayers - d)
      OBVIOUS
    <2>4. d # 0
      BY <1>2, <1>3, <2>3
    <2>5. d - 1 \in 0 .. NumLayers /\ ~(d <= d - 1) /\ NumLayers - d \in Layers
          /\ NumLayers - (d - 1) = (NumLayers - d) + 1
      BY <1>2, <2>3, <2>4
    <2>6. Good(NumLayers - (d - 1))
      BY <2>2, <2>5
    <2>7. Good((NumLayers - d) + 1)
      BY <2>5, <2>6
    <2>. QED BY <1>4, <2>3, <2>5, <2>7
  <1>6. NumLayers \in 0 .. NumLayers /\ NumLayers - NumLayers = 0
    BY <1>2
  <1>7. Good(0)
    BY <1>5, <1>6
  <1>. QED BY <1>1, <1>7 DEF Good

\* The interval meets the axes of the layers, and there are no others when no
\* call runs.
LEMMA RangeIsExact ==
    ASSUME IInv
    PROVE  RangeExact
  <1>. SUFFICES ASSUME pc = "idle", NEW s \in 0 .. MaxTime + 1, NEW e \in s + 1 .. MaxTime + 2
                PROVE  /\ InOrder(RangeRoot(s, e))
                       /\ Columns(RangeRoot(s, e)) = {p \in Segments : p.until > s /\ p.from < e}
    BY DEF RangeExact
  <1>1. OInv /\ s \in Nat /\ e \in Nat /\ s < e
    BY ExactIsOrdered, LayerAssumption
  <1>2. Linked
    <2>1. ASSUME NEW l \in Layers, l # 0 PROVE EndTime[l] = StartTime[l - 1]
      <3>1. EndTime[l] = Above(l)
        BY DEF IInv, LayersLinked
      <3>. QED BY <2>1, <3>1 DEF Above
    <2>. QED BY <2>1 DEF Linked
  <1>3. Answers(RangeRoot(s, e), 0, s, e) /\ Complete(RangeRoot(s, e), 0, s, e)
    BY <1>1, <1>2, RangeAnswers
  <1>4. TakenOut = {} /\ Waiting = {}
    BY DEF TakenOut, Waiting
  <1>5. \A p : p \in Segments <=> \E k \in Layers : p \in Pieces(k)
    BY <1>4, SegmentsAre
  <1>6. \A k \in Layers : k >= 0
    BY LayerTimes, <1>1
  <1>7. \A p : p \in Columns(RangeRoot(s, e)) <=> p \in Segments /\ p.until > s /\ p.from < e
    BY <1>3, <1>5, <1>6 DEF Complete, Met
  <1>. QED BY <1>3, <1>7 DEF Answers

\* layerStat.Range (stat.go): a reader of any interval gets the axes whose span
\* overlaps it, in order, each once, and without a seam between the layers.
THEOREM ReadersServed == Spec => []RangeExact
  <1>1. IInv => RangeExact
    BY RangeIsExact
  <1>. QED BY <1>1, LayersCorrect, PTL

-----------------------------------------------------------------------------
(***************************************************************************)
(* How much history is kept.                                               *)
(***************************************************************************)
\* A sequence of naturals in which each is made from the one before it, layer by layer.
IsMade(f, step, n) ==
    f = [l \in 0 .. n |-> IF l = 0 THEN step[<<0, 0>>] ELSE step[<<l, f[l - 1]>>]]

\* Such a sequence exists, and its members are naturals.
LEMMA MadeUpTo ==
    ASSUME NEW step \in [Layers \X Nat -> Nat]
    PROVE  \A n \in Layers : \E f \in [0 .. n -> Nat] : IsMade(f, step, n)
  <1>. DEFINE S == {n \in Layers : ~\E f \in [0 .. n -> Nat] : IsMade(f, step, n)}
  <1>0. Layers \subseteq Nat /\ 0 \in Layers /\ \A n \in Layers : n # 0 => n - 1 \in Layers
    BY LayerAssumption DEF Layers
  <1>. SUFFICES ASSUME S # {} PROVE FALSE
    OBVIOUS
  <1>1. S \in SUBSET Nat
    BY <1>0
  <1>2. PICK n \in S : \A k \in S : n <= k
    BY <1>1, Least, Zenon
  <1>3. n \in Layers /\ n \in Nat /\ ~\E f \in [0 .. n -> Nat] : IsMade(f, step, n)
    BY <1>1
  <1>4. CASE n = 0
    <2>. DEFINE g == [l \in 0 .. 0 |-> step[<<0, 0>>]]
    <2>1. step[<<0, 0>>] \in Nat
      BY <1>0
    <2>2. g \in [0 .. 0 -> Nat] /\ \A l \in 0 .. 0 : l = 0
      BY <2>1
    <2>3. g = [l \in 0 .. 0 |-> IF l = 0 THEN step[<<0, 0>>] ELSE step[<<l, g[l - 1]>>]]
      BY <2>2
    <2>. QED BY <1>3, <1>4, <2>2, <2>3 DEF IsMade
  <1>5. CASE n # 0
    <2>1. n - 1 \in Layers /\ ~(n <= n - 1) /\ n - 1 \in Nat
      BY <1>0, <1>3, <1>5
    <2>2. PICK f \in [0 .. n - 1 -> Nat] : IsMade(f, step, n - 1)
      BY <1>2, <2>1
    <2>3. /\ \A l \in 0 .. n : l # n => l \in 0 .. n - 1
          /\ \A l \in 0 .. n - 1 : l \in 0 .. n /\ l # n /\ (l # 0 => l - 1 \in 0 .. n - 1)
          /\ n - 1 \in 0 .. n - 1 /\ n \in 0 .. n
      BY <1>3, <1>5
    <2>4. f[n - 1] \in Nat /\ step[<<n, f[n - 1]>>] \in Nat
      BY <1>3, <2>3
    <2>5. \A l \in 0 .. n - 1 : f[l] = IF l = 0 THEN step[<<0, 0>>] ELSE step[<<l, f[l - 1]>>]
      BY <2>2 DEF IsMade
    <2>. DEFINE g == [l \in 0 .. n |-> IF l = n THEN step[<<n, f[n - 1]>>] ELSE f[l]]
    <2>6. g \in [0 .. n -> Nat]
      BY <2>3, <2>4
    <2>7. g[n] = step[<<n, f[n - 1]>>] /\ \A l \in 0 .. n - 1 : g[l] = f[l]
      BY <2>3
    <2>. HIDE DEF g
    <2>8. \A l \in 0 .. n : g[l] = IF l = 0 THEN step[<<0, 0>>] ELSE step[<<l, g[l - 1]>>]
      <3>. SUFFICES ASSUME NEW l \in 0 .. n
                    PROVE  g[l] = IF l = 0 THEN step[<<0, 0>>] ELSE step[<<l, g[l - 1]>>]
        OBVIOUS
      <3>1. CASE l = n
        BY <1>5, <2>3, <2>7, <3>1
      <3>2. CASE l # n
        BY <2>3, <2>5, <2>7, <3>2
      <3>. QED BY <3>1, <3>2
    <2>9. IsMade(g, step, n)
      <3>1. g = [l \in 0 .. n |-> g[l]]
        BY <2>6
      <3>. QED BY <2>8, <3>1 DEF IsMade
    <2>. QED BY <1>3, <2>6, <2>9
  <1>. QED BY <1>4, <1>5

\* The last layer is above all others.
LEMMA LastLayer ==
    /\ NumLayers - 1 \in Layers /\ Layers = 0 .. NumLayers - 1 /\ Layers \subseteq Nat /\ 0 \in Layers
    /\ \A l \in Layers : l <= NumLayers - 1 /\ (l # 0 => l - 1 \in Layers)
    /\ \A l \in Layers : l # NumLayers - 1 => l + 1 \in Layers /\ (l + 1) - 1 = l
    /\ \A l \in Layers : l # NumLayers - 1 => LayerRatio[l] \in Nat \ {0}
    /\ \A l \in Layers : LayerRatio[l] \in Nat /\ LayerLen[l] \in Nat /\ LayerRatio[l] <= LayerLen[l]
  BY LayerAssumption DEF Layers

\* The smallest number of samples in an axis of each layer.
LEMMA UnitIs ==
    /\ Unit \in [Layers -> Nat]
    /\ Unit[0] = 1
    /\ \A l \in Layers : l # 0 => Unit[l] = Unit[l - 1] * LayerRatio[l - 1]
  <1>. DEFINE step == [x \in Layers \X Nat |-> IF x[1] = 0 THEN 1 ELSE x[2] * LayerRatio[x[1] - 1]]
  <1>1. step \in [Layers \X Nat -> Nat]
    <2>. SUFFICES ASSUME NEW x \in Layers \X Nat
                  PROVE  (IF x[1] = 0 THEN 1 ELSE x[2] * LayerRatio[x[1] - 1]) \in Nat
      OBVIOUS
    <2>1. x[1] \in Layers /\ x[2] \in Nat
      OBVIOUS
    <2>2. CASE x[1] # 0
      <3>1. LayerRatio[x[1] - 1] \in Nat
        BY <2>1, <2>2, LastLayer
      <3>. QED BY <2>1, <2>2, <3>1
    <2>. QED BY <2>2
  <1>2. /\ step[<<0, 0>>] = 1
        /\ \A l \in Layers : \A u \in Nat : l # 0 => step[<<l, u>>] = u * LayerRatio[l - 1]
    BY LastLayer
  <1>. HIDE DEF step
  <1>3. PICK f \in [Layers -> Nat] : IsMade(f, step, NumLayers - 1)
    BY <1>1, MadeUpTo, LastLayer
  <1>. DEFINE Good(u) == u = [l \in Layers |-> IF l = 0 THEN 1 ELSE u[l - 1] * LayerRatio[l - 1]]
  <1>4. Good(f)
    <2>1. \A l \in Layers : f[l] = IF l = 0 THEN 1 ELSE f[l - 1] * LayerRatio[l - 1]
      <3>. SUFFICES ASSUME NEW l \in Layers
                    PROVE  f[l] = IF l = 0 THEN 1 ELSE f[l - 1] * LayerRatio[l - 1]
        OBVIOUS
      <3>1. f[l] = IF l = 0 THEN step[<<0, 0>>] ELSE step[<<l, f[l - 1]>>]
        BY <1>3, LastLayer DEF IsMade
      <3>2. l # 0 => f[l - 1] \in Nat
        BY LastLayer
      <3>. QED BY <1>2, <3>1, <3>2
    <2>. QED BY <2>1
  <1>. DEFINE u == CHOOSE v : Good(v)
  <1>5. Good(u)
    BY <1>4, Zenon
  <1>6. Unit = u
    BY DEF Unit
  <1>. HIDE DEF u
  <1>7. \A l \in Layers : u[l] = IF l = 0 THEN 1 ELSE u[l - 1] * LayerRatio[l - 1]
    BY <1>5
  <1>8. \A l \in Layers : u[l] \in Nat
    <2>. DEFINE S == {l \in Layers : u[l] \notin Nat}
    <2>. SUFFICES ASSUME S # {} PROVE FALSE
      OBVIOUS
    <2>1. S \in SUBSET Nat
      BY LastLayer
    <2>2. PICK l \in S : \A k \in S : l <= k
      BY <2>1, Least, Zenon
    <2>3. l \in Layers /\ l \in Nat /\ u[l] \notin Nat
      BY <2>1
    <2>4. CASE l = 0
      BY <1>7, <2>3, <2>4
    <2>5. CASE l # 0
      <3>1. l - 1 \in Layers /\ ~(l <= l - 1)
        BY <2>3, <2>5, LastLayer
      <3>2. u[l - 1] \in Nat /\ LayerRatio[l - 1] \in Nat
        BY <2>2, <3>1, LastLayer
      <3>3. u[l] = u[l - 1] * LayerRatio[l - 1]
        BY <1>7, <2>3, <2>5
      <3>. QED BY <2>3, <3>2, <3>3
    <2>. QED BY <2>4, <2>5
  <1>9. u \in [Layers -> Nat]
    BY <1>5, <1>8
  <1>. QED BY <1>6, <1>7, <1>9, LastLayer

\* A set has so many elements.
Holds(S, n) == IsFiniteSet(S) /\ Cardinality(S) >= n

\* The axes of a layer, with the one that waits to get into it.
Incoming(l) == pc # "idle" /\ l <= layer
Count(l) == Size(l) + (IF Incoming(l) THEN 1 ELSE 0)

\* A layer has been reduced before if one below it holds an axis or waits for one; then
\* it still has the axes that it keeps across a Reduce.
Passed(l) == (\E m \in Layers : l < m /\ ~Empty[m]) \/ (pc # "idle" /\ l < layer)
Keeps(l) == IF l = NumLayers - 1 THEN LayerLen[l] ELSE LayerLen[l] - LayerRatio[l] + 1

AxesRich == \A l \in Layers : \A p \in Pieces(l) : Holds(p.samples, Unit[l])
WaitingRich == pc # "idle" => \A l \in 0 .. layer : Holds(arg[l].axis, Unit[l])
TakenOutRich == Holds(merged, drained * Unit[layer])
Deep == \A l \in 0 .. NumLayers - 2 : Passed(l) => Count(l) >= Keeps(l)
Forgetful == StartTime[NumLayers - 1] > 0 =>
               ~Empty[NumLayers - 1] /\ Count(NumLayers - 1) >= LayerLen[NumLayers - 1]

\* The inductive invariant behind what is kept.
KeptInv == AxesRich /\ WaitingRich /\ TakenOutRich /\ Deep /\ Forgetful

\* Axes are finite sets.
LEMMA AxesFinite ==
    ASSUME NEW S \in Axis
    PROVE  IsFiniteSet(S) /\ Cardinality(S) \in Nat
  <1>1. IsFiniteSet(Time)
    BY FS_Interval, LayerAssumption DEF Time
  <1>2. S \in SUBSET Time
    BY DEF Axis
  <1>3. IsFiniteSet(S)
    BY <1>1, <1>2, FS_Subset
  <1>. QED BY <1>3, FS_CardinalityType

\* Sets apart from each other hold what both hold.
LEMMA HoldsBoth ==
    ASSUME NEW S, NEW T, NEW m \in Nat, NEW n \in Nat, Holds(S, m), Holds(T, n), S \cap T = {}
    PROVE  Holds(S \union T, m + n)
  <1>1. IsFiniteSet(S) /\ IsFiniteSet(T) /\ Cardinality(S) >= m /\ Cardinality(T) >= n
    BY DEF Holds
  <1>2. Cardinality(S) \in Nat /\ Cardinality(T) \in Nat /\ Cardinality(S \cap T) = 0
    BY <1>1, FS_CardinalityType, FS_EmptySet
  <1>3. /\ IsFiniteSet(S \union T)
        /\ Cardinality(S \union T) = Cardinality(S) + Cardinality(T) - Cardinality(S \cap T)
    BY <1>1, FS_Union
  <1>4. Cardinality(S \union T) >= m + n
    BY <1>1, <1>2, <1>3
  <1>. QED BY <1>3, <1>4 DEF Holds

\* A larger set holds what a part of it holds.
LEMMA HoldsMore ==
    ASSUME NEW S, NEW T, NEW n \in Nat, Holds(S, n), S \subseteq T, T \in Axis
    PROVE  Holds(T, n)
  <1>1. IsFiniteSet(T) /\ Cardinality(T) \in Nat
    BY AxesFinite
  <1>2. Cardinality(S) <= Cardinality(T) /\ Cardinality(S) \in Nat /\ Cardinality(S) >= n
    BY <1>1, FS_Subset, FS_CardinalityType DEF Holds
  <1>3. Cardinality(T) >= n
    BY <1>1, <1>2
  <1>. QED BY <1>1, <1>3 DEF Holds

\* Nothing is expected of no samples.
LEMMA HoldsNone == Holds({}, 0)
  BY FS_EmptySet DEF Holds

\* Where axes may be counted.
LEMMA CountRange ==
    ASSUME OInv, NEW l \in Layers
    PROVE  Count(l) \in Nat /\ Size(l) \in Nat /\ Count(l) >= Size(l)
  <1>1. Size(l) \in Nat
    BY SizeRange, LastLayer DEF OInv
  <1>. QED BY <1>1 DEF Count

\* At first there is nothing.
LEMMA KeptInit ==
    ASSUME Init, OInv
    PROVE  KeptInv
  <1>1. /\ pc = "idle" /\ merged = {} /\ drained = 0 /\ layer = 0
        /\ \A l \in Layers : Empty[l] /\ StartTime[l] = 0
    BY DEF Init, EachLayer
  <1>2. \A l \in Layers : Pieces(l) = {}
    <2>1. \A l \in Layers : Size(l) = 0
      BY <1>1 DEF Size
    <2>. QED BY <2>1 DEF Pieces
  <1>3. TakenOutRich
    <2>1. Unit[layer] \in Nat
      BY <1>1, UnitIs, LastLayer
    <2>2. drained * Unit[layer] = 0
      BY <1>1, <2>1
    <2>. QED BY <1>1, <2>2, HoldsNone DEF TakenOutRich
  <1>4. Deep
    BY <1>1 DEF Deep, Passed
  <1>5. Forgetful
    BY <1>1, LastLayer DEF Forgetful
  <1>. QED BY <1>1, <1>2, <1>3, <1>4, <1>5 DEF KeptInv, AxesRich, WaitingRich

\* A sample waits as an axis of one sample.
LEMMA KeptSample ==
    ASSUME OInv, KeptInv, NEW t \in 1 .. MaxTime, StatAppend(t)
    PROVE  KeptInv'
  <1>1. /\ pc = "idle" /\ pc' = "append" /\ layer' = layer /\ layer = 0
        /\ drained' = drained /\ merged' = merged /\ drained = 0 /\ merged = {}
        /\ arg' = [arg EXCEPT ![0] = [axis |-> {t}, endTime |-> t]]
        /\ StartTime' = StartTime /\ EndTime' = EndTime /\ RingTimes' = RingTimes
        /\ RingAxes' = RingAxes /\ RingHead' = RingHead /\ RingTail' = RingTail /\ Empty' = Empty
    BY DEF StatAppend, ringVars, OInv, CallOK
  <1>2. \A l \in Layers : ~Reduced(l) /\ ~Reduced(l)'
    BY <1>1, LastLayer DEF Reduced
  <1>3. ASSUME NEW l \in Layers
        PROVE  Size(l)' = Size(l) /\ Pieces(l)' = Pieces(l)
    <2>1. Size(l)' = Size(l)
      BY <1>1, <1>2 DEF Size
    <2>2. \A i \in Nat : Slot(l, i)' = Slot(l, i) /\ Bound(l, i)' = Bound(l, i)
      BY <1>1 DEF Slot, Bound
    <2>. QED BY <1>1, <2>1, <2>2, PiecesSame
  <1>4. AxesRich'
    BY <1>3 DEF KeptInv, AxesRich
  <1>5. WaitingRich'
    <2>1. arg'[0].axis = {t}
      BY <1>1, LastLayer DEF OInv, TypeOK
    <2>2. IsFiniteSet({t}) /\ Cardinality({t}) = 1
      BY FS_Singleton
    <2>3. Holds({t}, Unit[0])
      BY <2>2, UnitIs DEF Holds
    <2>4. \A l \in 0 .. layer' : l = 0
      BY <1>1
    <2>. QED BY <2>1, <2>3, <2>4 DEF WaitingRich
  <1>6. TakenOutRich'
    BY <1>1 DEF KeptInv, TakenOutRich
  <1>7. \A l \in Layers : Count(l)' >= Count(l)
    <2>. SUFFICES ASSUME NEW l \in Layers PROVE Count(l)' >= Count(l)
      OBVIOUS
    <2>1. Size(l) \in Nat /\ Size(l)' = Size(l) /\ ~Incoming(l)
      BY <1>1, <1>3, CountRange DEF Incoming
    <2>. QED BY <2>1 DEF Count
  <1>8. Deep'
    <2>. SUFFICES ASSUME NEW l \in 0 .. NumLayers - 2, Passed(l)' PROVE Count(l)' >= Keeps(l)
      BY DEF Deep, Keeps
    <2>1. l \in Layers /\ ~(l < 0)
      BY LastLayer, LayerAssumption
    <2>2. Passed(l)
      BY <1>1, <2>1 DEF Passed
    <2>3. Count(l) >= Keeps(l) /\ Count(l) \in Nat /\ Count(l)' >= Count(l)
      BY <1>7, <2>1, <2>2, CountRange DEF KeptInv, Deep
    <2>4. Keeps(l) \in Int /\ Count(l)' \in Int
      BY <1>3, <2>1, LastLayer, CountRange DEF Keeps, Count
    <2>. QED BY <2>3, <2>4
  <1>9. Forgetful'
    <2>. SUFFICES ASSUME StartTime[NumLayers - 1] > 0
                  PROVE  ~Empty[NumLayers - 1] /\ Count(NumLayers - 1)' >= LayerLen[NumLayers - 1]
      BY <1>1 DEF Forgetful
    <2>1. ~Empty[NumLayers - 1] /\ Count(NumLayers - 1) >= LayerLen[NumLayers - 1]
      BY DEF KeptInv, Forgetful
    <2>2. /\ Count(NumLayers - 1)' >= Count(NumLayers - 1) /\ Count(NumLayers - 1) \in Nat
          /\ LayerLen[NumLayers - 1] \in Nat /\ Count(NumLayers - 1)' \in Int
      BY <1>3, <1>7, LastLayer, CountRange DEF Count
    <2>. QED BY <2>1, <2>2
  <1>. QED BY <1>4, <1>5, <1>6, <1>8, <1>9 DEF KeptInv

\* What both ways of taking an axis out do: one axis less, a rich one.
LEMMA KeptTakeOut ==
    ASSUME OInv, KeptInv, TakingOut
    PROVE  /\ AxesRich'
           /\ Holds(RingAxes[layer][RingHead[layer]], Unit[layer])
           /\ \A l \in Layers \ {layer} : Size(l)' = Size(l)
           /\ Size(layer)' = (LayerLen[layer] - drained) - 1
           /\ ~Empty[layer] /\ layer \in Layers
  <1>1. /\ layer \in Layers
        /\ \A k \in Layers \ {layer} : Pieces(k)' = Pieces(k)
        /\ \A k \in Layers : k = layer => Pieces(k) = Pieces(k)' \union {Oldest(k)}
    BY PiecesTakeOut
  <1>2. AxesRich'
    BY <1>1 DEF KeptInv, AxesRich
  <1>3. Oldest(layer) \in Pieces(layer)
    BY <1>1
  <1>4. Holds(Oldest(layer).samples, Unit[layer])
    BY <1>1, <1>3 DEF KeptInv, AxesRich
  <1>5. Oldest(layer).samples = RingAxes[layer][RingHead[layer]]
    BY DEF Oldest
  <1>6. /\ \A l \in Layers \ {layer} : Size(l)' = Size(l)
        /\ ~Empty[layer] /\ Size(layer) = LayerLen[layer] - drained /\ Size(layer)' = Size(layer) - 1
    BY TakeOutShift
  <1>. QED BY <1>1, <1>2, <1>4, <1>5, <1>6

\* The last layer forgets its oldest axis when all its slots are in use, and the axis
\* that waits takes the place.
LEMMA KeptDrop ==
    ASSUME OInv, KeptInv, DropOldest
    PROVE  KeptInv'
  <1>1. /\ TakingOut /\ pc = "append" /\ pc' = "insert" /\ layer' = layer /\ arg' = arg
        /\ drained' = drained /\ merged' = merged /\ Empty' = Empty /\ drained = 0 /\ merged = {}
        /\ DropsOldest(layer)
    BY DEF DropOldest, TakingOut, TakeOut, clockVars, OInv, CallOK
  <1>2. layer = NumLayers - 1 /\ layer \in Layers /\ layer \in Nat /\ LayerLen[layer] \in Nat
    BY <1>1, LayerAssumption DEF DropsOldest, OInv, TypeOK, Layers
  <1>3. /\ AxesRich' /\ ~Empty[layer]
        /\ \A l \in Layers \ {layer} : Size(l)' = Size(l)
        /\ Size(layer)' = LayerLen[layer] - 1
    BY <1>1, <1>2, KeptTakeOut
  <1>4. WaitingRich'
    BY <1>1 DEF KeptInv, WaitingRich
  <1>5. TakenOutRich'
    BY <1>1 DEF KeptInv, TakenOutRich
  <1>6. Deep'
    <2>. SUFFICES ASSUME NEW l \in 0 .. NumLayers - 2, Passed(l)' PROVE Count(l)' >= Keeps(l)
      BY DEF Deep, Keeps
    <2>1. l \in Layers \ {layer}
      BY <1>2, LastLayer, LayerAssumption
    <2>2. Passed(l) /\ Count(l)' = Count(l)
      BY <1>1, <1>3, <2>1 DEF Passed, Count, Incoming
    <2>. QED BY <2>2 DEF KeptInv, Deep
  <1>7. Forgetful'
    <2>1. Incoming(layer)'
      BY <1>1, <1>2 DEF Incoming
    <2>2. Count(NumLayers - 1)' = LayerLen[NumLayers - 1]
      <3>1. /\ Incoming(NumLayers - 1)'
            /\ Size(NumLayers - 1)' = LayerLen[NumLayers - 1] - 1
        BY <1>1, <1>2, <1>3, <2>1
      <3>2. LayerLen[NumLayers - 1] \in Nat
        BY LastLayer
      <3>. QED BY <3>1, <3>2 DEF Count
    <2>3. ~Empty'[NumLayers - 1] /\ LayerLen[NumLayers - 1] >= LayerLen[NumLayers - 1]
      BY <1>1, <1>2, <1>3
    <2>. QED BY <2>2, <2>3 DEF Forgetful
  <1>. QED BY <1>3, <1>4, <1>5, <1>6, <1>7 DEF KeptInv

\* One axis more in hand, and no more than Ratio of them are gone from the ring.
LEMMA KeptReduce ==
    ASSUME OInv, KeptInv, ReduceOne
    PROVE  KeptInv'
  <1>1. /\ TakingOut /\ pc # "idle" /\ pc' = "reduce" /\ layer' = layer /\ arg' = arg
        /\ drained' = drained + 1 /\ Empty' = Empty
        /\ merged' = merged \union RingAxes[layer][RingHead[layer]]
        /\ \/ pc = "append" /\ ~DropsOldest(layer)
           \/ pc = "reduce" /\ drained < LayerRatio[layer]
        /\ StartTime' = [StartTime EXCEPT ![layer] = RingTimes[layer][RingHead[layer]]]
    BY DEF ReduceOne, TakingOut, TakeOut, clockVars
  <1>2. layer \in Layers /\ layer \in Nat /\ layer # NumLayers - 1 /\ drained \in Nat
    <2>1. ~DropsOldest(layer)
      BY <1>1 DEF OInv, CallOK
    <2>. QED BY <2>1, LastLayer DEF DropsOldest, OInv, TypeOK
  <1>3. drained + 1 <= LayerRatio[layer] /\ LayerRatio[layer] \in Nat /\ LayerLen[layer] \in Nat
    <2>1. pc = "append" => drained = 0
      BY DEF OInv, CallOK
    <2>. QED BY <1>1, <1>2, <2>1, LastLayer
  <1>4. /\ AxesRich' /\ ~Empty[layer]
        /\ Holds(RingAxes[layer][RingHead[layer]], Unit[layer])
        /\ \A l \in Layers \ {layer} : Size(l)' = Size(l)
        /\ Size(layer)' = (LayerLen[layer] - drained) - 1
    BY <1>1, KeptTakeOut
  <1>5. WaitingRich'
    BY <1>1 DEF KeptInv, WaitingRich
  <1>6. TakenOutRich'
    <2>1. PICK u \in Nat : u = Unit[layer]
      BY <1>2, UnitIs
    <2>2. PICK d \in Nat : d = drained
      BY <1>2
    <2>. DEFINE A == RingAxes[layer][RingHead[layer]]
    <2>3. Holds(merged, d * u) /\ Holds(A, u) /\ d * u \in Nat
      BY <1>4, <2>1, <2>2 DEF KeptInv, TakenOutRich
    <2>4. merged \cap A = {}
      <3>1. CASE pc = "append"
        <4>1. merged = {}
          BY <3>1 DEF OInv, CallOK
        <4>. QED BY <4>1
      <3>2. CASE pc = "reduce"
        <4>1. /\ layer + 1 \in Layers /\ (layer + 1) - 1 = layer /\ layer + 1 # 0
              /\ ~(layer + 1 <= layer)
          BY <1>2, LastLayer
        <4>2. Inside(merged, EndTime[layer + 1], Above(layer + 1))
          BY <3>2, <4>1 DEF OInv, LayersOrdered
        <4>3. Above(layer + 1) = StartTime[layer]
          BY <4>1 DEF Above
        <4>4. Inside(A, StartTime[layer], StartTime'[layer])
          BY <1>1, TakeOutKeeps
        <4>5. merged \subseteq Nat /\ StartTime[layer] \in Nat
          BY <1>2, TimeNat DEF OInv, TypeOK, Axis
        <4>6. \A x \in merged : x <= StartTime[layer] /\ x \in Nat
          BY <4>2, <4>3, <4>5 DEF Inside
        <4>7. \A x \in A : StartTime[layer] < x
          BY <4>4 DEF Inside
        <4>8. ASSUME NEW x \in merged, x \in A PROVE FALSE
          BY <4>5, <4>6, <4>7, <4>8
        <4>. QED BY <4>8
      <3>. QED BY <1>1, <3>1, <3>2
    <2>. HIDE DEF A
    <2>5. Holds(merged \union A, d * u + u)
      BY <2>3, <2>4, HoldsBoth
    <2>6. d * u + u = (d + 1) * u
      OBVIOUS
    <2>7. merged' = merged \union A /\ drained' * Unit[layer]' = (d + 1) * u
      BY <1>1, <2>1, <2>2 DEF A
    <2>. QED BY <2>5, <2>6, <2>7 DEF TakenOutRich
  <1>7. Deep'
    <2>. SUFFICES ASSUME NEW l \in 0 .. NumLayers - 2, Passed(l)' PROVE Count(l)' >= Keeps(l)
      BY DEF Deep, Keeps
    <2>0. l \in Layers /\ l # NumLayers - 1
      BY <1>2, LastLayer, LayerAssumption
    <2>1. CASE l = layer
      <3>1. Incoming(l)'
        BY <1>1, <1>2, <2>1 DEF Incoming
      <3>2. Count(l)' = ((LayerLen[layer] - drained) - 1) + 1
        BY <1>1, <1>4, <2>1, <3>1 DEF Count
      <3>3. Keeps(l) = LayerLen[layer] - LayerRatio[layer] + 1
        BY <2>0, <2>1 DEF Keeps
      <3>. QED BY <1>2, <1>3, <3>2, <3>3
    <2>2. CASE l # layer
      <3>1. Passed(l) /\ Count(l)' = Count(l)
        BY <1>1, <1>4, <2>0, <2>2 DEF Passed, Count, Incoming
      <3>. QED BY <3>1 DEF KeptInv, Deep
    <2>. QED BY <2>1, <2>2
  <1>8. Forgetful'
    <2>1. StartTime'[NumLayers - 1] = StartTime[NumLayers - 1]
      BY <1>1, <1>2, LastLayer DEF OInv, TypeOK
    <2>2. Count(NumLayers - 1)' = Count(NumLayers - 1)
      BY <1>1, <1>2, <1>4, LastLayer DEF Count, Incoming
    <2>. QED BY <1>1, <2>1, <2>2 DEF KeptInv, Forgetful
  <1>. QED BY <1>4, <1>5, <1>6, <1>7, <1>8 DEF KeptInv

\* What was taken out waits as one axis: Ratio axes of a unit are a unit of the next layer.
LEMMA KeptHandOver ==
    ASSUME OInv, KeptInv, HandOver
    PROVE  KeptInv'
  <1>1. /\ pc = "reduce" /\ pc' = "append" /\ layer' = layer + 1 /\ drained = LayerRatio[layer]
        /\ drained' = 0 /\ merged' = {}
        /\ arg' = [arg EXCEPT ![layer + 1] = [axis |-> merged, endTime |-> StartTime[layer]]]
        /\ StartTime' = StartTime /\ EndTime' = EndTime /\ RingTimes' = RingTimes
        /\ RingAxes' = RingAxes /\ RingHead' = RingHead /\ RingTail' = RingTail /\ Empty' = Empty
    BY DEF HandOver, Compacted, clockVars, ringVars
  <1>2. layer \in Layers /\ layer \in Nat /\ layer # NumLayers - 1 /\ layer + 1 \in Layers
    <2>1. ~DropsOldest(layer)
      BY <1>1 DEF OInv, CallOK
    <2>. QED BY <2>1, LastLayer DEF DropsOldest, OInv, TypeOK
  <1>3. \A l \in Layers : /\ l \in Nat /\ (l < layer + 1 <=> l <= layer)
                         /\ (l <= layer + 1 <=> l <= layer \/ l = layer + 1)
    BY <1>2, LastLayer
  <1>4. ASSUME NEW l \in Layers PROVE Size(l)' = Size(l) /\ Pieces(l)' = Pieces(l)
    <2>0. Reduced(l)' <=> Reduced(l)
      BY <1>1, <1>3 DEF Reduced
    <2>1. Size(l)' = Size(l)
      BY <1>1, <2>0 DEF Size
    <2>2. \A i \in Nat : Slot(l, i)' = Slot(l, i) /\ Bound(l, i)' = Bound(l, i)
      BY <1>1 DEF Slot, Bound
    <2>. QED BY <1>1, <2>1, <2>2, PiecesSame
  <1>5. AxesRich'
    BY <1>4 DEF KeptInv, AxesRich
  <1>6. WaitingRich'
    <2>1. Unit[layer + 1] = LayerRatio[layer] * Unit[layer]
      <3>1. layer + 1 # 0 /\ (layer + 1) - 1 = layer
        BY <1>2
      <3>2. Unit[layer + 1] = Unit[layer] * LayerRatio[layer]
        BY <1>2, <3>1, UnitIs
      <3>3. Unit[layer] \in Nat /\ LayerRatio[layer] \in Nat
        BY <1>2, UnitIs, LastLayer
      <3>. QED BY <3>2, <3>3
    <2>2. Holds(merged, Unit[layer + 1])
      BY <1>1, <2>1 DEF KeptInv, TakenOutRich
    <2>3. arg'[layer + 1].axis = merged
      BY <1>1, <1>2 DEF OInv, TypeOK
    <2>. SUFFICES ASSUME NEW l \in 0 .. layer + 1 PROVE Holds(arg'[l].axis, Unit[l])
      BY <1>1 DEF WaitingRich
    <2>4. CASE l = layer + 1
      BY <2>2, <2>3, <2>4
    <2>5. CASE l # layer + 1
      <3>1. l \in 0 .. layer /\ l \in Layers
        BY <1>2, <2>5, LastLayer
      <3>2. arg'[l] = arg[l]
        BY <1>1, <2>5, <3>1 DEF OInv, TypeOK
      <3>. QED BY <1>1, <3>1, <3>2 DEF KeptInv, WaitingRich
    <2>. QED BY <2>4, <2>5
  <1>7. TakenOutRich'
    <2>1. Unit[layer + 1] \in Nat
      BY <1>2, UnitIs
    <2>2. drained' * Unit[layer'] = 0
      BY <1>1, <2>1
    <2>. QED BY <1>1, <2>2, HoldsNone DEF TakenOutRich
  <1>8. \A l \in Layers : l # layer + 1 => Count(l)' = Count(l)
    BY <1>1, <1>3, <1>4 DEF Count, Incoming
  <1>9. Deep'
    <2>. SUFFICES ASSUME NEW l \in 0 .. NumLayers - 2, Passed(l)' PROVE Count(l)' >= Keeps(l)
      BY DEF Deep, Keeps
    <2>0. l \in Layers /\ l # NumLayers - 1
      BY <1>2, LastLayer, LayerAssumption
    <2>1. CASE l = layer
      <3>1. Incoming(l) /\ l # layer + 1
        BY <1>1, <1>2, <2>1 DEF Incoming
      <3>2. Size(l) = LayerLen[l] - LayerRatio[l]
        BY <1>1, <2>1 DEF OInv, CallOK
      <3>3. Count(l)' = (LayerLen[l] - LayerRatio[l]) + 1
        BY <1>8, <2>0, <3>1, <3>2 DEF Count
      <3>4. Keeps(l) = LayerLen[l] - LayerRatio[l] + 1
        BY <2>0 DEF Keeps
      <3>5. LayerLen[l] \in Nat /\ LayerRatio[l] \in Nat
        BY <2>0, LastLayer
      <3>. QED BY <3>3, <3>4, <3>5
    <2>2. CASE l # layer
      <3>1. l < layer + 1 => l < layer
        BY <1>2, <1>3, <2>0, <2>2
      <3>2. Passed(l)
        BY <1>1, <3>1 DEF Passed
      <3>3. Count(l) >= Keeps(l)
        BY <3>2 DEF KeptInv, Deep
      <3>4. CASE l # layer + 1
        BY <1>8, <2>0, <3>3, <3>4
      <3>5. CASE l = layer + 1
        <4>1. ~Incoming(l) /\ Incoming(l)'
          BY <1>1, <1>2, <3>5 DEF Incoming
        <4>2. Count(l)' = Count(l) + 1 /\ Count(l) \in Nat
          BY <1>4, <2>0, <4>1, CountRange DEF Count
        <4>3. Keeps(l) \in Int
          BY <2>0, LastLayer DEF Keeps
        <4>. QED BY <3>3, <4>2, <4>3
      <3>. QED BY <3>4, <3>5
    <2>. QED BY <2>1, <2>2
  <1>10. Forgetful'
    <2>. SUFFICES ASSUME StartTime[NumLayers - 1] > 0
                  PROVE  ~Empty[NumLayers - 1] /\ Count(NumLayers - 1)' >= LayerLen[NumLayers - 1]
      BY <1>1 DEF Forgetful
    <2>1. ~Empty[NumLayers - 1] /\ Count(NumLayers - 1) >= LayerLen[NumLayers - 1]
      BY DEF KeptInv, Forgetful
    <2>2. Count(NumLayers - 1)' >= Count(NumLayers - 1) /\ Count(NumLayers - 1)' \in Int
      <3>1. CASE NumLayers - 1 # layer + 1
        <4>1. Count(NumLayers - 1)' = Count(NumLayers - 1)
          BY <1>8, <3>1, LastLayer
        <4>. QED BY <4>1, LastLayer, CountRange
      <3>2. CASE NumLayers - 1 = layer + 1
        <4>1. ~Incoming(NumLayers - 1) /\ Incoming(NumLayers - 1)'
          BY <1>1, <1>2, <3>2 DEF Incoming
        <4>2. Size(NumLayers - 1)' = Size(NumLayers - 1) /\ Size(NumLayers - 1) \in Nat
          BY <1>4, LastLayer, CountRange
        <4>. QED BY <4>1, <4>2 DEF Count
      <3>. QED BY <3>1, <3>2
    <2>3. Count(NumLayers - 1) \in Nat /\ LayerLen[NumLayers - 1] \in Nat
      BY LastLayer, CountRange
    <2>. QED BY <2>1, <2>2, <2>3
  <1>. QED BY <1>5, <1>6, <1>7, <1>9, <1>10 DEF KeptInv

\* The axis that waited is in the ring.
LEMMA KeptInsert ==
    ASSUME OInv, KeptInv, Insert
    PROVE  KeptInv'
  <1>. PICK m \in Layers : m = layer
    BY DEF OInv, TypeOK
  <1>1. /\ pc \in {"append", "insert"}
        /\ pc' = IF m = 0 THEN "idle" ELSE "insert"
        /\ layer' = IF m = 0 THEN 0 ELSE m - 1
        /\ StartTime' = StartTime /\ Empty' = [Empty EXCEPT ![m] = FALSE]
        /\ arg' = [arg EXCEPT ![m] = NoArg]
        /\ drained' = drained /\ merged' = merged /\ drained = 0 /\ merged = {}
    BY DEF Insert, clockVars, OInv, CallOK
  <1>2. /\ \A l \in Layers : l \in Nat
        /\ \A l \in Layers : l <= m - 1 <=> l < m
        /\ \A l \in Layers : m = 0 /\ l <= m => l = m
        /\ \A l \in Layers : l <= m <=> l < m \/ l = m
        /\ m = 0 => \A l \in Layers : ~(l < m)
    BY LastLayer
  <1>3. ASSUME NEW l \in Layers PROVE Incoming(l)' <=> l < m
    BY <1>1, <1>2 DEF Incoming
  <1>4. ASSUME NEW l \in Layers PROVE Incoming(l) <=> l < m \/ l = m
    BY <1>1, <1>2 DEF Incoming
  <1>5. /\ \A l \in Layers \ {m} : Size(l)' = Size(l)
        /\ Size(m)' = Size(m) + 1 /\ \A l \in Layers : Size(l) \in Nat
    <2>1. PICK n \in Nat : n = Size(m)
      BY CountRange
    <2>2. Size(m)' = n + 1
      BY <2>1, InsertShift
    <2>3. \A l \in Layers : Size(l) \in Nat
      BY CountRange
    <2>. QED BY <2>1, <2>2, <2>3, InsertShift
  <1>6. ASSUME NEW l \in Layers PROVE Count(l)' = Count(l)
    <2>1. CASE l = m
      <3>1. ~Incoming(l)' /\ Incoming(l)
        BY <1>2, <1>3, <1>4, <2>1
      <3>. QED BY <1>5, <2>1, <3>1 DEF Count
    <2>2. CASE l # m
      <3>1. Incoming(l)' <=> Incoming(l)
        BY <1>3, <1>4, <2>2
      <3>. QED BY <1>5, <2>2, <3>1 DEF Count
    <2>. QED BY <2>1, <2>2
  <1>7. AxesRich'
    <2>. SUFFICES ASSUME NEW l \in Layers, NEW p \in Pieces(l)' PROVE Holds(p.samples, Unit[l])
      BY DEF AxesRich
    <2>1. CASE l # m
      <3>1. p \in Pieces(l)
        BY <2>1, PiecesInsert
      <3>. QED BY <3>1 DEF KeptInv, AxesRich
    <2>2. CASE l = m
      <3>1. p \in Pieces(l) \/ p = Inserted(l)
        BY <2>2, PiecesInsert
      <3>2. Inserted(l).samples = arg[l].axis
        BY DEF Inserted
      <3>3. l \in 0 .. layer /\ pc # "idle"
        BY <1>1, <1>2, <2>2
      <3>4. Holds(arg[l].axis, Unit[l])
        BY <3>3 DEF KeptInv, WaitingRich
      <3>. QED BY <3>1, <3>2, <3>4 DEF KeptInv, AxesRich
    <2>. QED BY <2>1, <2>2
  <1>8. WaitingRich'
    <2>. SUFFICES ASSUME m # 0, NEW l \in 0 .. m - 1 PROVE Holds(arg'[l].axis, Unit[l])
      BY <1>1 DEF WaitingRich
    <2>1. l \in Layers /\ l \in 0 .. layer /\ l # m
      BY <1>2, LastLayer
    <2>2. arg'[l] = arg[l]
      BY <1>1, <2>1 DEF OInv, TypeOK
    <2>. QED BY <1>1, <2>1, <2>2 DEF KeptInv, WaitingRich
  <1>9. TakenOutRich'
    <2>1. layer' \in Layers
      BY <1>1, LastLayer
    <2>2. Unit[layer'] \in Nat
      BY <2>1, UnitIs
    <2>3. drained' * Unit[layer'] = 0
      BY <1>1, <2>2
    <2>. QED BY <1>1, <2>3, HoldsNone DEF TakenOutRich
  <1>10. \A l \in Layers : Passed(l)' => Passed(l)
    <2>. SUFFICES ASSUME NEW l \in Layers, Passed(l)' PROVE Passed(l)
      OBVIOUS
    <2>1. CASE pc' # "idle" /\ l < layer'
      <3>1. l < m
        BY <1>1, <1>2, <2>1
      <3>. QED BY <1>1, <3>1 DEF Passed
    <2>2. CASE \E k \in Layers : l < k /\ ~Empty'[k]
      <3>1. PICK k \in Layers : l < k /\ ~Empty'[k]
        BY <2>2
      <3>2. k = m \/ ~Empty[k]
        BY <1>1, <3>1 DEF OInv, TypeOK
      <3>. QED BY <1>1, <3>1, <3>2 DEF Passed
    <2>. QED BY <2>1, <2>2 DEF Passed
  <1>11. Deep'
    <2>. SUFFICES ASSUME NEW l \in 0 .. NumLayers - 2, Passed(l)' PROVE Count(l)' >= Keeps(l)
      BY DEF Deep, Keeps
    <2>1. l \in Layers
      BY LastLayer, LayerAssumption
    <2>2. Passed(l) /\ Count(l)' = Count(l)
      BY <1>6, <1>10, <2>1
    <2>. QED BY <2>2 DEF KeptInv, Deep
  <1>12. Forgetful'
    <2>1. Count(NumLayers - 1)' = Count(NumLayers - 1)
      BY <1>6, LastLayer
    <2>2. ~Empty[NumLayers - 1] => ~Empty'[NumLayers - 1]
      BY <1>1, LastLayer DEF OInv, TypeOK
    <2>. QED BY <1>1, <2>1, <2>2 DEF KeptInv, Forgetful
  <1>. QED BY <1>7, <1>8, <1>9, <1>11, <1>12 DEF KeptInv

\* The invariant holds of what no step changes.
LEMMA KeptStutter ==
    ASSUME KeptInv, UNCHANGED vars
    PROVE  KeptInv'
  <1>1. /\ StartTime' = StartTime /\ EndTime' = EndTime /\ RingTimes' = RingTimes
        /\ RingAxes' = RingAxes /\ RingHead' = RingHead /\ RingTail' = RingTail /\ Empty' = Empty
        /\ pc' = pc /\ layer' = layer /\ arg' = arg /\ drained' = drained /\ merged' = merged
    BY DEF vars, ringVars, callVars
  <1>2. ASSUME NEW l PROVE Reduced(l)' = Reduced(l)
    BY <1>1 DEF Reduced
  <1>3. ASSUME NEW l PROVE Size(l)' = Size(l)
    BY <1>1, <1>2 DEF Size
  <1>4. ASSUME NEW l PROVE Pieces(l)' = Pieces(l)
    <2>1. ASSUME NEW i PROVE Slot(l, i)' = Slot(l, i)
      BY <1>1 DEF Slot
    <2>2. ASSUME NEW i PROVE Bound(l, i)' = Bound(l, i)
      BY <1>1, <2>1 DEF Bound
    <2>. QED BY <1>1, <1>3, <2>1, <2>2 DEF Pieces
  <1>5. ASSUME NEW l PROVE Count(l)' = Count(l) /\ Passed(l)' = Passed(l)
    BY <1>1, <1>3 DEF Count, Passed, Incoming
  <1>6. AxesRich' /\ WaitingRich' /\ TakenOutRich'
    BY <1>1, <1>4 DEF KeptInv, AxesRich, WaitingRich, TakenOutRich
  <1>7. Deep'
    BY <1>5 DEF KeptInv, Deep, Keeps
  <1>8. Forgetful'
    BY <1>1, <1>5 DEF KeptInv, Forgetful
  <1>. QED BY <1>6, <1>7, <1>8 DEF KeptInv

\* Every axis of a layer has its share of samples, and a layer that was reduced once
\* stays as deep as a Reduce leaves it.
THEOREM LayersRich == Spec => []KeptInv
  <1>1. Init => KeptInv
    <2>1. IInv => OInv
      BY ExactIsOrdered
    <2>. QED BY <2>1, InitIInv, KeptInit
  <1>2. IInv /\ KeptInv /\ [Next]_vars => KeptInv'
    <2>. SUFFICES ASSUME IInv, KeptInv, [Next]_vars PROVE KeptInv'
      OBVIOUS
    <2>0. OInv
      BY ExactIsOrdered
    <2>1. CASE \E t \in 1 .. MaxTime : StatAppend(t)
      BY <2>0, <2>1, KeptSample
    <2>2. CASE DropOldest
      BY <2>0, <2>2, KeptDrop
    <2>3. CASE ReduceOne
      BY <2>0, <2>3, KeptReduce
    <2>4. CASE HandOver
      BY <2>0, <2>4, KeptHandOver
    <2>5. CASE Insert
      BY <2>0, <2>5, KeptInsert
    <2>6. CASE UNCHANGED vars
      BY <2>6, KeptStutter
    <2>. QED BY <2>1, <2>2, <2>3, <2>4, <2>5, <2>6 DEF Next
  <1>. QED BY <1>1, <1>2, LayersCorrect, PTL DEF Spec

\* What the layers down to l keep at least.
AddsUp(k) == /\ k \in [Layers -> Nat]
             /\ \A l \in Layers : k[l] = Keeps(l) * Unit[l] + (IF l = 0 THEN 0 ELSE k[l - 1])

\* A layer keeps a number of axes.
LEMMA KeepsSome == \A l \in Layers : Keeps(l) \in Nat
  BY LastLayer DEF Keeps

\* What is guaranteed is that of the last layer.
LEMMA GuaranteedIs == \E k : AddsUp(k) /\ GuaranteedSamples = k[NumLayers - 1]
  <1>1. \A l \in Layers : Keeps(l) \in Nat /\ Unit[l] \in Nat /\ Keeps(l) * Unit[l] \in Nat
    <2>. SUFFICES ASSUME NEW l \in Layers
                  PROVE  Keeps(l) \in Nat /\ Unit[l] \in Nat /\ Keeps(l) * Unit[l] \in Nat
      OBVIOUS
    <2>1. Keeps(l) \in Nat
      BY KeepsSome
    <2>2. Unit[l] \in Nat
      BY UnitIs
    <2>. QED BY <2>1, <2>2
  <1>. DEFINE step == [x \in Layers \X Nat |->
                          Keeps(x[1]) * Unit[x[1]] + (IF x[1] = 0 THEN 0 ELSE x[2])]
  <1>2. step \in [Layers \X Nat -> Nat]
    <2>. SUFFICES ASSUME NEW x \in Layers \X Nat
                  PROVE  Keeps(x[1]) * Unit[x[1]] + (IF x[1] = 0 THEN 0 ELSE x[2]) \in Nat
      OBVIOUS
    <2>1. x[1] \in Layers /\ x[2] \in Nat
      OBVIOUS
    <2>2. PICK v \in Nat : v = Keeps(x[1]) * Unit[x[1]]
      BY <1>1, <2>1
    <2>. QED BY <2>1, <2>2
  <1>3. \A l \in Layers : \A u \in Nat :
           step[<<l, u>>] = Keeps(l) * Unit[l] + (IF l = 0 THEN 0 ELSE u)
    OBVIOUS
  <1>. HIDE DEF step
  <1>4. PICK f \in [Layers -> Nat] : IsMade(f, step, NumLayers - 1)
    BY <1>2, MadeUpTo, LastLayer
  <1>. DEFINE Good(k) == k = [l \in Layers |-> Keeps(l) * Unit[l] + (IF l = 0 THEN 0 ELSE k[l - 1])]
  <1>5. Good(f)
    <2>1. ASSUME NEW l \in Layers PROVE f[l] = Keeps(l) * Unit[l] + (IF l = 0 THEN 0 ELSE f[l - 1])
      <3>1. f[l] = IF l = 0 THEN step[<<0, 0>>] ELSE step[<<l, f[l - 1]>>]
        BY <1>4, LastLayer DEF IsMade
      <3>2. CASE l = 0
        BY <1>3, <3>1, <3>2
      <3>3. CASE l # 0
        <4>1. f[l - 1] \in Nat
          BY <3>3, LastLayer
        <4>. QED BY <1>3, <3>1, <3>3, <4>1
      <3>. QED BY <3>2, <3>3
    <2>. QED BY <2>1
  <1>. DEFINE k == CHOOSE v : Good(v)
  <1>6. Good(k)
    BY <1>5, Zenon
  <1>7. GuaranteedSamples = k[NumLayers - 1]
    BY DEF GuaranteedSamples, Keeps
  <1>. HIDE DEF k
  <1>8. \A l \in Layers : k[l] = Keeps(l) * Unit[l] + (IF l = 0 THEN 0 ELSE k[l - 1])
    BY <1>6
  <1>9. \A l \in Layers : k[l] \in Nat
    <2>. DEFINE S == {l \in Layers : k[l] \notin Nat}
    <2>. SUFFICES ASSUME S # {} PROVE FALSE
      OBVIOUS
    <2>1. S \in SUBSET Nat
      BY LastLayer
    <2>2. PICK l \in S : \A j \in S : l <= j
      BY <2>1, Least, Zenon
    <2>3. l \in Layers /\ l \in Nat /\ k[l] \notin Nat
      BY <2>1
    <2>4. PICK v \in Nat : v = Keeps(l) * Unit[l]
      BY <1>1, <2>3
    <2>5. CASE l = 0
      BY <1>8, <2>3, <2>4, <2>5
    <2>6. CASE l # 0
      <3>1. l - 1 \in Layers /\ ~(l <= l - 1)
        BY <2>3, <2>6, LastLayer
      <3>2. k[l - 1] \in Nat
        BY <2>2, <3>1
      <3>3. k[l] = v + k[l - 1]
        BY <1>8, <2>3, <2>4, <2>6
      <3>. QED BY <2>3, <3>2, <3>3
    <2>. QED BY <2>5, <2>6
  <1>10. k \in [Layers -> Nat]
    BY <1>6, <1>9
  <1>. QED BY <1>7, <1>8, <1>10 DEF AddsUp

\* Two spans that meet make one, and no sample is in both.
LEMMA TwoSpans ==
    ASSUME NEW S \in SUBSET Nat, NEW a \in Nat, NEW b \in Nat, NEW c \in Nat, a <= b, b <= c
    PROVE  /\ Between(S, a, b) \union Between(S, b, c) = Between(S, a, c)
           /\ Between(S, a, b) \cap Between(S, b, c) = {}
  <1>1. S \in SUBSET Int
    OBVIOUS
  <1>2. \A t \in Nat : ~(t <= b /\ b < t)
    OBVIOUS
  <1>3. Between(S, a, b) \union Between(S, b, c) = Between(S, a, c)
    BY <1>1, BetweenJoin
  <1>4. Between(S, a, b) \cap Between(S, b, c) = {}
    BY <1>2 DEF Between
  <1>. QED BY <1>3, <1>4

\* The samples of the first i axes of a layer.
LEMMA RingHolds ==
    ASSUME IInv, AxesRich, NEW l \in Layers
    PROVE  \A i \in 0 .. Size(l) :
              Holds(Between(taken, StartTime[l], Bound(l, i)), i * Unit[l])
  <1>0. OInv /\ Size(l) \in Nat /\ taken \subseteq Nat /\ StartTime[l] \in Nat
    BY ExactIsOrdered, CountRange, TimeNat DEF OInv, TypeOK, Axis
  <1>. PICK u \in Nat : u = Unit[l]
    BY UnitIs
  <1>. DEFINE Part(i) == Between(taken, StartTime[l], Bound(l, i))
              S == {i \in 0 .. Size(l) : ~Holds(Part(i), i * u)}
  <1>. SUFFICES ASSUME S # {} PROVE FALSE
    OBVIOUS
  <1>1. S \in SUBSET Nat
    BY <1>0
  <1>2. PICK i \in S : \A j \in S : i <= j
    BY <1>1, Least, Zenon
  <1>3. i \in 0 .. Size(l) /\ i \in Nat /\ ~Holds(Part(i), i * u)
    BY <1>1
  <1>4. CASE i = 0
    <2>1. Part(0) = {}
      BY <1>0, BetweenSame DEF Bound
    <2>2. 0 * u = 0
      OBVIOUS
    <2>. QED BY <1>3, <1>4, <2>1, <2>2, HoldsNone
  <1>5. CASE i # 0
    <2>1. /\ i - 1 \in 0 .. Size(l) /\ i \in 1 .. Size(l) /\ ~(i <= i - 1) /\ i - 1 < i
          /\ 0 \in 0 .. Size(l) /\ (i - 1 = 0 \/ 0 < i - 1)
      BY <1>0, <1>3, <1>5
    <2>2. Holds(Part(i - 1), (i - 1) * u)
      BY <1>2, <2>1
    <2>. DEFINE A == RingAxes[l][Slot(l, i - 1)]
    <2>3. A = Between(taken, Bound(l, i - 1), Bound(l, i))
      BY <2>1 DEF IInv, AxesExact
    <2>4. Holds(A, u)
      <3>1. [from |-> Bound(l, i - 1), until |-> Bound(l, i), samples |-> A] \in Pieces(l)
        BY <2>1 DEF Pieces
      <3>. QED BY <3>1 DEF AxesRich
    <2>5. /\ Bound(l, i - 1) \in Nat /\ Bound(l, i) \in Nat
          /\ Bound(l, i - 1) < Bound(l, i) /\ Bound(l, 0) <= Bound(l, i - 1) /\ Bound(l, 0) = StartTime[l]
      <3>1. Bound(l, i - 1) \in Nat /\ Bound(l, i) \in Nat /\ Bound(l, 0) = StartTime[l]
        BY <1>0, <2>1, BoundRange, TimeNat DEF OInv, Bound
      <3>2. Bound(l, i - 1) < Bound(l, i) /\ (0 < i - 1 => Bound(l, 0) < Bound(l, i - 1))
        BY <2>1 DEF IInv, RingSorted
      <3>. QED BY <1>0, <2>1, <3>1, <3>2
    <2>6. PICK a \in Nat, b \in Nat, c \in Nat :
             a = StartTime[l] /\ b = Bound(l, i - 1) /\ c = Bound(l, i) /\ a <= b /\ b < c
      BY <1>0, <2>5
    <2>7. Part(i - 1) = Between(taken, a, b) /\ A = Between(taken, b, c) /\ Part(i) = Between(taken, a, c)
      BY <2>3, <2>6
    <2>. HIDE DEF A, Part, S
    <2>8. Part(i - 1) \union A = Part(i) /\ Part(i - 1) \cap A = {}
      <3>1. b <= c
        BY <2>6
      <3>2. /\ Between(taken, a, b) \union Between(taken, b, c) = Between(taken, a, c)
            /\ Between(taken, a, b) \cap Between(taken, b, c) = {}
        BY <1>0, <2>6, <3>1, TwoSpans
      <3>. QED BY <2>7, <3>2
    <2>10. (i - 1) * u \in Nat /\ (i - 1) * u + u = i * u
      <3>1. PICK j \in Nat : j = i - 1
        BY <2>1
      <3>2. i = j + 1 /\ j * u \in Nat /\ j * u + u = (j + 1) * u
        BY <1>3, <3>1
      <3>. QED BY <3>1, <3>2
    <2>11. Holds(Part(i - 1) \union A, (i - 1) * u + u)
      BY <2>2, <2>4, <2>8, <2>10, HoldsBoth
    <2>. QED BY <1>3, <2>8, <2>10, <2>11
  <1>. QED BY <1>4, <1>5

\* The samples of a layer, with those of the axis that waits to get into it.
LEMMA LayerHolds ==
    ASSUME IInv, AxesRich, WaitingRich, NEW l \in Layers
    PROVE  /\ Holds(Between(taken, StartTime[l], Above(l)), Count(l) * Unit[l])
           /\ Above(l) \in Nat /\ StartTime[l] \in Nat /\ StartTime[l] <= Above(l)
  <1>0. /\ OInv /\ Size(l) \in Nat /\ taken \subseteq Nat /\ taken \in Axis
        /\ StartTime[l] \in Nat /\ EndTime[l] \in Nat
    BY ExactIsOrdered, CountRange, TimeNat DEF OInv, TypeOK, Axis
  <1>. PICK u \in Nat : u = Unit[l]
    BY UnitIs
  <1>. PICK n \in Nat : n = Size(l)
    BY <1>0
  <1>1. Above(l) \in Nat
    <2>1. l # 0 => StartTime[l - 1] \in Nat
      BY LastLayer, <1>0, TimeNat DEF OInv, TypeOK
    <2>2. now \in Nat
      BY <1>0, TimeNat DEF OInv, TypeOK
    <2>. QED BY <2>1, <2>2 DEF Above
  <1>2. Bound(l, n) = EndTime[l] /\ StartTime[l] <= EndTime[l]
    <2>1. 0 \in 0 .. n /\ n \in 0 .. n /\ Bound(l, n) = EndTime[l]
      BY DEF IInv, RingSorted
    <2>2. Bound(l, 0) = StartTime[l] /\ Bound(l, 0) <= EndTime[l]
      BY <1>0, <2>1, BoundRange DEF OInv, Bound
    <2>. QED BY <2>1, <2>2
  <1>3. Holds(Between(taken, StartTime[l], EndTime[l]), n * u)
    <2>1. n \in 0 .. Size(l)
      OBVIOUS
    <2>. QED BY <1>2, <2>1, RingHolds
  <1>4. EndTime[l] <= Above(l)
    BY <1>0, <1>1 DEF OInv, LayersOrdered
  <1>. PICK a \in Nat, b \in Nat, c \in Nat :
          a = StartTime[l] /\ b = EndTime[l] /\ c = Above(l) /\ a <= b /\ b <= c
    BY <1>0, <1>1, <1>2, <1>4
  <1>. DEFINE Older == Between(taken, a, b)
              Newer == Between(taken, b, c)
              All == Between(taken, a, c)
  <1>5. Older \union Newer = All /\ Older \cap Newer = {}
    BY <1>0, TwoSpans
  <1>7. All \in Axis
    BY <1>0 DEF Between, Axis
  <1>8. Holds(Older, n * u) /\ n * u \in Nat
    BY <1>3
  <1>. HIDE DEF Older, Newer, All
  <1>9. CASE Incoming(l)
    <2>1. arg[l].axis = Between(taken, EndTime[l], Above(l))
      BY <1>9 DEF IInv, LayersLinked, Incoming
    <2>2. l \in 0 .. layer /\ pc # "idle"
      BY <1>9, LastLayer DEF Incoming
    <2>3. Holds(Newer, u)
      BY <2>1, <2>2 DEF WaitingRich, Newer
    <2>4. Holds(All, n * u + u)
      BY <1>5, <1>8, <2>3, HoldsBoth
    <2>5. Count(l) * u = n * u + u
      <3>1. Count(l) = n + 1
        BY <1>9 DEF Count
      <3>2. (n + 1) * u = n * u + u
        OBVIOUS
      <3>. QED BY <3>1, <3>2
    <2>6. Holds(All, Count(l) * Unit[l])
      BY <2>4, <2>5
    <2>. QED BY <1>1, <2>6 DEF All
  <1>10. CASE ~Incoming(l)
    <2>1. Count(l) = n
      BY <1>10 DEF Count
    <2>2. Older \subseteq All
      BY <1>5
    <2>3. Holds(All, n * u)
      BY <1>7, <1>8, <2>2, HoldsMore
    <2>4. Holds(All, Count(l) * Unit[l])
      BY <2>1, <2>3
    <2>. QED BY <1>1, <2>4 DEF All
  <1>. QED BY <1>9, <1>10

\* The samples of all layers down to one, when each is as deep as a Reduce leaves it.
LEMMA ChainHolds ==
    ASSUME IInv, KeptInv, \A l \in Layers : Count(l) >= Keeps(l), NEW k, AddsUp(k)
    PROVE  \A l \in Layers : Holds(Between(taken, StartTime[l], now), k[l])
  <1>0. OInv /\ taken \subseteq Nat /\ taken \in Axis /\ now \in Nat
    BY ExactIsOrdered, TimeNat DEF OInv, TypeOK, Axis
  <1>. DEFINE Kept(l) == Between(taken, StartTime[l], now)
              S == {l \in Layers : ~Holds(Kept(l), k[l])}
  <1>. SUFFICES ASSUME S # {} PROVE FALSE
    OBVIOUS
  <1>1. S \in SUBSET Nat
    BY LastLayer
  <1>2. PICK l \in S : \A j \in S : l <= j
    BY <1>1, Least, Zenon
  <1>3. l \in Layers /\ l \in Nat /\ ~Holds(Kept(l), k[l])
    BY <1>1
  <1>. DEFINE Own == Between(taken, StartTime[l], Above(l))
  <1>4. /\ Holds(Own, Count(l) * Unit[l]) /\ Above(l) \in Nat /\ StartTime[l] \in Nat
        /\ StartTime[l] <= Above(l)
    BY <1>3, LayerHolds DEF KeptInv
  <1>. PICK u \in Nat : u = Unit[l]
    BY <1>3, UnitIs
  <1>. PICK c \in Nat : c = Count(l)
    BY <1>0, <1>3, CountRange
  <1>. PICK d \in Nat : d = Keeps(l)
    BY <1>3, KeepsSome
  <1>5. Holds(Own, d * u) /\ d * u \in Nat
    <2>1. d <= c
      BY <1>3
    <2>2. d * u <= c * u /\ d * u \in Nat /\ c * u \in Nat
      <3>1. PICK x \in Nat : c = d + x
        <4>1. c - d \in Nat /\ c = d + (c - d)
          BY <2>1
        <4>. QED BY <4>1
      <3>2. c * u = d * u + x * u /\ x * u \in Nat /\ d * u \in Nat
        BY <3>1
      <3>. QED BY <3>2
    <2>3. IsFiniteSet(Own) /\ Cardinality(Own) >= c * u /\ Cardinality(Own) \in Nat
      BY <1>4, FS_CardinalityType DEF Holds
    <2>4. Cardinality(Own) >= d * u
      BY <2>2, <2>3
    <2>. QED BY <2>2, <2>3, <2>4 DEF Holds
  <1>6. k[l] = d * u + (IF l = 0 THEN 0 ELSE k[l - 1])
    BY <1>3 DEF AddsUp
  <1>7. CASE l = 0
    <2>1. Own = Kept(l)
      BY <1>7 DEF Above
    <2>2. k[l] = d * u
      BY <1>5, <1>6, <1>7
    <2>. QED BY <1>3, <1>5, <2>1, <2>2
  <1>8. CASE l # 0
    <2>1. l - 1 \in Layers /\ ~(l <= l - 1)
      BY <1>3, <1>8, LastLayer
    <2>2. Holds(Kept(l - 1), k[l - 1]) /\ k[l - 1] \in Nat
      BY <1>2, <2>1 DEF AddsUp
    <2>3. Above(l) = StartTime[l - 1]
      BY <1>8 DEF Above
    <2>4. StartTime[l - 1] <= now
      BY <2>1 DEF IInv, PastOnly
    <2>5. PICK a \in Nat, b \in Nat, e \in Nat :
             a = StartTime[l] /\ b = StartTime[l - 1] /\ e = now /\ a <= b /\ b <= e
      BY <1>0, <1>4, <2>3, <2>4
    <2>6. Own = Between(taken, a, b) /\ Kept(l - 1) = Between(taken, b, e) /\ Kept(l) = Between(taken, a, e)
      BY <2>3, <2>5
    <2>. HIDE DEF Own, Kept, S
    <2>7. Own \union Kept(l - 1) = Kept(l) /\ Own \cap Kept(l - 1) = {}
      <3>1. /\ Between(taken, a, b) \union Between(taken, b, e) = Between(taken, a, e)
            /\ Between(taken, a, b) \cap Between(taken, b, e) = {}
        BY <1>0, <2>5, TwoSpans
      <3>. QED BY <2>6, <3>1
    <2>9. Holds(Kept(l), d * u + k[l - 1])
      BY <1>5, <2>2, <2>7, HoldsBoth
    <2>. QED BY <1>3, <1>6, <1>8, <2>9
  <1>. QED BY <1>7, <1>8

\* As long as nothing was forgotten all samples are kept; once something was, every
\* layer is as deep as a Reduce leaves it.
LEMMA KeptEnough ==
    ASSUME IInv, KeptInv
    PROVE  RetentionKept
  <1>0. /\ OInv /\ taken \subseteq Nat /\ taken \in Axis /\ now \in Nat
        /\ StartTime[NumLayers - 1] \in Nat
    BY ExactIsOrdered, LastLayer, TimeNat DEF OInv, TypeOK, Axis
  <1>. DEFINE kept == Between(taken, StartTime[NumLayers - 1], now)
  <1>1. PICK k : AddsUp(k) /\ GuaranteedSamples = k[NumLayers - 1]
    BY GuaranteedIs
  <1>2. GuaranteedSamples \in Nat
    BY <1>1, LastLayer DEF AddsUp
  <1>3. Cardinality(taken) \in Nat
    BY <1>0, AxesFinite
  <1>4. kept \in Axis
    BY <1>0 DEF Between, Axis
  <1>5. Cardinality(kept) \in Nat
    BY <1>4, AxesFinite
  <1>6. CASE StartTime[NumLayers - 1] = 0
    <2>1. \A t \in taken : 0 < t /\ t <= now
      BY <1>0 DEF IInv, PastOnly
    <2>2. kept = taken
      BY <1>6, <2>1 DEF Between
    <2>. QED BY <1>2, <1>3, <2>2 DEF RetentionKept
  <1>7. CASE StartTime[NumLayers - 1] # 0
    <2>1. ~Empty[NumLayers - 1] /\ Count(NumLayers - 1) >= LayerLen[NumLayers - 1]
      BY <1>0, <1>7 DEF KeptInv, Forgetful
    <2>2. \A l \in Layers : Count(l) >= Keeps(l)
      <3>. SUFFICES ASSUME NEW l \in Layers PROVE Count(l) >= Keeps(l)
        OBVIOUS
      <3>1. CASE l = NumLayers - 1
        BY <2>1, <3>1 DEF Keeps
      <3>2. CASE l # NumLayers - 1
        <4>1. l \in 0 .. NumLayers - 2 /\ l < NumLayers - 1 /\ NumLayers - 1 \in Layers
          BY <3>2, LastLayer, LayerAssumption
        <4>2. Passed(l)
          BY <2>1, <4>1 DEF Passed
        <4>. QED BY <4>1, <4>2 DEF KeptInv, Deep
      <3>. QED BY <3>1, <3>2
    <2>3. Holds(kept, GuaranteedSamples)
      BY <1>1, <2>2, ChainHolds, LastLayer
    <2>4. Cardinality(kept) >= GuaranteedSamples
      BY <2>3 DEF Holds
    <2>. HIDE DEF kept
    <2>5. Cardinality(kept) >= IF Cardinality(taken) < GuaranteedSamples
                               THEN Cardinality(taken) ELSE GuaranteedSamples
      BY <1>2, <1>3, <1>5, <2>4
    <2>. QED BY <2>5 DEF RetentionKept, kept
  <1>. QED BY <1>6, <1>7

\* Stat.Append and Reduce (stat.go): what is forgotten is older than the samples that the
\* lengths and ratios of the layers promise to keep, in the middle of a cascade too.
THEOREM HistoryKept == Spec => []RetentionKept
  BY KeptEnough, LayersCorrect, LayersRich, PTL
=============================================================================
