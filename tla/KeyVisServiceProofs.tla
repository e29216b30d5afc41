------------------------- MODULE KeyVisServiceProofs -------------------------
(***************************************************************************)
(* Proofs about KeyVisService for any requests, configurations, workers,   *)
(* capacity of the channel, columns of a call and number of changes: two   *)
(* generations never run side by side, and one that is said to run is      *)
(* complete.                                                               *)
(***************************************************************************)
EXTENDS KeyVisService, FiniteSetTheorems, SequenceTheorems, TLAPS

Callers == Handlers \cup Gens
Routines == {"label", "rebuild", "input"}
Gen == [policy : {"db", "kv"}, done : BOOLEAN,
        fx : {"start", "started", "rollback", "failed", "stop", "stopped"},
        hook : 0 .. 6, routines : SUBSET Routines, workers : 0 .. WorkerCount,
        ch : Seq(Callers), closed : BOOLEAN]
Call == [pc : {"idle", "admitted", "ranging", "sending", "waiting"}, gen : Nat \cup {None},
         unsent : Nat, undone : Nat]

Types ==
    /\ queue \in Seq(Configs) /\ cancelled \in BOOLEAN /\ changes \in Nat
    /\ status \in BOOLEAN
    /\ gen \in Seq(Gen)
    /\ \A g \in DOMAIN gen : Len(gen[g].ch) <= ChanCap
    /\ call \in [Callers -> Call]
    /\ keyVisualCfg \in Configs \cup {None} /\ cfg \in Configs \cup {None}
    /\ pc \in {"select", "stopping", "leaving", "reload", "starting", "returned", "crashed"}
    /\ pc \in {"stopping", "reload"} => cfg \in Configs

\* The fields are set and dropped together.
SameFields == app \in DOMAIN gen \cup {None} /\ stat = app /\ strategy = app

\* Every generation comes from a configuration that was pushed.
Handling == IF pc \in {"stopping", "reload"} THEN 1 ELSE 0
Counted == Len(gen) + Len(queue) + Handling <= changes /\ changes <= MaxChanges

\* How far fx is with a generation, and what runs then.
StageOK(g) ==
    LET r == gen[g] IN
    /\ r.fx = "start" => r.hook \in 0 .. 5
    /\ r.fx = "started" => r.hook = 6
    /\ r.fx = "rollback" => r.hook \in 1 .. 5
    /\ r.fx = "stop" => r.hook \in 1 .. 6 /\ r.done
    /\ r.fx \in {"stopped", "failed"} => r.hook = 0
    /\ r.hook = 0 => AllLeft(g)
    /\ r.closed => r.fx \notin {"start", "started"} /\ r.hook <= 2
    /\ r.fx \in {"start", "started"} /\ ~Done(g) =>
         /\ r.hook >= 3 => r.workers = WorkerCount
         /\ r.hook >= 4 => "rebuild" \in r.routines
         /\ r.hook >= 5 => "input" \in r.routines
Staged == \A g \in DOMAIN gen : StageOK(g)

\* Where the loop is and what fx does with the generation in app.
LoopKnows ==
    /\ pc \in {"select", "reload", "returned"} /\ app # None => gen[app].fx = "started"
    /\ pc = "starting" => app # None /\ gen[app].fx \in {"start", "started", "rollback", "failed"}
    /\ pc \in {"stopping", "leaving"} => app # None /\ gen[app].fx \in {"stop", "stopped"}
    /\ pc = "crashed" => DOMAIN gen = {}

\* Until the dashboard shuts down nothing else runs, and a start is not given up.
OthersEnded ==
    ~cancelled =>
        /\ \A g \in DOMAIN gen : g # app => gen[g].fx \in {"stopped", "failed"}
        /\ pc = "starting" => ~gen[app].done

\* The status is that of one generation, that in app unless it was dropped.
StatusOfOne ==
    /\ status => \E g \in DOMAIN gen : gen[g].hook = 6
    /\ \A g \in DOMAIN gen : gen[g].hook = 6 => status /\ app \in {g, None}
    /\ \A g, k \in DOMAIN gen : gen[g].hook = 6 /\ gen[k].hook = 6 => g = k

\* The columns of a caller in a channel.
Pending(s, o) == Cardinality({i \in DOMAIN s : s[i] = o})
Calling(o) == call[o].pc \in {"sending", "waiting"}

\* A call waits for at least as many columns as it has yet to send and has in the channel.
CallOK(o) ==
    /\ call[o].unsent <= call[o].undone /\ call[o].undone <= Tasks
    /\ Calling(o) => /\ call[o].gen \in DOMAIN gen
                     /\ call[o].unsent + Pending(gen[call[o].gen].ch, o) <= call[o].undone
    /\ call[o].pc = "sending" => call[o].unsent > 0
    /\ ~Calling(o) => call[o].unsent = 0 /\ call[o].undone = 0
    /\ call[o].pc \in {"idle", "admitted"} => call[o].gen = None
CallsOK == \A o \in Callers : CallOK(o)

\* A column in a channel is of a call that goes on, or of a request that was recovered
\* because the channel is closed, and that request cannot come back to it.
ColumnOK(g, o) ==
    \/ Calling(o) /\ call[o].gen = g
    \/ /\ o \in Handlers /\ gen[g].closed /\ call[o].gen # g
       /\ call[o].pc \in {"admitted", "ranging"} => strategy # g
Columns == \A g \in DOMAIN gen : \A i \in DOMAIN gen[g].ch : ColumnOK(g, gen[g].ch[i])

IInv == /\ Types /\ SameFields /\ Counted /\ Staged /\ LoopKnows /\ OthersEnded
        /\ StatusOfOne /\ CallsOK /\ Columns

-----------------------------------------------------------------------------
\* The hooks of the app, in the order in which it is built.
LEMMA HookNames ==
    /\ Len(Hooks) = 6
    /\ Hooks[1] = "waitGroup" /\ Hooks[2] = "label" /\ Hooks[3] = "workers"
    /\ Hooks[4] = "stat" /\ Hooks[5] = "input" /\ Hooks[6] = "status"
  BY DEF Hooks

\* Generations are numbered from 1 and have the fields of one.
LEMMA GenFields ==
    ASSUME Types
    PROVE  /\ Len(gen) \in Nat /\ DOMAIN gen = 1 .. Len(gen)
           /\ \A g \in DOMAIN gen : gen[g] \in Gen
  BY LenProperties, ElementOfSeq DEF Types

\* One generation changes.
LEMMA GenUpdate ==
    ASSUME Types, NEW g \in DOMAIN gen, NEW r \in Gen, gen' = [gen EXCEPT ![g] = r]
    PROVE  /\ gen' \in Seq(Gen) /\ Len(gen') = Len(gen) /\ DOMAIN gen' = DOMAIN gen
           /\ gen'[g] = r
           /\ \A k \in DOMAIN gen : k # g => gen'[k] = gen[k]
  <1>1. gen \in Seq(Gen) /\ DOMAIN gen = 1 .. Len(gen)
    BY GenFields DEF Types
  <1>2. gen' \in Seq(Gen) /\ Len(gen') = Len(gen)
    BY <1>1, ExceptSeq
  <1>. QED BY <1>1, <1>2, LenProperties

-----------------------------------------------------------------------------
\* How many columns of a caller are in a channel.
LEMMA PendingType ==
    ASSUME NEW S, NEW s \in Seq(S), NEW o
    PROVE  /\ Pending(s, o) \in Nat
           /\ IsFiniteSet({i \in DOMAIN s : s[i] = o})
           /\ Pending(s, o) = 0 <=> \A i \in DOMAIN s : s[i] # o
  <1>. DEFINE I == {i \in DOMAIN s : s[i] = o}
  <1>1. IsFiniteSet(DOMAIN s)
    BY LenProperties, FS_Interval
  <1>2. IsFiniteSet(I)
    BY <1>1, FS_Subset
  <1>. QED BY <1>2, FS_CardinalityType, FS_EmptySet DEF Pending

\* One more column in the channel is one more of its caller.
LEMMA PendingAppend ==
    ASSUME NEW S, NEW s \in Seq(S), NEW x \in S, NEW o
    PROVE  Pending(Append(s, x), o) = Pending(s, o) + (IF x = o THEN 1 ELSE 0)
  <1>. DEFINE I == {i \in DOMAIN s : s[i] = o}
              n == Len(s) + 1
              t == Append(s, x)
              J == {i \in DOMAIN t : t[i] = o}
  <1>1. /\ DOMAIN s = 1 .. Len(s) /\ Len(s) \in Nat /\ n \notin DOMAIN s
        /\ DOMAIN t = DOMAIN s \cup {n} /\ t[n] = x
        /\ \A i \in DOMAIN s : t[i] = s[i]
    BY LenProperties
  <1>2. J = IF x = o THEN I \cup {n} ELSE I
    BY <1>1
  <1>3. IsFiniteSet(I) /\ Cardinality(I) \in Nat
    BY PendingType DEF Pending
  <1>4. Cardinality(I \cup {n}) = Cardinality(I) + 1
    BY <1>1, <1>3, FS_AddElement
  <1>5. Pending(s, o) = Cardinality(I) /\ Pending(t, o) = Cardinality(J)
    BY DEF Pending
  <1>. HIDE DEF I, J, n, t
  <1>6. Pending(t, o) = Pending(s, o) + (IF x = o THEN 1 ELSE 0)
    BY <1>2, <1>3, <1>4, <1>5
  <1>. QED BY <1>6 DEF t

\* A column that is taken is one less of its caller.
LEMMA PendingTail ==
    ASSUME NEW S, NEW s \in Seq(S), s # <<>>, NEW o
    PROVE  Pending(s, o) = Pending(Tail(s), o) + (IF Head(s) = o THEN 1 ELSE 0)
  <1>. DEFINE t == Tail(s)
              I == {i \in DOMAIN s : s[i] = o}
              J == {i \in DOMAIN t : t[i] = o}
              f == [j \in J |-> j + 1]
  <1>1. /\ Len(s) \in Nat \ {0} /\ DOMAIN s = 1 .. Len(s) /\ Head(s) = s[1]
        /\ t \in Seq(S) /\ Len(t) = Len(s) - 1 /\ DOMAIN t = 1 .. Len(t)
        /\ \A i \in DOMAIN t : t[i] = s[i + 1]
    BY HeadTailProperties, LenProperties, EmptySeq
  <1>2. IsFiniteSet(I) /\ Cardinality(I) \in Nat
    BY PendingType DEF Pending
  <1>7. IsFiniteSet(J) /\ Cardinality(J) \in Nat
    <2>1. \A u \in Seq(S) : LET K == {i \in DOMAIN u : u[i] = o}
                             IN  IsFiniteSet(K) /\ Cardinality(K) \in Nat
      BY PendingType DEF Pending
    <2>. QED BY <1>1, <2>1
  <1>3. f \in Bijection(J, I \ {1})
    <2>1. \A j \in J : j + 1 \in I \ {1}
      BY <1>1
    <2>2. \A j, k \in J : f[j] = f[k] => j = k
      BY <1>1
    <2>3. \A i \in I \ {1} : i - 1 \in J /\ f[i - 1] = i
      BY <1>1
    <2>4. f \in [J -> I \ {1}]
      BY <2>1
    <2>. QED BY <2>2, <2>3, <2>4 DEF Bijection, Injection, Surjection, IsInjective
  <1>4. Cardinality(J) = Cardinality(I \ {1})
    BY <1>7, <1>3, FS_Bijection DEF ExistsBijection
  <1>5. Cardinality(I \ {1}) = IF 1 \in I THEN Cardinality(I) - 1 ELSE Cardinality(I)
    BY <1>2, FS_RemoveElement
  <1>6. 1 \in I <=> Head(s) = o
    BY <1>1
  <1>8. Pending(s, o) = Cardinality(I) /\ Pending(t, o) = Cardinality(J)
    BY DEF Pending
  <1>. HIDE DEF I, J, t
  <1>9. Pending(s, o) = Pending(t, o) + (IF Head(s) = o THEN 1 ELSE 0)
    BY <1>2, <1>4, <1>5, <1>6, <1>7, <1>8
  <1>. QED BY <1>9 DEF t

\* At first nothing has been started.
LEMMA InitInv == Init => IInv
  <1>. SUFFICES ASSUME Init PROVE IInv
    OBVIOUS
  <1>. USE DEF Init
  <1>1. DOMAIN gen = {} /\ Len(gen) = 0 /\ gen \in Seq(Gen) /\ queue \in Seq(Configs) /\ Len(queue) = 0
    BY EmptySeq
  <1>2. Types
    BY <1>1, KeyVisAssumption DEF Types, Callers, Call, NoCall
  <1>3. Counted
    BY <1>1, KeyVisAssumption DEF Counted, Handling
  <1>4. CallsOK
    BY KeyVisAssumption DEF CallsOK, CallOK, Calling, Callers, NoCall
  <1>. QED BY <1>1, <1>2, <1>3, <1>4 DEF IInv, SameFields, Staged, LoopKnows, OthersEnded,
                 StatusOfOne, Columns

-----------------------------------------------------------------------------
Life == SameFields /\ Staged /\ LoopKnows /\ OthersEnded /\ StatusOfOne

\* Steps that do not touch the life of a generation ...
LEMMA LifeKept ==
    ASSUME IInv, UNCHANGED <<fields, pc, status, cancelled>>,
           Len(gen') = Len(gen), DOMAIN gen' = DOMAIN gen,
           \A g \in DOMAIN gen :
               /\ gen'[g].fx = gen[g].fx /\ gen'[g].hook = gen[g].hook /\ gen'[g].done = gen[g].done
               /\ gen'[g].closed = gen[g].closed
               /\ gen'[g].routines = gen[g].routines /\ gen'[g].workers = gen[g].workers
    PROVE  Life'
  <1>1. SameFields' /\ OthersEnded' /\ StatusOfOne'
    BY DEF IInv, SameFields, LoopKnows, OthersEnded, StatusOfOne, fields
  <1>2. Staged'
    BY DEF IInv, Staged, StageOK, Done, AllLeft
  <1>3. LoopKnows'
    BY DEF IInv, SameFields, LoopKnows, fields
  <1>. QED BY <1>1, <1>2, <1>3 DEF Life

\* ... and those that do not touch columns and calls.
LEMMA ColumnsKept ==
    ASSUME IInv, call' = call, strategy' \in {strategy, None}, DOMAIN gen' = DOMAIN gen,
           \A g \in DOMAIN gen : gen'[g].ch = gen[g].ch /\ (gen[g].closed => gen'[g].closed)
    PROVE  CallsOK' /\ Columns'
  <1>1. CallsOK'
    BY DEF IInv, CallsOK, CallOK, Calling
  <1>2. Columns'
    <2>. SUFFICES ASSUME NEW g \in DOMAIN gen, NEW i \in DOMAIN gen[g].ch
                  PROVE  ColumnOK(g, gen[g].ch[i])'
      BY DEF Columns
    <2>1. ColumnOK(g, gen[g].ch[i]) /\ g \in Nat
      BY GenFields DEF IInv, Columns
    <2>. QED BY <2>1, KeyVisAssumption DEF ColumnOK, Calling
  <1>. QED BY <1>1, <1>2

\* A new configuration only waits for the loop.
LEMMA PushStep ==
    ASSUME IInv, NEW c \in Configs, Push(c)
    PROVE  IInv'
  <1>. USE DEF Push
  <1>1. queue' \in Seq(Configs) /\ Len(queue') = Len(queue) + 1
    BY DEF IInv, Types
  <1>2. Types'
    BY <1>1 DEF IInv, Types, manager, fields
  <1>3. Counted'
    BY <1>1, LenProperties, GenFields, KeyVisAssumption DEF IInv, Types, Counted, Handling, manager
  <1>4. Life'
    BY LifeKept DEF manager, fields
  <1>5. CallsOK' /\ Columns'
    BY ColumnsKept DEF fields
  <1>. QED BY <1>2, <1>3, <1>4, <1>5 DEF IInv, Life

\* After the shutdown the loop only has to stop what runs.
LEMMA ShutDownStep ==
    ASSUME IInv, ShutDown
    PROVE  IInv'
  <1>. USE DEF ShutDown
  <1>1. Types' /\ Counted'
    BY DEF IInv, Types, Counted, Handling, manager, fields
  <1>2. SameFields' /\ LoopKnows' /\ OthersEnded' /\ StatusOfOne'
    BY DEF IInv, SameFields, LoopKnows, OthersEnded, StatusOfOne, manager, fields
  <1>3. Staged'
    BY DEF IInv, Staged, StageOK, Done, AllLeft
  <1>4. CallsOK' /\ Columns'
    BY ColumnsKept DEF fields
  <1>. QED BY <1>1, <1>2, <1>3, <1>4 DEF IInv

-----------------------------------------------------------------------------
\* The loop.  Stopping begins for the generation in app, which has started.
LEMMA StopOrKeeps ==
    ASSUME IInv, NEW stopping \in {"stopping", "leaving"}, NEW next \in {"reload", "returned"},
           pc = "select", StopOr(stopping, next),
           stopping = "leaving" => next = "returned",
           UNCHANGED <<status, fields, call, cancelled>>
    PROVE  /\ Life' /\ CallsOK' /\ Columns'
           /\ gen' \in Seq(Gen) /\ Len(gen') = Len(gen) /\ DOMAIN gen' = DOMAIN gen
           /\ \A g \in DOMAIN gen : gen'[g].ch = gen[g].ch
           /\ pc' \in {stopping, next}
  <1>1. CASE status /\ app # None
    <2>. DEFINE r == [gen[app] EXCEPT !.done = TRUE, !.fx = "stop"]
    <2>1. app \in DOMAIN gen /\ gen[app] \in Gen /\ gen[app].fx = "started" /\ gen[app].hook = 6
      BY <1>1, GenFields DEF IInv, SameFields, LoopKnows, Staged, StageOK
    <2>2. r \in Gen /\ gen' = [gen EXCEPT ![app] = r] /\ pc' = stopping
      BY <1>1, <2>1 DEF StopOr, Gen
    <2>3. /\ gen' \in Seq(Gen) /\ Len(gen') = Len(gen) /\ DOMAIN gen' = DOMAIN gen
          /\ gen'[app] = r /\ \A k \in DOMAIN gen : k # app => gen'[k] = gen[k]
      BY <2>1, <2>2, GenUpdate DEF IInv
    <2>4. /\ \A g \in DOMAIN gen : gen'[g].ch = gen[g].ch /\ gen'[g].closed = gen[g].closed
          /\ \A g \in DOMAIN gen : gen'[g].hook = gen[g].hook
          /\ gen'[app].fx = "stop" /\ gen'[app].done
      BY <2>1, <2>3 DEF Gen
    <2>5. Staged'
      <3>1. \A g \in DOMAIN gen : g # app => StageOK(g)'
        BY <2>3 DEF IInv, Staged, StageOK, Done, AllLeft
      <3>2. StageOK(app)'
        <4>1. ~gen[app].closed
          BY <2>1 DEF IInv, Staged, StageOK
        <4>. QED BY <2>1, <2>4, <4>1 DEF StageOK, fields
      <3>. QED BY <2>3, <3>1, <3>2 DEF Staged, fields
    <2>6. SameFields' /\ LoopKnows' /\ OthersEnded' /\ StatusOfOne'
      BY <1>1, <2>1, <2>2, <2>3, <2>4 DEF IInv, SameFields, LoopKnows, OthersEnded, StatusOfOne, fields
    <2>7. CallsOK' /\ Columns'
      BY <2>3, <2>4, ColumnsKept DEF fields
    <2>. QED BY <2>2, <2>3, <2>4, <2>5, <2>6, <2>7 DEF Life
  <1>2. CASE ~(status /\ app # None)
    <2>1. pc' = next /\ gen' = gen
      BY <1>2 DEF StopOr
    <2>2. CallsOK' /\ Columns'
      BY <2>1, ColumnsKept DEF fields
    <2>3. Staged'
      BY <2>1 DEF IInv, Staged, StageOK, Done, AllLeft
    <2>4. SameFields' /\ LoopKnows' /\ OthersEnded' /\ StatusOfOne'
      BY <1>2, <2>1 DEF IInv, SameFields, LoopKnows, OthersEnded, StatusOfOne, fields
    <2>. QED BY <2>1, <2>2, <2>3, <2>4 DEF IInv, Types, Life
  <1>. QED BY <1>1, <1>2

\* The loop reads a configuration while nothing is starting or stopping.
LEMMA ReceiveStep ==
    ASSUME IInv, Receive
    PROVE  IInv'
  <1>1. /\ queue' \in Seq(Configs) /\ Len(queue') = Len(queue) - 1 /\ Len(queue) \in Nat
        /\ cfg' \in Configs
    BY HeadTailProperties, LenProperties DEF IInv, Types, Receive
  <1>2. CASE MustStop(cfg')
    <2>1. /\ Life' /\ CallsOK' /\ Columns' /\ gen' \in Seq(Gen)
          /\ Len(gen') = Len(gen) /\ DOMAIN gen' = DOMAIN gen
          /\ \A g \in DOMAIN gen : gen'[g].ch = gen[g].ch
          /\ pc' \in {"stopping", "reload"}
      BY <1>2, StopOrKeeps DEF Receive
    <2>2. Types'
      BY <1>1, <2>1 DEF IInv, Types, Receive
    <2>3. Counted'
      BY <1>1, <2>1, GenFields DEF IInv, Types, Counted, Handling, Receive
    <2>. QED BY <2>1, <2>2, <2>3 DEF IInv, Life
  <1>3. CASE ~MustStop(cfg')
    <2>1. pc = "select" /\ pc' = "reload" /\ UNCHANGED <<keyVisualCfg, status, fields, gen, call, cancelled, changes>>
      BY <1>3 DEF Receive
    <2>2. Types' /\ Counted'
      BY <1>1, <2>1, GenFields DEF IInv, Types, Counted, Handling, fields
    <2>3. Staged'
      BY <2>1 DEF IInv, Staged, StageOK, Done, AllLeft
    <2>4. SameFields' /\ LoopKnows' /\ OthersEnded' /\ StatusOfOne'
      BY <2>1 DEF IInv, SameFields, LoopKnows, OthersEnded, StatusOfOne, fields
    <2>5. CallsOK' /\ Columns'
      BY <2>1, ColumnsKept DEF fields
    <2>. QED BY <2>2, <2>3, <2>4, <2>5 DEF IInv
  <1>. QED BY <1>2, <1>3

\* The loop returns after a shutdown, once what ran has stopped.
LEMMA LeaveStep ==
    ASSUME IInv, Leave
    PROVE  IInv'
  <1>1. /\ Life' /\ CallsOK' /\ Columns' /\ gen' \in Seq(Gen)
        /\ Len(gen') = Len(gen) /\ DOMAIN gen' = DOMAIN gen
        /\ \A g \in DOMAIN gen : gen'[g].ch = gen[g].ch
        /\ pc' \in {"leaving", "returned"}
    BY StopOrKeeps DEF Leave, outside
  <1>2. Types'
    BY <1>1 DEF IInv, Types, Leave, outside
  <1>3. Counted'
    BY <1>1, GenFields DEF IInv, Types, Counted, Handling, Leave, outside
  <1>. QED BY <1>1, <1>2, <1>3 DEF IInv, Life

\* When the loop goes on, the generation it stopped has left all its hooks.
LEMMA StoppedStep ==
    ASSUME IInv, Stopped
    PROVE  IInv'
  <1>1. /\ pc \in {"stopping", "leaving"} /\ gen[app].fx = "stopped" /\ app \in DOMAIN gen
        /\ app' = None /\ stat' = None /\ strategy' = None
        /\ pc' = IF pc = "leaving" THEN "returned" ELSE "reload"
        /\ UNCHANGED <<keyVisualCfg, cfg, status, gen, call, queue, cancelled, changes>>
    BY DEF Stopped, DropFields, outside, IInv, SameFields, LoopKnows
  <1>2. Types' /\ Counted'
    BY <1>1 DEF IInv, Types, Counted, Handling
  <1>3. gen[app].hook = 0
    BY <1>1 DEF IInv, Staged, StageOK
  <1>4. SameFields' /\ LoopKnows' /\ OthersEnded' /\ StatusOfOne'
    BY <1>1, <1>3 DEF IInv, SameFields, LoopKnows, OthersEnded, StatusOfOne
  <1>5. Staged'
    BY <1>1 DEF IInv, Staged, StageOK, Done, AllLeft
  <1>6. CallsOK' /\ Columns'
    BY <1>1, ColumnsKept
  <1>. QED BY <1>2, <1>4, <1>5, <1>6 DEF IInv

\* A new generation begins when none is in app: one that was there would have started,
\* and so the status would say.
LEMMA ReloadStep ==
    ASSUME IInv, Reload
    PROVE  IInv'
  <1>1. /\ pc = "reload" /\ cfg \in Configs /\ keyVisualCfg' = cfg
        /\ UNCHANGED <<cfg, status, call, queue, cancelled, changes>>
    BY DEF Reload, outside, IInv, Types
  <1>2. CASE cfg.on /\ ~status
    <2>. DEFINE r == [policy |-> cfg.policy, done |-> FALSE, fx |-> "start", hook |-> 0,
                      routines |-> {}, workers |-> 0, ch |-> <<>>, closed |-> FALSE]
                n == Len(gen) + 1
    <2>1. /\ gen' = Append(gen, r) /\ pc' = "starting"
          /\ app' = Len(gen') /\ stat' = Len(gen') /\ strategy' = Len(gen')
      BY <1>2 DEF Reload
    <2>2. r \in Gen /\ r.ch = <<>> /\ Len(r.ch) = 0 /\ DOMAIN r.ch = {}
      BY <1>1, KeyVisAssumption, EmptySeq DEF Gen
    <2>3. /\ gen' \in Seq(Gen) /\ Len(gen') = n /\ n \in Nat /\ n \notin DOMAIN gen /\ n # None
          /\ DOMAIN gen' = DOMAIN gen \cup {n} /\ gen'[n] = r
          /\ \A g \in DOMAIN gen : gen'[g] = gen[g] /\ g \in Nat
      BY <2>1, <2>2, GenFields, LenProperties, KeyVisAssumption DEF IInv, Types
    <2>. HIDE DEF n
    <2>4. app = None
      BY <1>1, <1>2 DEF IInv, SameFields, LoopKnows, Staged, StageOK, StatusOfOne
    <2>5. Types'
      <3>1. \A g \in DOMAIN gen' : Len(gen'[g].ch) <= ChanCap
        BY <2>2, <2>3, KeyVisAssumption DEF IInv, Types
      <3>. QED BY <1>1, <2>1, <2>3, <3>1 DEF IInv, Types
    <2>6. Counted'
      BY <1>1, <2>1, <2>3, GenFields, LenProperties DEF IInv, Types, Counted, Handling, n
    <2>7. SameFields'
      BY <2>1, <2>3 DEF SameFields
    <2>8. Staged'
      <3>1. ASSUME NEW g \in DOMAIN gen PROVE StageOK(g)'
        BY <1>1, <2>3 DEF IInv, Staged, StageOK, Done, AllLeft
      <3>2. ASSUME NEW g, g = n PROVE StageOK(g)'
        BY <2>3, <3>2 DEF StageOK, AllLeft
      <3>. QED BY <2>3, <3>1, <3>2 DEF Staged
    <2>9. LoopKnows' /\ OthersEnded' /\ StatusOfOne'
      <3>1. app' = n /\ app' # None /\ r.fx = "start" /\ ~r.done /\ r.hook = 0
        BY <2>1, <2>3
      <3>2. \A g \in DOMAIN gen : g # None
        BY <2>3, KeyVisAssumption
      <3>. HIDE DEF r
      <3>3. LoopKnows' /\ OthersEnded'
        BY <1>1, <2>1, <2>3, <2>4, <3>1, <3>2 DEF IInv, LoopKnows, OthersEnded
      <3>4. \A g \in DOMAIN gen' : gen'[g].hook # 6
        BY <1>2, <2>3, <3>1 DEF IInv, StatusOfOne
      <3>. QED BY <1>1, <1>2, <3>3, <3>4 DEF StatusOfOne
    <2>10. CallsOK'
      BY <1>1, <2>3 DEF IInv, CallsOK, CallOK, Calling
    <2>11. Columns'
      <3>. SUFFICES ASSUME NEW g \in DOMAIN gen', NEW i \in DOMAIN gen'[g].ch
                    PROVE  ColumnOK(g, gen[g].ch[i])'
        BY DEF Columns
      <3>1. g \in DOMAIN gen /\ g # n /\ gen'[g] = gen[g]
        BY <2>2, <2>3
      <3>2. ColumnOK(g, gen[g].ch[i])
        BY <3>1 DEF IInv, Columns
      <3>. QED BY <1>1, <2>1, <2>3, <3>1, <3>2 DEF ColumnOK, Calling
    <2>. QED BY <2>5, <2>6, <2>7, <2>8, <2>9, <2>10, <2>11 DEF IInv
  <1>3. CASE ~(cfg.on /\ ~status)
    <2>1. pc' = "select" /\ UNCHANGED <<gen, fields>>
      BY <1>3 DEF Reload
    <2>2. Types' /\ Counted'
      BY <1>1, <2>1, GenFields, LenProperties DEF IInv, Types, Counted, Handling
    <2>3. SameFields' /\ LoopKnows' /\ OthersEnded' /\ StatusOfOne'
      BY <1>1, <2>1 DEF IInv, SameFields, LoopKnows, OthersEnded, StatusOfOne, fields
    <2>4. Staged'
      BY <1>1, <2>1 DEF IInv, Staged, StageOK, Done, AllLeft
    <2>5. CallsOK' /\ Columns'
      BY <1>1, <2>1, ColumnsKept DEF fields
    <2>. QED BY <2>2, <2>3, <2>4, <2>5 DEF IInv
  <1>. QED BY <1>2, <1>3

\* A start that has returned leaves a generation with all hooks, or one that still starts.
LEMMA StartedStep ==
    ASSUME IInv, Started
    PROVE  IInv'
  <1>1. /\ pc = "starting" /\ gen[app].fx = "started" /\ pc' = "select"
        /\ UNCHANGED <<keyVisualCfg, cfg, status, fields, gen, call, queue, cancelled, changes>>
    BY DEF Started, outside
  <1>2. Types' /\ Counted'
    BY <1>1 DEF IInv, Types, Counted, Handling
  <1>3. SameFields' /\ LoopKnows' /\ OthersEnded' /\ StatusOfOne'
    BY <1>1 DEF IInv, SameFields, LoopKnows, OthersEnded, StatusOfOne, fields
  <1>4. Staged'
    BY <1>1 DEF IInv, Staged, StageOK, Done, AllLeft
  <1>5. CallsOK' /\ Columns'
    BY <1>1, ColumnsKept DEF fields
  <1>. QED BY <1>2, <1>3, <1>4, <1>5 DEF IInv

\* A failed start is rolled back before the loop goes on.
LEMMA StartFailedStep ==
    ASSUME IInv, StartFailed
    PROVE  IInv'
  <1>. DEFINE r == [gen[app] EXCEPT !.done = TRUE]
  <1>1. /\ pc = "starting" /\ app \in DOMAIN gen /\ gen[app] \in Gen
        /\ gen[app].fx = "failed" \/ Done(app)
        /\ gen' = [gen EXCEPT ![app] = r] /\ pc' = "select"
        /\ app' = None /\ stat' = None /\ strategy' = None
        /\ UNCHANGED <<keyVisualCfg, cfg, status, call, queue, cancelled, changes>>
    BY GenFields DEF StartFailed, DropFields, outside, IInv, SameFields, LoopKnows
  <1>2. r \in Gen
    BY <1>1 DEF Gen
  <1>3. /\ gen' \in Seq(Gen) /\ Len(gen') = Len(gen) /\ DOMAIN gen' = DOMAIN gen
        /\ gen'[app] = r /\ \A k \in DOMAIN gen : k # app => gen'[k] = gen[k]
    BY <1>1, <1>2, GenUpdate DEF IInv
  <1>4. \A g \in DOMAIN gen : /\ gen'[g].fx = gen[g].fx /\ gen'[g].hook = gen[g].hook
                             /\ gen'[g].ch = gen[g].ch /\ gen'[g].closed = gen[g].closed
    BY <1>1, <1>3 DEF Gen
  <1>5. Types' /\ Counted'
    BY <1>1, <1>3, <1>4 DEF IInv, Types, Counted, Handling
  <1>6. Staged'
    <2>1. \A g \in DOMAIN gen : g # app => StageOK(g)'
      BY <1>1, <1>3 DEF IInv, Staged, StageOK, Done, AllLeft
    <2>2. ASSUME NEW g, g = app PROVE StageOK(g)'
      BY <1>1, <1>3, <2>2 DEF IInv, Staged, StageOK, Done, AllLeft, Gen
    <2>. QED BY <1>3, <2>1, <2>2 DEF Staged
  <1>7. ~cancelled => gen[app].fx = "failed"
    BY <1>1 DEF IInv, OthersEnded, Done
  <1>8. SameFields' /\ LoopKnows' /\ OthersEnded' /\ StatusOfOne'
    BY <1>1, <1>3, <1>4, <1>7 DEF IInv, SameFields, LoopKnows, OthersEnded, StatusOfOne
  <1>9. CallsOK' /\ Columns'
    BY <1>1, <1>3, <1>4, ColumnsKept
  <1>. QED BY <1>5, <1>6, <1>8, <1>9 DEF IInv

-----------------------------------------------------------------------------
\* fx.  A generation that is not in app has ended, unless the dashboard shuts down.
LEMMA HookStartsStep ==
    ASSUME IInv, NEW g \in DOMAIN gen, HookStarts(g)
    PROVE  IInv'
  <1>. DEFINE hook == gen[g].hook
              r == [gen[g] EXCEPT !.hook = hook + 1,
                                  !.routines = @ \cup Starts(g, NextHook(g)),
                                  !.workers = IF NextHook(g) = "workers" THEN WorkerCount ELSE @,
                                  !.fx = IF hook + 1 = Len(Hooks) THEN "started" ELSE @]
  <1>1. /\ gen[g] \in Gen /\ gen[g].fx = "start" /\ gen[g].hook \in 0 .. 5 /\ ~gen[g].closed
        /\ g \in Nat /\ g # None
    BY GenFields, KeyVisAssumption DEF HookStarts, IInv, Staged, StageOK
  <1>2. /\ gen' = [gen EXCEPT ![g] = r]
        /\ status' = (status \/ NextHook(g) = "status")
        /\ NextHook(g) = "status" => ~Done(g)
        /\ UNCHANGED <<manager, fields, call, queue, cancelled, changes>>
    BY DEF HookStarts, outside
  <1>3. /\ NextHook(g) = "workers" <=> hook = 2
        /\ NextHook(g) = "stat" <=> hook = 3
        /\ NextHook(g) = "input" <=> hook = 4
        /\ NextHook(g) = "status" <=> hook = 5
    BY <1>1, HookNames DEF NextHook
  <1>4. /\ Starts(g, NextHook(g)) \subseteq Routines
        /\ hook = 3 => "rebuild" \in Starts(g, NextHook(g))
        /\ hook = 4 => "input" \in Starts(g, NextHook(g))
    BY <1>1, <1>3 DEF Starts, Routines
  <1>5. /\ r \in Gen /\ r.hook = hook + 1 /\ r.closed = gen[g].closed /\ r.done = gen[g].done
        /\ r.ch = gen[g].ch /\ r.fx = IF hook = 5 THEN "started" ELSE "start"
        /\ r.workers = IF hook = 2 THEN WorkerCount ELSE gen[g].workers
        /\ r.routines = gen[g].routines \cup Starts(g, NextHook(g))
    <2>1. /\ hook \in Nat /\ hook + 1 \in 0 .. 6
          /\ hook + 1 = Len(Hooks) <=> hook = 5
      BY <1>1, HookNames
    <2>2. WorkerCount \in 0 .. WorkerCount
      BY KeyVisAssumption
    <2>3. gen[g].routines \cup Starts(g, NextHook(g)) \in SUBSET Routines
      BY <1>1, <1>4 DEF Gen
    <2>. QED BY <1>1, <1>3, <2>1, <2>2, <2>3 DEF Gen
  <1>6. /\ gen' \in Seq(Gen) /\ Len(gen') = Len(gen) /\ DOMAIN gen' = DOMAIN gen
        /\ gen'[g] = r /\ \A k \in DOMAIN gen : k # g => gen'[k] = gen[k]
    BY <1>2, <1>5, GenUpdate DEF IInv
  <1>. HIDE DEF r
  <1>7. \A k \in DOMAIN gen : gen'[k].ch = gen[k].ch /\ gen'[k].closed = gen[k].closed
    BY <1>1, <1>5, <1>6
  <1>8. Types' /\ Counted'
    BY <1>1, <1>2, <1>6, <1>7, <1>3 DEF IInv, Types, Counted, Handling, manager, fields
  <1>9. Staged'
    <2>1. ASSUME NEW k \in DOMAIN gen, k # g PROVE StageOK(k)'
      BY <1>2, <1>6, <2>1 DEF IInv, Staged, StageOK, Done, AllLeft
    <2>2. StageOK(g)
      BY DEF IInv, Staged
    <2>3. Done(g)' <=> Done(g)
      BY <1>2, <1>5, <1>6 DEF Done
    <2>4. StageOK(g)'
      BY <1>1, <1>4, <1>5, <1>6, <2>2, <2>3 DEF StageOK, AllLeft
    <2>. QED BY <1>6, <2>1, <2>4 DEF Staged
  <1>10. hook = 5 => ~cancelled /\ g = app /\ \A k \in DOMAIN gen : k # g => gen[k].hook = 0
    BY <1>1, <1>2, <1>3 DEF IInv, OthersEnded, Done, Staged, StageOK
  <1>11. app = g => pc = "starting"
    BY <1>1 DEF IInv, Types, LoopKnows
  <1>12. SameFields' /\ LoopKnows' /\ OthersEnded'
    BY <1>1, <1>2, <1>5, <1>6, <1>11 DEF IInv, SameFields, LoopKnows, OthersEnded, manager, fields
  <1>13. StatusOfOne'
    <2>1. CASE hook = 5
      <3>1. status' /\ app' = g
        BY <1>2, <1>3, <1>10, <2>1 DEF fields
      <3>2. gen'[g].hook = 6 /\ \A k \in DOMAIN gen' : k # g => gen'[k].hook # 6
        BY <1>5, <1>6, <1>10, <2>1
      <3>. QED BY <1>6, <3>1, <3>2 DEF StatusOfOne
    <2>2. CASE hook # 5
      <3>1. (status' <=> status) /\ app' = app
        BY <1>2, <1>3, <2>2 DEF fields
      <3>2. \A k \in DOMAIN gen : gen'[k].hook = 6 <=> gen[k].hook = 6
        BY <1>1, <1>5, <1>6, <2>2
      <3>. QED BY <1>6, <3>1, <3>2 DEF IInv, StatusOfOne
    <2>. QED BY <2>1, <2>2
  <1>14. CallsOK' /\ Columns'
    BY <1>2, <1>6, <1>7, ColumnsKept DEF fields
  <1>. QED BY <1>8, <1>9, <1>12, <1>13, <1>14 DEF IInv

\* A hook that fails begins the way back.
LEMMA HookFailsStep ==
    ASSUME IInv, NEW g \in DOMAIN gen, HookFails(g)
    PROVE  IInv'
  <1>. DEFINE r == [gen[g] EXCEPT !.fx = "rollback"]
  <1>1. /\ gen[g] \in Gen /\ gen[g].fx = "start" /\ gen[g].hook \in 0 .. 5 /\ ~gen[g].closed
        /\ g # None
    BY GenFields, KeyVisAssumption DEF HookFails, IInv, Staged, StageOK
  <1>2. /\ gen' = [gen EXCEPT ![g] = r] /\ NextHook(g) \in {"stat", "status"}
        /\ UNCHANGED <<manager, status, fields, call, queue, cancelled, changes>>
    BY DEF HookFails
  <1>3. gen[g].hook \in 1 .. 5
    BY <1>1, <1>2, HookNames DEF NextHook
  <1>4. r \in Gen
    BY <1>1 DEF Gen
  <1>5. /\ gen' \in Seq(Gen) /\ Len(gen') = Len(gen) /\ DOMAIN gen' = DOMAIN gen
        /\ gen'[g] = r /\ \A k \in DOMAIN gen : k # g => gen'[k] = gen[k]
    BY <1>2, <1>4, GenUpdate DEF IInv
  <1>6. /\ r.fx = "rollback" /\ r.hook = gen[g].hook /\ r.done = gen[g].done /\ r.ch = gen[g].ch
        /\ r.closed = gen[g].closed /\ r.workers = gen[g].workers /\ r.routines = gen[g].routines
    BY <1>1 DEF Gen
  <1>. HIDE DEF r
  <1>7. Types' /\ Counted'
    BY <1>2, <1>5, <1>6 DEF IInv, Types, Counted, Handling, manager, fields
  <1>8. Staged'
    <2>1. ASSUME NEW k \in DOMAIN gen, k # g PROVE StageOK(k)'
      BY <1>2, <1>5, <2>1 DEF IInv, Staged, StageOK, Done, AllLeft
    <2>2. StageOK(g)'
      BY <1>1, <1>3, <1>5, <1>6 DEF StageOK
    <2>. QED BY <1>5, <2>1, <2>2 DEF Staged
  <1>9. app = g => pc = "starting"
    BY <1>1 DEF IInv, Types, LoopKnows
  <1>10. SameFields' /\ LoopKnows' /\ OthersEnded' /\ StatusOfOne'
    <2>1. app' = app /\ stat' = stat /\ strategy' = strategy /\ pc' = pc
          /\ status' = status /\ cancelled' = cancelled
      BY <1>2 DEF manager, fields
    <2>2. /\ \A k \in DOMAIN gen : gen'[k].hook = gen[k].hook /\ gen'[k].done = gen[k].done
          /\ \A k \in DOMAIN gen : k # g => gen'[k].fx = gen[k].fx
      BY <1>5, <1>6
    <2>3. SameFields' /\ StatusOfOne'
      BY <1>5, <2>1, <2>2 DEF IInv, SameFields, StatusOfOne
    <2>4. LoopKnows'
      BY <1>1, <1>5, <1>6, <1>9, <2>1, <2>2 DEF IInv, SameFields, LoopKnows
    <2>5. OthersEnded'
      BY <1>1, <1>5, <1>6, <1>9, <2>1, <2>2 DEF IInv, SameFields, LoopKnows, OthersEnded
    <2>. QED BY <2>3, <2>4, <2>5
  <1>11. CallsOK' /\ Columns'
    BY <1>2, <1>5, <1>6, ColumnsKept DEF fields
  <1>. QED BY <1>7, <1>8, <1>10, <1>11 DEF IInv

\* Hooks are left in reverse; what they stop is not used by those that remain.
LEMMA HookStopsStep ==
    ASSUME IInv, NEW g \in DOMAIN gen, HookStops(g)
    PROVE  IInv'
  <1>. DEFINE hook == gen[g].hook
              r == [gen[g] EXCEPT !.hook = hook - 1,
                                  !.closed = gen[g].closed \/ Hooks[hook] = "workers",
                                  !.fx = IF hook > 1 THEN gen[g].fx
                                         ELSE IF gen[g].fx = "stop" THEN "stopped" ELSE "failed"]
  <1>1. /\ gen[g] \in Gen /\ gen[g].fx \in {"stop", "rollback"} /\ hook \in 1 .. 6
        /\ gen[g].fx = "rollback" => hook # 6
    BY GenFields DEF HookStops, IInv, Staged, StageOK
  <1>2. /\ gen' = [gen EXCEPT ![g] = r]
        /\ hook = 1 => AllLeft(g)
        /\ status' = (status /\ hook # 6)
        /\ UNCHANGED <<manager, fields, call, queue, cancelled, changes>>
    <2>1. /\ Hooks[hook] = "waitGroup" <=> hook = 1
          /\ Hooks[hook] = "status" <=> hook = 6
      BY <1>1, HookNames
    <2>2. gen' = [gen EXCEPT ![g] = r]
      BY DEF HookStops
    <2>3. /\ hook = 1 => AllLeft(g)
          /\ UNCHANGED <<manager, fields, call, queue, cancelled, changes>>
      BY <2>1 DEF HookStops, outside, WaitGroupDone
    <2>4. status' = (status /\ hook # 6)
      BY <2>1 DEF HookStops
    <2>. QED BY <2>2, <2>3, <2>4
  <1>3. /\ r \in Gen /\ r.hook = hook - 1 /\ r.done = gen[g].done /\ r.ch = gen[g].ch
        /\ r.closed <=> gen[g].closed \/ hook = 3
        /\ r.workers = gen[g].workers /\ r.routines = gen[g].routines
        /\ r.fx = IF hook > 1 THEN gen[g].fx ELSE IF gen[g].fx = "stop" THEN "stopped" ELSE "failed"
    <2>1. hook - 1 \in 0 .. 6 /\ hook \in Nat
      BY <1>1
    <2>2. Hooks[hook] = "workers" <=> hook = 3
      BY <1>1, HookNames
    <2>3. (gen[g].closed \/ Hooks[hook] = "workers") \in BOOLEAN
      OBVIOUS
    <2>. QED BY <1>1, <2>1, <2>2, <2>3 DEF Gen
  <1>4. /\ gen' \in Seq(Gen) /\ Len(gen') = Len(gen) /\ DOMAIN gen' = DOMAIN gen
        /\ gen'[g] = r /\ \A k \in DOMAIN gen : k # g => gen'[k] = gen[k]
    <2>. HIDE DEF r
    <2>. QED BY <1>2, <1>3, GenUpdate DEF IInv
  <1>. HIDE DEF r
  <1>5. Types' /\ Counted'
    BY <1>2, <1>3, <1>4 DEF IInv, Types, Counted, Handling, manager, fields
  <1>6. Staged'
    <2>1. ASSUME NEW k \in DOMAIN gen, k # g PROVE StageOK(k)'
      BY <1>2, <1>4, <2>1 DEF IInv, Staged, StageOK, Done, AllLeft
    <2>2. StageOK(g)
      BY DEF IInv, Staged
    <2>3. /\ r.fx = "rollback" => r.hook \in 1 .. 5
          /\ r.fx = "stop" => r.hook \in 1 .. 6 /\ r.done
          /\ r.fx \in {"stopped", "failed"} => r.hook = 0
          /\ r.fx \in {"stop", "rollback", "stopped", "failed"}
      BY <1>1, <1>3, <2>2 DEF StageOK
    <2>4. r.hook = 0 => AllLeft(g)'
      BY <1>1, <1>2, <1>3, <1>4 DEF AllLeft
    <2>5. r.closed => r.hook <= 2
      BY <1>1, <1>3, <2>2 DEF StageOK
    <2>6. StageOK(g)'
      BY <1>4, <2>3, <2>4, <2>5 DEF StageOK
    <2>. QED BY <1>4, <2>1, <2>6 DEF Staged
  <1>7. SameFields' /\ LoopKnows' /\ OthersEnded'
    BY <1>1, <1>2, <1>3, <1>4 DEF IInv, Types, SameFields, LoopKnows, OthersEnded, manager, fields
  <1>8. StatusOfOne'
    <2>1. app' = app /\ (status' <=> status /\ hook # 6)
      BY <1>2 DEF fields
    <2>2. \A k \in DOMAIN gen : gen'[k].hook = 6 <=> gen[k].hook = 6 /\ k # g
      BY <1>1, <1>3, <1>4
    <2>3. CASE hook = 6
      BY <1>4, <2>1, <2>2, <2>3 DEF IInv, StatusOfOne
    <2>4. CASE hook # 6
      BY <1>4, <2>1, <2>2, <2>4 DEF IInv, StatusOfOne
    <2>. QED BY <2>3, <2>4
  <1>9. CallsOK' /\ Columns'
    BY <1>2, <1>3, <1>4, ColumnsKept DEF fields
  <1>. QED BY <1>5, <1>6, <1>7, <1>8, <1>9 DEF IInv

\* Goroutines of a generation leave, which they do once its context is done, or its
\* channel is closed.
LEMMA GoroutineLeaves ==
    ASSUME IInv, NEW g \in DOMAIN gen, Quit(g) \/ InputLeaves(g) \/ OthersLeave(g)
    PROVE  IInv'
  <1>1. PICK r \in Gen :
          /\ gen' = [gen EXCEPT ![g] = r] /\ Quits(g)
          /\ r.workers <= gen[g].workers /\ r.routines \subseteq gen[g].routines
          /\ r.fx = gen[g].fx /\ r.hook = gen[g].hook /\ r.done = gen[g].done
          /\ r.closed = gen[g].closed /\ r.ch = gen[g].ch
    <2>1. gen[g] \in Gen
      BY GenFields DEF IInv
    <2>. DEFINE Leaves(r) == /\ gen' = [gen EXCEPT ![g] = r] /\ Quits(g)
                             /\ r.workers <= gen[g].workers /\ r.routines \subseteq gen[g].routines
                             /\ r.fx = gen[g].fx /\ r.hook = gen[g].hook /\ r.done = gen[g].done
                             /\ r.closed = gen[g].closed /\ r.ch = gen[g].ch
    <2>2. gen[g].workers \in Nat
      BY <2>1, KeyVisAssumption DEF Gen
    <2>3. CASE Quit(g)
      <3>. DEFINE r == [gen[g] EXCEPT !.workers = @ - 1]
      <3>1. gen[g].workers - 1 \in 0 .. WorkerCount
        BY <2>1, <2>3, KeyVisAssumption DEF Gen, Quit
      <3>2. r \in Gen /\ gen' = [gen EXCEPT ![g] = r] /\ Quits(g)
        BY <2>1, <2>3, <3>1 DEF Quit, Gen
      <3>3. Leaves(r)
        BY <2>1, <2>2, <3>2 DEF Gen
      <3>. QED BY <3>2, <3>3
    <2>4. CASE InputLeaves(g)
      <3>. DEFINE r == [gen[g] EXCEPT !.routines = @ \ {"input"}]
      <3>1. r \in Gen /\ gen' = [gen EXCEPT ![g] = r] /\ Quits(g)
        BY <2>1, <2>4 DEF InputLeaves, Quits, Gen
      <3>2. Leaves(r)
        BY <2>1, <2>2, <3>1 DEF Gen
      <3>. QED BY <3>1, <3>2
    <2>5. CASE OthersLeave(g)
      <3>. DEFINE r == [gen[g] EXCEPT !.routines = @ \cap {"input"}]
      <3>1. r \in Gen /\ gen' = [gen EXCEPT ![g] = r] /\ Quits(g)
        BY <2>1, <2>5 DEF OthersLeave, Quits, Gen
      <3>2. Leaves(r)
        BY <2>1, <2>2, <3>1 DEF Gen
      <3>. QED BY <3>1, <3>2
    <2>. QED BY <2>3, <2>4, <2>5
  <1>2. UNCHANGED <<manager, status, fields, call, queue, cancelled, changes>>
    BY DEF Quit, InputLeaves, OthersLeave, outside
  <1>3. /\ gen' \in Seq(Gen) /\ Len(gen') = Len(gen) /\ DOMAIN gen' = DOMAIN gen
        /\ gen'[g] = r /\ \A k \in DOMAIN gen : k # g => gen'[k] = gen[k]
    BY <1>1, GenUpdate DEF IInv
  <1>4. Types' /\ Counted'
    BY <1>1, <1>2, <1>3 DEF IInv, Types, Counted, Handling, manager, fields
  <1>5. Staged'
    <2>1. ASSUME NEW k \in DOMAIN gen, k # g PROVE StageOK(k)'
      BY <1>2, <1>3, <2>1 DEF IInv, Staged, StageOK, Done, AllLeft
    <2>2. StageOK(g) /\ gen[g] \in Gen
      BY GenFields DEF IInv, Staged
    <2>3. gen[g].fx \in {"start", "started"} => Done(g)
      BY <1>1, <2>2 DEF StageOK, Quits
    <2>4. Done(g)' <=> Done(g)
      BY <1>1, <1>2, <1>3 DEF Done
    <2>5. AllLeft(g) => AllLeft(g)'
      BY <1>1, <1>3, <2>2, KeyVisAssumption DEF AllLeft, Gen
    <2>6. StageOK(g)'
      BY <1>1, <1>3, <2>2, <2>3, <2>4, <2>5 DEF StageOK
    <2>. QED BY <1>3, <2>1, <2>6 DEF Staged
  <1>6. SameFields' /\ LoopKnows' /\ OthersEnded' /\ StatusOfOne'
    BY <1>1, <1>2, <1>3 DEF IInv, SameFields, LoopKnows, OthersEnded, StatusOfOne, manager, fields
  <1>7. CallsOK' /\ Columns'
    BY <1>1, <1>2, <1>3, ColumnsKept DEF fields
  <1>. QED BY <1>4, <1>5, <1>6, <1>7 DEF IInv

-----------------------------------------------------------------------------
\* Calls.  One caller goes on, and the generations stay as they are.
LEMMA CallUpdate ==
    ASSUME IInv, NEW o \in Callers, NEW c \in Call, call' = [call EXCEPT ![o] = c]
    PROVE  /\ call' \in [Callers -> Call] /\ call'[o] = c
           /\ \A k \in Callers : k # o => call'[k] = call[k]
  BY DEF IInv, Types

\* A call of GenerateScale that moves on leaves generations and columns alone.
LEMMA CallGoesOn ==
    ASSUME IInv, NEW o \in Callers, NEW c \in Call, call' = [call EXCEPT ![o] = c],
           UNCHANGED <<manager, status, fields, gen, queue, cancelled, changes>>,
           CallOK(o)',
           \A g \in DOMAIN gen : \A i \in DOMAIN gen[g].ch :
               gen[g].ch[i] = o => \/ c.pc \in {"sending", "waiting"} /\ c.gen = g
                                  \/ /\ o \in Handlers /\ gen[g].closed /\ c.gen # g
                                     /\ c.pc \in {"admitted", "ranging"} => strategy # g
    PROVE  IInv'
  <1>1. /\ call' \in [Callers -> Call] /\ call'[o] = c
        /\ \A k \in Callers : k # o => call'[k] = call[k]
    BY CallUpdate
  <1>2. Types' /\ Counted'
    BY <1>1 DEF IInv, Types, Counted, Handling, manager, fields
  <1>3. Life'
    BY LifeKept DEF manager, fields
  <1>4. CallsOK'
    <2>. SUFFICES ASSUME NEW k \in Callers, k # o PROVE CallOK(k)'
      BY DEF CallsOK
    <2>. QED BY <1>1 DEF IInv, CallsOK, CallOK, Calling
  <1>5. Columns'
    <2>. SUFFICES ASSUME NEW g \in DOMAIN gen, NEW i \in DOMAIN gen[g].ch
                  PROVE  ColumnOK(g, gen[g].ch[i])'
      BY DEF Columns
    <2>1. ColumnOK(g, gen[g].ch[i]) /\ gen[g].ch[i] \in Callers
      BY GenFields, LenProperties, ElementOfSeq DEF IInv, Columns, Gen
    <2>2. CASE gen[g].ch[i] = o
      BY <1>1, <2>2 DEF ColumnOK, Calling, fields
    <2>3. CASE gen[g].ch[i] # o
      BY <1>1, <2>1, <2>3 DEF ColumnOK, Calling, fields
    <2>. QED BY <2>2, <2>3
  <1>. QED BY <1>2, <1>3, <1>4, <1>5 DEF IInv, Life

\* A generation is a caller, with the number that it has among the generations.
LEMMA GenIsCaller ==
    ASSUME IInv, NEW g \in DOMAIN gen
    PROVE  /\ g \in Gens /\ g \in Callers /\ g \in Nat /\ g # None /\ g \notin Handlers
           /\ gen[g] \in Gen
  <1>1. DOMAIN gen = 1 .. Len(gen) /\ Len(gen) \in Nat /\ gen[g] \in Gen
    BY GenFields DEF IInv
  <1>2. Len(gen) <= MaxChanges
    BY <1>1, LenProperties, KeyVisAssumption DEF IInv, Types, Counted, Handling
  <1>. QED BY <1>1, <1>2, KeyVisAssumption DEF Gens, Callers

\* A caller that has just begun to ask waits for all its columns, and none is in the channel.
LEMMA AsksOK ==
    ASSUME IInv, NEW o \in Callers, NEW g \in DOMAIN gen, call' = [call EXCEPT ![o] = Asks(g)],
           gen' = gen, \A i \in DOMAIN gen[g].ch : gen[g].ch[i] # o
    PROVE  Asks(g) \in Call /\ CallOK(o)'
  <1>1. Asks(g) \in Call
    BY GenIsCaller, KeyVisAssumption DEF Asks, Call
  <1>2. call'[o] = Asks(g)
    BY <1>1, CallUpdate
  <1>3. Pending(gen[g].ch, o) = 0
    <2>1. gen[g].ch \in Seq(Callers)
      BY GenIsCaller DEF Gen
    <2>. QED BY <2>1, PendingType
  <1>4. /\ call'[o].unsent = Tasks /\ call'[o].undone = Tasks /\ call'[o].gen = g
        /\ call'[o].pc = "sending"
    BY <1>2 DEF Asks
  <1>5. Tasks \in Nat /\ Tasks > 0
    BY KeyVisAssumption
  <1>. QED BY <1>1, <1>3, <1>4, <1>5 DEF CallOK, Calling

\* A caller that has come back is well.
LEMMA NoCallOK ==
    ASSUME IInv, NEW o \in Callers, call' = [call EXCEPT ![o] = NoCall]
    PROVE  NoCall \in Call /\ CallOK(o)'
  <1>1. NoCall \in Call
    BY DEF NoCall, Call
  <1>2. call'[o] = NoCall
    BY <1>1, CallUpdate
  <1>3. /\ call'[o].pc = "idle" /\ call'[o].gen = None
        /\ call'[o].unsent = 0 /\ call'[o].undone = 0
    BY <1>2 DEF NoCall
  <1>. QED BY <1>1, <1>3, KeyVisAssumption DEF CallOK, Calling

\* The background of a generation calls GenerateScale when it is not in a call.
LEMMA TickStep ==
    ASSUME IInv, NEW g \in DOMAIN gen, Tick(g)
    PROVE  IInv'
  <1>1. /\ call' = [call EXCEPT ![g] = Asks(g)] /\ call[g].pc = "idle"
        /\ UNCHANGED <<manager, status, fields, gen, queue, cancelled, changes>>
    BY DEF Tick
  <1>2. \A k \in DOMAIN gen : \A i \in DOMAIN gen[k].ch : gen[k].ch[i] # g
    BY <1>1, GenIsCaller DEF IInv, Columns, ColumnOK, Calling
  <1>3. g \in Callers
    BY GenIsCaller
  <1>4. Asks(g) \in Call /\ CallOK(g)'
    BY <1>1, <1>2, <1>3, AsksOK
  <1>. QED BY <1>1, <1>2, <1>3, <1>4, CallGoesOn

\* A request calls GenerateScale of the strategy it has read.
LEMMA PixelStep ==
    ASSUME IInv, NEW h \in Handlers, Pixel(h)
    PROVE  IInv'
  <1>1. /\ call[h].pc = "ranging" /\ h \in Callers
        /\ UNCHANGED <<manager, status, fields, gen, queue, cancelled, changes>>
        /\ call' = [call EXCEPT ![h] = IF strategy = None THEN NoCall ELSE Asks(strategy)]
    BY DEF Pixel, Callers, outside
  <1>2. \A k \in DOMAIN gen : \A i \in DOMAIN gen[k].ch :
          gen[k].ch[i] = h => gen[k].closed /\ strategy # k
    BY <1>1 DEF IInv, Columns, ColumnOK, Calling
  <1>3. CASE strategy = None
    <2>1. NoCall \in Call /\ call' = [call EXCEPT ![h] = NoCall]
      BY <1>1, <1>3 DEF NoCall, Call
    <2>2. CallOK(h)'
      BY <1>1, <2>1, NoCallOK
    <2>3. \A k \in DOMAIN gen : NoCall.gen # k
      BY GenIsCaller DEF NoCall
    <2>4. NoCall.pc = "idle"
      BY DEF NoCall
    <2>. QED BY <1>1, <1>2, <2>1, <2>2, <2>3, <2>4, CallGoesOn
  <1>4. CASE strategy # None
    <2>1. strategy \in DOMAIN gen
      BY <1>4 DEF IInv, SameFields
    <2>2. call' = [call EXCEPT ![h] = Asks(strategy)] /\ gen' = gen
      BY <1>1, <1>4
    <2>3. Asks(strategy) \in Call /\ CallOK(h)'
      BY <1>1, <1>2, <2>1, <2>2, AsksOK
    <2>4. Asks(strategy).pc = "sending" /\ Asks(strategy).gen = strategy
      BY DEF Asks
    <2>. QED BY <1>1, <1>2, <2>2, <2>3, <2>4, CallGoesOn
  <1>. QED BY <1>3, <1>4

\* A call that comes back, or is recovered.
LEMMA CallEnds ==
    ASSUME IInv, NEW o \in Callers, call' = [call EXCEPT ![o] = NoCall],
           UNCHANGED <<manager, status, fields, gen, queue, cancelled, changes>>,
           \A g \in DOMAIN gen : \A i \in DOMAIN gen[g].ch :
               gen[g].ch[i] = o => o \in Handlers /\ gen[g].closed
    PROVE  IInv'
  <1>1. NoCall \in Call /\ NoCall.pc = "idle" /\ NoCall.gen = None
    BY DEF NoCall, Call
  <1>2. CallOK(o)'
    BY NoCallOK
  <1>3. \A g \in DOMAIN gen : g # None
    BY GenIsCaller
  <1>. QED BY <1>1, <1>2, <1>3, CallGoesOn

\* A request that sends on a closed channel is recovered; its columns stay behind.
LEMMA RecoverStep ==
    ASSUME IInv, NEW h \in Handlers, Recover(h)
    PROVE  IInv'
  <1>1. /\ call[h].pc = "sending" /\ gen[call[h].gen].closed /\ h \in Callers
        /\ UNCHANGED <<manager, status, fields, gen, queue, cancelled, changes>>
        /\ call' = [call EXCEPT ![h] = NoCall]
    BY DEF Recover, SendsToClosed, Callers, outside
  <1>2. \A k \in DOMAIN gen : \A i \in DOMAIN gen[k].ch : gen[k].ch[i] = h => gen[k].closed
    BY <1>1 DEF IInv, Columns, ColumnOK
  <1>. QED BY <1>1, <1>2, CallEnds

\* A call ends when no column of it is left.
LEMMA FinishStep ==
    ASSUME IInv, NEW o \in Callers, Finish(o)
    PROVE  IInv'
  <1>1. /\ call[o].pc = "waiting" /\ call[o].undone = 0
        /\ UNCHANGED <<manager, status, fields, gen, queue, cancelled, changes>>
        /\ call' = [call EXCEPT ![o] = NoCall]
    BY DEF Finish, outside
  <1>. DEFINE g == call[o].gen
  <1>2. /\ g \in DOMAIN gen /\ call[o].unsent \in Nat
        /\ call[o].unsent + Pending(gen[g].ch, o) <= 0
    BY <1>1 DEF IInv, Types, Call, CallsOK, CallOK, Calling
  <1>3. \A i \in DOMAIN gen[g].ch : gen[g].ch[i] # o
    <2>1. gen[g].ch \in Seq(Callers)
      BY <1>2, GenIsCaller DEF Gen
    <2>2. Pending(gen[g].ch, o) \in Nat
      BY <2>1, PendingType
    <2>3. Pending(gen[g].ch, o) = 0
      BY <1>2, <2>2
    <2>. QED BY <2>1, <2>3, PendingType
  <1>4. \A k \in DOMAIN gen : \A i \in DOMAIN gen[k].ch :
          gen[k].ch[i] = o => o \in Handlers /\ gen[k].closed
    BY <1>3 DEF IInv, Columns, ColumnOK
  <1>. QED BY <1>1, <1>4, CallEnds

\* A request is let through while the status is set.
LEMMA AdmitStep ==
    ASSUME IInv, NEW h \in Handlers, Admit(h)
    PROVE  IInv'
  <1>. DEFINE c == [call[h] EXCEPT !.pc = "admitted"]
  <1>1. /\ call[h].pc = "idle" /\ status /\ h \in Callers /\ call[h] \in Call
        /\ UNCHANGED <<manager, status, fields, gen, queue, cancelled, changes>>
        /\ call' = [call EXCEPT ![h] = c]
    BY DEF Admit, Callers, outside, IInv, Types
  <1>2. /\ c \in Call /\ c.pc = "admitted" /\ c.gen = call[h].gen
        /\ c.unsent = call[h].unsent /\ c.undone = call[h].undone
    BY <1>1 DEF Call
  <1>. HIDE DEF c
  <1>3. CallOK(h)'
    <2>1. CallOK(h) /\ call'[h] = c
      BY <1>1, <1>2, CallUpdate DEF IInv, CallsOK
    <2>. QED BY <1>1, <1>2, <2>1 DEF CallOK, Calling
  <1>4. \A k \in DOMAIN gen : gen[k].closed => strategy # k
    BY <1>1, GenIsCaller DEF IInv, Staged, StageOK, StatusOfOne, SameFields
  <1>5. \A k \in DOMAIN gen : \A i \in DOMAIN gen[k].ch :
          gen[k].ch[i] = h => gen[k].closed /\ c.gen # k /\ strategy # k
    BY <1>1, <1>2, <1>4 DEF IInv, Columns, ColumnOK, Calling
  <1>. QED BY <1>1, <1>2, <1>3, <1>5, CallGoesOn

\* A request reads the storage that is in the field.
LEMMA ReadStatStep ==
    ASSUME IInv, NEW h \in Handlers, ReadStat(h)
    PROVE  IInv'
  <1>. DEFINE c == [call[h] EXCEPT !.pc = "ranging", !.gen = stat]
  <1>1. /\ call[h].pc = "admitted" /\ h \in Callers /\ call[h] \in Call
        /\ UNCHANGED <<manager, status, fields, gen, queue, cancelled, changes>>
        /\ call' = [call EXCEPT ![h] = IF stat = None THEN NoCall ELSE c]
    BY DEF ReadStat, Callers, outside, IInv, Types
  <1>2. \A k \in DOMAIN gen : \A i \in DOMAIN gen[k].ch :
          gen[k].ch[i] = h => gen[k].closed /\ strategy # k
    BY <1>1 DEF IInv, Columns, ColumnOK, Calling
  <1>3. CASE stat = None
    BY <1>1, <1>2, <1>3, CallEnds
  <1>4. CASE stat # None
    <2>1. stat \in DOMAIN gen /\ strategy = stat /\ stat \in Nat
      BY <1>4, GenIsCaller DEF IInv, SameFields
    <2>2. /\ c \in Call /\ c.pc = "ranging" /\ c.gen = stat
          /\ c.unsent = call[h].unsent /\ c.undone = call[h].undone
      BY <1>1, <2>1 DEF Call
    <2>3. call' = [call EXCEPT ![h] = c]
      BY <1>1, <1>4
    <2>. HIDE DEF c
    <2>4. CallOK(h)'
      <3>1. CallOK(h) /\ call'[h] = c
        BY <1>1, <2>2, <2>3, CallUpdate DEF IInv, CallsOK
      <3>. QED BY <1>1, <2>2, <3>1 DEF CallOK, Calling
    <2>5. \A k \in DOMAIN gen : \A i \in DOMAIN gen[k].ch :
            gen[k].ch[i] = h => gen[k].closed /\ c.gen # k /\ strategy # k
      BY <1>2, <2>1, <2>2
    <2>6. /\ h \in Callers /\ h \in Handlers
          /\ UNCHANGED <<manager, status, fields, gen, queue, cancelled, changes>>
      BY <1>1
    <2>. QED BY <2>2, <2>3, <2>4, <2>5, <2>6, CallGoesOn
  <1>. QED BY <1>3, <1>4

-----------------------------------------------------------------------------
\* Columns.  The channel of a generation changes, and the call of one caller.
LEMMA ChannelChanges ==
    ASSUME IInv, NEW g \in DOMAIN gen, NEW s \in Seq(Callers), Len(s) <= ChanCap,
           gen' = [gen EXCEPT ![g].ch = s], NEW o \in Callers, NEW c \in Call,
           call' = [call EXCEPT ![o] = c], UNCHANGED <<manager, status, fields, outside>>
    PROVE  /\ Types' /\ Counted' /\ Life' /\ DOMAIN gen' = DOMAIN gen
           /\ gen'[g].ch = s /\ \A k \in DOMAIN gen : k # g => gen'[k].ch = gen[k].ch
           /\ \A k \in DOMAIN gen : gen'[k].closed = gen[k].closed
           /\ call'[o] = c /\ \A k \in Callers : k # o => call'[k] = call[k]
  <1>. DEFINE r == [gen[g] EXCEPT !.ch = s]
  <1>1. gen[g] \in Gen
    BY GenIsCaller
  <1>2. r \in Gen /\ gen' = [gen EXCEPT ![g] = r]
    BY <1>1 DEF Gen
  <1>3. /\ r.fx = gen[g].fx /\ r.hook = gen[g].hook /\ r.done = gen[g].done
        /\ r.closed = gen[g].closed /\ r.ch = s
        /\ r.routines = gen[g].routines /\ r.workers = gen[g].workers
    BY <1>1 DEF Gen
  <1>. HIDE DEF r
  <1>4. /\ gen' \in Seq(Gen) /\ Len(gen') = Len(gen) /\ DOMAIN gen' = DOMAIN gen
        /\ gen'[g] = r /\ \A k \in DOMAIN gen : k # g => gen'[k] = gen[k]
    BY <1>2, GenUpdate DEF IInv
  <1>5. Life'
    BY <1>3, <1>4, LifeKept DEF manager, fields, outside
  <1>6. /\ call' \in [Callers -> Call] /\ call'[o] = c
        /\ \A k \in Callers : k # o => call'[k] = call[k]
    BY CallUpdate
  <1>7. \A k \in DOMAIN gen : Len(gen'[k].ch) <= ChanCap
    BY <1>3, <1>4 DEF IInv, Types
  <1>8. Types' /\ Counted'
    BY <1>4, <1>6, <1>7 DEF IInv, Types, Counted, Handling, manager, outside
  <1>. QED BY <1>3, <1>4, <1>5, <1>6, <1>8

\* One column more waits, one less is to be sent.
LEMMA SendStep ==
    ASSUME IInv, NEW o \in Callers, Send(o)
    PROVE  IInv'
  <1>. DEFINE g == call[o].gen
              s == Append(gen[g].ch, o)
              c == [call[o] EXCEPT !.unsent = @ - 1,
                                   !.pc = IF call[o].unsent = 1 THEN "waiting" ELSE @]
  <1>1. /\ call[o].pc = "sending" /\ call[o] \in Call /\ g \in DOMAIN gen
        /\ gen[g].ch \in Seq(Callers) /\ Len(gen[g].ch) < ChanCap
        /\ call[o].unsent \in Nat /\ call[o].unsent > 0
        /\ UNCHANGED <<manager, status, fields, outside>>
    <2>1. g \in DOMAIN gen /\ call[o] \in Call
      BY DEF Send, IInv, Types, CallsOK, CallOK, Calling
    <2>2. gen[g] \in Gen
      BY <2>1, GenIsCaller
    <2>. QED BY <2>1, <2>2 DEF Send, IInv, CallsOK, CallOK, Gen, Call
  <1>2. gen' = [gen EXCEPT ![g].ch = s] /\ call' = [call EXCEPT ![o] = c]
    BY <1>1 DEF Send, IInv, Types
  <1>3. /\ c \in Call /\ c.unsent = call[o].unsent - 1 /\ c.undone = call[o].undone /\ c.gen = g
        /\ c.pc \in {"sending", "waiting"}
        /\ c.pc = "sending" => c.unsent > 0
    <2>1. call[o].unsent - 1 \in Nat /\ (call[o].unsent # 1 => call[o].unsent - 1 > 0)
      BY <1>1
    <2>2. CASE call[o].unsent = 1
      BY <1>1, <2>1, <2>2 DEF Call
    <2>3. CASE call[o].unsent # 1
      BY <1>1, <2>1, <2>3 DEF Call
    <2>. QED BY <2>2, <2>3
  <1>4. s \in Seq(Callers) /\ Len(s) <= ChanCap
    BY <1>1, KeyVisAssumption
  <1>5. \A k \in Callers : Pending(s, k) = Pending(gen[g].ch, k) + (IF k = o THEN 1 ELSE 0)
    BY <1>1, PendingAppend
  <1>6. \A i \in DOMAIN s : s[i] = o \/ (i \in DOMAIN gen[g].ch /\ s[i] = gen[g].ch[i])
    BY <1>1, LenProperties
  <1>. HIDE DEF s, c
  <1>7. /\ Types' /\ Counted' /\ Life' /\ DOMAIN gen' = DOMAIN gen
        /\ gen'[g].ch = s /\ \A k \in DOMAIN gen : k # g => gen'[k].ch = gen[k].ch
        /\ \A k \in DOMAIN gen : gen'[k].closed = gen[k].closed
        /\ call'[o] = c /\ \A k \in Callers : k # o => call'[k] = call[k]
    BY <1>1, <1>2, <1>3, <1>4, ChannelChanges
  <1>8. CallsOK'
    <2>1. CallOK(o)'
      <3>1. /\ call[o].unsent <= call[o].undone /\ call[o].undone <= Tasks
            /\ call[o].unsent + Pending(gen[g].ch, o) <= call[o].undone
            /\ call[o].undone \in Nat /\ Tasks \in Nat
        BY <1>1, KeyVisAssumption DEF IInv, CallsOK, CallOK, Calling, Call
      <3>2. Pending(gen[g].ch, o) \in Nat /\ Pending(s, o) = Pending(gen[g].ch, o) + 1
        BY <1>1, <1>5, PendingType
      <3>3. c.unsent + Pending(s, o) <= c.undone
        BY <1>1, <1>3, <3>1, <3>2
      <3>4. c.unsent <= c.undone /\ c.undone <= Tasks
        BY <1>1, <1>3, <3>1
      <3>. QED BY <1>1, <1>3, <1>7, <3>3, <3>4 DEF CallOK, Calling
    <2>2. ASSUME NEW k \in Callers, k # o PROVE CallOK(k)'
      <3>1. CallOK(k) /\ call'[k] = call[k]
        BY <1>7, <2>2 DEF IInv, CallsOK
      <3>2. Calling(k) => Pending(gen'[call[k].gen].ch, k) = Pending(gen[call[k].gen].ch, k)
        <4>1. Pending(gen[g].ch, k) \in Nat /\ Pending(s, k) = Pending(gen[g].ch, k) + 0
          BY <1>1, <1>5, <2>2, PendingType
        <4>2. CASE call[k].gen = g
          BY <1>7, <4>1, <4>2
        <4>3. CASE call[k].gen # g
          BY <1>7, <3>1, <4>3 DEF CallOK
        <4>. QED BY <4>2, <4>3
      <3>. QED BY <1>7, <3>1, <3>2 DEF CallOK, Calling
    <2>. QED BY <2>1, <2>2 DEF CallsOK
  <1>9. Columns'
    <2>1. ASSUME NEW k \in DOMAIN gen, NEW i \in DOMAIN gen[k].ch
          PROVE  ColumnOK(k, gen[k].ch[i]) /\ gen[k].ch[i] \in Callers
      BY GenFields, LenProperties, ElementOfSeq DEF IInv, Columns, Gen
    <2>2. \A k \in DOMAIN gen, x \in Callers : ColumnOK(k, x) => ColumnOK(k, x)'
      BY <1>1, <1>3, <1>7 DEF ColumnOK, Calling, fields
    <2>3. ASSUME NEW k, k = g PROVE ColumnOK(k, o)'
      BY <1>3, <1>7, <2>3 DEF ColumnOK, Calling
    <2>. SUFFICES ASSUME NEW k \in DOMAIN gen, NEW i \in DOMAIN gen'[k].ch
                  PROVE  ColumnOK(k, gen[k].ch[i])'
      BY <1>7 DEF Columns
    <2>4. CASE k = g
      <3>1. gen'[k].ch = s /\ i \in DOMAIN s
        BY <1>7, <2>4
      <3>2. CASE s[i] = o
        BY <2>3, <2>4, <3>1, <3>2
      <3>3. CASE i \in DOMAIN gen[g].ch /\ s[i] = gen[g].ch[i]
        BY <2>1, <2>2, <2>4, <3>1, <3>3
      <3>. QED BY <1>6, <3>1, <3>2, <3>3
    <2>5. CASE k # g
      BY <1>7, <2>1, <2>2, <2>5
    <2>. QED BY <2>4, <2>5
  <1>. QED BY <1>7, <1>8, <1>9 DEF IInv, Life

\* A worker takes a column whose call waits for it, unless the caller was recovered.
LEMMA TakeStep ==
    ASSUME IInv, NEW g \in DOMAIN gen, Take(g)
    PROVE  IInv'
  <1>. DEFINE s == Tail(gen[g].ch)
              o == Head(gen[g].ch)
              n == IF call[o].gen = g THEN call[o].undone - 1 ELSE call[o].undone
              c == [call[o] EXCEPT !.undone = n]
  <1>1. /\ gen[g] \in Gen /\ gen[g].ch \in Seq(Callers) /\ gen[g].ch # <<>>
        /\ UNCHANGED <<manager, status, fields, outside>>
    BY GenIsCaller DEF Take, Gen
  <1>2. /\ Len(gen[g].ch) \in Nat \ {0} /\ DOMAIN gen[g].ch = 1 .. Len(gen[g].ch)
        /\ s \in Seq(Callers) /\ Len(s) = Len(gen[g].ch) - 1 /\ DOMAIN s = 1 .. Len(s)
        /\ o = gen[g].ch[1] /\ o \in Callers
        /\ \A i \in DOMAIN s : s[i] = gen[g].ch[i + 1]
    BY <1>1, HeadTailProperties, LenProperties, EmptySeq
  <1>3. ColumnOK(g, o) /\ CallOK(o) /\ call[o] \in Call
    BY <1>2 DEF IInv, Types, Columns, CallsOK
  <1>4. \A k \in Callers : /\ Pending(s, k) \in Nat /\ Pending(gen[g].ch, k) \in Nat
                           /\ Pending(gen[g].ch, k) = Pending(s, k) + (IF o = k THEN 1 ELSE 0)
    BY <1>1, <1>2, PendingTail, PendingType
  <1>5. /\ call[o].gen = g => /\ call[o].unsent + Pending(s, o) <= n
                              /\ n \in Nat /\ n <= Tasks /\ call[o].unsent <= n
                              /\ Calling(o)
        /\ n \in Nat
    <2>1. call[o].undone \in Nat /\ call[o].unsent \in Nat /\ Tasks \in Nat
      BY <1>3, KeyVisAssumption DEF Call
    <2>2. CASE call[o].gen = g
      <3>1. /\ Calling(o) /\ call[o].unsent + Pending(gen[g].ch, o) <= call[o].undone
            /\ call[o].undone <= Tasks
        BY <1>3, <2>2 DEF ColumnOK, CallOK
      <3>2. Pending(gen[g].ch, o) = Pending(s, o) + 1 /\ Pending(s, o) \in Nat
        BY <1>2, <1>4
      <3>3. n = call[o].undone - 1
        BY <2>2
      <3>. HIDE DEF n
      <3>. QED BY <2>1, <3>1, <3>2, <3>3
    <2>3. CASE call[o].gen # g
      BY <2>1, <2>3
    <2>. QED BY <2>2, <2>3
  <1>6. /\ c \in Call /\ c.pc = call[o].pc /\ c.gen = call[o].gen
        /\ c.unsent = call[o].unsent /\ c.undone = n
    BY <1>3, <1>5 DEF Call
  <1>7. gen' = [gen EXCEPT ![g].ch = s] /\ call' = [call EXCEPT ![o] = c]
    BY <1>1, <1>2, <1>3 DEF Take, IInv, Types
  <1>8. Len(s) <= ChanCap
    BY <1>2, KeyVisAssumption DEF IInv, Types
  <1>. HIDE DEF s, c, o
  <1>9. /\ Types' /\ Counted' /\ Life' /\ DOMAIN gen' = DOMAIN gen
        /\ gen'[g].ch = s /\ \A k \in DOMAIN gen : k # g => gen'[k].ch = gen[k].ch
        /\ \A k \in DOMAIN gen : gen'[k].closed = gen[k].closed
        /\ call'[o] = c /\ \A k \in Callers : k # o => call'[k] = call[k]
    BY <1>1, <1>2, <1>6, <1>7, <1>8, ChannelChanges
  <1>10. \A k \in Callers : /\ call'[k].pc = call[k].pc /\ call'[k].gen = call[k].gen
                            /\ call'[k].unsent = call[k].unsent
                            /\ k # o \/ call[k].gen # g => call'[k].undone = call[k].undone
    BY <1>6, <1>9
  <1>11. CallsOK'
    <2>1. ASSUME NEW k \in Callers, k = o, call[o].gen = g PROVE CallOK(k)'
      <3>1. call'[k].undone = n /\ call'[k].unsent = call[o].unsent
        BY <1>6, <1>9, <2>1
      <3>2. gen'[call'[k].gen].ch = s
        BY <1>9, <1>10, <2>1
      <3>. HIDE DEF n
      <3>. QED BY <1>3, <1>5, <1>9, <1>10, <2>1, <3>1, <3>2 DEF CallOK, Calling
    <2>2. ASSUME NEW k \in Callers, k # o \/ call[k].gen # g PROVE CallOK(k)'
      <3>1. CallOK(k) /\ call'[k].undone = call[k].undone
        BY <1>10, <2>2 DEF IInv, CallsOK
      <3>2. Calling(k) => Pending(gen'[call[k].gen].ch, k) = Pending(gen[call[k].gen].ch, k)
        <4>1. CASE call[k].gen = g
          <5>1. Pending(gen[g].ch, k) = Pending(s, k) + 0 /\ Pending(s, k) \in Nat
            BY <1>4, <2>2, <4>1
          <5>. QED BY <1>9, <4>1, <5>1
        <4>2. CASE call[k].gen # g
          BY <1>9, <3>1, <4>2 DEF CallOK
        <4>. QED BY <4>1, <4>2
      <3>. QED BY <1>9, <1>10, <3>1, <3>2 DEF CallOK, Calling
    <2>. QED BY <2>1, <2>2 DEF CallsOK
  <1>12. Columns'
    <2>1. ASSUME NEW k \in DOMAIN gen, NEW i \in DOMAIN gen[k].ch
          PROVE  ColumnOK(k, gen[k].ch[i]) /\ gen[k].ch[i] \in Callers
      BY GenFields, LenProperties, ElementOfSeq DEF IInv, Columns, Gen
    <2>2. \A k \in DOMAIN gen, x \in Callers : ColumnOK(k, x) => ColumnOK(k, x)'
      BY <1>1, <1>9, <1>10 DEF ColumnOK, Calling, fields
    <2>. SUFFICES ASSUME NEW k \in DOMAIN gen, NEW i \in DOMAIN gen'[k].ch
                  PROVE  ColumnOK(k, gen[k].ch[i])'
      BY <1>9 DEF Columns
    <2>3. CASE k = g
      <3>1. gen'[k].ch = s /\ i \in DOMAIN s
        BY <1>9, <2>3
      <3>2. i + 1 \in DOMAIN gen[g].ch
        BY <1>2, <3>1
      <3>3. gen'[k].ch[i] = gen[g].ch[i + 1] /\ i + 1 \in DOMAIN gen[g].ch
        BY <1>2, <3>1, <3>2
      <3>4. PICK x \in Callers : x = gen[g].ch[i + 1] /\ ColumnOK(g, x)
        BY <2>1, <3>3
      <3>. QED BY <2>2, <2>3, <3>3, <3>4
    <2>4. CASE k # g
      BY <1>9, <2>1, <2>2, <2>4
    <2>. QED BY <2>3, <2>4
  <1>. QED BY <1>9, <1>11, <1>12 DEF IInv, Life

\* A send of the background on a closed channel ends the process.
LEMMA CrashStep ==
    ASSUME IInv, NEW g \in DOMAIN gen, Crash(g)
    PROVE  IInv'
  <1>1. /\ pc' = "crashed" /\ gen' = <<>> /\ status' = FALSE
        /\ app' = None /\ stat' = None /\ strategy' = None
        /\ call' = [o \in Callers |-> NoCall]
        /\ UNCHANGED <<keyVisualCfg, cfg, queue, cancelled, changes>>
    BY DEF Crash, DropFields, outside, IInv, Types
  <1>2. DOMAIN gen' = {} /\ Len(gen') = 0 /\ gen' \in Seq(Gen)
    BY <1>1, EmptySeq
  <1>3. NoCall \in Call
    BY DEF NoCall, Call
  <1>4. Types'
    BY <1>1, <1>2, <1>3 DEF IInv, Types
  <1>5. Counted'
    BY <1>1, <1>2, GenFields, LenProperties, KeyVisAssumption DEF IInv, Types, Counted, Handling
  <1>6. CallsOK'
    BY <1>1, KeyVisAssumption DEF CallsOK, CallOK, Calling, NoCall
  <1>. QED BY <1>1, <1>2, <1>4, <1>5, <1>6 DEF IInv, SameFields, Staged, LoopKnows, OthersEnded,
                 StatusOfOne, Columns

-----------------------------------------------------------------------------
\* Every step keeps the invariant.
LEMMA NextInv == IInv /\ [Next]_vars => IInv'
  <1>. SUFFICES ASSUME IInv, [Next]_vars PROVE IInv'
    OBVIOUS
  <1>1. CASE UNCHANGED vars
    <2>1. UNCHANGED <<fields, pc, status, cancelled, gen, call, queue, changes, keyVisualCfg, cfg>>
      BY <1>1 DEF vars, outside, manager
    <2>2. Types' /\ Counted'
      BY <2>1 DEF IInv, Types, Counted, Handling
    <2>3. Life' /\ CallsOK' /\ Columns'
      BY <2>1, LifeKept, ColumnsKept DEF fields
    <2>. QED BY <2>2, <2>3 DEF IInv, Life
  <1>2. CASE \E c \in Configs : Push(c)
    BY <1>2, PushStep
  <1>3. CASE ShutDown
    BY <1>3, ShutDownStep
  <1>4. CASE Manager
    BY <1>4, ReceiveStep, LeaveStep, StoppedStep, ReloadStep, StartedStep, StartFailedStep DEF Manager
  <1>5. ASSUME NEW g \in DOMAIN gen, Fx(g) PROVE IInv'
    BY <1>5, HookStartsStep, HookFailsStep, HookStopsStep DEF Fx
  <1>6. ASSUME NEW g \in DOMAIN gen, Worker(g) PROVE IInv'
    BY <1>6, TakeStep, GoroutineLeaves DEF Worker
  <1>7. ASSUME NEW g \in DOMAIN gen, Tick(g) \/ InputLeaves(g) \/ OthersLeave(g) PROVE IInv'
    BY <1>7, TickStep, GoroutineLeaves
  <1>8. ASSUME NEW g \in DOMAIN gen, Background(g) PROVE IInv'
    BY <1>8, GenIsCaller, SendStep, CrashStep, FinishStep DEF Background
  <1>9. ASSUME NEW h \in Handlers, Admit(h) \/ Request(h) PROVE IInv'
    <2>1. h \in Callers
      BY DEF Callers
    <2>. QED BY <1>9, <2>1, AdmitStep, ReadStatStep, PixelStep, SendStep, RecoverStep, FinishStep DEF Request
  <1>. QED BY <1>1, <1>2, <1>3, <1>4, <1>5, <1>6, <1>7, <1>8, <1>9 DEF Next

\* The invariant holds in every behaviour: what the loop, fx and the calls know of each
\* other stays true whatever is pushed, fails, or is shut down in between.
THEOREM ServiceInvariant == Spec => []IInv
  BY InitInv, NextInv, PTL DEF Spec

\* Whatever still runs belongs to the generation in app, so the table of the samples has
\* one writer: managerLoop (service.go) stops a generation and waits before it starts another.
THEOREM OneGenerationAlways == Spec => []OneGeneration
  <1>1. IInv => OneGeneration
    <2>. SUFFICES ASSUME IInv PROVE OneGeneration
      OBVIOUS
    <2>1. \A g \in DOMAIN gen : /\ gen[g] \in Gen /\ Len(gen[g].ch) <= ChanCap
      BY GenIsCaller DEF IInv, Types
    <2>2. Len(gen) <= MaxChanges
      BY GenFields, LenProperties, KeyVisAssumption DEF IInv, Types, Counted, Handling
    <2>3. \A o \in DOMAIN call : call[o].unsent <= call[o].undone /\ call[o].undone <= Tasks
      BY DEF IInv, Types, CallsOK, CallOK
    <2>4. TypeOK
      BY <2>1, <2>2, <2>3, HookNames DEF TypeOK, IInv, Types, SameFields, Gen, Routines
    <2>5. \A g \in DOMAIN gen : gen[g].fx \in {"stopped", "failed"} => AllLeft(g)
      BY DEF IInv, Staged, StageOK
    <2>. QED BY <2>4, <2>5 DEF OneGeneration, IInv, OthersEnded
  <1>. QED BY <1>1, ServiceInvariant, PTL

\* A service that says it is running is complete, from the first hook to the last, until it
\* is being stopped: its fields are set, its goroutines and workers run, its channel is open.
THEOREM RunningIsCompleteAlways == Spec => []RunningIsComplete
  <1>1. IInv => RunningIsComplete
    <2>. SUFFICES ASSUME IInv, status, ~cancelled PROVE RunningIsComplete
      BY DEF RunningIsComplete
    <2>1. PICK g \in DOMAIN gen : gen[g].hook = 6 /\ app \in {g, None}
      BY DEF IInv, StatusOfOne
    <2>2. StageOK(g) /\ gen[g] \in Gen
      BY GenIsCaller DEF IInv, Staged
    <2>3. gen[g].fx \in {"started", "stop"} /\ ~gen[g].closed
      BY <2>1, <2>2 DEF StageOK, Gen
    <2>4. app = g /\ app # None /\ stat = app /\ strategy = app
      BY <2>1, <2>3, GenIsCaller DEF IInv, OthersEnded, SameFields
    <2>5. CASE gen[g].done
      BY <2>3, <2>4, <2>5 DEF RunningIsComplete
    <2>6. CASE ~gen[g].done
      BY <2>1, <2>2, <2>3, <2>4, <2>6 DEF RunningIsComplete, StageOK, Done
    <2>. QED BY <2>5, <2>6
  <1>. QED BY <1>1, ServiceInvariant, PTL
=============================================================================
