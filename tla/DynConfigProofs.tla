---------------------------- MODULE DynConfigProofs ----------------------------
(***************************************************************************)
(* Proofs about DynConfig for every set of callers, subscribers and values *)
(* and every capacity of the channels.                                     *)
(***************************************************************************)
EXTENDS DynConfig, TLAPS

\* The mutex is held by the process that pushes.
Locked == \A p \in Procs : mu = p <=> pc[p] = "pushing"

\* What a running Set carries: a valid configuration, in etcd once stored.
Carried ==
    \A p \in Procs :
        /\ pc[p] \in {"storing", "stored", "pushing"} => newDc[p] # None /\ Valid(newDc[p])
        /\ pc[p] = "stored" => newDc[p] \in persisted

\* Start comes first: handlers run, and pushes happen, only with a
\* configuration in memory.
Started ==
    /\ StartBeforeChanges
    /\ \A p \in Callers : pc[p] # "loading" /\ (pc[p] # "idle" => dynamicConfig # None)
    /\ \A p \in Procs : pc[p] = "pushing" => dynamicConfig # None
    /\ dynamicConfig # None => expected # None

\* Once something was stored, etcd has a valid configuration.
StoredValid ==
    dynamicConfig # None \/ (\E p \in Procs : pc[p] = "stored") => etcd # None /\ Valid(etcd)

\* The history of memory ends with what memory has.
History ==
    /\ dynamicConfig = None <=> past = <<>>
    /\ past # <<>> => dynamicConfig = past[Len(past)]

\* Every subscriber has one channel, and has received nothing without one.
OneChannel ==
    /\ \A i, j \in 1 .. Len(pushChannels) : i # j => pushChannels[i] # pushChannels[j]
    /\ \A s \in Subscribers \ Subscribed : view[s] = None /\ received[s] = 0

\* After Stop the first channel is closed, so that no Set pushes anything: it
\* panics at once, or does not get the mutex in time to reach a later channel.
ClosedFirst ==
    closed # {} =>
        /\ pushChannels # <<>> /\ pushChannels[1] \in closed
        /\ mu # Nobody => next = 1

\* Out of the history h, a subscriber whose first configuration is number f has
\* received r, the last of them v, and the next ones are in its channel q.
Window(h, f, r, v, q) ==
    /\ f = 1 \/ f \in 1 .. Len(h)
    /\ f - 1 + r + Len(q) <= Len(h)
    /\ v = IF r = 0 THEN None ELSE h[f - 1 + r]
    /\ \A k \in 1 .. Len(q) : q[k] = h[f - 1 + r + k]

\* What the subscriber of channel i has received, and what is in its channel, is
\* the history since it subscribed; the running Set may still have to push the
\* last configuration to it.
DeliveredTo(i, s) ==
    /\ Window(past, from[s], received[s], view[s], queue[s])
    /\ closed = {} =>
           from[s] - 1 + received[s] + Len(queue[s])
               = IF mu # Nobody /\ i >= next THEN Len(past) - 1 ELSE Len(past)
Delivered == \A i \in 1 .. Len(pushChannels) : DeliveredTo(i, pushChannels[i])

\* The inductive invariant.
Inv == /\ TypeOK /\ Locked /\ Carried /\ Started /\ StoredValid /\ OnlyValid
       /\ ServedIsPersisted /\ History /\ OneChannel /\ ClosedFirst /\ Delivered

-----------------------------------------------------------------------------
\* Start never sets anything but a configuration.
LEMMA LoadedConfig ==
    ASSUME TypeOK
    PROVE  Loaded \in Config
  BY ConfigAssumption DEF TypeOK, Loaded, Config

\* Adjust keeps the type.
LEMMA AdjustConfig ==
    ASSUME NEW c \in Config
    PROVE  Adjust(c) \in Config
  BY ConfigAssumption DEF Adjust, Config

\* Whatever an older version has written, Validate accepts what Adjust makes
\* of it.
LEMMA AdjustValid ==
    ASSUME NEW c \in Config
    PROVE  Valid(Adjust(c))
  BY ConfigAssumption DEF Adjust, Config, Valid

\* A channel that is read holds one configuration fewer.
LEMMA QueueTail ==
    ASSUME NEW q \in Seq(Config), q # <<>>
    PROVE  /\ Len(Tail(q)) = Len(q) - 1
           /\ Len(q) \in Nat /\ Len(Tail(q)) \in Nat
  OBVIOUS

\* The four ways in which a window changes: the history grows ...
LEMMA WindowGrows ==
    ASSUME NEW h \in Seq(Config), NEW f \in Nat, NEW r \in Nat, NEW v, NEW q \in Seq(Config),
           NEW c \in Config, Window(h, f, r, v, q)
    PROVE  Window(Append(h, c), f, r, v, q)
  <1>1. Len(Append(h, c)) = Len(h) + 1 /\ \A k \in 1 .. Len(h) : Append(h, c)[k] = h[k]
    OBVIOUS
  <1>2. f \in Nat \ {0} /\ Len(h) \in Nat /\ Len(q) \in Nat
    BY DEF Window
  <1>3. r # 0 => f - 1 + r \in 1 .. Len(h)
    BY <1>2 DEF Window
  <1>4. \A k \in 1 .. Len(q) : f - 1 + r + k \in 1 .. Len(h)
    BY <1>2 DEF Window
  <1>. QED BY <1>1, <1>2, <1>3, <1>4 DEF Window

\* ... its last configuration is pushed ...
LEMMA WindowPush ==
    ASSUME NEW h \in Seq(Config), NEW f \in Nat, NEW r \in Nat, NEW v, NEW q \in Seq(Config),
           Window(h, f, r, v, q), h[Len(h)] \in Config, f - 1 + r + Len(q) = Len(h) - 1
    PROVE  Window(h, f, r, v, Append(q, h[Len(h)]))
  <1>. DEFINE w == Append(q, h[Len(h)])
  <1>1. Len(w) = Len(q) + 1 /\ (\A k \in 1 .. Len(q) : w[k] = q[k]) /\ w[Len(q) + 1] = h[Len(h)]
    OBVIOUS
  <1>2. f \in Nat \ {0} /\ Len(h) \in Nat /\ Len(q) \in Nat
    BY DEF Window
  <1>. HIDE DEF w
  <1>3. f - 1 + r + Len(w) = Len(h)
    BY <1>1, <1>2
  <1>4. ASSUME NEW k \in 1 .. Len(w) PROVE w[k] = h[f - 1 + r + k]
    <2>1. CASE k \in 1 .. Len(q)
      BY <1>1, <2>1 DEF Window
    <2>2. CASE k = Len(q) + 1
      <3>1. f - 1 + r + k = Len(h)
        BY <1>2, <2>2
      <3>. QED BY <1>1, <2>2, <3>1
    <2>. QED BY <1>1, <1>2, <2>1, <2>2
  <1>5. Window(h, f, r, v, w)
    BY <1>2, <1>3, <1>4 DEF Window
  <1>. QED BY <1>5 DEF w

\* ... the subscriber receives ...
LEMMA WindowReceive ==
    ASSUME NEW h \in Seq(Config), NEW f \in Nat, NEW r \in Nat, NEW v, NEW q \in Seq(Config),
           Window(h, f, r, v, q), q # <<>>
    PROVE  Window(h, f, r + 1, Head(q), Tail(q))
  <1>1. Len(Tail(q)) = Len(q) - 1 /\ Head(q) = q[1] /\ Len(q) \in Nat \ {0}
    OBVIOUS
  <1>2. \A k \in 1 .. Len(Tail(q)) : Tail(q)[k] = q[k + 1]
    OBVIOUS
  <1>3. f \in Nat \ {0} /\ Len(h) \in Nat
    BY DEF Window
  <1>4. f - 1 + (r + 1) + Len(Tail(q)) <= Len(h)
    BY <1>1, <1>3 DEF Window
  <1>5. Head(q) = h[f - 1 + (r + 1)]
    <2>1. f - 1 + r + 1 = f - 1 + (r + 1)
      BY <1>3
    <2>. QED BY <1>1, <2>1 DEF Window
  <1>6. ASSUME NEW k \in 1 .. Len(Tail(q)) PROVE Tail(q)[k] = h[f - 1 + (r + 1) + k]
    <2>1. f - 1 + r + (k + 1) = f - 1 + (r + 1) + k /\ k + 1 \in 1 .. Len(q)
      BY <1>1, <1>3
    <2>. QED BY <1>2, <2>1 DEF Window
  <1>. QED BY <1>3, <1>4, <1>5, <1>6 DEF Window

\* ... and it subscribes.
LEMMA WindowStart ==
    ASSUME NEW h \in Seq(Config)
    PROVE  IF h = <<>> THEN Window(h, 1, 0, None, <<>>)
                       ELSE Window(h, Len(h), 0, None, <<h[Len(h)]>>)
  <1>1. CASE h = <<>>
    BY <1>1 DEF Window
  <1>2. CASE h # <<>>
    <2>1. Len(h) \in Nat \ {0} /\ Len(<<h[Len(h)]>>) = 1 /\ <<h[Len(h)]>>[1] = h[Len(h)]
      BY <1>2
    <2>. QED BY <1>2, <2>1 DEF Window
  <1>. QED BY <1>1, <1>2

\* The initial states satisfy the invariant.
LEMMA InitInv == Init => Inv
  <1>. SUFFICES ASSUME Init PROVE Inv
    OBVIOUS
  <1>. USE ConfigAssumption DEF Init, FreshPc, Nothing, Procs
  <1>1. TypeOK
    <2>1. etcd \in Config \union {None} /\ persisted \subseteq Config
      OBVIOUS
    <2>2. dynamicConfig \in Config \union {None} /\ mu \in Procs \union {Nobody}
      OBVIOUS
    <2>3. pc \in [Procs -> {"idle", "loading", "storing", "stored", "pushing"}]
      OBVIOUS
    <2>4. newDc \in [Procs -> Config \union {None}] /\ expected \in Config \union {None}
      OBVIOUS
    <2>5. pushChannels \in Seq(Subscribers) /\ past \in Seq(Config)
      OBVIOUS
    <2>6. queue \in [Subscribers -> Seq(Config)] /\ closed \subseteq Subscribers
      OBVIOUS
    <2>7. view \in [Subscribers -> Config \union {None}] /\ gone \subseteq Subscribers
      OBVIOUS
    <2>8. from \in [Subscribers -> Nat] /\ received \in [Subscribers -> Nat] /\ next \in Nat \ {0}
      OBVIOUS
    <2>. QED BY <2>1, <2>2, <2>3, <2>4, <2>5, <2>6, <2>7, <2>8 DEF TypeOK
  <1>2. Locked /\ Carried /\ Started /\ StoredValid
    BY DEF Locked, Carried, Started, StartBeforeChanges, StoredValid
  <1>3. OnlyValid /\ ServedIsPersisted
    BY DEF OnlyValid, ServedIsPersisted
  <1>4. History /\ OneChannel /\ ClosedFirst /\ Delivered
    BY DEF History, OneChannel, ClosedFirst, Delivered, Subscribed
  <1>. QED BY <1>1, <1>2, <1>3, <1>4 DEF Inv

\* Every step keeps the types.
LEMMA TypeStep ==
    ASSUME Inv, [Next]_vars
    PROVE  TypeOK'
  <1>. USE DEF memoryVars, procVars, subscriberVars, stopVars, historyVars, countVars
  <1>1. CASE Load
    BY <1>1, ConfigAssumption, AdjustConfig, LoadedConfig DEF Load, Inv, TypeOK, Procs
  <1>2. CASE LoadFails
    BY <1>2, ConfigAssumption DEF LoadFails, Inv, TypeOK, Procs
  <1>3. CASE StartGivesUp
    BY <1>3, ConfigAssumption DEF StartGivesUp, Inv, TypeOK, Procs
  <1>4. ASSUME NEW p \in Callers, NEW v \in Values, Modify(p, v) PROVE TypeOK'
    BY <1>4, ConfigAssumption DEF Modify, Inv, TypeOK, Procs, Changed, Present, Config
  <1>5. ASSUME NEW p \in Procs, Store(p) PROVE TypeOK'
    <2>1. newDc[p] \in Config
      BY <1>5 DEF Store, Inv, TypeOK, Carried
    <2>. QED BY <1>5, <2>1 DEF Store, Inv, TypeOK
  <1>6. ASSUME NEW p \in Procs, StoreFails(p) PROVE TypeOK'
    <2>1. newDc[p] \in Config
      BY <1>6 DEF StoreFails, Inv, TypeOK, Carried
    <2>2. AfterFailure(p) \in {"storing", "idle"}
      BY DEF AfterFailure
    <2>3. etcd' \in Config \union {None} /\ persisted' \subseteq Config
      BY <1>6, <2>1 DEF StoreFails, Inv, TypeOK
    <2>. QED BY <1>6, <2>2, <2>3 DEF StoreFails, Inv, TypeOK
  <1>7. ASSUME NEW p \in Procs, Replace(p) PROVE TypeOK'
    <2>1. newDc[p] \in Config
      BY <1>7 DEF Replace, Inv, TypeOK, Carried
    <2>2. past' \in Seq(Config)
      BY <1>7, <2>1 DEF Replace, Inv, TypeOK
    <2>3. expected' \in Config \union {None}
      BY <1>7, <2>1, ConfigAssumption DEF Replace, Inv, TypeOK, Config, Procs, Started, StartBeforeChanges
    <2>. QED BY <1>7, <2>1, <2>2, <2>3 DEF Replace, Inv, TypeOK
  <1>8. ASSUME NEW p \in Procs, Push(p) PROVE TypeOK'
    <2>1. p \in Procs /\ dynamicConfig \in Config /\ pushChannels[next] \in Subscribers
      <3>1. dynamicConfig \in Config
        BY <1>8 DEF Push, Inv, Started, TypeOK, Procs
      <3>2. pushChannels \in Seq(Subscribers) /\ next \in 1 .. Len(pushChannels)
        BY <1>8 DEF Push, Inv, TypeOK
      <3>. QED BY <3>1, <3>2
    <2>2. queue' \in [Subscribers -> Seq(Config)]
      BY <1>8, <2>1, SMTT(30) DEF Push, Inv, TypeOK
    <2>. QED BY <1>8, <2>2, SMTT(30) DEF Push, Inv, TypeOK
  <1>9. ASSUME NEW p \in Procs, PushPanics(p) PROVE TypeOK'
    BY <1>9, ConfigAssumption DEF PushPanics, Inv, TypeOK, Procs
  <1>10. ASSUME NEW p \in Procs, Return(p) PROVE TypeOK'
    BY <1>10, ConfigAssumption DEF Return, Inv, TypeOK, Procs
  <1>11. ASSUME NEW s \in Subscribers, Subscribe(s) PROVE TypeOK'
    BY <1>11, ConfigAssumption DEF Subscribe, Inv, TypeOK, Procs, FirstPush
  <1>12. ASSUME NEW s \in Subscribers, Receive(s) PROVE TypeOK'
    BY <1>12, ConfigAssumption DEF Receive, Inv, TypeOK, Procs
  <1>13. ASSUME NEW s \in Subscribers, Leave(s) PROVE TypeOK'
    BY <1>13, ConfigAssumption DEF Leave, Inv, TypeOK, Procs
  <1>14. CASE Cancel
    BY <1>14, ConfigAssumption DEF Cancel, Inv, TypeOK, Procs
  <1>15. CASE Stop
    BY <1>15, ConfigAssumption DEF Stop, Inv, TypeOK, Procs, Subscribed
  <1>16. CASE Crash
    <2>1. etcd' \in Config \union {None} /\ persisted' \subseteq Config
      BY <1>16 DEF Crash, Inv, TypeOK
    <2>2. dynamicConfig' \in Config \union {None} /\ mu' \in Procs \union {Nobody}
      BY <1>16 DEF Crash
    <2>3. pc' \in [Procs -> {"idle", "loading", "storing", "stored", "pushing"}]
      BY <1>16 DEF Crash, FreshPc
    <2>4. newDc' \in [Procs -> Config \union {None}] /\ expected' \in Config \union {None}
      BY <1>16 DEF Crash, Nothing
    <2>5. pushChannels' \in Seq(Subscribers) /\ past' \in Seq(Config)
      BY <1>16 DEF Crash
    <2>6. queue' \in [Subscribers -> Seq(Config)] /\ closed' \subseteq Subscribers
      BY <1>16 DEF Crash
    <2>7. view' \in [Subscribers -> Config \union {None}] /\ gone' \subseteq Subscribers
      BY <1>16 DEF Crash, Nothing
    <2>8. from' \in [Subscribers -> Nat] /\ received' \in [Subscribers -> Nat] /\ next' \in Nat \ {0}
      BY <1>16 DEF Crash
    <2>9. changes' \in Nat /\ failures' \in Nat /\ crashes' \in Nat
      BY <1>16 DEF Crash, Inv, TypeOK
    <2>10. cancelled' \in BOOLEAN /\ stopped' \in BOOLEAN /\ overlapped' \in BOOLEAN /\ unsure' \in BOOLEAN
      BY <1>16 DEF Crash
    <2>. QED BY <2>1, <2>2, <2>3, <2>4, <2>5, <2>6, <2>7, <2>8, <2>9, <2>10 DEF TypeOK
  <1>17. CASE UNCHANGED vars
    BY <1>17, ConfigAssumption DEF vars, Inv, TypeOK, Procs
  <1>. QED BY <1>1, <1>2, <1>3, <1>4, <1>5, <1>6, <1>7, <1>8, <1>9, <1>10, <1>11, <1>12, <1>13, <1>14, <1>15, <1>16, <1>17 DEF Next, StartStep, CallStep, LoopStep

\* Every step keeps the mutex with the process that pushes.
LEMMA LockStep ==
    ASSUME Inv, [Next]_vars
    PROVE  Locked'
  <1>. USE DEF memoryVars, procVars, subscriberVars, stopVars, historyVars, countVars
  <1>1. CASE Load
    BY <1>1, ConfigAssumption DEF Load, Inv, TypeOK, Locked, Procs
  <1>2. CASE LoadFails
    BY <1>2, ConfigAssumption DEF LoadFails, Inv, TypeOK, Locked, Procs
  <1>3. CASE StartGivesUp
    BY <1>3, ConfigAssumption DEF StartGivesUp, Inv, TypeOK, Locked, Procs
  <1>4. ASSUME NEW p \in Callers, NEW v \in Values, Modify(p, v) PROVE Locked'
    BY <1>4, ConfigAssumption DEF Modify, Inv, TypeOK, Locked, Procs
  <1>5. ASSUME NEW p \in Procs, Store(p) PROVE Locked'
    BY <1>5, ConfigAssumption DEF Store, Inv, TypeOK, Locked, Procs
  <1>6. ASSUME NEW p \in Procs, StoreFails(p) PROVE Locked'
    BY <1>6, ConfigAssumption DEF StoreFails, Inv, TypeOK, Locked, Procs, AfterFailure
  <1>7. ASSUME NEW p \in Procs, Replace(p) PROVE Locked'
    BY <1>7, ConfigAssumption DEF Replace, Inv, TypeOK, Locked, Procs
  <1>8. ASSUME NEW p \in Procs, Push(p) PROVE Locked'
    BY <1>8, ConfigAssumption DEF Push, Inv, TypeOK, Locked, Procs
  <1>9. ASSUME NEW p \in Procs, PushPanics(p) PROVE Locked'
    BY <1>9, ConfigAssumption DEF PushPanics, Inv, TypeOK, Locked, Procs
  <1>10. ASSUME NEW p \in Procs, Return(p) PROVE Locked'
    BY <1>10, ConfigAssumption DEF Return, Inv, TypeOK, Locked, Procs
  <1>11. ASSUME NEW s \in Subscribers, Subscribe(s) PROVE Locked'
    BY <1>11, ConfigAssumption DEF Subscribe, Inv, TypeOK, Locked, Procs
  <1>12. ASSUME NEW s \in Subscribers, Receive(s) PROVE Locked'
    BY <1>12, ConfigAssumption DEF Receive, Inv, TypeOK, Locked, Procs
  <1>13. ASSUME NEW s \in Subscribers, Leave(s) PROVE Locked'
    BY <1>13, ConfigAssumption DEF Leave, Inv, TypeOK, Locked, Procs
  <1>14. CASE Cancel
    BY <1>14, ConfigAssumption DEF Cancel, Inv, TypeOK, Locked, Procs
  <1>15. CASE Stop
    BY <1>15, ConfigAssumption DEF Stop, Inv, TypeOK, Locked, Procs
  <1>16. CASE Crash
    BY <1>16, ConfigAssumption DEF Crash, Inv, TypeOK, Locked, Procs, FreshPc
  <1>17. CASE UNCHANGED vars
    BY <1>17, ConfigAssumption DEF vars, Inv, TypeOK, Locked, Procs
  <1>. QED BY <1>1, <1>2, <1>3, <1>4, <1>5, <1>6, <1>7, <1>8, <1>9, <1>10, <1>11, <1>12, <1>13, <1>14, <1>15, <1>16, <1>17 DEF Next, StartStep, CallStep, LoopStep

\* Every step keeps what the running calls carry.
LEMMA CarriedStep ==
    ASSUME Inv, [Next]_vars
    PROVE  Carried'
  <1>. USE DEF memoryVars, procVars, subscriberVars, stopVars, historyVars, countVars
  <1>1. CASE Load
    BY <1>1, ConfigAssumption, AdjustValid, AdjustConfig, LoadedConfig DEF Load, Inv, TypeOK, Carried, Procs, Inv
  <1>2. CASE LoadFails
    BY <1>2, ConfigAssumption DEF LoadFails, Inv, TypeOK, Carried, Procs
  <1>3. CASE StartGivesUp
    BY <1>3, ConfigAssumption DEF StartGivesUp, Inv, TypeOK, Carried, Procs
  <1>4. ASSUME NEW p \in Callers, NEW v \in Values, Modify(p, v) PROVE Carried'
    <2>1. Changed(p, v) \in Config
      BY <1>4, ConfigAssumption DEF Modify, Inv, TypeOK, Changed, Present, Config
    <2>2. Changed(p, v) # None /\ Valid(Changed(p, v))
      BY <1>4, <2>1, ConfigAssumption DEF Modify
    <2>. QED BY <1>4, <2>2, ConfigAssumption DEF Modify, Inv, TypeOK, Carried, Procs
  <1>5. ASSUME NEW p \in Procs, Store(p) PROVE Carried'
    BY <1>5, ConfigAssumption DEF Store, Inv, TypeOK, Carried, Procs
  <1>6. ASSUME NEW p \in Procs, StoreFails(p) PROVE Carried'
    BY <1>6, ConfigAssumption DEF StoreFails, Inv, TypeOK, Carried, Procs, AfterFailure
  <1>7. ASSUME NEW p \in Procs, Replace(p) PROVE Carried'
    BY <1>7, ConfigAssumption DEF Replace, Inv, TypeOK, Carried, Procs
  <1>8. ASSUME NEW p \in Procs, Push(p) PROVE Carried'
    BY <1>8, ConfigAssumption DEF Push, Inv, TypeOK, Carried, Procs
  <1>9. ASSUME NEW p \in Procs, PushPanics(p) PROVE Carried'
    BY <1>9, ConfigAssumption DEF PushPanics, Inv, TypeOK, Carried, Procs
  <1>10. ASSUME NEW p \in Procs, Return(p) PROVE Carried'
    BY <1>10, ConfigAssumption DEF Return, Inv, TypeOK, Carried, Procs
  <1>11. ASSUME NEW s \in Subscribers, Subscribe(s) PROVE Carried'
    BY <1>11, ConfigAssumption DEF Subscribe, Inv, TypeOK, Carried, Procs
  <1>12. ASSUME NEW s \in Subscribers, Receive(s) PROVE Carried'
    BY <1>12, ConfigAssumption DEF Receive, Inv, TypeOK, Carried, Procs
  <1>13. ASSUME NEW s \in Subscribers, Leave(s) PROVE Carried'
    BY <1>13, ConfigAssumption DEF Leave, Inv, TypeOK, Carried, Procs
  <1>14. CASE Cancel
    BY <1>14, ConfigAssumption DEF Cancel, Inv, TypeOK, Carried, Procs
  <1>15. CASE Stop
    BY <1>15, ConfigAssumption DEF Stop, Inv, TypeOK, Carried, Procs
  <1>16. CASE Crash
    BY <1>16, ConfigAssumption DEF Crash, Inv, TypeOK, Carried, Procs, FreshPc
  <1>17. CASE UNCHANGED vars
    BY <1>17, ConfigAssumption DEF vars, Inv, TypeOK, Carried, Procs
  <1>. QED BY <1>1, <1>2, <1>3, <1>4, <1>5, <1>6, <1>7, <1>8, <1>9, <1>10, <1>11, <1>12, <1>13, <1>14, <1>15, <1>16, <1>17 DEF Next, StartStep, CallStep, LoopStep

\* Every step keeps the order of Start and changes.
LEMMA StartedStep ==
    ASSUME Inv, [Next]_vars
    PROVE  Started'
  <1>. USE DEF memoryVars, procVars, subscriberVars, stopVars, historyVars, countVars
  <1>1. CASE Load
    BY <1>1, ConfigAssumption DEF Load, Inv, TypeOK, Started, StartBeforeChanges, Procs
  <1>2. CASE LoadFails
    BY <1>2, ConfigAssumption DEF LoadFails, Inv, TypeOK, Started, StartBeforeChanges, Procs
  <1>3. CASE StartGivesUp
    BY <1>3, ConfigAssumption DEF StartGivesUp, Inv, TypeOK, Started, StartBeforeChanges, Procs
  <1>4. ASSUME NEW p \in Callers, NEW v \in Values, Modify(p, v) PROVE Started'
    BY <1>4, ConfigAssumption DEF Modify, Inv, TypeOK, Started, StartBeforeChanges, Procs, Present
  <1>5. ASSUME NEW p \in Procs, Store(p) PROVE Started'
    BY <1>5, ConfigAssumption DEF Store, Inv, TypeOK, Started, StartBeforeChanges, Procs
  <1>6. ASSUME NEW p \in Procs, StoreFails(p) PROVE Started'
    BY <1>6, ConfigAssumption DEF StoreFails, Inv, TypeOK, Started, StartBeforeChanges, Procs, AfterFailure
  <1>7. ASSUME NEW p \in Procs, Replace(p) PROVE Started'
    <2>1. newDc[p] \in Config \ {None}
      BY <1>7, ConfigAssumption DEF Replace, Inv, TypeOK, Carried
    <2>2. p # Starter => expected \in Config
      BY <1>7 DEF Replace, Inv, TypeOK, Started, Procs
    <2>3. expected' # None
      BY <1>7, <2>1, <2>2, ConfigAssumption DEF Replace, Inv, Config, Procs
    <2>4. pc'[Starter] \notin {"loading", "storing", "stored"}
      BY <1>7, ConfigAssumption DEF Replace, Inv, TypeOK, Started, StartBeforeChanges, Procs
    <2>. QED BY <1>7, <2>1, <2>3, <2>4, ConfigAssumption DEF Replace, Inv, TypeOK, Started, StartBeforeChanges, Procs
  <1>8. ASSUME NEW p \in Procs, Push(p) PROVE Started'
    BY <1>8, ConfigAssumption DEF Push, Inv, TypeOK, Started, StartBeforeChanges, Procs
  <1>9. ASSUME NEW p \in Procs, PushPanics(p) PROVE Started'
    BY <1>9, ConfigAssumption DEF PushPanics, Inv, TypeOK, Started, StartBeforeChanges, Procs
  <1>10. ASSUME NEW p \in Procs, Return(p) PROVE Started'
    BY <1>10, ConfigAssumption DEF Return, Inv, TypeOK, Started, StartBeforeChanges, Procs
  <1>11. ASSUME NEW s \in Subscribers, Subscribe(s) PROVE Started'
    BY <1>11, ConfigAssumption DEF Subscribe, Inv, TypeOK, Started, StartBeforeChanges, Procs
  <1>12. ASSUME NEW s \in Subscribers, Receive(s) PROVE Started'
    BY <1>12, ConfigAssumption DEF Receive, Inv, TypeOK, Started, StartBeforeChanges, Procs
  <1>13. ASSUME NEW s \in Subscribers, Leave(s) PROVE Started'
    BY <1>13, ConfigAssumption DEF Leave, Inv, TypeOK, Started, StartBeforeChanges, Procs
  <1>14. CASE Cancel
    BY <1>14, ConfigAssumption DEF Cancel, Inv, TypeOK, Started, StartBeforeChanges, Procs
  <1>15. CASE Stop
    BY <1>15, ConfigAssumption DEF Stop, Inv, TypeOK, Started, StartBeforeChanges, Procs
  <1>16. CASE Crash
    BY <1>16, ConfigAssumption DEF Crash, Inv, TypeOK, Started, StartBeforeChanges, Procs, FreshPc
  <1>17. CASE UNCHANGED vars
    BY <1>17, ConfigAssumption DEF vars, Inv, TypeOK, Started, StartBeforeChanges, Procs
  <1>. QED BY <1>1, <1>2, <1>3, <1>4, <1>5, <1>6, <1>7, <1>8, <1>9, <1>10, <1>11, <1>12, <1>13, <1>14, <1>15, <1>16, <1>17 DEF Next, StartStep, CallStep, LoopStep

\* Every step keeps a valid configuration in etcd.
LEMMA StoredStep ==
    ASSUME Inv, [Next]_vars
    PROVE  StoredValid'
  <1>. USE DEF memoryVars, procVars, subscriberVars, stopVars, historyVars, countVars
  <1>1. CASE Load
    BY <1>1, ConfigAssumption DEF Load, Inv, TypeOK, StoredValid, Procs
  <1>2. CASE LoadFails
    BY <1>2, ConfigAssumption DEF LoadFails, Inv, TypeOK, StoredValid, Procs
  <1>3. CASE StartGivesUp
    BY <1>3, ConfigAssumption DEF StartGivesUp, Inv, TypeOK, StoredValid, Procs
  <1>4. ASSUME NEW p \in Callers, NEW v \in Values, Modify(p, v) PROVE StoredValid'
    BY <1>4, ConfigAssumption DEF Modify, Inv, TypeOK, StoredValid, Procs
  <1>5. ASSUME NEW p \in Procs, Store(p) PROVE StoredValid'
    BY <1>5, ConfigAssumption DEF Store, Inv, TypeOK, StoredValid, Procs, Carried
  <1>6. ASSUME NEW p \in Procs, StoreFails(p) PROVE StoredValid'
    BY <1>6, ConfigAssumption DEF StoreFails, Inv, TypeOK, StoredValid, Procs, Carried, AfterFailure
  <1>7. ASSUME NEW p \in Procs, Replace(p) PROVE StoredValid'
    BY <1>7, ConfigAssumption DEF Replace, Inv, TypeOK, StoredValid, Procs, Carried
  <1>8. ASSUME NEW p \in Procs, Push(p) PROVE StoredValid'
    BY <1>8, ConfigAssumption DEF Push, Inv, TypeOK, StoredValid, Procs
  <1>9. ASSUME NEW p \in Procs, PushPanics(p) PROVE StoredValid'
    BY <1>9, ConfigAssumption DEF PushPanics, Inv, TypeOK, StoredValid, Procs
  <1>10. ASSUME NEW p \in Procs, Return(p) PROVE StoredValid'
    BY <1>10, ConfigAssumption DEF Return, Inv, TypeOK, StoredValid, Procs
  <1>11. ASSUME NEW s \in Subscribers, Subscribe(s) PROVE StoredValid'
    BY <1>11, ConfigAssumption DEF Subscribe, Inv, TypeOK, StoredValid, Procs
  <1>12. ASSUME NEW s \in Subscribers, Receive(s) PROVE StoredValid'
    BY <1>12, ConfigAssumption DEF Receive, Inv, TypeOK, StoredValid, Procs
  <1>13. ASSUME NEW s \in Subscribers, Leave(s) PROVE StoredValid'
    BY <1>13, ConfigAssumption DEF Leave, Inv, TypeOK, StoredValid, Procs
  <1>14. CASE Cancel
    BY <1>14, ConfigAssumption DEF Cancel, Inv, TypeOK, StoredValid, Procs
  <1>15. CASE Stop
    BY <1>15, ConfigAssumption DEF Stop, Inv, TypeOK, StoredValid, Procs
  <1>16. CASE Crash
    BY <1>16, ConfigAssumption DEF Crash, Inv, TypeOK, StoredValid, Procs, FreshPc
  <1>17. CASE UNCHANGED vars
    BY <1>17, ConfigAssumption DEF vars, Inv, TypeOK, StoredValid, Procs
  <1>. QED BY <1>1, <1>2, <1>3, <1>4, <1>5, <1>6, <1>7, <1>8, <1>9, <1>10, <1>11, <1>12, <1>13, <1>14, <1>15, <1>16, <1>17 DEF Next, StartStep, CallStep, LoopStep

\* Every step keeps the history in line with what memory has.
LEMMA HistoryStep ==
    ASSUME Inv, [Next]_vars
    PROVE  History'
  <1>. USE DEF memoryVars, procVars, subscriberVars, stopVars, historyVars, countVars
  <1>1. CASE UNCHANGED <<dynamicConfig, past>>
    BY <1>1 DEF Inv, History
  <1>2. ASSUME NEW p \in Procs, Replace(p) PROVE History'
    <2>1. newDc[p] \in Config \ {None}
      BY <1>2, ConfigAssumption DEF Replace, Inv, TypeOK, Carried
    <2>2. past \in Seq(Config)
      BY DEF Inv, TypeOK
    <2>. QED BY <1>2, <2>1, <2>2 DEF Replace, History
  <1>3. CASE Crash
    BY <1>3 DEF Crash, History
  <1>. QED BY <1>1, <1>2, <1>3 DEF Next, StartStep, CallStep, LoopStep, vars, Load, LoadFails,
              StartGivesUp, Modify, Store, StoreFails, Push, PushPanics, Return, Subscribe,
              Receive, Leave, Cancel, Stop

\* Every step keeps valid what memory and channels hold.
LEMMA OnlyValidStep ==
    ASSUME Inv, [Next]_vars
    PROVE  OnlyValid'
  <1>. USE DEF memoryVars, procVars, subscriberVars, stopVars, historyVars, countVars
  <1>1. dynamicConfig' # None => Valid(etcd')
    BY StoredStep DEF StoredValid
  <1>2. CASE UNCHANGED <<dynamicConfig, queue>>
    BY <1>1, <1>2 DEF Inv, OnlyValid, Valid
  <1>3. ASSUME NEW p \in Procs, Replace(p) PROVE OnlyValid'
    BY <1>1, <1>3 DEF Replace, Inv, OnlyValid, Carried, Valid
  <1>4. ASSUME NEW p \in Procs, Push(p) PROVE OnlyValid'
    <2>1. dynamicConfig \in Config /\ Valid(dynamicConfig) /\ queue \in [Subscribers -> Seq(Config)]
      BY <1>4 DEF Push, Inv, TypeOK, Started, OnlyValid
    <2>2. ASSUME NEW s \in Subscribers, NEW k \in 1 .. Len(queue'[s]) PROVE Valid(queue'[s][k])
      <3>1. queue'[s] = queue[s] \/ queue'[s] = Append(queue[s], dynamicConfig)
        BY <1>4, <2>1 DEF Push
      <3>. QED BY <2>1, <3>1 DEF Inv, OnlyValid
    <2>. QED BY <1>1, <1>4, <2>1, <2>2 DEF Push, OnlyValid
  <1>5. ASSUME NEW t \in Subscribers, Subscribe(t) PROVE OnlyValid'
    <2>1. dynamicConfig' = dynamicConfig /\ (dynamicConfig # None => Valid(dynamicConfig))
      BY <1>5 DEF Subscribe, Inv, OnlyValid
    <2>2. ASSUME NEW s \in Subscribers, NEW k \in 1 .. Len(queue'[s]) PROVE Valid(queue'[s][k])
      <3>1. queue'[s] = queue[s] \/ queue'[s] = FirstPush
        BY <1>5 DEF Subscribe, Inv, TypeOK
      <3>. QED BY <2>1, <3>1 DEF Inv, OnlyValid, FirstPush
    <2>. QED BY <1>1, <2>1, <2>2 DEF OnlyValid
  <1>6. ASSUME NEW t \in Subscribers, Receive(t) PROVE OnlyValid'
    <2>1. dynamicConfig' = dynamicConfig /\ (dynamicConfig # None => Valid(dynamicConfig))
      BY <1>6 DEF Receive, Inv, OnlyValid
    <2>2. ASSUME NEW s \in Subscribers, NEW k \in 1 .. Len(queue'[s]) PROVE Valid(queue'[s][k])
      <3>1. queue[s] \in Seq(Config)
        BY DEF Inv, TypeOK
      <3>2. queue'[s] = queue[s] \/ (queue[s] # <<>> /\ queue'[s] = Tail(queue[s]))
        BY <1>6 DEF Receive, Inv, TypeOK
      <3>3. \A n \in 1 .. Len(queue[s]) : Valid(queue[s][n])
        BY DEF Inv, OnlyValid
      <3>4. CASE queue'[s] = queue[s]
        BY <3>3, <3>4
      <3>5. CASE queue[s] # <<>> /\ queue'[s] = Tail(queue[s])
        <4>1. k + 1 \in 1 .. Len(queue[s]) /\ queue'[s][k] = queue[s][k + 1]
          BY <3>1, <3>5
        <4>. QED BY <3>3, <4>1
      <3>. QED BY <3>2, <3>4, <3>5
    <2>. QED BY <1>1, <2>1, <2>2 DEF OnlyValid
  <1>7. CASE Crash
    BY <1>7 DEF Crash, OnlyValid
  <1>. QED BY <1>2, <1>3, <1>4, <1>5, <1>6, <1>7 DEF Next, StartStep, CallStep, LoopStep, vars,
              Load, LoadFails, StartGivesUp, Modify, Store, StoreFails, PushPanics, Return,
              Leave, Cancel, Stop

\* Every step keeps in persisted what memory has had.
LEMMA PersistedStep ==
    ASSUME Inv, [Next]_vars
    PROVE  ServedIsPersisted'
  <1>. USE DEF memoryVars, procVars, subscriberVars, stopVars, historyVars, countVars
  <1>1. ASSUME UNCHANGED past, persisted \subseteq persisted' PROVE ServedIsPersisted'
    BY <1>1 DEF Inv, ServedIsPersisted
  <1>2. ASSUME NEW p \in Procs, Replace(p) PROVE ServedIsPersisted'
    <2>1. newDc[p] \in persisted /\ past \in Seq(Config) /\ newDc[p] \in Config
      BY <1>2 DEF Replace, Inv, TypeOK, Carried
    <2>. QED BY <1>2, <2>1 DEF Replace, Inv, ServedIsPersisted
  <1>3. CASE Crash
    BY <1>3 DEF Crash, ServedIsPersisted
  <1>. QED BY <1>1, <1>2, <1>3 DEF Next, StartStep, CallStep, LoopStep, vars, Load, LoadFails,
              StartGivesUp, Modify, Store, StoreFails, Push, PushPanics, Return, Subscribe,
              Receive, Leave, Cancel, Stop

\* Every step keeps one channel for each subscriber.
LEMMA OneChannelStep ==
    ASSUME Inv, [Next]_vars
    PROVE  OneChannel'
  <1>. USE DEF memoryVars, procVars, subscriberVars, stopVars, historyVars, countVars
  <1>1. CASE UNCHANGED <<pushChannels, view, received>>
    BY <1>1 DEF Inv, OneChannel, Subscribed
  <1>2. ASSUME NEW t \in Subscribers, Subscribe(t) PROVE OneChannel'
    <2>1. pushChannels \in Seq(Subscribers)
      BY DEF Inv, TypeOK
    <2>2. \A i \in 1 .. Len(pushChannels) : pushChannels[i] # t
      BY <1>2 DEF Subscribe, Subscribed
    <2>3. Subscribed \subseteq Subscribed'
      <3>. SUFFICES ASSUME NEW i \in 1 .. Len(pushChannels) PROVE pushChannels[i] \in Subscribed'
        BY DEF Subscribed
      <3>1. i \in 1 .. Len(pushChannels') /\ pushChannels'[i] = pushChannels[i]
        BY <1>2, <2>1 DEF Subscribe
      <3>. QED BY <3>1 DEF Subscribed
    <2>4. \A i, j \in 1 .. Len(pushChannels') : i # j => pushChannels'[i] # pushChannels'[j]
      BY <1>2, <2>1, <2>2 DEF Subscribe, Inv, OneChannel
    <2>. QED BY <1>2, <2>3, <2>4 DEF Subscribe, Inv, OneChannel
  <1>3. ASSUME NEW t \in Subscribers, Receive(t) PROVE OneChannel'
    <2>1. t \in Subscribed /\ Subscribed' = Subscribed /\ UNCHANGED pushChannels
      BY <1>3 DEF Receive, Subscribed
    <2>2. \A s \in Subscribers \ {t} : view'[s] = view[s] /\ received'[s] = received[s]
      BY <1>3 DEF Receive, Inv, TypeOK
    <2>. QED BY <2>1, <2>2 DEF Inv, OneChannel
  <1>4. CASE Crash
    BY <1>4 DEF Crash, OneChannel, Nothing
  <1>. QED BY <1>1, <1>2, <1>3, <1>4 DEF Next, StartStep, CallStep, LoopStep, vars, Load, LoadFails,
              StartGivesUp, Modify, Store, StoreFails, Replace, Push, PushPanics, Return,
              Leave, Cancel, Stop

\* Every step keeps the first channel closed once Stop has closed one.
LEMMA ClosedFirstStep ==
    ASSUME Inv, [Next]_vars
    PROVE  ClosedFirst'
  <1>. USE DEF memoryVars, procVars, subscriberVars, stopVars, historyVars, countVars
  <1>1. CASE UNCHANGED <<closed, pushChannels, mu, next>>
    BY <1>1 DEF Inv, ClosedFirst
  <1>2. ASSUME NEW p \in Procs, Replace(p) PROVE ClosedFirst'
    BY <1>2 DEF Replace, Inv, ClosedFirst
  <1>3. ASSUME NEW p \in Procs, Push(p) PROVE ClosedFirst'
    <2>1. mu # Nobody
      BY <1>3, ConfigAssumption DEF Push, Inv, Locked
    <2>. QED BY <1>3, <2>1 DEF Push, Inv, ClosedFirst
  <1>4. ASSUME NEW p \in Procs, PushPanics(p) PROVE ClosedFirst'
    BY <1>4 DEF PushPanics, Inv, ClosedFirst
  <1>5. ASSUME NEW p \in Procs, Return(p) PROVE ClosedFirst'
    BY <1>5 DEF Return, Inv, ClosedFirst
  <1>6. ASSUME NEW s \in Subscribers, Subscribe(s) PROVE ClosedFirst'
    BY <1>6, SMTT(30) DEF Subscribe, Inv, TypeOK, ClosedFirst
  <1>7. CASE Stop
    BY <1>7 DEF Stop, Inv, TypeOK, ClosedFirst, Subscribed
  <1>8. CASE Crash
    BY <1>8 DEF Crash, ClosedFirst
  <1>. QED BY <1>1, <1>2, <1>3, <1>4, <1>5, <1>6, <1>7, <1>8 DEF Next, StartStep, CallStep,
              LoopStep, vars, Load, LoadFails, StartGivesUp, Modify, Store, StoreFails,
              Receive, Leave, Cancel

\* Every step keeps what a subscriber has got, will find in its channel and is
\* still to be pushed the history since it subscribed.
LEMMA DeliveredStep ==
    ASSUME Inv, [Next]_vars
    PROVE  Delivered'
  <1>. USE DEF memoryVars, procVars, subscriberVars, stopVars, historyVars, countVars
  <1>1. /\ pushChannels \in Seq(Subscribers)
        /\ \A i \in 1 .. Len(pushChannels) : pushChannels[i] \in Subscribers
        /\ queue \in [Subscribers -> Seq(Config)]
        /\ view \in [Subscribers -> Config \union {None}]
        /\ from \in [Subscribers -> Nat] /\ received \in [Subscribers -> Nat]
        /\ past \in Seq(Config)
        /\ next \in Nat \ {0}
    BY DEF Inv, TypeOK
  <1>2. CASE UNCHANGED <<pushChannels, queue, view, from, received, past, closed, mu, next>>
    BY <1>2 DEF Inv, Delivered, DeliveredTo, Window
  <1>3. ASSUME NEW p \in Procs, Replace(p) PROVE Delivered'
    <2>1. mu = Nobody /\ mu' # Nobody /\ next' = 1 /\ past' = Append(past, newDc[p])
      BY <1>3, ConfigAssumption DEF Replace
    <2>2. UNCHANGED <<pushChannels, queue, view, from, received, closed>>
      BY <1>3 DEF Replace
    <2>3. newDc[p] \in Config
      BY <1>3 DEF Replace, Inv, TypeOK, Carried
    <2>. SUFFICES ASSUME NEW i \in 1 .. Len(pushChannels), NEW s \in Subscribers, s = pushChannels[i]
                  PROVE  DeliveredTo(i, s)'
      BY <1>1, <2>2 DEF Delivered
    <2>4. DeliveredTo(i, s)
      BY DEF Inv, Delivered
    <2>5. Window(past, from[s], received[s], view[s], queue[s])'
      BY <1>1, <2>1, <2>2, <2>3, <2>4, WindowGrows DEF DeliveredTo
    <2>6. Len(past') - 1 = Len(past)
      BY <1>1, <2>1, <2>3
    <2>. QED BY <2>1, <2>2, <2>4, <2>5, <2>6 DEF DeliveredTo
  <1>4. ASSUME NEW p \in Procs, Push(p) PROVE Delivered'
    <2>1. mu = p /\ mu # Nobody /\ dynamicConfig \in Config /\ next \in 1 .. Len(pushChannels)
      BY <1>1, <1>4, ConfigAssumption DEF Push, Inv, TypeOK, Locked, Started
    <2>2. closed = {}
      BY <1>4, <2>1 DEF Push, Inv, ClosedFirst
    <2>3. past # <<>> /\ past[Len(past)] = dynamicConfig
      BY <2>1, ConfigAssumption DEF Inv, History
    <2>4. UNCHANGED <<pushChannels, view, from, received, past, closed, mu>> /\ next' = next + 1
      BY <1>4 DEF Push
    <2>. SUFFICES ASSUME NEW i \in 1 .. Len(pushChannels), NEW s \in Subscribers, s = pushChannels[i]
                  PROVE  DeliveredTo(i, s)'
      BY <1>1, <2>4 DEF Delivered
    <2>5. DeliveredTo(i, s)
      BY DEF Inv, Delivered
    <2>6. CASE i = next
      <3>1. queue'[s] = Append(queue[s], past[Len(past)])
        BY <1>1, <1>4, <2>3, <2>6 DEF Push
      <3>2. from[s] - 1 + received[s] + Len(queue[s]) = Len(past) - 1
        BY <2>1, <2>2, <2>5, <2>6 DEF DeliveredTo
      <3>3. Window(past, from[s], received[s], view[s], Append(queue[s], past[Len(past)]))
        BY <1>1, <2>1, <2>3, <2>5, <3>2, WindowPush DEF DeliveredTo
      <3>4. Len(queue'[s]) = Len(queue[s]) + 1
        BY <1>1, <2>1, <2>3, <3>1
      <3>5. ~(i >= next') /\ from[s] - 1 + received[s] + Len(queue'[s]) = Len(past)
        <4>1. /\ next \in Nat /\ from[s] \in Nat /\ received[s] \in Nat
              /\ Len(queue[s]) \in Nat /\ Len(past) \in Nat
          BY <1>1
        <4>2. from'[s] = from[s] /\ next' = i + 1 /\ i \in Nat
          BY <2>4, <2>6
        <4>3. ~(i >= next')
          BY <4>2
        <4>4. from[s] - 1 + received[s] + (Len(queue[s]) + 1) = Len(past)
          <5>1. PICK f \in Nat, r \in Nat, n \in Nat, m \in Nat :
                  f = from[s] /\ r = received[s] /\ n = Len(queue[s]) /\ m = Len(past)
            BY <4>1
          <5>2. f - 1 + r + n = m - 1
            BY <3>2, <5>1
          <5>3. f - 1 + r + (n + 1) = m
            BY <5>2
          <5>. QED BY <5>1, <5>3
        <4>. QED BY <3>4, <4>3, <4>4
      <3>. QED BY <2>4, <3>1, <3>3, <3>5 DEF DeliveredTo
    <2>7. CASE i # next
      <3>1. s # pushChannels[next]
        BY <2>1, <2>7 DEF Inv, OneChannel
      <3>2. queue'[s] = queue[s]
        BY <1>1, <1>4, <3>1 DEF Push
      <3>3. i >= next' <=> i >= next
        BY <1>1, <2>4, <2>7
      <3>. QED BY <2>4, <2>5, <3>2, <3>3 DEF DeliveredTo
    <2>. QED BY <2>6, <2>7
  <1>5. ASSUME NEW p \in Procs, PushPanics(p) PROVE Delivered'
    <2>1. closed # {} /\ UNCHANGED <<pushChannels, queue, view, from, received, past, closed>>
      BY <1>5 DEF PushPanics
    <2>. QED BY <2>1 DEF Inv, Delivered, DeliveredTo, Window
  <1>6. ASSUME NEW p \in Procs, Return(p) PROVE Delivered'
    <2>1. next > Len(pushChannels) /\ mu' = Nobody
          /\ UNCHANGED <<pushChannels, queue, view, from, received, past, closed>>
      BY <1>6 DEF Return
    <2>2. \A i \in 1 .. Len(pushChannels) : ~(i >= next)
      BY <1>1, <2>1
    <2>. QED BY <2>1, <2>2 DEF Inv, Delivered, DeliveredTo, Window
  <1>7. ASSUME NEW t \in Subscribers, Subscribe(t) PROVE Delivered'
    <2>1. mu = Nobody /\ UNCHANGED <<view, received, past, closed, mu, next>>
      BY <1>7 DEF Subscribe
    <2>2. /\ pushChannels' = Append(pushChannels, t)
          /\ \A s \in Subscribers \ {t} : queue'[s] = queue[s] /\ from'[s] = from[s]
      BY <1>1, <1>7 DEF Subscribe
    <2>3. view[t] = None /\ received[t] = 0
      BY <1>7 DEF Subscribe, Inv, OneChannel
    <2>9. \A i \in 1 .. Len(pushChannels') : pushChannels'[i] \in Subscribers
      BY TypeStep DEF TypeOK
    <2>. SUFFICES ASSUME NEW i \in 1 .. Len(pushChannels'), NEW s \in Subscribers, s = pushChannels'[i]
                  PROVE  DeliveredTo(i, s)'
      BY <2>9 DEF Delivered, DeliveredTo
    <2>4. CASE i \in 1 .. Len(pushChannels)
      <3>1. s = pushChannels[i] /\ s # t
        <4>1. s = pushChannels[i]
          BY <1>1, <2>2, <2>4
        <4>2. s \in Subscribed /\ t \notin Subscribed
          BY <1>7, <2>4, <4>1 DEF Subscribe, Subscribed
        <4>. QED BY <4>1, <4>2
      <3>2. DeliveredTo(i, s)
        BY <2>4, <3>1 DEF Inv, Delivered
      <3>. QED BY <2>1, <2>2, <3>1, <3>2 DEF DeliveredTo
    <2>5. CASE i = Len(pushChannels) + 1
      <3>1. s = t
        BY <1>1, <2>2, <2>5
      <3>2. CASE dynamicConfig = None
        <4>1. past = <<>> /\ from'[t] = 1 /\ queue'[t] = <<>>
          BY <1>1, <1>7, <3>2 DEF Subscribe, FirstPush, Inv, History
        <4>2. Window(past, 1, 0, None, <<>>)
          BY <1>1, <4>1, WindowStart
        <4>. QED BY <2>1, <2>3, <3>1, <4>1, <4>2 DEF DeliveredTo
      <3>3. CASE dynamicConfig # None
        <4>1. past # <<>> /\ from'[t] = Len(past) /\ queue'[t] = <<past[Len(past)]>>
          BY <1>1, <1>7, <3>3 DEF Subscribe, FirstPush, Inv, History
        <4>2. Window(past, Len(past), 0, None, <<past[Len(past)]>>)
          BY <1>1, <4>1, WindowStart
        <4>3. Len(past) - 1 + 0 + Len(<<past[Len(past)]>>) = Len(past)
          BY <1>1
        <4>. QED BY <2>1, <2>3, <3>1, <4>1, <4>2, <4>3 DEF DeliveredTo
      <3>. QED BY <3>2, <3>3
    <2>6. i \in 1 .. Len(pushChannels) \/ i = Len(pushChannels) + 1
      <3>1. Len(pushChannels') = Len(pushChannels) + 1 /\ Len(pushChannels) \in Nat
        BY <1>1, <2>2
      <3>. QED BY <3>1
    <2>. QED BY <2>4, <2>5, <2>6
  <1>8. ASSUME NEW t \in Subscribers, Receive(t) PROVE Delivered'
    <2>1. UNCHANGED <<pushChannels, from, past, closed, mu, next>>
      BY <1>8 DEF Receive
    <2>2. /\ queue[t] # <<>> /\ view'[t] = Head(queue[t]) /\ queue'[t] = Tail(queue[t])
          /\ received'[t] = received[t] + 1
          /\ \A s \in Subscribers \ {t} : queue'[s] = queue[s] /\ view'[s] = view[s] /\ received'[s] = received[s]
      BY <1>1, <1>8 DEF Receive
    <2>. SUFFICES ASSUME NEW i \in 1 .. Len(pushChannels), NEW s \in Subscribers, s = pushChannels[i]
                  PROVE  DeliveredTo(i, s)'
      BY <1>1, <2>1 DEF Delivered
    <2>3. DeliveredTo(i, s)
      BY DEF Inv, Delivered
    <2>4. CASE s # t
      BY <2>1, <2>2, <2>3, <2>4 DEF DeliveredTo
    <2>5. CASE s = t
      <3>1. Window(past, from[s], received[s] + 1, Head(queue[s]), Tail(queue[s]))
        BY <1>1, <2>2, <2>3, <2>5, WindowReceive DEF DeliveredTo
      <3>2. from[s] - 1 + (received[s] + 1) + Len(Tail(queue[s])) = from[s] - 1 + received[s] + Len(queue[s])
        <4>1. /\ Len(Tail(queue[s])) = Len(queue[s]) - 1
              /\ Len(queue[s]) \in Nat /\ Len(Tail(queue[s])) \in Nat
          <5>1. queue[s] \in Seq(Config) /\ queue[s] # <<>>
            BY <1>1, <2>2, <2>5
          <5>. QED BY <5>1, QueueTail
        <4>2. PICK f \in Nat, r \in Nat, n \in Nat, m \in Nat :
                f = from[s] /\ r = received[s] /\ n = Len(queue[s]) /\ m = Len(Tail(queue[s]))
          BY <1>1, <4>1
        <4>3. m = n - 1
          BY <4>1, <4>2
        <4>4. f - 1 + (r + 1) + m = f - 1 + r + n
          BY <4>3
        <4>. QED BY <4>2, <4>4
      <3>. QED BY <2>1, <2>2, <2>3, <2>5, <3>1, <3>2 DEF DeliveredTo
    <2>. QED BY <2>4, <2>5
  <1>9. CASE Stop
    <2>1. closed' = Subscribed /\ UNCHANGED <<pushChannels, queue, view, from, received, past, mu, next>>
      BY <1>9 DEF Stop
    <2>2. closed' = {} => \A i \in 1 .. Len(pushChannels) : FALSE
      BY <2>1 DEF Subscribed
    <2>. QED BY <2>1, <2>2 DEF Inv, Delivered, DeliveredTo, Window
  <1>10. CASE Crash
    BY <1>10 DEF Crash, Delivered
  <1>. QED BY <1>2, <1>3, <1>4, <1>5, <1>6, <1>7, <1>8, <1>9, <1>10 DEF Next, StartStep, CallStep,
              LoopStep, vars, Load, LoadFails, StartGivesUp, Modify, Store, StoreFails, Leave, Cancel

-----------------------------------------------------------------------------
\* The invariant holds in every reachable state.
THEOREM Invariant == Spec => []Inv
  <1>1. Init => Inv
    BY InitInv
  <1>2. Inv /\ [Next]_vars => Inv'
    BY TypeStep, LockStep, CarriedStep, StartedStep, StoredStep, OnlyValidStep, PersistedStep,
       HistoryStep, OneChannelStep, ClosedFirstStep, DeliveredStep DEF Inv
  <1>. QED BY <1>1, <1>2, PTL DEF Spec

\* Every variable has its type: above all, no channel ever holds the missing
\* configuration of the time before Start.
THEOREM TypeCorrect == Spec => []TypeOK
  <1>1. Inv => TypeOK
    BY DEF Inv
  <1>. QED BY <1>1, Invariant, PTL

\* Every subscriber gets every configuration since it subscribed, once each and
\* in order, though Set pushes to one channel after the other while subscribers
\* come, receive and leave.
THEOREM UpdatesOnce == Spec => []EachUpdateOnce
  <1>1. ASSUME Inv PROVE EachUpdateOnce
    <2>1. \A i \in 1 .. Len(pushChannels) : DeliveredTo(i, pushChannels[i])
      BY <1>1 DEF Inv, Delivered
    <2>. QED BY <2>1 DEF DeliveredTo, Window, EachUpdateOnce
  <1>. QED BY <1>1, Invariant, PTL

\* No subscriber is left with an old configuration.
THEOREM NoneMissed == Spec => []NoUpdateMissed
  <1>1. ASSUME Inv PROVE NoUpdateMissed
    <2>. SUFFICES ASSUME NEW i \in 1 .. Len(pushChannels), NEW s \in Subscribers, s = pushChannels[i],
                         (mu = Nobody /\ closed = {}) \/ (mu # Nobody /\ i < next)
                  PROVE  Latest(s) = dynamicConfig
      BY <1>1 DEF NoUpdateMissed, Inv, TypeOK
    <2>1. DeliveredTo(i, s)
      BY <1>1 DEF Inv, Delivered
    <2>2. /\ past \in Seq(Config) /\ queue[s] \in Seq(Config) /\ next \in Nat \ {0}
          /\ from[s] \in Nat /\ received[s] \in Nat
      BY <1>1 DEF Inv, TypeOK
    <2>3. closed = {}
      BY <1>1, <2>2 DEF Inv, ClosedFirst
    <2>4. from[s] - 1 + received[s] + Len(queue[s]) = Len(past)
      BY <2>1, <2>2, <2>3 DEF DeliveredTo
    <2>5. CASE queue[s] # <<>>
      <3>1. Len(queue[s]) \in Nat \ {0} /\ Len(past) \in Nat
        BY <2>2, <2>5
      <3>2. from[s] # 0
        BY <2>1 DEF DeliveredTo, Window
      <3>3. Len(queue[s]) \in 1 .. Len(queue[s]) /\ Len(past) # 0
        <4>1. PICK f \in Nat, r \in Nat, n \in Nat, m \in Nat :
                f = from[s] /\ r = received[s] /\ n = Len(queue[s]) /\ m = Len(past)
          BY <2>2, <3>1
        <4>2. f # 0 /\ n # 0 /\ f - 1 + r + n = m
          BY <2>4, <3>1, <3>2, <4>1
        <4>3. n \in 1 .. n /\ m # 0
          BY <4>2
        <4>. QED BY <4>1, <4>3
      <3>4. queue[s][Len(queue[s])] = past[Len(past)]
        BY <2>1, <2>4, <3>3 DEF DeliveredTo, Window
      <3>. QED BY <1>1, <2>5, <3>3, <3>4 DEF Inv, History, Latest
    <2>6. CASE queue[s] = <<>>
      <3>1. from[s] - 1 + received[s] = Len(past)
        BY <2>2, <2>4, <2>6
      <3>2. CASE received[s] = 0
        <4>1. from[s] = 1 /\ Len(past) = 0
          BY <2>1, <2>2, <3>1, <3>2 DEF DeliveredTo, Window
        <4>2. view[s] = None /\ past = <<>>
          BY <2>1, <2>2, <3>2, <4>1 DEF DeliveredTo, Window
        <4>. QED BY <1>1, <2>6, <4>2 DEF Inv, History, Latest
      <3>3. CASE received[s] # 0
        <4>1. view[s] = past[Len(past)] /\ from[s] # 0
          <5>1. Window(past, from[s], received[s], view[s], queue[s])
            BY <2>1 DEF DeliveredTo
          <5>2. view[s] = past[from[s] - 1 + received[s]] /\ from[s] # 0
            BY <2>2, <3>3, <5>1 DEF Window
          <5>. QED BY <3>1, <5>2
        <4>2. past # <<>>
          BY <2>2, <3>1, <3>3, <4>1
        <4>. QED BY <1>1, <2>6, <4>1, <4>2 DEF Inv, History, Latest
      <3>. QED BY <3>2, <3>3
    <2>. QED BY <2>5, <2>6
  <1>. QED BY <1>1, Invariant, PTL

\* What memory and subscribers have was in etcd before.
THEOREM Persisted == Spec => []ServedIsPersisted
  <1>1. Inv => ServedIsPersisted
    BY DEF Inv
  <1>. QED BY <1>1, Invariant, PTL

\* Start's own Set does not overwrite a change.
THEOREM StartFirst == Spec => []StartBeforeChanges
  <1>1. Inv => StartBeforeChanges
    BY DEF Inv, Started
  <1>. QED BY <1>1, Invariant, PTL

\* Nothing that Validate would reject is served.
THEOREM ServedIsValid == Spec => []OnlyValid
  <1>1. Inv => OnlyValid
    BY DEF Inv
  <1>. QED BY <1>1, Invariant, PTL

-----------------------------------------------------------------------------
\* Calls of Modify that have read the configuration and not yet replaced it.
Midway(p) == pc[p] \in {"storing", "stored"}

\* As long as no calls overlap, only one is midway; it changes one section of
\* the configuration in memory; that one has every change made; and etcd has it
\* or, once stored, what the call carries.
Exact ==
    ~overlapped =>
        /\ dynamicConfig = expected
        /\ \A p, q \in Callers : Midway(p) /\ Midway(q) => p = q
        /\ \A p \in Callers : Midway(p) =>
               \A s \in Sections \ {SectionOf[p]} : newDc[p][s] = expected[s]
        /\ ~unsure =>
               /\ \A p \in Procs : pc[p] = "stored" => etcd = newDc[p]
               /\ dynamicConfig # None /\ (\A p \in Procs : pc[p] # "stored")
                      => etcd = dynamicConfig

\* The initial states are exact.
LEMMA InitExact == Init => Exact
  <1>1. \A p \in Procs : p \in Callers => Starter # p
    BY ConfigAssumption
  <1>. QED BY <1>1, ConfigAssumption DEF Init, Exact, Midway, FreshPc, Procs

\* What is stored by a call that runs alone is in etcd when it replaces the
\* configuration in memory.
LEMMA ExactStep ==
    ASSUME Inv, Exact, [Next]_vars
    PROVE  Exact'
  <1>. USE DEF memoryVars, procVars, subscriberVars, stopVars, historyVars, countVars
  <1>1. /\ pc \in [Procs -> {"idle", "loading", "storing", "stored", "pushing"}]
        /\ newDc \in [Procs -> Config \union {None}]
        /\ Starter \notin Callers /\ Procs = Callers \union {Starter}
        /\ Starter \in Procs /\ None \notin Config
        /\ SectionOf \in [Callers -> Sections]
        /\ dynamicConfig \in Config \union {None} /\ expected \in Config \union {None}
    BY ConfigAssumption DEF Inv, TypeOK, Procs
  <1>2. /\ \A p \in Procs : Midway(p) \/ pc[p] = "pushing" => newDc[p] \in Config
        /\ \A p \in Callers : Midway(p) => dynamicConfig # None
        /\ \A p \in Procs : pc[p] = "pushing" => dynamicConfig # None
    BY <1>1 DEF Inv, Carried, Started, Midway
  <1>3. Midway(Starter) \/ pc[Starter] = "loading"
            => dynamicConfig = None /\ \A p \in Callers : pc[p] = "idle"
    BY DEF Inv, Started, StartBeforeChanges, Midway
  <1>4. \A p \in Callers : pc[p] # "loading"
    BY DEF Inv, Started
  <1>5. CASE UNCHANGED <<etcd, dynamicConfig, pc, newDc, overlapped, unsure, expected>>
    BY <1>5 DEF Exact, Midway
  <1>6. CASE Load
    BY <1>1, <1>3, <1>6 DEF Load, Exact, Midway
  <1>7. CASE StartGivesUp
    BY <1>1, <1>3, <1>7 DEF StartGivesUp, Exact, Midway
  <1>8. ASSUME NEW p \in Callers, NEW v \in Values, Modify(p, v) PROVE Exact'
    <2>1. /\ pc[p] = "idle" /\ pc'[p] = "storing" /\ newDc'[p] = Changed(p, v)
          /\ \A q \in Procs \ {p} : pc'[q] = pc[q] /\ newDc'[q] = newDc[q]
          /\ UNCHANGED <<etcd, dynamicConfig, unsure, expected>>
          /\ dynamicConfig \in Config
      BY <1>1, <1>8 DEF Modify, Present
    <2>2. overlapped' \/ (~overlapped /\ \A q \in Callers \ {p} : ~Midway(q))
      BY <1>8 DEF Modify, InTheMiddle, Midway
    <2>3. ASSUME ~overlapped, NEW s \in Sections \ {SectionOf[p]} PROVE Changed(p, v)[s] = expected[s]
      BY <1>1, <2>1, <2>3 DEF Changed, Present, Config, Exact
    <2>. QED BY <1>1, <2>1, <2>2, <2>3 DEF Exact, Midway
  <1>9. ASSUME NEW p \in Procs, Store(p) PROVE Exact'
    <2>1. /\ pc[p] = "storing" /\ pc'[p] = "stored" /\ etcd' = newDc[p]
          /\ \A q \in Procs \ {p} : pc'[q] = pc[q]
          /\ UNCHANGED <<newDc, dynamicConfig, overlapped, unsure, expected>>
      BY <1>1, <1>9 DEF Store
    <2>2. ASSUME ~overlapped, NEW q \in Procs, pc'[q] = "stored" PROVE q = p
      BY <1>1, <1>3, <2>1, <2>2 DEF Exact, Midway
    <2>3. \A q \in Callers : Midway(q)' <=> Midway(q)
      BY <1>1, <2>1 DEF Midway
    <2>. QED BY <1>1, <2>1, <2>2, <2>3 DEF Exact
  <1>10. ASSUME NEW p \in Procs, StoreFails(p) PROVE Exact'
    <2>1. /\ unsure' /\ UNCHANGED <<newDc, dynamicConfig, overlapped, expected>>
          /\ \A q \in Procs : Midway(q)' => Midway(q)
      BY <1>1, <1>10 DEF StoreFails, AfterFailure, Midway
    <2>. QED BY <1>1, <2>1 DEF Exact
  <1>11. ASSUME NEW p \in Procs, Replace(p) PROVE Exact'
    <2>1. /\ pc[p] = "stored" /\ pc'[p] = "pushing" /\ dynamicConfig' = newDc[p]
          /\ \A q \in Procs \ {p} : pc'[q] = pc[q]
          /\ UNCHANGED <<etcd, newDc, overlapped, unsure>>
          /\ newDc[p] \in Config
      BY <1>1, <1>2, <1>11 DEF Replace, Midway
    <2>. SUFFICES ASSUME ~overlapped PROVE Exact'
      BY <2>1 DEF Exact
    <2>2. ASSUME NEW q \in Procs PROVE ~Midway(q)'
      BY <1>1, <1>3, <2>1, <2>2 DEF Exact, Midway
    <2>3. expected' = newDc[p]
      <3>1. CASE p = Starter
        BY <1>11, <3>1 DEF Replace
      <3>2. CASE p # Starter
        <4>1. p \in Callers /\ expected \in Config
          BY <1>1, <1>2, <2>1, <3>2 DEF Exact, Midway
        <4>2. expected' = [expected EXCEPT ![SectionOf[p]] = newDc[p][SectionOf[p]]]
          BY <1>11, <3>2 DEF Replace
        <4>3. \A s \in Sections \ {SectionOf[p]} : newDc[p][s] = expected[s]
          BY <2>1, <4>1 DEF Exact, Midway
        <4>. QED BY <1>1, <2>1, <4>1, <4>2, <4>3 DEF Config
      <3>. QED BY <3>1, <3>2
    <2>4. ~unsure => etcd = newDc[p]
      BY <2>1 DEF Exact
    <2>5. \A q \in Procs : pc'[q] # "stored"
      BY <2>2 DEF Midway
    <2>. QED BY <1>1, <2>1, <2>2, <2>3, <2>4, <2>5 DEF Exact
  <1>12. ASSUME NEW p \in Procs, PushPanics(p) \/ Return(p) PROVE Exact'
    <2>1. /\ pc[p] = "pushing" /\ pc'[p] = "idle"
          /\ \A q \in Procs \ {p} : pc'[q] = pc[q]
          /\ UNCHANGED <<etcd, newDc, dynamicConfig, overlapped, unsure, expected>>
      BY <1>1, <1>12 DEF PushPanics, Return
    <2>. QED BY <1>1, <2>1 DEF Exact, Midway
  <1>13. CASE Crash
    BY <1>1, <1>13 DEF Crash, Exact, Midway, FreshPc
  <1>. QED BY <1>5, <1>6, <1>7, <1>8, <1>9, <1>10, <1>11, <1>12, <1>13 DEF Next, StartStep, CallStep,
              LoopStep, vars, LoadFails, Push, Subscribe, Receive, Leave, Cancel, Stop

\* Without overlapping calls no section loses a change, to Start or to another
\* section, and memory and etcd agree when no call runs.
THEOREM Sequential == Spec => []SequentialExact
  <1>1. Init => Inv /\ Exact
    BY InitInv, InitExact
  <1>2. Inv /\ Exact /\ [Next]_vars => Inv' /\ Exact'
    BY ExactStep, TypeStep, LockStep, CarriedStep, StartedStep, StoredStep, OnlyValidStep,
       PersistedStep, HistoryStep, OneChannelStep, ClosedFirstStep, DeliveredStep DEF Inv
  <1>3. ASSUME Inv, Exact PROVE SequentialExact
    <2>1. StartBeforeChanges
      BY <1>3 DEF Inv, Started
    <2>2. (\A p \in Procs : pc[p] = "idle") => \A p \in Procs : pc[p] # "stored"
      OBVIOUS
    <2>. QED BY <1>3, <2>1, <2>2 DEF Exact, SequentialExact
  <1>. QED BY <1>1, <1>2, <1>3, PTL DEF Spec
=============================================================================
