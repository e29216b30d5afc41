---------------------------- MODULE LogSearchProofs ----------------------------
(***************************************************************************)
(* Proofs about LogSearch for any requests, runs, groups and tasks: a      *)
(* group has one run at most, and as long as no retry or deletion meets    *)
(* another request or a run of its group, the rows, the previews and the   *)
(* files say what is going on.                                             *)
(***************************************************************************)
EXTENDS LogSearch, FiniteSetTheorems, WellFoundedInduction, TLAPS

Callers == Handlers \union {Boot}
Call == [op : {"none", "create", "retry", "cancel", "delete"},
         pc : {"idle", "targets", "start", "init", "find", "reset", "save", "abort",
               "files", "previews", "tasks", "group"},
         group : Groups \union {None}, dir : BOOLEAN, rows : Rows, todo : Nat]

Types ==
    /\ groups \in [Groups -> GroupRow \union {None}]
    /\ tasks \in [Tasks -> TaskRow \union {None}]
    /\ previews \subseteq Tasks \X Groups
    /\ dirs \subseteq Groups
    /\ files \subseteq Groups \X Tasks \X Kinds
    /\ running \in [Groups -> Runs \union {None}]
    /\ run \in [Runs -> RunRow \union {None}]
    /\ call \in [Callers -> Call]
    /\ booting \in BOOLEAN /\ raced \in BOOLEAN
    /\ asked \subseteq Groups

\* The map knows the runs, and each once.
RunsKnown ==
    /\ \A r \in Runs : run[r] # None =>
         running[run[r].group] = r /\ DOMAIN run[r].task = DOMAIN run[r].rows
    /\ \A g \in Groups : running[g] # None =>
         run[running[g]] # None /\ run[running[g]].group = g

\* A request that is about to start a run is the only one to do so.
CallOK(h) ==
    LET c == call[h] IN
    /\ c.pc = "idle" => c = Idle
    /\ c.pc = "targets" => c.op = "create"
    /\ c.pc \in {"find", "reset", "save"} => c.op = "retry"
    /\ c.pc \in {"start", "init"} => c.op \in {"create", "retry"}
    /\ c.pc = "abort" => c.op = "cancel"
    /\ c.pc \in {"files", "previews", "tasks", "group"} => c.op = "delete"
    /\ c.pc # "idle" => c.group \in Groups
    /\ c.pc = "targets" => c.todo > 0
    /\ c.pc = "reset" => DOMAIN c.rows # {}
    /\ c.pc = "save" => c.todo \in 1 .. Cardinality(DOMAIN c.rows)
    /\ c.pc = "init" => running[c.group] # None /\ run[running[c.group]].pc = "new"
CallsOK ==
    /\ \A h \in Callers : CallOK(h)
    /\ \A h, k \in Callers :
         call[h].pc = "init" /\ call[k].pc = "init" /\ call[h].group = call[k].group => h = k

\* While the process starts there is nothing but the deletion of what it found.
BootOK ==
    /\ booting => /\ \A h \in Handlers : call[h] = Idle
                  /\ \A r \in Runs : run[r] = None
                  /\ \A g \in Groups : running[g] = None
    /\ call[Boot] # Idle => booting /\ call[Boot].op = "delete" /\ groups[call[Boot].group] # None

\* A request that writes rows or files of g, and the rows of its tasks.
Writes(h, g) == call[h].group = g /\ call[h].op # "cancel"
Own(g) == {t \in Tasks : tasks[t] # None /\ tasks[t].group = g}
NoPreviews(g) == \A t \in Tasks : <<t, g>> \notin previews
NoFiles(g) == \A t \in Tasks, k \in Kinds : <<g, t, k>> \notin files

\* The row of g, or that there is none, agrees with what belongs to it.
RowsOK(g) ==
    /\ groups[g] = None => /\ running[g] = None /\ Own(g) = {} /\ NoPreviews(g) /\ NoFiles(g)
                           /\ \A h \in Callers : ~Writes(h, g)
    /\ groups[g] # None /\ ~groups[g].dir => NoFiles(g)
    /\ \A t \in Tasks : <<t, g>> \in previews => t \in Own(g)
    /\ \A t \in Own(g) : /\ tasks[t].state # "finished" => "log" \notin tasks[t].paths
                         /\ tasks[t].state = "error" => <<t, g>> \notin previews

\* No request deletes g.
Stays(g) == ~booting /\ \A h \in Callers : Writes(h, g) => call[h].op # "delete"

\* The files of the tasks are there, and a group that nobody works on is finished.
Kept(g) == Stays(g) => \A t \in Own(g) : \A k \in tasks[t].paths : <<g, t, k>> \in files

Finished(g) ==
    groups[g].state = "finished" /\ Own(g) # {} /\ \A t \in Own(g) : tasks[t].state # "running"

Quiet(g) ==
    ~booting /\ groups[g] # None /\ running[g] = None /\ (\A h \in Callers : ~Writes(h, g))
        => Finished(g)

\* The rows that a run of g is to search are those of the database.
Fits(g, rows) ==
    /\ DOMAIN rows # {} /\ DOMAIN rows \subseteq Own(g)
    /\ \A t \in DOMAIN rows : rows[t] = tasks[t] /\ tasks[t].state = "running"
    /\ \A t \in Own(g) \ DOMAIN rows : tasks[t].state = "finished"

Again(row) == [row EXCEPT !.state = "running"]
Rank(rows, t) == Cardinality({j \in DOMAIN rows : j >= t})

CreateOK(g, h) ==
    LET c == call[h] IN
    c.op = "create" =>
        /\ groups[g] = NewRow("running", FALSE) /\ ~c.dir
        /\ DOMAIN c.rows = Own(g)
        /\ \A t \in Own(g) : c.rows[t] = tasks[t] /\ tasks[t].state = "running" /\ tasks[t].paths = {}
        /\ c.pc # "targets" => Own(g) # {}

RetryOK(g, h) ==
    LET c == call[h] IN
    c.op = "retry" =>
        /\ c.dir = groups[g].dir
        /\ c.pc \in {"find", "reset"} => Finished(g)
        /\ c.pc \in {"save", "start", "init"} => groups[g].state = "running"
        /\ c.pc = "reset" => DOMAIN c.rows = {t \in Own(g) : tasks[t].state = "error"}
        /\ c.pc \in {"reset", "save"} =>
             /\ DOMAIN c.rows \subseteq Own(g)
             /\ \A t \in DOMAIN c.rows : tasks[t].state # "finished" /\ c.rows[t] = Again(tasks[t])
             /\ \A t \in Own(g) \ DOMAIN c.rows : tasks[t].state = "finished"
        /\ c.pc = "save" =>
             \A t \in DOMAIN c.rows : Rank(c.rows, t) > c.todo => tasks[t].state = "running"
        /\ c.pc \in {"start", "init"} => Fits(g, c.rows)

DeleteOK(g, h) ==
    LET c == call[h] IN
    c.op = "delete" =>
        /\ c.dir = groups[g].dir
        /\ c.pc # "files" => NoFiles(g)
        /\ c.pc \in {"tasks", "group"} => NoPreviews(g)
        /\ c.pc = "group" => Own(g) = {}

\* One request at a time writes a group, and while nothing runs.
WritersOK(g) ==
    /\ \A h, k \in Callers : Writes(h, g) /\ Writes(k, g) => h = k
    /\ \A h \in Callers : Writes(h, g) =>
         /\ CreateOK(g, h) /\ RetryOK(g, h) /\ DeleteOK(g, h)
         /\ call[h].pc # "init" => running[g] = None

\* What run r of g has found out about task t, and what the database and the files say of it.
TaskOK(g, r, t) ==
    LET w == run[r].task[t]
        row == run[r].rows[t]
    IN  /\ row.group = g
        /\ tasks[t].state = "running" <=> w.pc # "done"
        /\ \A k \in row.paths : <<g, t, k>> \in files
        /\ w.pc = "read" => <<g, t, w.kind>> \in files
        /\ w.pc \in {"open", "read"} => run[r].dir
        /\ w.pc \in {"start", "open", "read"} => ~w.failed
        /\ w.pc = "save" /\ w.failed => "log" \notin row.paths /\ <<t, g>> \notin previews

RunOK(g, r) ==
    LET x == run[r] IN
    /\ x.dir = (x.pc = "saveDir" \/ groups[g].dir)
    /\ IF x.pc = "leave" THEN Finished(g) ELSE groups[g].state = "running"
    /\ x.pc \in {"mkdir", "saveDir", "tasks"} =>
         /\ DOMAIN x.rows # {} /\ DOMAIN x.rows \subseteq Own(g)
         /\ \A t \in DOMAIN x.rows : TaskOK(g, r, t)
         /\ \A t \in Own(g) \ DOMAIN x.rows : tasks[t].state = "finished"

GroupOK(g) ==
    /\ RowsOK(g) /\ Kept(g) /\ Quiet(g) /\ WritersOK(g)
    /\ running[g] # None => RunOK(g, running[g])

Calm == ~raced => \A g \in Groups : GroupOK(g)

IInv == Types /\ RunsKnown /\ CallsOK /\ BootOK /\ Calm

-----------------------------------------------------------------------------
\* Naturals and what is counted.
LEMMA Least ==
    ASSUME NEW S \in SUBSET Nat, S # {}
    PROVE  \E x \in S : \A y \in S : x <= y
  <1>. DEFINE R == OpToRel(<, Nat)
  <1>1. IsWellFoundedOn(R, Nat)
    BY NatLessThanWellFounded
  <1>2. \A x, y \in Nat : <<y, x>> \in R <=> y < x
    BY DEF OpToRel
  <1>. HIDE DEF R
  <1>3. PICK x \in S : \A y \in S : ~(<<y, x>> \in R)
    BY <1>1, WFMin
  <1>4. \A y \in S : ~(y < x)
    BY <1>2, <1>3
  <1>. QED BY <1>4

\* The least member of a set of numbers is one of them.
LEMMA MinMember ==
    ASSUME NEW S \in SUBSET Nat, S # {}
    PROVE  Min(S) \in S /\ \A y \in S : Min(S) <= y
  BY Least DEF Min

\* The greatest member of a bounded set of numbers is one of them.
LEMMA MaxMember ==
    ASSUME NEW n \in Nat, NEW S \in SUBSET Nat, S # {}, \A y \in S : y <= n
    PROVE  Max(S) \in S /\ \A y \in S : y <= Max(S)
  <1>. DEFINE U == {u \in Nat : \A y \in S : y <= u}
  <1>1. U # {} /\ U \in SUBSET Nat
    OBVIOUS
  <1>2. PICK u \in U : \A v \in U : u <= v
    BY <1>1, Least
  <1>3. u \in Nat /\ \A y \in S : y \in Nat /\ y <= u
    OBVIOUS
  <1>4. u \in S
    <2>. SUFFICES ASSUME u \notin S PROVE FALSE
      OBVIOUS
    <2>1. PICK y \in S : y \in Nat /\ y <= u /\ y # u
      BY <1>3
    <2>2. u - 1 \in U
      BY <1>3, <2>1
    <2>. QED BY <1>2, <1>3, <2>2
  <1>. QED BY <1>3, <1>4 DEF Max

\* A new id is no id that there is.
LEMMA NewIdFresh ==
    ASSUME NEW n \in Nat, NEW rows, DOMAIN rows = 1 .. n
    PROVE  NewId(rows) \in Nat /\ (NewId(rows) \in 1 .. n => rows[NewId(rows)] = None)
  <1>. DEFINE S == {0} \union {i \in DOMAIN rows : rows[i] # None}
  <1>1. S \in SUBSET Nat /\ S # {} /\ \A y \in S : y <= n
    OBVIOUS
  <1>2. Max(S) \in S /\ \A y \in S : y <= Max(S)
    BY <1>1, MaxMember
  <1>3. Max(S) \in Nat /\ Max(S) + 1 \notin S
    BY <1>1, <1>2
  <1>4. NewId(rows) = Max(S) + 1
    BY DEF NewId
  <1>. HIDE DEF S
  <1>5. NewId(rows) \in Nat /\ NewId(rows) \notin S
    BY <1>3, <1>4
  <1>. QED BY <1>5 DEF S

\* Every number of rows that are left to save is the rank of one row.
LEMMA RankMember ==
    ASSUME NEW rows, DOMAIN rows \subseteq Tasks, NEW n \in 1 .. Cardinality(DOMAIN rows)
    PROVE  LET T == {i \in DOMAIN rows : Rank(rows, i) = n}
           IN  Min(T) \in T /\ \A i \in T : i = Min(T)
  <1>. DEFINE S == DOMAIN rows
              A(t) == {j \in S : j >= t}
              f == [t \in S |-> Cardinality(A(t))]
              m == Cardinality(S)
  <1>1. S \subseteq Nat /\ IsFiniteSet(S) /\ m \in Nat
    <2>1. IsFiniteSet(Tasks)
      BY FS_Interval, LogSearchAssumption DEF Tasks
    <2>2. S \in SUBSET Tasks /\ Tasks \subseteq Nat
      BY DEF Tasks
    <2>3. IsFiniteSet(S)
      BY <2>1, <2>2, FS_Subset
    <2>. QED BY <2>2, <2>3, FS_CardinalityType
  <1>2. \A t \in S : IsFiniteSet(A(t)) /\ Cardinality(A(t)) \in 1 .. m
    <2>. SUFFICES ASSUME NEW t \in S PROVE IsFiniteSet(A(t)) /\ Cardinality(A(t)) \in 1 .. m
      OBVIOUS
    <2>1. A(t) \in SUBSET S /\ t \in A(t)
      BY <1>1
    <2>2. IsFiniteSet(A(t)) /\ Cardinality(A(t)) <= m /\ Cardinality(A(t)) \in Nat
      BY <1>1, <2>1, FS_Subset, FS_CardinalityType
    <2>3. Cardinality(A(t)) # 0
      BY <2>1, <2>2, FS_EmptySet
    <2>. QED BY <1>1, <2>2, <2>3
  <1>3. \A t, u \in S : t < u => Cardinality(A(u)) < Cardinality(A(t))
    <2>. SUFFICES ASSUME NEW t \in S, NEW u \in S, t < u
                  PROVE  Cardinality(A(u)) < Cardinality(A(t))
      OBVIOUS
    <2>1. A(u) \in SUBSET A(t) /\ A(u) # A(t)
      BY <1>1
    <2>2. Cardinality(A(u)) <= Cardinality(A(t)) /\ Cardinality(A(u)) # Cardinality(A(t))
      BY <1>2, <2>1, FS_Subset
    <2>3. Cardinality(A(u)) \in Nat /\ Cardinality(A(t)) \in Nat
      BY <1>1, <1>2
    <2>. QED BY <2>2, <2>3
  <1>4. \A t, u \in S : f[t] = f[u] => t = u
    <2>. SUFFICES ASSUME NEW t \in S, NEW u \in S, f[t] = f[u], t # u PROVE FALSE
      OBVIOUS
    <2>1. Cardinality(A(t)) = Cardinality(A(u)) /\ Cardinality(A(t)) \in Nat
      BY <1>1, <1>2
    <2>2. t < u \/ u < t
      BY <1>1
    <2>. QED BY <1>3, <2>1, <2>2
  <1>5. f \in Injection(S, 1 .. m)
    BY <1>2, <1>4 DEF Injection, IsInjective
  <1>6. f \in Surjection(S, 1 .. m)
    <2>1. IsFiniteSet(1 .. m) /\ Cardinality(1 .. m) = m
      BY <1>1, FS_Interval
    <2>. QED BY <1>5, <2>1, FS_Injection
  <1>7. PICK i \in S : f[i] = n
    BY <1>6 DEF Surjection
  <1>8. \A t \in S : f[t] = Rank(rows, t)
    BY DEF Rank
  <1>. DEFINE T == {t \in S : Rank(rows, t) = n}
  <1>9. T \in SUBSET Nat /\ T # {} /\ \A t \in T : t = i
    BY <1>1, <1>4, <1>7, <1>8
  <1>10. Min(T) \in T
    BY <1>9, MinMember
  <1>. QED BY <1>9, <1>10

-----------------------------------------------------------------------------
\* Records and the functions in them.
LEMMA RowsMember ==
    /\ <<>> \in Rows /\ <<>> \in UNION {[S -> Work] : S \in SUBSET Tasks} /\ DOMAIN <<>> = {}
    /\ \A S \in SUBSET Tasks : [S -> TaskRow] \subseteq Rows
    /\ \A rows \in Rows : /\ DOMAIN rows \in SUBSET Tasks /\ rows \in [DOMAIN rows -> TaskRow]
                          /\ \A t \in DOMAIN rows : rows[t] \in TaskRow
  <1>1. <<>> \in [{} -> TaskRow] /\ <<>> \in [{} -> Work] /\ DOMAIN <<>> = {}
    OBVIOUS
  <1>2. \A S \in SUBSET Tasks : [S -> TaskRow] \subseteq Rows
    BY DEF Rows
  <1>3. <<>> \in Rows /\ <<>> \in UNION {[S -> Work] : S \in SUBSET Tasks}
    <2>1. {} \in SUBSET Tasks
      OBVIOUS
    <2>. QED BY <1>1, <1>2, <2>1
  <1>4. ASSUME NEW rows \in Rows
        PROVE  /\ DOMAIN rows \in SUBSET Tasks /\ rows \in [DOMAIN rows -> TaskRow]
               /\ \A t \in DOMAIN rows : rows[t] \in TaskRow
    <2>1. PICK S \in SUBSET Tasks : rows \in [S -> TaskRow]
      BY DEF Rows
    <2>2. DOMAIN rows = S
      BY <2>1
    <2>. QED BY <2>1, <2>2
  <1>. QED BY <1>1, <1>2, <1>3, <1>4

\* No row, run or group is taken for nil.
LEMMA NoneIsNil ==
    /\ None \notin GroupRow /\ None \notin TaskRow /\ None \notin RunRow /\ None \notin Runs
    /\ None \notin Groups
  BY LogSearchAssumption DEF Groups

\* A handler without a request.
LEMMA IdleCall ==
    /\ Idle \in Call /\ Idle.op = "none" /\ Idle.pc = "idle" /\ Idle.group = None
    /\ ~Idle.dir /\ Idle.rows = <<>> /\ Idle.todo = 0
  BY RowsMember DEF Idle, Call

\* At first there is nothing.
LEMMA InitInv == Init => IInv
  <1>. SUFFICES ASSUME Init PROVE IInv
    OBVIOUS
  <1>. USE DEF Init
  <1>1. Types
    BY IdleCall DEF Types, Callers
  <1>2. RunsKnown
    BY NoneIsNil DEF RunsKnown
  <1>3. CallsOK /\ BootOK
    BY IdleCall DEF CallsOK, CallOK, BootOK, Callers
  <1>4. Calm
    BY IdleCall, NoneIsNil DEF Calm, GroupOK, RowsOK, Kept, Quiet, WritersOK, Own, NoPreviews, NoFiles, Writes, Callers
  <1>. QED BY <1>1, <1>2, <1>3, <1>4 DEF IInv

-----------------------------------------------------------------------------
\* What a step of one caller does to the calls.
LEMMA CallUpdate ==
    ASSUME IInv, NEW h \in Callers, NEW c \in Call, call' = [call EXCEPT ![h] = c]
    PROVE  /\ call' \in [Callers -> Call] /\ call'[h] = c
           /\ \A k \in Callers : k # h => call'[k] = call[k]
  BY DEF IInv, Types

\* The calls stay well when the one of h does and no new run goes on.
LEMMA CallsGoOn ==
    ASSUME IInv, NEW h \in Callers, NEW c \in Call, call' = [call EXCEPT ![h] = c],
           CallOK(h)', c.pc # "init",
           \A g \in Groups : running[g] # None /\ run[running[g]].pc = "new" =>
               running'[g] = running[g] /\ run'[running[g]].pc = "new"
    PROVE  CallsOK'
  <1>1. /\ call'[h] = c /\ \A k \in Callers : k # h => call'[k] = call[k]
    BY CallUpdate
  <1>2. ASSUME NEW k \in Callers, k # h PROVE CallOK(k)'
    <2>1. CallOK(k) /\ call'[k] = call[k]
      BY <1>1, <1>2 DEF IInv, CallsOK
    <2>. QED BY <2>1 DEF CallOK
  <1>. QED BY <1>1, <1>2 DEF IInv, CallsOK

\* A caller that is not idle and deletes nothing is a handler, and the process is up.
LEMMA NotBooting ==
    ASSUME IInv, NEW h \in Callers, call[h].pc \notin {"idle", "files", "previews", "tasks", "group"}
    PROVE  /\ h \in Handlers /\ h # Boot /\ ~booting /\ call[Boot] = Idle
           /\ call[h] \in Call /\ CallOK(h) /\ call[h].group \in Groups
           /\ call[h].op \in {"create", "retry", "cancel"} /\ call[h] # Idle
  <1>1. call[h] \in Call /\ CallOK(h) /\ call[Boot] \in Call /\ CallOK(Boot)
    BY DEF IInv, Types, CallsOK, Callers
  <1>2. call[h].group \in Groups /\ call[h].op \in {"create", "retry", "cancel"} /\ call[h] # Idle
    BY <1>1, IdleCall DEF CallOK, Call
  <1>3. h # Boot
    BY <1>2 DEF IInv, BootOK
  <1>4. h \in Handlers /\ ~booting /\ call[Boot] = Idle
    BY <1>2, <1>3 DEF IInv, BootOK, Callers
  <1>. QED BY <1>1, <1>2, <1>3, <1>4

-----------------------------------------------------------------------------
\* A step works on group g only ...
Elsewhere(g) ==
    /\ booting' = booting
    /\ \A k \in Groups \ {g} : groups'[k] = groups[k] /\ running'[k] = running[k]
    /\ \A r \in Runs : run[r] # None /\ run[r].group # g => run'[r] = run[r]
    /\ \A h \in Callers : call'[h] = call[h] \/ {call[h].group, call'[h].group} \subseteq {g, None}
    /\ \A t \in Tasks : \/ tasks'[t] = tasks[t]
                         \/ /\ tasks[t] = None \/ tasks[t].group = g
                            /\ tasks'[t] = None \/ tasks'[t].group = g
    /\ \A t \in Tasks, k \in Groups \ {g} : <<t, k>> \in previews' <=> <<t, k>> \in previews
    /\ \A t \in Tasks, k \in Groups \ {g}, x \in Kinds : <<k, t, x>> \in files' <=> <<k, t, x>> \in files

\* ... and leaves the others as they are.
LEMMA OthersKept ==
    ASSUME IInv, NEW g \in Groups, Elsewhere(g), NEW k \in Groups, k # g, GroupOK(k)
    PROVE  GroupOK(k)'
  <1>1. /\ groups'[k] = groups[k] /\ running'[k] = running[k] /\ booting' = booting
        /\ \A t \in Tasks : <<t, k>> \in previews' <=> <<t, k>> \in previews
        /\ \A t \in Tasks, x \in Kinds : <<k, t, x>> \in files' <=> <<k, t, x>> \in files
    BY DEF Elsewhere
  <1>2. k # None
    BY NoneIsNil
  <1>3. Own(k)' = Own(k) /\ \A t \in Own(k) : tasks'[t] = tasks[t] /\ t \in Tasks
    BY DEF Own, Elsewhere
  <1>4. \A h \in Callers : (Writes(h, k)' <=> Writes(h, k)) /\ (Writes(h, k) => call'[h] = call[h])
    BY <1>2 DEF Writes, Elsewhere
  <1>5. running[k] # None => run'[running[k]] = run[running[k]]
    BY DEF Elsewhere, IInv, Types, RunsKnown
  <1>6. NoPreviews(k)' <=> NoPreviews(k)
    BY <1>1 DEF NoPreviews
  <1>7. NoFiles(k)' <=> NoFiles(k)
    BY <1>1 DEF NoFiles
  <1>8. Finished(k)' <=> Finished(k)
    BY <1>1, <1>3 DEF Finished
  <1>9. RowsOK(k)'
    BY <1>1, <1>3, <1>4, <1>6, <1>7 DEF GroupOK, RowsOK
  <1>10. Kept(k)'
    <2>1. Stays(k)' => Stays(k)
      BY <1>1, <1>4 DEF Stays
    <2>2. \A t \in Own(k) : tasks[t].paths \subseteq Kinds
      BY DEF Own, IInv, Types, TaskRow
    <2>. QED BY <1>1, <1>3, <2>1, <2>2 DEF GroupOK, Kept
  <1>11. Quiet(k)'
    BY <1>1, <1>4, <1>8 DEF GroupOK, Quiet
  <1>12. WritersOK(k)'
    <2>1. \A h, j \in Callers : Writes(h, k)' /\ Writes(j, k)' => h = j
      BY <1>4 DEF GroupOK, WritersOK
    <2>2. ASSUME NEW h \in Callers, Writes(h, k)'
          PROVE  /\ CreateOK(k, h)' /\ RetryOK(k, h)' /\ DeleteOK(k, h)'
                 /\ call'[h].pc # "init" => running'[k] = None
      <3>1. /\ CreateOK(k, h) /\ RetryOK(k, h) /\ DeleteOK(k, h) /\ call'[h] = call[h]
            /\ call[h].pc # "init" => running[k] = None
        BY <1>4, <2>2 DEF GroupOK, WritersOK
      <3>3. CreateOK(k, h)'
        BY <1>1, <1>3, <3>1 DEF CreateOK
      <3>4. RetryOK(k, h)'
        <4>1. CASE call[h].op # "retry"
          BY <3>1, <4>1 DEF RetryOK
        <4>2. CASE call[h].op = "retry" /\ call[h].pc \in {"start", "init"}
          BY <1>1, <1>3, <3>1, <4>2 DEF RetryOK, Fits
        <4>3. CASE call[h].op = "retry" /\ call[h].pc = "save"
          BY <1>1, <1>3, <3>1, <4>3 DEF RetryOK, Rank
        <4>4. CASE call[h].op = "retry" /\ call[h].pc \notin {"start", "init", "save"}
          BY <1>1, <1>3, <1>8, <3>1, <4>4 DEF RetryOK
        <4>. QED BY <4>1, <4>2, <4>3, <4>4
      <3>5. DeleteOK(k, h)'
        BY <1>1, <1>3, <1>6, <1>7, <3>1 DEF DeleteOK
      <3>. QED BY <1>1, <3>1, <3>3, <3>4, <3>5
    <2>. QED BY <2>1, <2>2 DEF WritersOK
  <1>13. running'[k] # None => RunOK(k, running[k])'
    <2>. SUFFICES ASSUME running[k] # None, NEW r \in Runs, r = running[k] PROVE RunOK(k, r)'
      BY <1>1 DEF IInv, Types
    <2>1. run'[r] = run[r] /\ RunOK(k, r)
      BY <1>5 DEF GroupOK
    <2>2. \A t \in Own(k) : TaskOK(k, r, t) /\ t \in DOMAIN run[r].rows => TaskOK(k, r, t)'
      <3>1. run[r] # None /\ run[r] \in RunRow /\ DOMAIN run[r].task = DOMAIN run[r].rows
        BY DEF IInv, Types, RunsKnown
      <3>2. \A t \in DOMAIN run[r].rows : run[r].task[t].kind \in Kinds /\ run[r].rows[t].paths \subseteq Kinds
        BY <3>1, RowsMember DEF RunRow, Work, TaskRow
      <3>. QED BY <1>1, <1>3, <2>1, <3>2 DEF TaskOK
    <2>. QED BY <1>1, <1>3, <1>8, <2>1, <2>2 DEF RunOK
  <1>. QED BY <1>1, <1>9, <1>10, <1>11, <1>12, <1>13 DEF GroupOK

\* So a step keeps Calm when it keeps the group that it works on.
LEMMA CalmKept ==
    ASSUME IInv, NEW g \in Groups, raced => raced', ~raced' => Elsewhere(g) /\ GroupOK(g)'
    PROVE  Calm'
  BY OthersKept DEF Calm, IInv

-----------------------------------------------------------------------------
\* Steps of a handler that is up.
LEMMA BootKept ==
    ASSUME IInv, NEW h \in Handlers, ~booting, booting' = booting, NEW c, call' = [call EXCEPT ![h] = c]
    PROVE  BootOK'
  BY LogSearchAssumption DEF IInv, BootOK, Types, Callers

\* Where runs and the map of runs stay, what is known of them does.
LEMMA RunsKept ==
    ASSUME IInv, UNCHANGED <<running, run>>
    PROVE  RunsKnown'
  BY DEF IInv, RunsKnown

\* A request that writes a group has it to itself.
LEMMA WriterAlone ==
    ASSUME IInv, ~raced, NEW g \in Groups, NEW h \in Callers, Writes(h, g)
    PROVE  /\ groups[g] # None /\ groups[g] \in GroupRow /\ RowsOK(g) /\ Kept(g)
           /\ CreateOK(g, h) /\ RetryOK(g, h) /\ DeleteOK(g, h)
           /\ call[h].pc # "init" => running[g] = None
           /\ \A k \in Callers : k # h => ~Writes(k, g)
  <1>1. GroupOK(g)
    BY DEF IInv, Calm
  <1>. QED BY <1>1 DEF GroupOK, RowsOK, WritersOK, IInv, Types

\* The handler that works on a group moves on, and the group with it.
LEMMA WriterGoesOn ==
    ASSUME IInv, ~raced, NEW g \in Groups, NEW h \in Callers, Writes(h, g),
           NEW c \in Call, call' = [call EXCEPT ![h] = c],
           c = Idle => Quiet(g)',
           c # Idle => /\ c.group = g /\ c.op # "cancel"
                       /\ CreateOK(g, h)' /\ RetryOK(g, h)' /\ DeleteOK(g, h)'
                       /\ c.pc # "init" => running'[g] = None,
           RowsOK(g)', Kept(g)', running'[g] # None => RunOK(g, running[g])'
    PROVE  GroupOK(g)'
  <1>1. /\ call'[h] = c /\ \A k \in Callers : k # h => call'[k] = call[k]
    BY CallUpdate
  <1>2. \A k \in Callers : k # h => ~Writes(k, g)'
    BY <1>1, WriterAlone DEF Writes
  <1>3. Writes(h, g)' <=> c # Idle
    BY <1>1, IdleCall, NoneIsNil DEF Writes
  <1>4. Quiet(g)'
    BY <1>3 DEF Quiet
  <1>5. WritersOK(g)'
    <2>1. \A k, j \in Callers : Writes(k, g)' /\ Writes(j, g)' => k = j
      BY <1>2
    <2>2. \A k \in Callers : Writes(k, g)' => k = h /\ c # Idle
      BY <1>2, <1>3
    <2>. QED BY <1>1, <2>1, <2>2 DEF WritersOK
  <1>. QED BY <1>4, <1>5 DEF GroupOK

\* What the steps of a writer have in common.
LEMMA WriterStep ==
    ASSUME IInv, NEW h \in Callers, NEW g, g = call[h].group,
           call[h].pc \notin {"idle", "abort", "files", "previews", "tasks", "group"}
    PROVE  Writes(h, g) /\ g \in Groups
  BY NotBooting DEF Writes, CallOK, Call

\* One more task is inserted for the group that is being created.
LEMMA CreateTaskStep ==
    ASSUME IInv, NEW h \in Callers, NEW g, g = call[h].group, NEW tikv \in BOOLEAN, CreateTask(h, tikv)
    PROVE  IInv'
  <1>. DEFINE t == NewId(tasks)
              row == [group |-> g, tikv |-> tikv, state |-> "running", paths |-> {}]
              left == call[h].todo - 1
              rows == [i \in DOMAIN call[h].rows \union {t} |-> IF i = t THEN row ELSE call[h].rows[i]]
              c == [call[h] EXCEPT !.todo = left, !.pc = IF left = 0 THEN "start" ELSE "targets",
                                   !.rows = rows]
  <1>1. /\ call[h].pc = "targets" /\ call' = [call EXCEPT ![h] = c] /\ tasks' = [tasks EXCEPT ![t] = row]
        /\ UNCHANGED <<groups, previews, dirs, files, running, run, raced, asked, booting>>
        /\ t \in Tasks
    BY DEF CreateTask, Goes, fileVars
  <1>2. /\ h \in Handlers /\ ~booting /\ call[h] \in Call /\ CallOK(h) /\ g \in Groups /\ Writes(h, g)
        /\ call[h].op = "create" /\ call[h].todo > 0
    BY <1>1, NotBooting, WriterStep DEF CallOK
  <1>3. tasks[t] = None
    <2>1. DOMAIN tasks = 1 .. MaxTask /\ MaxTask \in Nat
      BY LogSearchAssumption DEF IInv, Types, Tasks
    <2>. QED BY <1>1, <2>1, NewIdFresh DEF Tasks
  <1>4. row \in TaskRow /\ row # None
    BY <1>2, NoneIsNil DEF TaskRow
  <1>. HIDE DEF t
  <1>5. rows \in Rows /\ DOMAIN rows = DOMAIN call[h].rows \union {t}
    <2>1. DOMAIN call[h].rows \in SUBSET Tasks /\ \A i \in DOMAIN call[h].rows : call[h].rows[i] \in TaskRow
      BY <1>2, RowsMember DEF Call
    <2>2. rows \in [DOMAIN call[h].rows \union {t} -> TaskRow]
      BY <1>4, <2>1
    <2>. QED BY <1>1, <2>1, <2>2, RowsMember
  <1>6. left \in Nat
    BY <1>2 DEF Call
  <1>7. /\ c \in Call /\ c.op = "create" /\ c.group = g /\ c.dir = call[h].dir /\ c.rows = rows
        /\ c.pc = IF left = 0 THEN "start" ELSE "targets"
        /\ c.todo = left
    BY <1>2, <1>5, <1>6 DEF Call
  <1>. HIDE DEF c
  <1>8. call' \in [Callers -> Call] /\ call'[h] = c
    BY <1>1, <1>7, CallUpdate
  <1>9. /\ tasks' \in [Tasks -> TaskRow \union {None}] /\ tasks'[t] = row
        /\ \A i \in Tasks : i # t => tasks'[i] = tasks[i]
    BY <1>1, <1>4 DEF IInv, Types
  <1>10. Types' /\ RunsKnown' /\ BootOK'
    BY <1>1, <1>2, <1>8, <1>9, RunsKept, BootKept DEF IInv, Types
  <1>11. CallOK(h)'
    <2>. HIDE DEF left
    <2>1. CASE left = 0
      BY <1>2, <1>7, <1>8, <2>1 DEF CallOK
    <2>2. CASE left # 0
      BY <1>2, <1>6, <1>7, <1>8, <2>2 DEF CallOK
    <2>. QED BY <2>1, <2>2
  <1>12. CallsOK'
    BY <1>1, <1>7, <1>11, CallsGoOn
  <1>13. Calm'
    <2>. SUFFICES ASSUME ~raced PROVE Elsewhere(g) /\ GroupOK(g)'
      BY <1>1, <1>2, CalmKept
    <2>1. /\ groups[g] # None /\ RowsOK(g) /\ Kept(g) /\ CreateOK(g, h) /\ running[g] = None
      BY <1>1, <1>2, WriterAlone
    <2>2. Elsewhere(g)
      BY <1>1, <1>3, <1>4, <1>7, <1>9 DEF Elsewhere, IInv, Types
    <2>3. Own(g)' = Own(g) \union {t} /\ t \notin Own(g)
      BY <1>1, <1>3, <1>4, <1>9 DEF Own
    <2>4. RowsOK(g)' /\ Kept(g)' /\ CreateOK(g, h)' /\ RetryOK(g, h)' /\ DeleteOK(g, h)'
      <3>1. RowsOK(g)'
        BY <1>1, <1>9, <2>1, <2>3 DEF RowsOK, NoFiles, Own
      <3>2. Kept(g)'
        <4>1. Stays(g)
          BY <1>1, <1>2, WriterAlone DEF Stays
        <4>. QED BY <1>1, <1>9, <2>1, <2>3, <4>1 DEF Kept, Own
      <3>3. CreateOK(g, h)'
        <4>1. \A i \in Own(g) : i \in Tasks /\ i # t /\ tasks'[i] = tasks[i] /\ rows[i] = call[h].rows[i]
          BY <1>9, <2>1, <2>3, <1>2 DEF Own, CreateOK
        <4>2. DOMAIN rows = Own(g)' /\ rows[t] = row
          BY <1>2, <1>5, <2>1, <2>3 DEF CreateOK
        <4>. HIDE DEF rows
        <4>3. \A i \in Own(g) : call'[h].rows[i] = tasks'[i] /\ tasks'[i].state = "running" /\ tasks'[i].paths = {}
          BY <1>2, <1>7, <1>8, <2>1, <4>1 DEF CreateOK
        <4>4. call'[h].rows[t] = tasks'[t] /\ tasks'[t].state = "running" /\ tasks'[t].paths = {}
          BY <1>7, <1>8, <1>9, <4>2
        <4>5. groups'[g] = NewRow("running", FALSE) /\ ~call'[h].dir /\ DOMAIN call'[h].rows = Own(g)'
          BY <1>1, <1>2, <1>7, <1>8, <2>1, <4>2 DEF CreateOK
        <4>. QED BY <2>3, <4>3, <4>4, <4>5 DEF CreateOK
      <3>. QED BY <1>7, <1>8, <3>1, <3>2, <3>3 DEF RetryOK, DeleteOK
    <2>5. c # Idle /\ c.pc # "init"
      BY <1>7, IdleCall
    <2>6. GroupOK(g)'
      BY <1>1, <1>2, <1>7, <2>1, <2>4, <2>5, WriterGoesOn
    <2>. QED BY <2>2, <2>6
  <1>. QED BY <1>10, <1>12, <1>13 DEF IInv

\* A run is as it should be while nothing of it changes.
LEMMA RunRests ==
    ASSUME NEW g, NEW r, run' = run, tasks' = tasks, previews' = previews, files' = files,
           groups'[g].state = groups[g].state, groups'[g].dir = groups[g].dir, RunOK(g, r)
    PROVE  RunOK(g, r)'
  <1>1. Own(g)' = Own(g)
    BY DEF Own
  <1>2. Finished(g) => Finished(g)'
    BY <1>1 DEF Finished
  <1>3. \A t \in DOMAIN run[r].rows : TaskOK(g, r, t) => TaskOK(g, r, t)'
    BY DEF TaskOK
  <1>. QED BY <1>1, <1>2, <1>3 DEF RunOK

\* A run that is changed leaves the other runs alone.
LEMMA RunUpdate ==
    ASSUME IInv, NEW r \in Runs, NEW x \in RunRow \union {None}, run' = [run EXCEPT ![r] = x]
    PROVE  /\ run' \in [Runs -> RunRow \union {None}] /\ run'[r] = x
           /\ \A k \in Runs : k # r => run'[k] = run[k]
  BY DEF IInv, Types

\* AsyncStart: a run, if there is none.
LEMMA StartStep ==
    ASSUME IInv, NEW h \in Callers, NEW g, g = call[h].group, Start(h)
    PROVE  IInv'
  <1>1. call[h].pc = "start" /\ UNCHANGED <<groups, tasks, previews, dirs, files, raced, asked, booting>>
    BY DEF Start, Goes, dbVars, fileVars
  <1>2. /\ h \in Handlers /\ ~booting /\ call[h] \in Call /\ CallOK(h) /\ g \in Groups /\ Writes(h, g)
        /\ call[h].op \in {"create", "retry"}
    BY <1>1, NotBooting, WriterStep DEF CallOK
  <1>3. CASE running[g] = None
    <2>. DEFINE c == [call[h] EXCEPT !.pc = "init"]
    <2>1. PICK r \in Runs :
            /\ run[r] = None /\ call' = [call EXCEPT ![h] = c] /\ running' = [running EXCEPT ![g] = r]
            /\ run' = [run EXCEPT ![r] = [group |-> g, dir |-> call[h].dir, pc |-> "new",
                                          rows |-> <<>>, task |-> <<>>]]
      BY <1>3 DEF Start, Goes
    <2>. DEFINE x == [group |-> g, dir |-> call[h].dir, pc |-> "new", rows |-> <<>>, task |-> <<>>]
    <2>2. /\ c \in Call /\ c.op = call[h].op /\ c.pc = "init" /\ c.group = g /\ c.dir = call[h].dir
          /\ c.rows = call[h].rows
      BY <1>2 DEF Call
    <2>3. x \in RunRow /\ x # None
      <3>1. /\ <<>> \in Rows /\ <<>> \in UNION {[S -> Work] : S \in SUBSET Tasks}
            /\ call[h].dir \in BOOLEAN
        BY <1>2, RowsMember DEF Call
      <3>2. x \in RunRow
        BY <1>2, <3>1 DEF RunRow
      <3>. QED BY <3>2, NoneIsNil
    <2>4. /\ x.group = g /\ x.dir = call[h].dir /\ x.pc = "new" /\ DOMAIN x.task = DOMAIN x.rows
          /\ run' = [run EXCEPT ![r] = x]
      BY <2>1
    <2>. HIDE DEF c, x
    <2>5. /\ run' \in [Runs -> RunRow \union {None}] /\ run'[r] = x
          /\ \A k \in Runs : k # r => run'[k] = run[k]
      BY <2>3, <2>4, RunUpdate
    <2>6. /\ running' \in [Groups -> Runs \union {None}] /\ running'[g] = r
          /\ \A k \in Groups : k # g => running'[k] = running[k]
      BY <1>2, <2>1 DEF IInv, Types
    <2>7. /\ call' \in [Callers -> Call] /\ call'[h] = c /\ \A k \in Callers : k # h => call'[k] = call[k]
      BY <2>1, <2>2, CallUpdate
    <2>8. Types'
      BY <1>1, <2>5, <2>6, <2>7 DEF IInv, Types
    <2>9. RunsKnown'
      <3>1. \A k \in Groups : running[k] # r
        BY <2>1, NoneIsNil DEF IInv, RunsKnown
      <3>2. \A k \in Runs : run[k] # None => run[k].group \in Groups /\ run[k].group # g
        BY <1>3, NoneIsNil DEF IInv, Types, RunsKnown, RunRow
      <3>3. \A k \in Runs : run'[k] # None =>
              running'[run'[k].group] = k /\ DOMAIN run'[k].task = DOMAIN run'[k].rows
        BY <2>4, <2>5, <2>6, <3>2 DEF IInv, RunsKnown
      <3>4. \A k \in Groups : running'[k] # None =>
              run'[running'[k]] # None /\ run'[running'[k]].group = k
        BY <2>3, <2>4, <2>5, <2>6, <3>1 DEF IInv, RunsKnown, Types
      <3>. QED BY <3>3, <3>4 DEF RunsKnown
    <2>10. BootOK'
      BY <1>1, <1>2, <2>1, BootKept
    <2>11. CallsOK'
      <3>1. ASSUME NEW k \in Callers, k # h PROVE CallOK(k)'
        <4>1. call'[k] = call[k] /\ CallOK(k)
          BY <2>7, <3>1 DEF IInv, CallsOK
        <4>2. call[k].pc = "init" => /\ call[k].group \in Groups /\ call[k].group # g
                                     /\ running[call[k].group] # r /\ running[call[k].group] \in Runs
          BY <1>3, <2>1, <4>1, NoneIsNil DEF CallOK, IInv, RunsKnown, Types
        <4>. QED BY <2>5, <2>6, <4>1, <4>2 DEF CallOK
      <3>2. CallOK(h)'
        BY <1>2, <2>2, <2>4, <2>5, <2>6, <2>7, NoneIsNil DEF CallOK
      <3>3. \A k \in Callers : k # h /\ call[k].pc = "init" => call[k].group # g
        BY <1>3 DEF IInv, CallsOK, CallOK
      <3>. QED BY <2>2, <2>7, <3>1, <3>2, <3>3 DEF IInv, CallsOK
    <2>12. Calm'
      <3>. SUFFICES ASSUME ~raced PROVE Elsewhere(g) /\ GroupOK(g)'
        BY <1>1, <1>2, CalmKept
      <3>1. /\ groups[g] # None /\ RowsOK(g) /\ Kept(g) /\ CreateOK(g, h) /\ RetryOK(g, h) /\ groups[g] \in GroupRow
        BY <1>1, <1>2, WriterAlone
      <3>2. Elsewhere(g)
        BY <1>1, <2>1, <2>2, <2>5, <2>6, <2>7 DEF Elsewhere
      <3>3. RowsOK(g)'
        BY <1>1, <3>1 DEF RowsOK, NoPreviews, NoFiles, Own
      <3>4. Kept(g)'
        <4>1. Stays(g)
          BY <1>2, WriterAlone DEF Stays
        <4>. QED BY <1>1, <3>1, <4>1 DEF Kept, Own
      <3>5. c # Idle
        BY <2>2, IdleCall
      <3>6. CreateOK(g, h)' /\ RetryOK(g, h)' /\ DeleteOK(g, h)'
        <4>1. Own(g)' = Own(g)
          BY <1>1 DEF Own
        <4>2. CASE call[h].op = "create"
          <5>1. /\ groups[g] = NewRow("running", FALSE) /\ ~c.dir /\ DOMAIN c.rows = Own(g)
                /\ \A t \in Own(g) : /\ c.rows[t] = tasks[t] /\ tasks[t].state = "running"
                                      /\ tasks[t].paths = {}
                /\ Own(g) # {}
            BY <1>1, <2>2, <3>1, <4>2 DEF CreateOK
          <5>2. c.op = "create"
            BY <2>2, <4>2
          <5>3. CreateOK(g, h)'
            BY <1>1, <2>7, <4>1, <5>1 DEF CreateOK
          <5>. QED BY <2>7, <5>2, <5>3 DEF RetryOK, DeleteOK
        <4>3. CASE call[h].op = "retry"
          <5>1. c.dir = groups[g].dir /\ groups[g].state = "running" /\ Fits(g, c.rows)
            BY <1>1, <2>2, <3>1, <4>3 DEF RetryOK
          <5>2. Fits(g, call[h].rows)
            BY <2>2, <5>1
          <5>3. PICK rows : rows = call[h].rows
            OBVIOUS
          <5>4. Fits(g, rows)'
            BY <1>1, <4>1, <5>2, <5>3 DEF Fits
          <5>5. call'[h].op = "retry" /\ call'[h].pc = "init" /\ call'[h].rows = rows
            BY <2>2, <2>7, <4>3, <5>3
          <5>6. call'[h].dir = groups'[g].dir /\ groups'[g].state = "running"
            BY <1>1, <2>7, <5>1
          <5>7. RetryOK(g, h)'
            BY <5>4, <5>5, <5>6 DEF RetryOK
          <5>. QED BY <5>5, <5>7 DEF CreateOK, DeleteOK
        <4>. QED BY <1>2, <4>2, <4>3
      <3>7. ASSUME NEW k, k = r PROVE RunOK(g, k)'
        <4>1. groups[g].state = "running" /\ groups[g].dir = call[h].dir
          BY <1>1, <1>2, <3>1 DEF CreateOK, RetryOK, NewRow, GroupRow, Call
        <4>. QED BY <1>1, <1>2, <2>4, <2>5, <3>7, <4>1 DEF RunOK, Call
      <3>8. RunOK(g, running[g])'
        BY <2>6, <3>7
      <3>. QED BY <1>2, <2>1, <2>2, <3>2, <3>3, <3>4, <3>5, <3>6, <3>8, WriterGoesOn
    <2>. QED BY <2>8, <2>9, <2>10, <2>11, <2>12 DEF IInv
  <1>4. CASE running[g] # None
    <2>1. call' = [call EXCEPT ![h] = Idle] /\ UNCHANGED <<running, run>>
      BY <1>4 DEF Start, Goes
    <2>2. /\ call' \in [Callers -> Call] /\ call'[h] = Idle
      BY <2>1, IdleCall, CallUpdate
    <2>3. Types' /\ RunsKnown' /\ BootOK'
      BY <1>1, <1>2, <2>1, <2>2, RunsKept, BootKept DEF IInv, Types
    <2>4. CallOK(h)'
      BY <2>2, IdleCall DEF CallOK
    <2>5. CallsOK'
      BY <2>1, <2>4, IdleCall, CallsGoOn
    <2>6. Calm'
      BY <1>1, <1>2, <1>4, WriterAlone DEF Calm
    <2>. QED BY <2>3, <2>5, <2>6 DEF IInv
  <1>. QED BY <1>3, <1>4

\* AsyncStart: the tasks, whose rows are those that the request has saved.
LEMMA InitTasksStep ==
    ASSUME IInv, NEW h \in Callers, NEW g, g = call[h].group, InitTasks(h)
    PROVE  IInv'
  <1>. DEFINE r == running[g]
              x == [run[r] EXCEPT !.pc = "mkdir", !.rows = call[h].rows,
                                  !.task = [t \in DOMAIN call[h].rows |-> NewTask]]
  <1>1. /\ call[h].pc = "init" /\ UNCHANGED <<groups, tasks, previews, dirs, files, running, raced, asked, booting>>
        /\ call' = [call EXCEPT ![h] = Idle] /\ run' = [run EXCEPT ![r] = x]
    BY DEF InitTasks, Goes, dbVars, fileVars
  <1>2. /\ h \in Handlers /\ ~booting /\ call[h] \in Call /\ CallOK(h) /\ g \in Groups /\ Writes(h, g)
        /\ call[h].op \in {"create", "retry"}
    BY <1>1, NotBooting, WriterStep DEF CallOK
  <1>3. /\ r \in Runs /\ r # None /\ run[r] \in RunRow /\ run[r].pc = "new" /\ run[r].group = g
    BY <1>1, <1>2 DEF CallOK, IInv, Types, RunsKnown
  <1>4. call[h].rows \in Rows /\ DOMAIN call[h].rows \in SUBSET Tasks
    BY <1>2, RowsMember DEF Call
  <1>5. /\ x.group = g /\ x.dir = run[r].dir /\ x.pc = "mkdir" /\ x.rows = call[h].rows
        /\ x.task = [t \in DOMAIN call[h].rows |-> NewTask]
    BY <1>3 DEF RunRow
  <1>6. NewTask \in Work /\ NewTask.pc = "start" /\ ~NewTask.failed
    BY DEF NewTask, Work, Kinds
  <1>7. x \in RunRow /\ x # None
    <2>1. [t \in DOMAIN call[h].rows |-> NewTask] \in UNION {[S -> Work] : S \in SUBSET Tasks}
      BY <1>4, <1>6
    <2>2. x \in RunRow
      BY <1>3, <1>4, <2>1 DEF RunRow
    <2>. QED BY <2>2, NoneIsNil
  <1>. HIDE DEF x
  <1>8. /\ run' \in [Runs -> RunRow \union {None}] /\ run'[r] = x
        /\ \A k \in Runs : k # r => run'[k] = run[k]
    BY <1>1, <1>3, <1>7, RunUpdate
  <1>9. /\ call' \in [Callers -> Call] /\ call'[h] = Idle /\ \A k \in Callers : k # h => call'[k] = call[k]
    BY <1>1, IdleCall, CallUpdate
  <1>10. Types' /\ BootOK'
    BY <1>1, <1>2, <1>8, <1>9, BootKept DEF IInv, Types
  <1>11. RunsKnown'
    <2>1. \A k \in Runs : run'[k] # None => run[k] # None /\ run'[k].group = run[k].group
                                              /\ DOMAIN run'[k].task = DOMAIN run'[k].rows
      BY <1>3, <1>5, <1>8, NoneIsNil DEF IInv, RunsKnown
    <2>2. \A k \in Runs : run[k] # None => run'[k] # None
      BY <1>7, <1>8
    <2>. QED BY <1>1, <2>1, <2>2 DEF IInv, Types, RunsKnown
  <1>12. CallsOK'
    <2>1. ASSUME NEW k \in Callers, k # h PROVE CallOK(k)'
      <3>1. call'[k] = call[k] /\ CallOK(k)
        BY <1>9, <2>1 DEF IInv, CallsOK
      <3>2. call[k].pc = "init" => call[k].group # g
        BY <1>1, <2>1 DEF IInv, CallsOK
      <3>3. call[k].pc = "init" => /\ call[k].group \in Groups /\ running[call[k].group] # r
                                   /\ running[call[k].group] \in Runs
        BY <1>3, <3>1, <3>2 DEF CallOK, IInv, RunsKnown, Types
      <3>. QED BY <1>1, <1>8, <3>1, <3>3 DEF CallOK
    <2>2. CallOK(h)'
      BY <1>9, IdleCall DEF CallOK
    <2>. QED BY <1>9, <2>1, <2>2, IdleCall DEF IInv, CallsOK
  <1>13. Calm'
    <2>. SUFFICES ASSUME ~raced PROVE Elsewhere(g) /\ GroupOK(g)'
      BY <1>1, <1>2, CalmKept
    <2>1. /\ groups[g] # None /\ RowsOK(g) /\ Kept(g) /\ CreateOK(g, h) /\ RetryOK(g, h) /\ groups[g] \in GroupRow
      BY <1>1, <1>2, WriterAlone
    <2>2. Elsewhere(g)
      BY <1>1, <1>3, <1>8, <1>9, IdleCall DEF Elsewhere
    <2>3. RowsOK(g)'
      BY <1>1, <2>1 DEF RowsOK, NoPreviews, NoFiles, Own
    <2>4. Stays(g)
      BY <1>2, WriterAlone DEF Stays
    <2>5. Kept(g)'
      BY <1>1, <2>1, <2>4 DEF Kept, Own
    <2>6. Quiet(g)'
      BY <1>1, <1>3 DEF Quiet
    <2>7. Fits(g, call[h].rows)
      <3>1. CASE call[h].op = "create"
        BY <1>1, <2>1, <3>1 DEF CreateOK, Fits
      <3>2. CASE call[h].op = "retry"
        BY <1>1, <2>1, <3>2 DEF RetryOK
      <3>. QED BY <1>2, <3>1, <3>2
    <2>8. ASSUME NEW k, k = r PROVE RunOK(g, k)'
      <3>1. run[r].dir = groups[g].dir /\ groups[g].state = "running"
        <4>1. GroupOK(g)
          BY <1>2 DEF IInv, Calm
        <4>2. RunOK(g, r)
          BY <1>3, <4>1 DEF GroupOK
        <4>. QED BY <1>3, <2>1, <4>2 DEF RunOK, GroupRow
      <3>2. run'[k] = x
        BY <1>8, <2>8
      <3>3. ASSUME NEW t \in DOMAIN call[h].rows PROVE TaskOK(g, k, t)'
        <4>1. /\ t \in Own(g) /\ call[h].rows[t] = tasks[t] /\ tasks[t].state = "running" /\ tasks[t].group = g
          BY <2>7 DEF Fits, Own
        <4>2. \A y \in tasks[t].paths : <<g, t, y>> \in files
          BY <2>1, <2>4, <4>1 DEF Kept
        <4>. QED BY <1>1, <1>5, <1>6, <3>2, <4>1, <4>2 DEF TaskOK
      <3>4. /\ DOMAIN call[h].rows # {} /\ DOMAIN call[h].rows \subseteq Own(g)'
            /\ \A t \in Own(g)' \ DOMAIN call[h].rows : tasks'[t].state = "finished"
        BY <1>1, <2>7 DEF Fits, Own
      <3>5. x.dir = (x.pc = "saveDir" \/ groups'[g].dir)
        BY <1>1, <1>5, <2>1, <3>1 DEF GroupRow
      <3>. QED BY <1>1, <1>5, <3>1, <3>2, <3>3, <3>4, <3>5 DEF RunOK
    <2>9. RunOK(g, running[g])'
      BY <1>1, <2>8
    <2>. QED BY <1>1, <1>2, <2>2, <2>3, <2>5, <2>6, <2>9, IdleCall, WriterGoesOn
  <1>. QED BY <1>10, <1>11, <1>12, <1>13 DEF IInv

\* RetryTask: the tasks that failed are those that are not finished.
LEMMA FindFailedStep ==
    ASSUME IInv, NEW h \in Callers, NEW g, g = call[h].group, FindFailed(h)
    PROVE  IInv'
  <1>. DEFINE failed == ToRetry(g)
              rows == [t \in failed |-> [tasks[t] EXCEPT !.state = "running"]]
              c == IF failed = {} THEN Idle ELSE [call[h] EXCEPT !.pc = "reset", !.rows = rows]
  <1>1. /\ call[h].pc = "find" /\ call' = [call EXCEPT ![h] = c]
        /\ UNCHANGED <<groups, tasks, previews, dirs, files, running, run, raced, asked, booting>>
    BY DEF FindFailed, Goes, dbVars, fileVars
  <1>2. /\ h \in Handlers /\ ~booting /\ call[h] \in Call /\ CallOK(h) /\ g \in Groups /\ Writes(h, g)
        /\ call[h].op = "retry"
    BY <1>1, NotBooting, WriterStep DEF CallOK
  <1>3. failed = {t \in Own(g) : tasks[t].state = "error"} /\ failed \in SUBSET Tasks
    BY DEF ToRetry, Own
  <1>4. rows \in Rows /\ DOMAIN rows = failed /\ \A t \in failed : rows[t] = Again(tasks[t])
    <2>1. \A t \in failed : [tasks[t] EXCEPT !.state = "running"] \in TaskRow
      BY <1>3 DEF IInv, Types, TaskRow, Own
    <2>2. rows \in [failed -> TaskRow]
      BY <2>1
    <2>. QED BY <1>3, <2>2, RowsMember DEF Again
  <1>. HIDE DEF failed, rows
  <1>5. c # Idle => /\ c \in Call /\ c.op = "retry" /\ c.group = g /\ c.dir = call[h].dir /\ c.rows = rows
                    /\ c.pc = "reset" /\ failed # {}
    BY <1>2, <1>4 DEF Call
  <1>6. c = Idle => failed = {}
    BY <1>2, IdleCall DEF Call
  <1>7. c \in Call
    BY <1>5, IdleCall
  <1>. HIDE DEF c
  <1>8. call' \in [Callers -> Call] /\ call'[h] = c
    BY <1>1, <1>7, CallUpdate
  <1>9. Types' /\ RunsKnown' /\ BootOK'
    BY <1>1, <1>2, <1>8, RunsKept, BootKept DEF IInv, Types
  <1>10. CallOK(h)' /\ c.pc # "init"
    <2>1. CASE c = Idle
      BY <1>8, <2>1, IdleCall DEF CallOK
    <2>2. CASE c # Idle
      BY <1>2, <1>4, <1>5, <1>8, <2>2 DEF CallOK
    <2>. QED BY <2>1, <2>2
  <1>11. CallsOK'
    BY <1>1, <1>7, <1>10, CallsGoOn
  <1>12. Calm'
    <2>. SUFFICES ASSUME ~raced PROVE Elsewhere(g) /\ GroupOK(g)'
      BY <1>1, <1>2, CalmKept
    <2>1. /\ groups[g] # None /\ RowsOK(g) /\ Kept(g) /\ RetryOK(g, h) /\ running[g] = None
      BY <1>1, <1>2, WriterAlone
    <2>2. Elsewhere(g)
      BY <1>1, <1>5, IdleCall DEF Elsewhere, IInv, Types
    <2>3. RowsOK(g)'
      BY <1>1, <2>1 DEF RowsOK, NoPreviews, NoFiles, Own
    <2>4. Kept(g)'
      <3>1. Stays(g)
        BY <1>2, WriterAlone DEF Stays
      <3>. QED BY <1>1, <2>1, <3>1 DEF Kept, Own
    <2>5. Finished(g) /\ call[h].dir = groups[g].dir /\ (Finished(g)' <=> Finished(g)) /\ Own(g)' = Own(g)
      BY <1>1, <1>2, <2>1 DEF RetryOK, Finished, Own
    <2>6. Quiet(g)'
      BY <2>5 DEF Quiet
    <2>7. c # Idle => CreateOK(g, h)' /\ RetryOK(g, h)' /\ DeleteOK(g, h)'
      <3>. SUFFICES ASSUME c # Idle PROVE RetryOK(g, h)'
        BY <1>5, <1>8 DEF CreateOK, DeleteOK
      <3>1. \A t \in Own(g) \ failed : tasks[t].state = "finished"
        BY <1>3, <2>5 DEF Finished, Own, IInv, Types, TaskRow
      <3>2. \A t \in failed : t \in Own(g) /\ tasks[t].state # "finished"
        BY <1>3
      <3>. QED BY <1>1, <1>3, <1>4, <1>5, <1>8, <2>5, <3>1, <3>2 DEF RetryOK
    <2>. QED BY <1>1, <1>2, <1>5, <1>7, <2>1, <2>2, <2>3, <2>4, <2>6, <2>7, WriterGoesOn
  <1>. QED BY <1>9, <1>11, <1>12 DEF IInv

\* RetryTask: the row of the group.
LEMMA ResetGroupStep ==
    ASSUME IInv, NEW h \in Callers, NEW g, g = call[h].group, ResetGroup(h)
    PROVE  IInv'
  <1>. DEFINE rows == call[h].rows
              c == [call[h] EXCEPT !.pc = "save", !.todo = Cardinality(DOMAIN rows)]
  <1>1. /\ call[h].pc = "reset" /\ call' = [call EXCEPT ![h] = c]
        /\ groups' = [groups EXCEPT ![g] = NewRow("running", call[h].dir)]
        /\ UNCHANGED <<tasks, previews, dirs, files, running, run, raced, asked, booting>>
    BY DEF ResetGroup, Goes, fileVars
  <1>2. /\ h \in Handlers /\ ~booting /\ call[h] \in Call /\ CallOK(h) /\ g \in Groups /\ Writes(h, g)
        /\ call[h].op = "retry" /\ DOMAIN rows # {}
    BY <1>1, NotBooting, WriterStep DEF CallOK
  <1>3. /\ IsFiniteSet(DOMAIN rows) /\ Cardinality(DOMAIN rows) \in Nat /\ Cardinality(DOMAIN rows) > 0
        /\ DOMAIN rows \in SUBSET Tasks
    <2>1. DOMAIN rows \in SUBSET Tasks /\ IsFiniteSet(Tasks)
      <3>1. IsFiniteSet(Tasks)
        BY FS_Interval, LogSearchAssumption DEF Tasks
      <3>2. rows \in Rows
        BY <1>2 DEF Call
      <3>. QED BY <3>1, <3>2, RowsMember
    <2>2. IsFiniteSet(DOMAIN rows)
      BY <2>1, FS_Subset
    <2>3. Cardinality(DOMAIN rows) \in Nat /\ Cardinality(DOMAIN rows) # 0
      BY <1>2, <2>2, FS_CardinalityType, FS_EmptySet
    <2>. QED BY <2>1, <2>2, <2>3
  <1>4. /\ c \in Call /\ c.op = "retry" /\ c.group = g /\ c.dir = call[h].dir /\ c.rows = rows
        /\ c.pc = "save" /\ c.todo = Cardinality(DOMAIN rows)
    BY <1>2, <1>3 DEF Call
  <1>. HIDE DEF c
  <1>5. NewRow("running", call[h].dir) \in GroupRow /\ call[h].dir \in BOOLEAN
    BY <1>2 DEF NewRow, GroupRow, Call
  <1>6. /\ groups' \in [Groups -> GroupRow \union {None}]
        /\ groups'[g] = NewRow("running", call[h].dir) /\ groups'[g] # None
        /\ \A k \in Groups : k # g => groups'[k] = groups[k]
    BY <1>1, <1>2, <1>5, NoneIsNil DEF IInv, Types
  <1>7. call' \in [Callers -> Call] /\ call'[h] = c
    BY <1>1, <1>4, CallUpdate
  <1>8. Types' /\ RunsKnown' /\ CallOK(h)' /\ BootOK'
    <2>1. Types' /\ RunsKnown' /\ BootOK'
      BY <1>1, <1>2, <1>6, <1>7, RunsKept, BootKept DEF IInv, Types
    <2>2. CallOK(h)'
      BY <1>2, <1>3, <1>4, <1>7 DEF CallOK
    <2>. QED BY <2>1, <2>2
  <1>9. CallsOK'
    BY <1>1, <1>4, <1>8, CallsGoOn
  <1>10. Calm'
    <2>. SUFFICES ASSUME ~raced PROVE Elsewhere(g) /\ GroupOK(g)'
      BY <1>1, <1>2, CalmKept
    <2>1. /\ groups[g] # None /\ groups[g] \in GroupRow /\ RowsOK(g) /\ Kept(g) /\ RetryOK(g, h) /\ running[g] = None
      BY <1>1, <1>2, WriterAlone
    <2>2. Elsewhere(g)
      BY <1>1, <1>4, <1>6, <1>7 DEF Elsewhere, IInv, Types
    <2>3. groups'[g].dir = groups[g].dir /\ groups'[g].state = "running" /\ call[h].dir = groups[g].dir
      BY <1>2, <1>6, <2>1 DEF RetryOK, NewRow
    <2>4. RowsOK(g)'
      BY <1>1, <1>6, <2>1, <2>3 DEF RowsOK, NoPreviews, NoFiles, Own
    <2>5. Kept(g)'
      <3>1. Stays(g)
        BY <1>2, WriterAlone DEF Stays
      <3>. QED BY <1>1, <2>1, <3>1 DEF Kept, Own
    <2>6. RetryOK(g, h)'
      <3>1. /\ DOMAIN rows \subseteq Own(g)
            /\ \A t \in DOMAIN rows : tasks[t].state # "finished" /\ rows[t] = Again(tasks[t])
            /\ \A t \in Own(g) \ DOMAIN rows : tasks[t].state = "finished"
        BY <1>1, <1>2, <2>1 DEF RetryOK
      <3>2. \A t \in DOMAIN rows : ~(Rank(rows, t) > Cardinality(DOMAIN rows))
        <4>. SUFFICES ASSUME NEW t \in DOMAIN rows
                      PROVE  Rank(rows, t) <= Cardinality(DOMAIN rows) /\ Rank(rows, t) \in Nat
          BY <1>3
        <4>1. {j \in DOMAIN rows : j >= t} \in SUBSET (DOMAIN rows)
          OBVIOUS
        <4>. QED BY <1>3, <4>1, FS_Subset, FS_CardinalityType DEF Rank
      <3>3. Own(g)' = Own(g)
        BY <1>1 DEF Own
      <3>. QED BY <1>1, <1>4, <1>7, <2>3, <3>1, <3>2, <3>3 DEF RetryOK, Rank
    <2>7. CreateOK(g, h)' /\ DeleteOK(g, h)'
      BY <1>4, <1>7 DEF CreateOK, DeleteOK
    <2>8. c # Idle /\ c.pc # "init" /\ c.op # "cancel"
      BY <1>4, IdleCall
    <2>. QED BY <1>1, <1>2, <1>4, <2>1, <2>2, <2>4, <2>5, <2>6, <2>7, <2>8, WriterGoesOn
  <1>. QED BY <1>8, <1>9, <1>10 DEF IInv

\* A row that is to be searched again.
LEMMA AgainRow ==
    ASSUME NEW row \in TaskRow
    PROVE  /\ Again(row) \in TaskRow /\ Again(row).group = row.group /\ Again(row).paths = row.paths
           /\ Again(row).state = "running" /\ Again(Again(row)) = Again(row)
           /\ row.state = "running" => Again(row) = row
  BY DEF TaskRow, Again

\* Tasks are counted from 1.
LEMMA RankType ==
    ASSUME NEW rows, DOMAIN rows \subseteq Tasks
    PROVE  \A t \in DOMAIN rows : Rank(rows, t) \in Nat /\ Rank(rows, t) > 0
  <1>1. IsFiniteSet(Tasks) /\ Tasks \subseteq Nat
    BY FS_Interval, LogSearchAssumption DEF Tasks
  <1>. SUFFICES ASSUME NEW t \in DOMAIN rows PROVE Rank(rows, t) \in Nat /\ Rank(rows, t) > 0
    OBVIOUS
  <1>2. {j \in DOMAIN rows : j >= t} \in SUBSET Tasks /\ t \in {j \in DOMAIN rows : j >= t}
    <2>1. t \in Nat
      BY <1>1
    <2>. QED BY <2>1
  <1>3. IsFiniteSet({j \in DOMAIN rows : j >= t})
    BY <1>1, <1>2, FS_Subset
  <1>4. Rank(rows, t) \in Nat /\ Rank(rows, t) # 0
    BY <1>2, <1>3, FS_CardinalityType, FS_EmptySet DEF Rank
  <1>. QED BY <1>4

\* RetryTask: the row of a task; with the last one they are those to be searched.
LEMMA ResetTaskStep ==
    ASSUME IInv, NEW h \in Callers, NEW g, g = call[h].group, ResetTask(h)
    PROVE  IInv'
  <1>. DEFINE todo == call[h].todo
              left == todo - 1
              c == [call[h] EXCEPT !.todo = left, !.pc = IF left = 0 THEN "start" ELSE "save"]
  <1>1. PICK t, rows :
          /\ rows = call[h].rows
          /\ t = Min({i \in DOMAIN rows : Rank(rows, i) = todo})
          /\ call[h].pc = "save" /\ call' = [call EXCEPT ![h] = c]
          /\ tasks' = [tasks EXCEPT ![t] = rows[t]]
          /\ UNCHANGED <<groups, previews, dirs, files, running, run, raced, asked, booting>>
    BY DEF ResetTask, Goes, fileVars, Rank
  <1>2. /\ h \in Handlers /\ ~booting /\ call[h] \in Call /\ CallOK(h) /\ g \in Groups /\ Writes(h, g)
        /\ call[h].op = "retry" /\ todo \in 1 .. Cardinality(DOMAIN rows)
    BY <1>1, NotBooting, WriterStep DEF CallOK
  <1>3. rows \in Rows /\ DOMAIN rows \in SUBSET Tasks /\ \A i \in DOMAIN rows : rows[i] \in TaskRow
    BY <1>1, <1>2, RowsMember DEF Call
  <1>4. /\ t \in DOMAIN rows /\ t \in Tasks /\ Rank(rows, t) = todo
        /\ \A i \in DOMAIN rows : Rank(rows, i) = todo => i = t
    BY <1>1, <1>2, <1>3, RankMember
  <1>5. todo \in Nat /\ left \in Nat /\ todo > 0 /\ (left # 0 => left \in 1 .. Cardinality(DOMAIN rows))
    <2>1. IsFiniteSet(Tasks)
      BY FS_Interval, LogSearchAssumption DEF Tasks
    <2>2. Cardinality(DOMAIN rows) \in Nat
      BY <1>3, <2>1, FS_Subset, FS_CardinalityType
    <2>. QED BY <1>2, <2>2
  <1>6. /\ c \in Call /\ c.op = "retry" /\ c.group = g /\ c.dir = call[h].dir /\ c.rows = rows
        /\ c.pc = (IF left = 0 THEN "start" ELSE "save") /\ c.todo = left
    BY <1>1, <1>2, <1>5 DEF Call
  <1>. HIDE DEF c
  <1>7. /\ tasks' \in [Tasks -> TaskRow \union {None}] /\ tasks'[t] = rows[t]
        /\ \A i \in Tasks : i # t => tasks'[i] = tasks[i]
    BY <1>1, <1>3, <1>4 DEF IInv, Types
  <1>8. call' \in [Callers -> Call] /\ call'[h] = c
    BY <1>1, <1>6, CallUpdate
  <1>9. Types' /\ RunsKnown' /\ BootOK'
    BY <1>1, <1>2, <1>7, <1>8, RunsKept, BootKept DEF IInv, Types
  <1>10. CallOK(h)'
    <2>1. CASE left = 0
      BY <1>2, <1>6, <1>8, <2>1 DEF CallOK
    <2>2. CASE left # 0
      BY <1>2, <1>5, <1>6, <1>8, <2>2 DEF CallOK
    <2>. QED BY <2>1, <2>2
  <1>11. CallsOK'
    BY <1>1, <1>6, <1>10, CallsGoOn
  <1>12. Calm'
    <2>. SUFFICES ASSUME ~raced PROVE Elsewhere(g) /\ GroupOK(g)'
      BY <1>1, <1>2, CalmKept
    <2>1. /\ groups[g] # None /\ RowsOK(g) /\ Kept(g) /\ RetryOK(g, h) /\ running[g] = None
      BY <1>1, <1>2, WriterAlone
    <2>2. /\ DOMAIN rows \subseteq Own(g) /\ call[h].dir = groups[g].dir /\ groups[g].state = "running"
          /\ \A i \in DOMAIN rows : tasks[i].state # "finished" /\ rows[i] = Again(tasks[i])
          /\ \A i \in Own(g) \ DOMAIN rows : tasks[i].state = "finished"
          /\ \A i \in DOMAIN rows : Rank(rows, i) > todo => tasks[i].state = "running"
      BY <1>1, <1>2, <2>1 DEF RetryOK
    <2>3. \A i \in Own(g) : tasks[i] \in TaskRow /\ i \in Tasks /\ tasks[i].group = g
      BY DEF Own, IInv, Types
    <2>4. /\ t \in Own(g) /\ tasks'[t] # None /\ tasks'[t].group = g /\ tasks'[t].state = "running"
          /\ tasks'[t].paths = tasks[t].paths /\ tasks'[t] = Again(tasks[t]) /\ rows[t] = Again(tasks'[t])
      BY <1>4, <1>7, <2>2, <2>3, AgainRow, NoneIsNil
    <2>5. Own(g)' = Own(g)
      BY <1>7, <2>4 DEF Own
    <2>6. Elsewhere(g)
      <3>1. tasks[t].group = g /\ tasks'[t].group = g
        BY <2>3, <2>4
      <3>2. \A k \in Callers : k # h => call'[k] = call[k]
        BY <1>1, <1>6, CallUpdate
      <3>3. call[h].group = g /\ call'[h].group = g
        BY <1>6, <1>8
      <3>. QED BY <1>1, <1>7, <3>1, <3>2, <3>3 DEF Elsewhere
    <2>7. RowsOK(g)'
      <3>1. \A i \in Own(g) : /\ tasks'[i].state # "finished" => "log" \notin tasks'[i].paths
                              /\ tasks'[i].state = "error" => <<i, g>> \notin previews
        <4>1. "log" \notin tasks[t].paths
          BY <1>4, <2>1, <2>2, <2>4 DEF RowsOK
        <4>. QED BY <1>7, <2>1, <2>3, <2>4, <4>1 DEF RowsOK
      <3>. QED BY <1>1, <2>1, <2>5, <3>1 DEF RowsOK, NoFiles
    <2>8. Kept(g)'
      <3>1. Stays(g)
        BY <1>2, WriterAlone DEF Stays
      <3>. QED BY <1>1, <1>7, <2>1, <2>3, <2>4, <2>5, <3>1 DEF Kept
    <2>9. /\ \A i \in DOMAIN rows : /\ tasks'[i].state # "finished" /\ rows[i] = Again(tasks'[i])
                                    /\ tasks'[i] \in TaskRow
                                    /\ Rank(rows, i) > left => tasks'[i].state = "running"
          /\ \A i \in Own(g) \ DOMAIN rows : tasks'[i].state = "finished"
      <3>1. ASSUME NEW i \in DOMAIN rows, Rank(rows, i) > left PROVE i = t \/ Rank(rows, i) > todo
        <4>1. Rank(rows, i) \in Nat
          BY <1>3, RankType
        <4>2. Rank(rows, i) = todo \/ Rank(rows, i) > todo
          BY <1>5, <3>1, <4>1
        <4>. QED BY <1>4, <4>2
      <3>. QED BY <1>4, <1>7, <2>2, <2>3, <2>4, <3>1, AgainRow
    <2>10. RetryOK(g, h)'
      <3>1. CASE left # 0
        <4>1. /\ c.pc = "save" /\ call'[h] = c /\ c.rows = rows /\ c.dir = groups'[g].dir
              /\ groups'[g].state = "running" /\ c.todo = left
          BY <1>1, <1>6, <1>8, <2>2, <3>1
        <4>2. \A i \in DOMAIN rows : Rank(call'[h].rows, i) = Rank(rows, i)
          BY <4>1
        <4>. QED BY <2>2, <2>5, <2>9, <4>1, <4>2 DEF RetryOK
      <3>2. CASE left = 0
        <4>1. \A i \in DOMAIN rows : tasks'[i].state = "running" /\ rows[i] = tasks'[i]
          BY <1>3, <2>9, <3>2, RankType, AgainRow
        <4>2. Fits(g, rows)'
          BY <1>4, <2>2, <2>5, <2>9, <4>1 DEF Fits
        <4>. QED BY <1>1, <1>6, <1>8, <2>2, <3>2, <4>2 DEF RetryOK
      <3>. QED BY <3>1, <3>2
    <2>11. CreateOK(g, h)' /\ DeleteOK(g, h)'
      BY <1>6, <1>8 DEF CreateOK, DeleteOK
    <2>12. c # Idle /\ c.pc # "init" /\ c.op # "cancel"
      BY <1>6, IdleCall
    <2>. QED BY <1>1, <1>2, <1>6, <2>1, <2>6, <2>7, <2>8, <2>10, <2>11, <2>12, WriterGoesOn
  <1>. QED BY <1>9, <1>11, <1>12 DEF IInv

\* A group is as before when rows, files and those who write it are.
LEMMA SameWriters ==
    ASSUME IInv, NEW g \in Groups, GroupOK(g), UNCHANGED <<groups, tasks, previews, files, running, booting>>,
           \A k \in Callers : (Writes(k, g)' <=> Writes(k, g)) /\ (Writes(k, g) => call'[k] = call[k]),
           running[g] # None => RunOK(g, running[g])'
    PROVE  GroupOK(g)'
  <1>1. RowsOK(g)'
    BY DEF GroupOK, RowsOK, NoPreviews, NoFiles, Own
  <1>2. Kept(g)'
    <2>1. Stays(g)' => Stays(g)
      BY DEF Stays
    <2>. QED BY <2>1 DEF GroupOK, Kept, Own
  <1>3. Quiet(g)'
    BY DEF GroupOK, Quiet, Finished, Own
  <1>4. WritersOK(g)'
    <2>1. ASSUME NEW k \in Callers, Writes(k, g)'
          PROVE  /\ CreateOK(g, k)' /\ RetryOK(g, k)' /\ DeleteOK(g, k)'
                 /\ call'[k].pc # "init" => running'[g] = None
      <3>1. /\ CreateOK(g, k) /\ RetryOK(g, k) /\ DeleteOK(g, k) /\ call'[k] = call[k]
            /\ call[k].pc # "init" => running[g] = None
        BY <2>1 DEF GroupOK, WritersOK
      <3>2. CreateOK(g, k)' /\ DeleteOK(g, k)'
        BY <3>1 DEF CreateOK, DeleteOK, NoFiles, NoPreviews, Own
      <3>3. RetryOK(g, k)'
        <4>1. CASE call[k].op # "retry"
          BY <3>1, <4>1 DEF RetryOK
        <4>2. CASE call[k].op = "retry" /\ call[k].pc \in {"start", "init"}
          BY <3>1, <4>2 DEF RetryOK, Fits, Own
        <4>3. CASE call[k].op = "retry" /\ call[k].pc = "save"
          BY <3>1, <4>3 DEF RetryOK, Rank, Own
        <4>4. CASE call[k].op = "retry" /\ call[k].pc \notin {"start", "init", "save"}
          BY <3>1, <4>4 DEF RetryOK, Finished, Own
        <4>. QED BY <4>1, <4>2, <4>3, <4>4
      <3>. QED BY <3>1, <3>2, <3>3
    <2>. QED BY <2>1 DEF GroupOK, WritersOK
  <1>. QED BY <1>1, <1>2, <1>3, <1>4 DEF GroupOK

\* The cancellation of a run changes nothing else.
LEMMA AbortStep ==
    ASSUME IInv, NEW h \in Callers, NEW g, g = call[h].group, Abort(h)
    PROVE  IInv'
  <1>1. /\ call[h].pc = "abort" /\ call' = [call EXCEPT ![h] = Idle]
        /\ UNCHANGED <<groups, tasks, previews, dirs, files, running, raced, booting>>
    BY DEF Abort, Goes, dbVars, fileVars
  <1>2. /\ h \in Handlers /\ ~booting /\ call[h] \in Call /\ CallOK(h) /\ g \in Groups
        /\ call[h].op = "cancel" /\ ~Writes(h, g)
    BY <1>1, NotBooting DEF CallOK, Writes
  <1>3. /\ call' \in [Callers -> Call] /\ call'[h] = Idle /\ \A k \in Callers : k # h => call'[k] = call[k]
    BY <1>1, IdleCall, CallUpdate
  <1>4. asked' \subseteq Groups
    BY <1>2 DEF Abort, IInv, Types
  <1>5. BootOK'
    BY <1>1, <1>2, BootKept
  <1>6. CallOK(h)'
    BY <1>3, IdleCall DEF CallOK
  <1>7. \A k \in Callers : (Writes(k, g)' <=> Writes(k, g)) /\ (Writes(k, g) => call'[k] = call[k])
    BY <1>2, <1>3, IdleCall, NoneIsNil DEF Writes
  <1>8. CASE running[g] = None
    <2>1. run' = run
      BY <1>8 DEF Abort
    <2>2. Types' /\ RunsKnown'
      BY <1>1, <1>3, <1>4, <2>1, RunsKept DEF IInv, Types
    <2>3. CallsOK'
      BY <1>1, <1>6, <2>1, IdleCall, CallsGoOn
    <2>4. Calm'
      <3>. SUFFICES ASSUME ~raced PROVE Elsewhere(g) /\ GroupOK(g)'
        BY <1>1, <1>2, CalmKept
      <3>1. Elsewhere(g)
        BY <1>1, <1>3, <2>1, IdleCall DEF Elsewhere
      <3>2. GroupOK(g)
        BY <1>2 DEF IInv, Calm
      <3>. QED BY <1>1, <1>2, <1>7, <1>8, <3>1, <3>2, SameWriters
    <2>. QED BY <1>5, <2>2, <2>3, <2>4 DEF IInv
  <1>9. CASE running[g] # None
    <2>1. PICK r, x :
            /\ r = running[g] /\ run' = [run EXCEPT ![r] = x]
            /\ x = [run[r] EXCEPT !.task = [t \in DOMAIN run[r].task |->
                                              [run[r].task[t] EXCEPT !.cancelled = TRUE]]]
      BY <1>9 DEF Abort
    <2>2. r \in Runs /\ run[r] # None /\ run[r] \in RunRow /\ run[r].group = g
      <3>1. r \in Runs /\ run[r] \in RunRow \union {None}
        BY <1>2, <1>9, <2>1 DEF IInv, Types
      <3>2. run[r] # None /\ run[r].group = g
        BY <1>2, <1>9, <2>1 DEF IInv, RunsKnown
      <3>. QED BY <3>1, <3>2
    <2>3. /\ x.group = g /\ x.dir = run[r].dir /\ x.pc = run[r].pc /\ x.rows = run[r].rows
          /\ DOMAIN x.task = DOMAIN run[r].task
          /\ x.task = [t \in DOMAIN run[r].task |-> [run[r].task[t] EXCEPT !.cancelled = TRUE]]
      BY <2>1, <2>2 DEF RunRow
    <2>4. DOMAIN run[r].task \in SUBSET Tasks /\ \A t \in DOMAIN run[r].task : run[r].task[t] \in Work
      BY <2>2 DEF RunRow
    <2>5. \A t \in DOMAIN run[r].task : /\ x.task[t] \in Work /\ x.task[t].pc = run[r].task[t].pc
                                        /\ x.task[t].kind = run[r].task[t].kind
                                        /\ x.task[t].failed = run[r].task[t].failed
      <3>1. ASSUME NEW w \in Work
            PROVE  LET y == [w EXCEPT !.cancelled = TRUE]
                   IN  y \in Work /\ y.pc = w.pc /\ y.kind = w.kind /\ y.failed = w.failed
        BY DEF Work
      <3>2. \A t \in DOMAIN run[r].task : x.task[t] = [run[r].task[t] EXCEPT !.cancelled = TRUE]
        BY <2>3
      <3>. QED BY <2>4, <3>1, <3>2
    <2>6. x \in RunRow /\ x # None
      <3>1. [t \in DOMAIN run[r].task |-> [run[r].task[t] EXCEPT !.cancelled = TRUE]]
              \in UNION {[S -> Work] : S \in SUBSET Tasks}
        <4>1. \A t \in DOMAIN run[r].task : [run[r].task[t] EXCEPT !.cancelled = TRUE] \in Work
          BY <2>3, <2>5
        <4>. QED BY <2>4, <4>1
      <3>2. x \in RunRow
        BY <2>1, <2>2, <3>1 DEF RunRow
      <3>. QED BY <3>2, NoneIsNil
    <2>7. /\ run' \in [Runs -> RunRow \union {None}] /\ run'[r] = x
          /\ \A k \in Runs : k # r => run'[k] = run[k]
      BY <2>1, <2>2, <2>6, RunUpdate
    <2>8. Types' /\ RunsKnown'
      <3>1. Types'
        BY <1>1, <1>3, <1>4, <2>7 DEF IInv, Types
      <3>2. \A k \in Runs : run'[k] # None => run[k] # None /\ run'[k].group = run[k].group
                                                /\ DOMAIN run'[k].task = DOMAIN run'[k].rows
        BY <2>2, <2>3, <2>7 DEF IInv, RunsKnown
      <3>3. \A k \in Runs : run[k] # None => run'[k] # None
        BY <2>6, <2>7
      <3>. QED BY <1>1, <3>1, <3>2, <3>3 DEF IInv, Types, RunsKnown
    <2>9. CallsOK'
      <3>1. \A k \in Groups : running[k] # None /\ run[running[k]].pc = "new" =>
              running'[k] = running[k] /\ run'[running[k]].pc = "new"
        BY <1>1, <2>3, <2>7 DEF IInv, Types
      <3>. QED BY <1>1, <1>6, <3>1, IdleCall, CallsGoOn
    <2>10. Calm'
      <3>. SUFFICES ASSUME ~raced PROVE Elsewhere(g) /\ GroupOK(g)'
        BY <1>1, <1>2, CalmKept
      <3>1. Elsewhere(g)
        BY <1>1, <1>3, <2>2, <2>7, IdleCall DEF Elsewhere
      <3>2. GroupOK(g)
        BY <1>2 DEF IInv, Calm
      <3>3. RunOK(g, r) /\ DOMAIN run[r].task = DOMAIN run[r].rows
        BY <1>9, <2>1, <2>2, <3>2 DEF GroupOK, IInv, RunsKnown
      <3>4. ASSUME NEW t \in DOMAIN run[r].rows, TaskOK(g, r, t) PROVE TaskOK(g, r, t)'
        BY <1>1, <2>3, <2>5, <2>7, <3>3, <3>4 DEF TaskOK
      <3>5. RunOK(g, r)'
        <4>1. Own(g)' = Own(g) /\ (Finished(g)' <=> Finished(g))
          BY <1>1 DEF Own, Finished
        <4>2. \A t \in Own(g) : tasks'[t] = tasks[t]
          BY <1>1
        <4>. QED BY <1>1, <2>3, <2>7, <3>3, <3>4, <4>1, <4>2 DEF RunOK
      <3>6. RunOK(g, running[g])'
        BY <1>1, <2>1, <3>5
      <3>. QED BY <1>1, <1>2, <1>7, <3>1, <3>2, <3>6, SameWriters
    <2>. QED BY <1>5, <2>8, <2>9, <2>10 DEF IInv
  <1>. QED BY <1>8, <1>9

\* A deletion, by a handler or at the start of the process.
LEMMA Deleting ==
    ASSUME IInv, NEW h \in Callers, NEW g, g = call[h].group,
           call[h].pc \in {"files", "previews", "tasks", "group"}
    PROVE  /\ call[h] \in Call /\ CallOK(h) /\ call[h].op = "delete" /\ g \in Groups /\ Writes(h, g)
           /\ booting <=> h = Boot
  <1>1. call[h] \in Call /\ CallOK(h) /\ call[h].op = "delete" /\ g \in Groups
    BY DEF IInv, Types, CallsOK, CallOK
  <1>2. call[h] # Idle
    BY <1>1, IdleCall
  <1>3. booting <=> h = Boot
    BY <1>2, LogSearchAssumption DEF IInv, BootOK, Callers
  <1>. QED BY <1>1, <1>3 DEF Writes

\* A deletion that moves on, or ends with an error, leaves what it has not deleted yet.
LEMMA DeletionGoesOn ==
    ASSUME IInv, NEW h \in Callers, NEW g, g = call[h].group,
           call[h].pc \in {"files", "previews", "tasks", "group"},
           NEW c \in Call, call' = [call EXCEPT ![h] = c],
           c = Idle \/ (c = [call[h] EXCEPT !.pc = c.pc] /\ c.pc \in {"previews", "tasks", "group"}
                        /\ groups' = groups),
           UNCHANGED <<running, run, booting>>
    PROVE  RunsKnown' /\ CallsOK' /\ BootOK'
  <1>1. /\ call[h] \in Call /\ CallOK(h) /\ call[h].op = "delete" /\ g \in Groups
        /\ booting <=> h = Boot
    BY Deleting
  <1>2. /\ call'[h] = c /\ \A k \in Callers : k # h => call'[k] = call[k]
    BY CallUpdate
  <1>3. c # Idle => c.op = "delete" /\ c.group = g /\ groups' = groups
    BY <1>1 DEF Call
  <1>4. CallOK(h)' /\ c.pc # "init"
    <2>1. CASE c = Idle
      BY <1>2, <2>1, IdleCall DEF CallOK
    <2>2. CASE c # Idle
      BY <1>1, <1>2, <1>3, <2>2 DEF CallOK
    <2>. QED BY <2>1, <2>2
  <1>5. CallsOK'
    BY <1>4, CallsGoOn
  <1>6. BootOK'
    <2>1. CASE h = Boot
      <3>1. booting /\ \A k \in Handlers : k # h /\ k \in Callers
        BY <1>1, <2>1, LogSearchAssumption DEF Callers
      <3>2. groups[g] # None
        BY <2>1, IdleCall DEF IInv, BootOK
      <3>. QED BY <1>2, <1>3, <2>1, <3>1, <3>2 DEF IInv, BootOK
    <2>2. CASE h # Boot
      <3>1. h \in Handlers /\ ~booting
        BY <1>1, <2>2 DEF Callers
      <3>. QED BY <3>1, BootKept
    <2>. QED BY <2>1, <2>2
  <1>. QED BY <1>5, <1>6, RunsKept

\* The files of the group are removed first.
LEMMA DeleteFilesStep ==
    ASSUME IInv, NEW h \in Callers, NEW g, g = call[h].group, DeleteFiles(h)
    PROVE  IInv'
  <1>. DEFINE c == [call[h] EXCEPT !.pc = "previews"]
  <1>1. /\ call[h].pc = "files" /\ call' = [call EXCEPT ![h] = c]
        /\ UNCHANGED <<groups, tasks, previews, running, run, raced, asked, booting>>
        /\ dirs' \subseteq dirs
        /\ files' = IF call[h].dir THEN {f \in files : f[1] # g} ELSE files
    BY DEF DeleteFiles, Goes, dbVars
  <1>2. /\ call[h] \in Call /\ CallOK(h) /\ call[h].op = "delete" /\ g \in Groups /\ Writes(h, g)
    BY <1>1, Deleting
  <1>3. /\ c \in Call /\ c.op = "delete" /\ c.group = g /\ c.dir = call[h].dir /\ c.pc = "previews"
        /\ c = [call[h] EXCEPT !.pc = c.pc]
    BY <1>2 DEF Call
  <1>. HIDE DEF c
  <1>4. /\ call' \in [Callers -> Call] /\ call'[h] = c /\ \A k \in Callers : k # h => call'[k] = call[k]
    BY <1>1, <1>3, CallUpdate
  <1>5. /\ files' \subseteq files
        /\ \A t \in Tasks, k \in Groups \ {g}, x \in Kinds : <<k, t, x>> \in files' <=> <<k, t, x>> \in files
        /\ call[h].dir => NoFiles(g)'
    BY <1>1, <1>2 DEF NoFiles
  <1>6. Types'
    BY <1>1, <1>4, <1>5 DEF IInv, Types
  <1>7. RunsKnown' /\ CallsOK' /\ BootOK'
    BY <1>1, <1>3, DeletionGoesOn
  <1>8. Calm'
    <2>. SUFFICES ASSUME ~raced PROVE Elsewhere(g) /\ GroupOK(g)'
      BY <1>1, <1>2, CalmKept
    <2>1. groups[g] # None /\ RowsOK(g) /\ DeleteOK(g, h) /\ running[g] = None
      BY <1>1, <1>2, WriterAlone
    <2>2. Elsewhere(g)
      BY <1>1, <1>3, <1>4, <1>5 DEF Elsewhere
    <2>3. NoFiles(g)'
      <3>1. ~call[h].dir => NoFiles(g)
        BY <1>2, <2>1 DEF RowsOK, DeleteOK
      <3>. QED BY <1>5, <3>1 DEF NoFiles
    <2>4. RowsOK(g)'
      BY <1>1, <2>1, <2>3 DEF RowsOK, Own
    <2>5. Kept(g)'
      BY <1>3, <1>4 DEF Kept, Stays, Writes
    <2>6. CreateOK(g, h)' /\ RetryOK(g, h)' /\ DeleteOK(g, h)'
      BY <1>1, <1>2, <1>3, <1>4, <2>1, <2>3 DEF CreateOK, RetryOK, DeleteOK
    <2>7. c # Idle
      BY <1>3, IdleCall
    <2>. QED BY <1>1, <1>2, <1>3, <2>1, <2>2, <2>4, <2>5, <2>6, <2>7, WriterGoesOn
  <1>. QED BY <1>6, <1>7, <1>8 DEF IInv

\* ... then its previews,
LEMMA DeletePreviewsStep ==
    ASSUME IInv, NEW h \in Callers, NEW g, g = call[h].group, DeletePreviews(h)
    PROVE  IInv'
  <1>. DEFINE c == [call[h] EXCEPT !.pc = "tasks"]
  <1>1. /\ call[h].pc = "previews" /\ call' = [call EXCEPT ![h] = c]
        /\ UNCHANGED <<groups, tasks, dirs, files, running, run, raced, asked, booting>>
        /\ previews' = {p \in previews : p[2] # g}
    BY DEF DeletePreviews, Goes, fileVars
  <1>2. /\ call[h] \in Call /\ CallOK(h) /\ call[h].op = "delete" /\ g \in Groups /\ Writes(h, g)
    BY <1>1, Deleting
  <1>3. /\ c \in Call /\ c.op = "delete" /\ c.group = g /\ c.dir = call[h].dir /\ c.pc = "tasks"
        /\ c = [call[h] EXCEPT !.pc = c.pc]
    BY <1>2 DEF Call
  <1>. HIDE DEF c
  <1>4. /\ call' \in [Callers -> Call] /\ call'[h] = c /\ \A k \in Callers : k # h => call'[k] = call[k]
    BY <1>1, <1>3, CallUpdate
  <1>5. /\ previews' \subseteq previews /\ NoPreviews(g)'
        /\ \A t \in Tasks, k \in Groups \ {g} : <<t, k>> \in previews' <=> <<t, k>> \in previews
    BY <1>1, <1>2 DEF NoPreviews
  <1>6. Types'
    BY <1>1, <1>4, <1>5 DEF IInv, Types
  <1>7. RunsKnown' /\ CallsOK' /\ BootOK'
    BY <1>1, <1>3, DeletionGoesOn
  <1>8. Calm'
    <2>. SUFFICES ASSUME ~raced PROVE Elsewhere(g) /\ GroupOK(g)'
      BY <1>1, <1>2, CalmKept
    <2>1. groups[g] # None /\ RowsOK(g) /\ DeleteOK(g, h) /\ running[g] = None
      BY <1>1, <1>2, WriterAlone
    <2>2. Elsewhere(g)
      BY <1>1, <1>3, <1>4, <1>5 DEF Elsewhere
    <2>3. RowsOK(g)'
      BY <1>1, <1>5, <2>1 DEF RowsOK, Own, NoFiles, NoPreviews
    <2>4. Kept(g)'
      BY <1>3, <1>4 DEF Kept, Stays, Writes
    <2>5. CreateOK(g, h)' /\ RetryOK(g, h)' /\ DeleteOK(g, h)'
      BY <1>1, <1>2, <1>3, <1>4, <1>5, <2>1 DEF CreateOK, RetryOK, DeleteOK, NoFiles
    <2>6. c # Idle
      BY <1>3, IdleCall
    <2>. QED BY <1>1, <1>2, <1>3, <2>1, <2>2, <2>3, <2>4, <2>5, <2>6, WriterGoesOn
  <1>. QED BY <1>6, <1>7, <1>8 DEF IInv

\* ... then its tasks,
LEMMA DeleteTasksStep ==
    ASSUME IInv, NEW h \in Callers, NEW g, g = call[h].group, DeleteTasks(h)
    PROVE  IInv'
  <1>. DEFINE c == [call[h] EXCEPT !.pc = "group"]
  <1>1. /\ call[h].pc = "tasks" /\ call' = [call EXCEPT ![h] = c]
        /\ UNCHANGED <<groups, previews, dirs, files, running, run, raced, asked, booting>>
        /\ tasks' = [t \in Tasks |-> IF tasks[t] # None /\ tasks[t].group = g THEN None ELSE tasks[t]]
    BY DEF DeleteTasks, Goes, fileVars
  <1>2. /\ call[h] \in Call /\ CallOK(h) /\ call[h].op = "delete" /\ g \in Groups /\ Writes(h, g)
    BY <1>1, Deleting
  <1>3. /\ c \in Call /\ c.op = "delete" /\ c.group = g /\ c.dir = call[h].dir /\ c.pc = "group"
        /\ c = [call[h] EXCEPT !.pc = c.pc]
    BY <1>2 DEF Call
  <1>. HIDE DEF c
  <1>4. /\ call' \in [Callers -> Call] /\ call'[h] = c /\ \A k \in Callers : k # h => call'[k] = call[k]
    BY <1>1, <1>3, CallUpdate
  <1>5. /\ tasks' \in [Tasks -> TaskRow \union {None}] /\ Own(g)' = {}
        /\ \A t \in Tasks : tasks'[t] = tasks[t] \/ (tasks[t].group = g /\ tasks'[t] = None)
    BY <1>1 DEF Own, IInv, Types
  <1>6. Types'
    BY <1>1, <1>4, <1>5 DEF IInv, Types
  <1>7. RunsKnown' /\ CallsOK' /\ BootOK'
    BY <1>1, <1>3, DeletionGoesOn
  <1>8. Calm'
    <2>. SUFFICES ASSUME ~raced PROVE Elsewhere(g) /\ GroupOK(g)'
      BY <1>1, <1>2, CalmKept
    <2>1. /\ groups[g] # None /\ RowsOK(g) /\ DeleteOK(g, h) /\ running[g] = None
          /\ NoFiles(g) /\ NoPreviews(g)
      BY <1>1, <1>2, WriterAlone DEF DeleteOK
    <2>2. Elsewhere(g)
      BY <1>1, <1>3, <1>4, <1>5 DEF Elsewhere
    <2>3. RowsOK(g)'
      BY <1>1, <1>5, <2>1 DEF RowsOK, NoFiles, NoPreviews
    <2>4. Kept(g)'
      BY <1>3, <1>4 DEF Kept, Stays, Writes
    <2>5. CreateOK(g, h)' /\ RetryOK(g, h)' /\ DeleteOK(g, h)'
      BY <1>1, <1>2, <1>3, <1>4, <1>5, <2>1 DEF CreateOK, RetryOK, DeleteOK, NoFiles, NoPreviews
    <2>6. c # Idle
      BY <1>3, IdleCall
    <2>. QED BY <1>1, <1>2, <1>3, <2>1, <2>2, <2>3, <2>4, <2>5, <2>6, WriterGoesOn
  <1>. QED BY <1>6, <1>7, <1>8 DEF IInv

\* ... and the group last.
LEMMA DeleteGroupStep ==
    ASSUME IInv, NEW h \in Callers, NEW g, g = call[h].group, DeleteGroup(h)
    PROVE  IInv'
  <1>1. /\ call[h].pc = "group" /\ call' = [call EXCEPT ![h] = Idle]
        /\ UNCHANGED <<tasks, previews, dirs, files, running, run, raced, booting>>
        /\ groups' = [groups EXCEPT ![g] = None] /\ asked' = asked \ {g}
    BY DEF DeleteGroup, Goes, fileVars
  <1>2. /\ call[h] \in Call /\ CallOK(h) /\ call[h].op = "delete" /\ g \in Groups /\ Writes(h, g)
    BY <1>1, Deleting
  <1>3. /\ call' \in [Callers -> Call] /\ call'[h] = Idle /\ \A k \in Callers : k # h => call'[k] = call[k]
    BY <1>1, IdleCall, CallUpdate
  <1>4. /\ groups' \in [Groups -> GroupRow \union {None}] /\ groups'[g] = None
        /\ \A k \in Groups : k # g => groups'[k] = groups[k]
    BY <1>1, <1>2 DEF IInv, Types
  <1>5. Types'
    BY <1>1, <1>3, <1>4 DEF IInv, Types
  <1>6. RunsKnown' /\ CallsOK' /\ BootOK'
    BY <1>1, IdleCall, DeletionGoesOn
  <1>7. Calm'
    <2>. SUFFICES ASSUME ~raced PROVE Elsewhere(g) /\ GroupOK(g)'
      BY <1>1, <1>2, CalmKept
    <2>1. /\ RowsOK(g) /\ running[g] = None /\ NoFiles(g) /\ NoPreviews(g) /\ Own(g) = {}
          /\ \A k \in Callers : k # h => ~Writes(k, g)
      BY <1>1, <1>2, WriterAlone DEF DeleteOK
    <2>2. Elsewhere(g)
      BY <1>1, <1>3, <1>4, IdleCall DEF Elsewhere
    <2>3. \A k \in Callers : ~Writes(k, g)'
      BY <1>2, <1>3, <2>1, IdleCall, NoneIsNil DEF Writes
    <2>4. Own(g)' = {}
      BY <1>1, <2>1 DEF Own
    <2>5. NoFiles(g)' /\ NoPreviews(g)' /\ running'[g] = None
      BY <1>1, <2>1 DEF NoFiles, NoPreviews
    <2>6. RowsOK(g)' /\ Kept(g)' /\ Quiet(g)'
      BY <1>4, <2>3, <2>4, <2>5 DEF RowsOK, Kept, Quiet, NoPreviews
    <2>. QED BY <2>2, <2>3, <2>5, <2>6 DEF GroupOK, WritersOK
  <1>. QED BY <1>5, <1>6, <1>7 DEF IInv

-----------------------------------------------------------------------------
\* What the requests have in common.
LEMMA TakeStep ==
    ASSUME IInv, NEW h \in Handlers, NEW c \in Call, Take(h, c), c.pc \in {"targets", "find", "abort", "files"},
           c.group \in Groups, c.op = (IF c.pc = "targets" THEN "create" ELSE IF c.pc = "find" THEN "retry"
                                       ELSE IF c.pc = "abort" THEN "cancel" ELSE "delete"),
           c.pc = "targets" => c.todo > 0
    PROVE  /\ call[h] = Idle /\ ~booting /\ h \in Callers
           /\ call' = [call EXCEPT ![h] = c] /\ call' \in [Callers -> Call] /\ call'[h] = c
           /\ \A k \in Callers : k # h => call'[k] = call[k]
           /\ UNCHANGED <<dirs, files, run, running, booting>>
           /\ RunsKnown' /\ CallsOK' /\ BootOK'
  <1>1. /\ call[h] = Idle /\ ~booting /\ h \in Callers /\ call' = [call EXCEPT ![h] = c]
        /\ UNCHANGED <<dirs, files, run, running, booting>>
    BY DEF Take, fileVars, Callers
  <1>2. /\ call' \in [Callers -> Call] /\ call'[h] = c /\ \A k \in Callers : k # h => call'[k] = call[k]
    BY <1>1, CallUpdate
  <1>3. CallOK(h)'
    BY <1>2 DEF CallOK
  <1>4. RunsKnown' /\ BootOK'
    BY <1>1, RunsKept, BootKept
  <1>5. CallsOK'
    BY <1>1, <1>3, CallsGoOn
  <1>. QED BY <1>1, <1>2, <1>4, <1>5

\* A handler that begins to work on a group at rest is the only one.
LEMMA NewWriter ==
    ASSUME IInv, NEW g \in Groups, NEW h \in Callers, NEW c \in Call, call' = [call EXCEPT ![h] = c],
           c.group = g, c.op # "cancel", \A k \in Callers : ~Writes(k, g), running'[g] = None,
           RowsOK(g)', Kept(g)', CreateOK(g, h)', RetryOK(g, h)', DeleteOK(g, h)'
    PROVE  GroupOK(g)'
  <1>1. /\ call'[h] = c /\ \A k \in Callers : k # h => call'[k] = call[k]
    BY CallUpdate
  <1>2. Writes(h, g)' /\ \A k \in Callers : Writes(k, g)' => k = h
    BY <1>1 DEF Writes
  <1>. QED BY <1>2 DEF GroupOK, Quiet, WritersOK

\* CreateTaskGroup: the group is new, and nothing of an earlier one with its id is left.
LEMMA CreateStep ==
    ASSUME IInv, NEW h \in Handlers, NEW n \in 1 .. MaxTargets, Create(h, n)
    PROVE  IInv'
  <1>1. PICK g, c :
          /\ g = NewId(groups) /\ g \in Groups
          /\ c = [Idle EXCEPT !.op = "create", !.pc = "targets", !.group = g, !.todo = n]
          /\ groups' = [groups EXCEPT ![g] = NewRow("running", FALSE)]
          /\ Take(h, c) /\ UNCHANGED <<tasks, previews, raced, asked>>
    BY DEF Create
  <1>2. groups[g] = None
    <2>1. DOMAIN groups = 1 .. MaxGroup /\ MaxGroup \in Nat
      BY LogSearchAssumption DEF IInv, Types, Groups
    <2>. QED BY <1>1, <2>1, NewIdFresh DEF Groups
  <1>3. /\ c \in Call /\ c.op = "create" /\ c.pc = "targets" /\ c.group = g /\ c.todo = n /\ n \in Nat /\ n > 0
        /\ ~c.dir /\ c.rows = <<>>
    <2>1. n \in Nat /\ n > 0
      BY LogSearchAssumption
    <2>. QED BY <1>1, <2>1, IdleCall DEF Call, Idle
  <1>4. /\ call[h] = Idle /\ ~booting /\ h \in Callers
        /\ call' = [call EXCEPT ![h] = c] /\ call' \in [Callers -> Call] /\ call'[h] = c
        /\ \A k \in Callers : k # h => call'[k] = call[k]
        /\ UNCHANGED <<dirs, files, run, running, booting>>
        /\ RunsKnown' /\ CallsOK' /\ BootOK'
    BY <1>1, <1>3, TakeStep
  <1>5. NewRow("running", FALSE) \in GroupRow /\ NewRow("running", FALSE) # None /\ ~NewRow("running", FALSE).dir
    <2>1. NewRow("running", FALSE) \in GroupRow /\ ~NewRow("running", FALSE).dir
      BY DEF NewRow, GroupRow
    <2>. QED BY <2>1, NoneIsNil
  <1>6. /\ groups' \in [Groups -> GroupRow \union {None}] /\ groups'[g] = NewRow("running", FALSE)
        /\ \A k \in Groups : k # g => groups'[k] = groups[k]
    BY <1>1, <1>5 DEF IInv, Types
  <1>7. Types'
    BY <1>1, <1>4, <1>6 DEF IInv, Types
  <1>8. Calm'
    <2>. SUFFICES ASSUME ~raced PROVE Elsewhere(g) /\ GroupOK(g)'
      BY <1>1, CalmKept
    <2>1. RowsOK(g) /\ running[g] = None /\ Own(g) = {} /\ NoPreviews(g) /\ NoFiles(g) /\ \A k \in Callers : ~Writes(k, g)
      BY <1>1, <1>2 DEF IInv, Calm, GroupOK, RowsOK
    <2>2. Elsewhere(g)
      BY <1>1, <1>3, <1>4, <1>6, IdleCall DEF Elsewhere
    <2>3. Own(g)' = {} /\ NoPreviews(g)' /\ NoFiles(g)' /\ running'[g] = None
      BY <1>1, <1>4, <2>1 DEF Own, NoPreviews, NoFiles
    <2>4. RowsOK(g)' /\ Kept(g)'
      BY <1>5, <1>6, <2>3 DEF RowsOK, Kept, NoPreviews
    <2>5. CreateOK(g, h)' /\ RetryOK(g, h)' /\ DeleteOK(g, h)'
      BY <1>3, <1>4, <1>6, <2>3, RowsMember DEF CreateOK, RetryOK, DeleteOK
    <2>. QED BY <1>1, <1>3, <1>4, <2>1, <2>2, <2>3, <2>4, <2>5, NewWriter
  <1>. QED BY <1>4, <1>7, <1>8 DEF IInv

\* A request that meets no other and no run of its group finds it finished.
LEMMA FoundQuiet ==
    ASSUME IInv, NEW h \in Handlers, NEW g \in Groups, groups[g] # None, call[h] = Idle, ~booting,
           raced' = (raced \/ Busy(g, h)), ~raced'
    PROVE  /\ ~raced /\ GroupOK(g) /\ running[g] = None /\ Finished(g) /\ Stays(g)
           /\ \A k \in Callers : ~Writes(k, g)
  <1>1. ~raced /\ ~Busy(g, h)
    OBVIOUS
  <1>2. running[g] = None /\ \A k \in Handlers : k # h => ~Writes(k, g)
    BY <1>1 DEF Busy, Writes
  <1>3. call[Boot] = Idle
    BY DEF IInv, BootOK
  <1>4. \A k \in Callers : ~Writes(k, g)
    BY <1>2, <1>3, IdleCall, NoneIsNil DEF Writes, Callers
  <1>5. GroupOK(g)
    BY <1>1 DEF IInv, Calm
  <1>. QED BY <1>1, <1>2, <1>4, <1>5 DEF GroupOK, Quiet, Stays

\* A retry begins when the group is at rest, or has raced.
LEMMA RetryStep ==
    ASSUME IInv, NEW h \in Handlers, NEW g \in Groups, Retry(h, g)
    PROVE  IInv'
  <1>1. PICK c :
          /\ c = [Idle EXCEPT !.op = "retry", !.pc = "find", !.group = g, !.dir = groups[g].dir]
          /\ groups[g] # None /\ Take(h, c) /\ raced' = (raced \/ Busy(g, h))
          /\ UNCHANGED <<groups, tasks, previews, asked>>
    BY DEF Retry, dbVars
  <1>2. groups[g].dir \in BOOLEAN
    BY <1>1 DEF IInv, Types, GroupRow
  <1>3. c \in Call /\ c.op = "retry" /\ c.pc = "find" /\ c.group = g /\ c.dir = groups[g].dir
    BY <1>1, <1>2, IdleCall DEF Call, Idle
  <1>4. /\ call[h] = Idle /\ ~booting /\ h \in Callers
        /\ call' = [call EXCEPT ![h] = c] /\ call' \in [Callers -> Call] /\ call'[h] = c
        /\ \A k \in Callers : k # h => call'[k] = call[k]
        /\ UNCHANGED <<dirs, files, run, running, booting>>
        /\ RunsKnown' /\ CallsOK' /\ BootOK'
    BY <1>1, <1>3, TakeStep
  <1>5. raced' \in BOOLEAN
    BY <1>1
  <1>6. Types'
    BY <1>1, <1>4, <1>5 DEF IInv, Types
  <1>7. Calm'
    <2>. SUFFICES ASSUME ~raced' PROVE Elsewhere(g) /\ GroupOK(g)'
      BY <1>1, CalmKept
    <2>1. /\ ~raced /\ GroupOK(g) /\ running[g] = None /\ Finished(g) /\ Stays(g)
          /\ \A k \in Callers : ~Writes(k, g)
      BY <1>1, <1>4, FoundQuiet
    <2>2. Elsewhere(g)
      BY <1>1, <1>3, <1>4, IdleCall DEF Elsewhere
    <2>3. RowsOK(g)' /\ Kept(g)'
      BY <1>1, <1>4, <2>1 DEF GroupOK, RowsOK, Kept, NoPreviews, NoFiles, Own
    <2>4. CreateOK(g, h)' /\ RetryOK(g, h)' /\ DeleteOK(g, h)'
      <3>1. Finished(g)'
        BY <1>1, <2>1 DEF Finished, Own
      <3>. QED BY <1>1, <1>3, <1>4, <3>1 DEF CreateOK, RetryOK, DeleteOK
    <2>. QED BY <1>3, <1>4, <2>1, <2>2, <2>3, <2>4, NewWriter
  <1>. QED BY <1>4, <1>6, <1>7 DEF IInv

\* What a deletion starts with.
LEMMA DeletionCall ==
    ASSUME IInv, NEW g \in Groups, groups[g] # None
    PROVE  /\ Deletion(g) \in Call /\ Deletion(g).op = "delete" /\ Deletion(g).pc = "files"
           /\ Deletion(g).group = g /\ Deletion(g).dir = groups[g].dir
  <1>1. groups[g].dir \in BOOLEAN
    BY DEF IInv, Types, GroupRow
  <1>. QED BY <1>1, IdleCall DEF Call, Idle, Deletion

\* A deletion begins when the group is at rest, or has raced.
LEMMA DeleteStep ==
    ASSUME IInv, NEW h \in Handlers, NEW g \in Groups, Delete(h, g)
    PROVE  IInv'
  <1>. DEFINE c == Deletion(g)
  <1>1. /\ groups[g] # None /\ Take(h, c) /\ raced' = (raced \/ Busy(g, h))
        /\ UNCHANGED <<groups, tasks, previews, asked>>
    BY DEF Delete, dbVars
  <1>2. c \in Call /\ c.op = "delete" /\ c.pc = "files" /\ c.group = g /\ c.dir = groups[g].dir
    BY <1>1, DeletionCall
  <1>. HIDE DEF c
  <1>3. /\ call[h] = Idle /\ ~booting /\ h \in Callers
        /\ call' = [call EXCEPT ![h] = c] /\ call' \in [Callers -> Call] /\ call'[h] = c
        /\ \A k \in Callers : k # h => call'[k] = call[k]
        /\ UNCHANGED <<dirs, files, run, running, booting>>
        /\ RunsKnown' /\ CallsOK' /\ BootOK'
    BY <1>1, <1>2, TakeStep
  <1>4. raced' \in BOOLEAN
    BY <1>1
  <1>5. Types'
    BY <1>1, <1>3, <1>4 DEF IInv, Types
  <1>6. Calm'
    <2>. SUFFICES ASSUME ~raced' PROVE Elsewhere(g) /\ GroupOK(g)'
      BY <1>1, CalmKept
    <2>1. /\ ~raced /\ GroupOK(g) /\ running[g] = None
          /\ \A k \in Callers : ~Writes(k, g)
      BY <1>1, <1>3, FoundQuiet
    <2>2. Elsewhere(g)
      BY <1>1, <1>2, <1>3, IdleCall DEF Elsewhere
    <2>3. RowsOK(g)'
      BY <1>1, <1>3, <2>1 DEF GroupOK, RowsOK, NoPreviews, NoFiles, Own
    <2>4. Kept(g)'
      BY <1>2, <1>3 DEF Kept, Stays, Writes
    <2>5. CreateOK(g, h)' /\ RetryOK(g, h)' /\ DeleteOK(g, h)'
      BY <1>1, <1>2, <1>3 DEF CreateOK, RetryOK, DeleteOK
    <2>. QED BY <1>2, <1>3, <2>1, <2>2, <2>3, <2>4, <2>5, NewWriter
  <1>. QED BY <1>3, <1>5, <1>6 DEF IInv

\* A cancellation only tells the run.
LEMMA CancelStep ==
    ASSUME IInv, NEW h \in Handlers, NEW g \in Groups, Cancel(h, g)
    PROVE  IInv'
  <1>1. PICK c :
          /\ c = [Idle EXCEPT !.op = "cancel", !.pc = "abort", !.group = g]
          /\ Take(h, c) /\ UNCHANGED <<groups, tasks, previews, raced, asked>>
    BY DEF Cancel, dbVars
  <1>2. c \in Call /\ c.op = "cancel" /\ c.pc = "abort" /\ c.group = g
    BY <1>1, IdleCall DEF Call, Idle
  <1>3. /\ call[h] = Idle /\ ~booting /\ h \in Callers
        /\ call' = [call EXCEPT ![h] = c] /\ call' \in [Callers -> Call] /\ call'[h] = c
        /\ \A k \in Callers : k # h => call'[k] = call[k]
        /\ UNCHANGED <<dirs, files, run, running, booting>>
        /\ RunsKnown' /\ CallsOK' /\ BootOK'
    BY <1>1, <1>2, TakeStep
  <1>4. Types'
    BY <1>1, <1>3 DEF IInv, Types
  <1>5. Calm'
    <2>. SUFFICES ASSUME ~raced PROVE Elsewhere(g) /\ GroupOK(g)'
      BY <1>1, CalmKept
    <2>1. GroupOK(g)
      BY DEF IInv, Calm
    <2>2. Elsewhere(g)
      BY <1>1, <1>2, <1>3, IdleCall DEF Elsewhere
    <2>3. \A k \in Callers : (Writes(k, g)' <=> Writes(k, g)) /\ (Writes(k, g) => call'[k] = call[k])
      BY <1>2, <1>3, IdleCall, NoneIsNil DEF Writes
    <2>4. running[g] # None => RunOK(g, running[g])'
      <3>. SUFFICES ASSUME running[g] # None, NEW r, r = running[g] PROVE RunOK(g, r)'
        BY <1>3
      <3>1. RunOK(g, r)
        BY <2>1 DEF GroupOK
      <3>. QED BY <1>1, <1>3, <3>1, RunRests
    <2>. QED BY <1>1, <1>3, <2>1, <2>2, <2>3, <2>4, SameWriters
  <1>. QED BY <1>3, <1>4, <1>5 DEF IInv

-----------------------------------------------------------------------------
\* A run that has started has its group to itself.
LEMMA RunAlone ==
    ASSUME IInv, ~raced, NEW r \in Runs, run[r] # None, run[r].pc # "new", NEW g, g = run[r].group
    PROVE  /\ g \in Groups /\ running[g] = r /\ running[g] # None /\ groups[g] # None /\ groups[g] \in GroupRow
           /\ RowsOK(g) /\ Kept(g) /\ Stays(g) /\ RunOK(g, r) /\ ~booting
           /\ \A k \in Callers : ~Writes(k, g)
  <1>1. g \in Groups /\ running[g] = r /\ running[g] # None
    BY NoneIsNil DEF IInv, Types, RunRow, RunsKnown
  <1>2. GroupOK(g)
    BY <1>1 DEF IInv, Calm
  <1>3. groups[g] # None /\ groups[g] \in GroupRow
    BY <1>1, <1>2 DEF GroupOK, RowsOK, IInv, Types
  <1>4. ~booting
    BY DEF IInv, BootOK
  <1>5. ASSUME NEW k \in Callers PROVE ~Writes(k, g)
    <2>1. CASE call[k].pc = "init"
      BY <1>1, <2>1 DEF IInv, CallsOK, CallOK, Writes
    <2>2. CASE call[k].pc # "init"
      BY <1>1, <1>2, <2>2 DEF GroupOK, WritersOK
    <2>. QED BY <2>1, <2>2
  <1>. QED BY <1>1, <1>2, <1>3, <1>4, <1>5 DEF GroupOK, Stays

\* A run that moves on keeps its group and its tasks, and so what is known of runs.
LEMMA RunGoesOn ==
    ASSUME IInv, NEW r \in Runs, run[r] # None, run[r].pc # "new",
           NEW x \in RunRow, x.group = run[r].group, DOMAIN x.task = DOMAIN x.rows,
           run' = [run EXCEPT ![r] = x], UNCHANGED <<call, booting, running>>
    PROVE  /\ run' \in [Runs -> RunRow \union {None}] /\ run'[r] = x
           /\ \A k \in Runs : k # r => run'[k] = run[k]
           /\ RunsKnown' /\ CallsOK' /\ BootOK' /\ x # None
  <1>1. /\ run' \in [Runs -> RunRow \union {None}] /\ run'[r] = x /\ x # None
        /\ \A k \in Runs : k # r => run'[k] = run[k]
    BY RunUpdate, NoneIsNil
  <1>2. RunsKnown'
    <2>1. \A k \in Runs : run'[k] # None => run[k] # None /\ run'[k].group = run[k].group
                                              /\ DOMAIN run'[k].task = DOMAIN run'[k].rows
      BY <1>1 DEF IInv, RunsKnown
    <2>2. \A k \in Runs : run[k] # None => run'[k] # None
      BY <1>1
    <2>. QED BY <1>1, <2>1, <2>2 DEF IInv, Types, RunsKnown
  <1>3. CallsOK'
    <2>1. ASSUME NEW k \in Callers PROVE CallOK(k)'
      <3>1. CallOK(k)
        BY DEF IInv, CallsOK
      <3>2. call[k].pc = "init" => running[call[k].group] \in Runs /\ running[call[k].group] # r
        BY <3>1 DEF CallOK, IInv, Types
      <3>. QED BY <1>1, <3>1, <3>2 DEF CallOK
    <2>. QED BY <2>1 DEF IInv, CallsOK
  <1>4. BootOK'
    <2>1. ~booting /\ call[Boot] = Idle
      BY DEF IInv, BootOK
    <2>. QED BY <2>1 DEF BootOK
  <1>. QED BY <1>1, <1>2, <1>3, <1>4

\* A group stays as it should be when its run moves on as it should.
LEMMA RunKeepsGroup ==
    ASSUME IInv, ~raced, NEW r \in Runs, run[r] # None, run[r].pc # "new", NEW g, g = run[r].group,
           UNCHANGED <<call, booting, running>>, RowsOK(g)', Kept(g)', RunOK(g, r)'
    PROVE  GroupOK(g)'
  <1>1. /\ running[g] = r /\ running[g] # None /\ \A k \in Callers : ~Writes(k, g)
    BY RunAlone
  <1>2. \A k \in Callers : ~Writes(k, g)'
    BY <1>1 DEF Writes
  <1>3. RunOK(g, running[g])'
    BY <1>1
  <1>. QED BY <1>1, <1>2, <1>3 DEF GroupOK, Quiet, WritersOK

\* The tasks of a run are as before when only the run itself goes on.
LEMMA TasksKept ==
    ASSUME IInv, NEW r \in Runs, run[r] # None, NEW g, g = run[r].group, NEW x \in RunRow,
           run'[r] = x, x.rows = run[r].rows, x.task = run[r].task, run[r].dir => x.dir,
           UNCHANGED <<tasks, previews, files>>
    PROVE  /\ Own(g)' = Own(g)
           /\ \A t \in DOMAIN x.rows : TaskOK(g, r, t) => TaskOK(g, r, t)'
           /\ Kept(g) /\ Stays(g) => Kept(g)'
  BY DEF Own, TaskOK, Kept

\* A run that goes on to its tasks, or is about to, is as it should be.
LEMMA RunSearches ==
    ASSUME NEW g, NEW r, NEW x, run'[r] = x, x.pc # "leave", groups'[g].state = "running",
           x.dir = (x.pc = "saveDir" \/ groups'[g].dir), tasks' = tasks, Own(g)' = Own(g),
           DOMAIN x.rows # {}, DOMAIN x.rows \subseteq Own(g),
           \A t \in DOMAIN x.rows : TaskOK(g, r, t)',
           \A t \in Own(g) \ DOMAIN x.rows : tasks[t].state = "finished"
    PROVE  RunOK(g, r)'
  BY DEF RunOK

\* TaskGroup.SyncRun: the directory, or none.
LEMMA MkDirStep ==
    ASSUME IInv, NEW r \in Runs, NEW g, g = run[r].group, MkDir(r) \/ MkDirFails(r)
    PROVE  IInv'
  <1>. DEFINE x == IF MkDir(r) THEN [run[r] EXCEPT !.pc = "saveDir", !.dir = TRUE]
                   ELSE [run[r] EXCEPT !.pc = "tasks"]
  <1>1. /\ run[r] # None /\ run[r].pc = "mkdir" /\ run' = [run EXCEPT ![r] = x]
        /\ UNCHANGED <<groups, tasks, previews, files, running, call, booting, raced, asked>>
        /\ dirs' = dirs \/ dirs' = dirs \union {run[r].group}
    BY DEF MkDir, MkDirFails, RunGoes, dbVars
  <1>2. run[r] \in RunRow /\ g \in Groups /\ DOMAIN run[r].task = DOMAIN run[r].rows
    BY <1>1 DEF IInv, Types, RunsKnown, RunRow
  <1>3. /\ x \in RunRow /\ x.group = g /\ x.rows = run[r].rows /\ x.task = run[r].task
        /\ \/ x.pc = "saveDir" /\ x.dir = TRUE
           \/ x.pc = "tasks" /\ x.dir = run[r].dir
    <2>1. CASE MkDir(r)
      BY <1>2, <2>1 DEF RunRow
    <2>2. CASE ~MkDir(r)
      BY <1>2, <2>2 DEF RunRow
    <2>. QED BY <2>1, <2>2
  <1>. HIDE DEF x
  <1>4. /\ run' \in [Runs -> RunRow \union {None}] /\ run'[r] = x
        /\ \A k \in Runs : k # r => run'[k] = run[k]
        /\ RunsKnown' /\ CallsOK' /\ BootOK'
    BY <1>1, <1>2, <1>3, RunGoesOn
  <1>5. Types'
    BY <1>1, <1>2, <1>4 DEF IInv, Types
  <1>6. Calm'
    <2>. SUFFICES ASSUME ~raced PROVE Elsewhere(g) /\ GroupOK(g)'
      BY <1>1, <1>2, CalmKept
    <2>1. RowsOK(g) /\ Kept(g) /\ Stays(g) /\ RunOK(g, r) /\ groups[g] \in GroupRow
      BY <1>1, RunAlone
    <2>2. Elsewhere(g)
      BY <1>1, <1>4 DEF Elsewhere
    <2>3. RowsOK(g)'
      BY <1>1, <2>1 DEF RowsOK, NoPreviews, NoFiles, Own, Writes
    <2>4. /\ Own(g)' = Own(g) /\ Kept(g)'
          /\ \A t \in DOMAIN x.rows : TaskOK(g, r, t) => TaskOK(g, r, t)'
      BY <1>1, <1>2, <1>3, <1>4, <2>1, TasksKept
    <2>5. RunOK(g, r)'
      <3>1. x.dir = (x.pc = "saveDir" \/ groups[g].dir)
        BY <1>1, <1>3, <2>1 DEF RunOK, GroupRow
      <3>2. /\ DOMAIN x.rows # {} /\ DOMAIN x.rows \subseteq Own(g) /\ groups[g].state = "running"
            /\ \A t \in DOMAIN x.rows : TaskOK(g, r, t)
            /\ \A t \in Own(g) \ DOMAIN x.rows : tasks[t].state = "finished"
        BY <1>1, <1>3, <2>1 DEF RunOK
      <3>3. x.pc # "leave" /\ groups'[g] = groups[g] /\ tasks' = tasks
        BY <1>1, <1>3
      <3>. QED BY <1>4, <2>4, <3>1, <3>2, <3>3, RunSearches
    <2>. QED BY <1>1, <2>2, <2>3, <2>4, <2>5, RunKeepsGroup
  <1>. QED BY <1>4, <1>5, <1>6 DEF IInv

\* The run stores the name of its directory before any task runs.
LEMMA SaveDirStep ==
    ASSUME IInv, NEW r \in Runs, NEW g, g = run[r].group, SaveDir(r)
    PROVE  IInv'
  <1>. DEFINE x == [run[r] EXCEPT !.pc = "tasks"]
  <1>1. /\ run[r] # None /\ run[r].pc = "saveDir" /\ run' = [run EXCEPT ![r] = x]
        /\ groups' = [groups EXCEPT ![g] = NewRow("running", TRUE)]
        /\ UNCHANGED <<tasks, previews, dirs, files, running, call, booting, raced, asked>>
    BY DEF SaveDir, RunGoes
  <1>2. run[r] \in RunRow /\ g \in Groups /\ DOMAIN run[r].task = DOMAIN run[r].rows
    BY <1>1 DEF IInv, Types, RunsKnown, RunRow
  <1>3. /\ x \in RunRow /\ x.group = g /\ x.rows = run[r].rows /\ x.task = run[r].task
        /\ x.pc = "tasks" /\ x.dir = run[r].dir
    BY <1>2 DEF RunRow
  <1>. HIDE DEF x
  <1>4. /\ run' \in [Runs -> RunRow \union {None}] /\ run'[r] = x
        /\ \A k \in Runs : k # r => run'[k] = run[k]
        /\ RunsKnown' /\ CallsOK' /\ BootOK'
    BY <1>1, <1>2, <1>3, RunGoesOn
  <1>5. /\ groups' \in [Groups -> GroupRow \union {None}] /\ groups'[g] # None
        /\ groups'[g].state = "running" /\ groups'[g].dir = TRUE
        /\ \A k \in Groups : k # g => groups'[k] = groups[k]
    <2>1. NewRow("running", TRUE) \in GroupRow /\ NewRow("running", TRUE) # None
          /\ NewRow("running", TRUE).state = "running" /\ NewRow("running", TRUE).dir = TRUE
      <3>1. /\ NewRow("running", TRUE) \in GroupRow
            /\ NewRow("running", TRUE).state = "running" /\ NewRow("running", TRUE).dir = TRUE
        BY DEF NewRow, GroupRow
      <3>. QED BY <3>1, NoneIsNil
    <2>. QED BY <1>1, <1>2, <2>1 DEF IInv, Types
  <1>6. Types'
    BY <1>1, <1>4, <1>5 DEF IInv, Types
  <1>7. Calm'
    <2>. SUFFICES ASSUME ~raced PROVE Elsewhere(g) /\ GroupOK(g)'
      BY <1>1, <1>2, CalmKept
    <2>1. RowsOK(g) /\ Kept(g) /\ Stays(g) /\ RunOK(g, r)
      BY <1>1, RunAlone
    <2>2. Elsewhere(g)
      BY <1>1, <1>4, <1>5 DEF Elsewhere
    <2>3. RowsOK(g)'
      BY <1>1, <1>5, <2>1 DEF RowsOK, NoPreviews, NoFiles, Own
    <2>4. /\ Own(g)' = Own(g) /\ Kept(g)'
          /\ \A t \in DOMAIN x.rows : TaskOK(g, r, t) => TaskOK(g, r, t)'
      BY <1>1, <1>2, <1>3, <1>4, <2>1, TasksKept
    <2>5. RunOK(g, r)'
      <3>1. run[r].dir = TRUE
        BY <1>1, <1>2, <2>1 DEF RunOK, RunRow
      <3>2. /\ DOMAIN x.rows # {} /\ DOMAIN x.rows \subseteq Own(g)
            /\ \A t \in DOMAIN x.rows : TaskOK(g, r, t)
            /\ \A t \in Own(g) \ DOMAIN x.rows : tasks[t].state = "finished"
        BY <1>1, <1>3, <2>1 DEF RunOK
      <3>3. x.pc # "leave" /\ x.dir = TRUE /\ groups'[g].state = "running" /\ groups'[g].dir = TRUE
        BY <1>3, <1>5, <3>1
      <3>4. run'[r] = x /\ tasks' = tasks
        BY <1>1, <1>4
      <3>. QED BY <2>4, <3>2, <3>3, <3>4, RunSearches
    <2>. QED BY <1>1, <2>2, <2>3, <2>4, <2>5, RunKeepsGroup
  <1>. QED BY <1>4, <1>6, <1>7 DEF IInv

\* TaskGroup.SyncRun: all tasks are done, so that none is left running.
LEMMA SaveFinishedStep ==
    ASSUME IInv, NEW r \in Runs, NEW g, g = run[r].group, SaveFinished(r)
    PROVE  IInv'
  <1>. DEFINE x == [run[r] EXCEPT !.pc = "leave"]
  <1>1. /\ run[r] # None /\ run[r].pc = "tasks" /\ run' = [run EXCEPT ![r] = x] /\ TasksDone(r)
        /\ groups' = [groups EXCEPT ![g] = NewRow("finished", run[r].dir)] /\ asked' = asked \ {g}
        /\ UNCHANGED <<tasks, previews, dirs, files, running, call, booting, raced>>
    BY DEF SaveFinished, RunGoes
  <1>2. run[r] \in RunRow /\ g \in Groups /\ DOMAIN run[r].task = DOMAIN run[r].rows /\ run[r].dir \in BOOLEAN
    BY <1>1 DEF IInv, Types, RunsKnown, RunRow
  <1>3. /\ x \in RunRow /\ x.group = g /\ x.rows = run[r].rows /\ x.task = run[r].task
        /\ x.pc = "leave" /\ x.dir = run[r].dir
    BY <1>2 DEF RunRow
  <1>. HIDE DEF x
  <1>4. /\ run' \in [Runs -> RunRow \union {None}] /\ run'[r] = x
        /\ \A k \in Runs : k # r => run'[k] = run[k]
        /\ RunsKnown' /\ CallsOK' /\ BootOK'
    BY <1>1, <1>2, <1>3, RunGoesOn
  <1>5. /\ groups' \in [Groups -> GroupRow \union {None}] /\ groups'[g] # None
        /\ groups'[g].state = "finished" /\ groups'[g].dir = run[r].dir
        /\ \A k \in Groups : k # g => groups'[k] = groups[k]
    <2>1. NewRow("finished", run[r].dir) \in GroupRow /\ NewRow("finished", run[r].dir) # None
          /\ NewRow("finished", run[r].dir).state = "finished" /\ NewRow("finished", run[r].dir).dir = run[r].dir
      BY <1>2, NoneIsNil DEF NewRow, GroupRow
    <2>. QED BY <1>1, <1>2, <2>1 DEF IInv, Types
  <1>6. Types'
    BY <1>1, <1>4, <1>5 DEF IInv, Types
  <1>7. Calm'
    <2>. SUFFICES ASSUME ~raced PROVE Elsewhere(g) /\ GroupOK(g)'
      BY <1>1, <1>2, CalmKept
    <2>1. RowsOK(g) /\ Kept(g) /\ Stays(g) /\ RunOK(g, r) /\ groups[g] \in GroupRow /\ groups[g] # None
      BY <1>1, RunAlone
    <2>2. Elsewhere(g)
      BY <1>1, <1>4, <1>5 DEF Elsewhere
    <2>3. run[r].dir <=> groups[g].dir
      BY <1>1, <2>1 DEF RunOK, GroupRow
    <2>4. RowsOK(g)'
      BY <1>1, <1>5, <2>1, <2>3 DEF RowsOK, NoPreviews, NoFiles, Own
    <2>5. Own(g)' = Own(g) /\ Kept(g)'
      BY <1>1, <1>2, <1>3, <1>4, <2>1, TasksKept
    <2>6. Finished(g)'
      <3>1. \A t \in DOMAIN run[r].rows : tasks[t].state # "running"
        BY <1>1, <1>2, <2>1 DEF RunOK, TaskOK, TasksDone
      <3>2. Own(g) # {} /\ \A t \in Own(g) \ DOMAIN run[r].rows : tasks[t].state = "finished"
        BY <1>1, <2>1 DEF RunOK
      <3>. QED BY <1>1, <1>5, <2>5, <3>1, <3>2 DEF Finished
    <2>7. RunOK(g, r)'
      BY <1>2, <1>3, <1>4, <1>5, <2>6 DEF RunOK
    <2>. QED BY <1>1, <2>2, <2>4, <2>5, <2>7, RunKeepsGroup
  <1>. QED BY <1>4, <1>6, <1>7 DEF IInv

\* The group that a run leaves behind is finished.
LEMMA LeaveStep ==
    ASSUME IInv, NEW r \in Runs, NEW g, g = run[r].group, Leave(r)
    PROVE  IInv'
  <1>1. /\ run[r] # None /\ run[r].pc = "leave" /\ run' = [run EXCEPT ![r] = None]
        /\ running' = [running EXCEPT ![g] = None]
        /\ UNCHANGED <<groups, tasks, previews, dirs, files, call, booting, raced, asked>>
    BY DEF Leave, dbVars, fileVars
  <1>2. run[r] \in RunRow /\ g \in Groups /\ running[g] = r /\ r # None
    BY <1>1, NoneIsNil DEF IInv, Types, RunsKnown, RunRow
  <1>3. /\ run' \in [Runs -> RunRow \union {None}] /\ run'[r] = None
        /\ \A k \in Runs : k # r => run'[k] = run[k]
    BY <1>1, RunUpdate
  <1>4. /\ running' \in [Groups -> Runs \union {None}] /\ running'[g] = None
        /\ \A k \in Groups : k # g => running'[k] = running[k]
    BY <1>1, <1>2 DEF IInv, Types
  <1>5. Types'
    BY <1>1, <1>3, <1>4 DEF IInv, Types
  <1>6. RunsKnown'
    <2>1. ASSUME NEW k \in Runs, run'[k] # None
          PROVE  running'[run'[k].group] = k /\ DOMAIN run'[k].task = DOMAIN run'[k].rows
      <3>1. k # r /\ run'[k] = run[k] /\ run[k].group \in Groups
        BY <1>3, <2>1 DEF IInv, Types, RunRow
      <3>2. run[k].group # g
        BY <1>2, <2>1, <3>1 DEF IInv, RunsKnown
      <3>. QED BY <1>4, <2>1, <3>1, <3>2 DEF IInv, RunsKnown
    <2>2. ASSUME NEW k \in Groups, running'[k] # None
          PROVE  run'[running'[k]] # None /\ run'[running'[k]].group = k
      <3>1. k # g /\ running'[k] = running[k] /\ running[k] \in Runs
        BY <1>4, <2>2 DEF IInv, Types
      <3>2. run[running[k]] # None /\ run[running[k]].group = k
        BY <2>2, <3>1 DEF IInv, RunsKnown
      <3>. QED BY <1>3, <3>1, <3>2
    <2>. QED BY <2>1, <2>2 DEF RunsKnown
  <1>7. CallsOK'
    <2>1. ASSUME NEW k \in Callers PROVE CallOK(k)'
      <3>1. CallOK(k)
        BY DEF IInv, CallsOK
      <3>2. call[k].pc = "init" => /\ call[k].group \in Groups /\ call[k].group # g
                                   /\ running[call[k].group] \in Runs /\ running[call[k].group] # r
        BY <1>1, <1>2, <3>1 DEF CallOK, IInv, Types
      <3>. QED BY <1>1, <1>3, <1>4, <3>1, <3>2 DEF CallOK
    <2>. QED BY <1>1, <2>1 DEF IInv, CallsOK
  <1>8. BootOK'
    <2>1. ~booting /\ call[Boot] = Idle
      BY <1>1 DEF IInv, BootOK
    <2>. QED BY <1>1, <2>1 DEF BootOK
  <1>9. Calm'
    <2>. SUFFICES ASSUME ~raced PROVE Elsewhere(g) /\ GroupOK(g)'
      BY <1>1, <1>2, CalmKept
    <2>1. /\ RowsOK(g) /\ Kept(g) /\ Stays(g) /\ RunOK(g, r) /\ groups[g] # None
          /\ \A k \in Callers : ~Writes(k, g)
      BY <1>1, RunAlone
    <2>2. Elsewhere(g)
      BY <1>1, <1>3, <1>4 DEF Elsewhere
    <2>3. RowsOK(g)' /\ Kept(g)'
      BY <1>1, <2>1 DEF RowsOK, Kept, NoPreviews, NoFiles, Own
    <2>4. Finished(g)'
      BY <1>1, <2>1 DEF RunOK, Finished, Own
    <2>5. \A k \in Callers : ~Writes(k, g)'
      BY <1>1, <2>1 DEF Writes
    <2>. QED BY <1>4, <2>2, <2>3, <2>4, <2>5 DEF GroupOK, Quiet, WritersOK
  <1>. QED BY <1>5, <1>6, <1>7, <1>8, <1>9 DEF IInv

-----------------------------------------------------------------------------
\* The goroutine of a task: what it has, and what its group has to say of it.
LEMMA TaskTypes ==
    ASSUME IInv, NEW r \in Runs, run[r] # None, NEW t \in DOMAIN run[r].task
    PROVE  /\ run[r] \in RunRow /\ run[r].group \in Groups /\ t \in Tasks /\ t \in DOMAIN run[r].rows
           /\ run[r].task[t] \in Work /\ run[r].rows[t] \in TaskRow
           /\ DOMAIN run[r].task = DOMAIN run[r].rows /\ DOMAIN run[r].task \in SUBSET Tasks
           /\ run[r].task \in [DOMAIN run[r].task -> Work]
           /\ run[r].rows \in [DOMAIN run[r].task -> TaskRow]
  <1>1. run[r] \in RunRow /\ DOMAIN run[r].task = DOMAIN run[r].rows
    BY DEF IInv, Types, RunsKnown
  <1>2. /\ run[r].task \in [DOMAIN run[r].task -> Work] /\ DOMAIN run[r].task \in SUBSET Tasks
        /\ run[r].group \in Groups /\ run[r].rows \in Rows
    BY <1>1 DEF RunRow
  <1>3. run[r].rows \in [DOMAIN run[r].rows -> TaskRow]
    BY <1>2, RowsMember
  <1>. QED BY <1>1, <1>2, <1>3

\* A task of a run belongs to the group of the run and has a row.
LEMMA TaskKnown ==
    ASSUME IInv, ~raced, NEW r \in Runs, run[r] # None, run[r].pc = "tasks", NEW t \in DOMAIN run[r].task,
           NEW g, g = run[r].group
    PROVE  /\ t \in Own(g) /\ tasks[t] # None /\ tasks[t].group = g /\ TaskOK(g, r, t)
           /\ run[r].dir <=> groups[g].dir
           /\ tasks[t].state # "finished" => "log" \notin tasks[t].paths
           /\ tasks[t].state = "error" => <<t, g>> \notin previews
           /\ \A k \in tasks[t].paths : <<g, t, k>> \in files
  <1>1. RowsOK(g) /\ Kept(g) /\ Stays(g) /\ RunOK(g, r) /\ groups[g] \in GroupRow
    BY RunAlone
  <1>2. t \in DOMAIN run[r].rows
    BY TaskTypes
  <1>3. t \in Own(g) /\ TaskOK(g, r, t)
    BY <1>1, <1>2 DEF RunOK
  <1>4. run[r].dir <=> groups[g].dir
    BY <1>1 DEF RunOK, GroupRow
  <1>. QED BY <1>1, <1>3, <1>4 DEF RowsOK, Kept, Own

\* What a run becomes when a task of it does.
Updated(r, t, w, row) ==
    [run[r] EXCEPT !.task = [run[r].task EXCEPT ![t] = w], !.rows = [run[r].rows EXCEPT ![t] = row]]

\* A task that moves on leaves the rest of its run alone.
LEMMA TaskUpdate ==
    ASSUME IInv, NEW r \in Runs, run[r] # None, NEW t \in DOMAIN run[r].task,
           NEW w \in Work, NEW row \in TaskRow, NEW x,
           x = Updated(r, t, w, row)
    PROVE  /\ x \in RunRow /\ x.group = run[r].group /\ x.dir = run[r].dir /\ x.pc = run[r].pc
           /\ DOMAIN x.task = DOMAIN run[r].task /\ DOMAIN x.rows = DOMAIN run[r].task
           /\ x.task[t] = w /\ x.rows[t] = row
           /\ \A u \in DOMAIN run[r].task : u # t => x.task[u] = run[r].task[u] /\ x.rows[u] = run[r].rows[u]
  <1>. DEFINE S == DOMAIN run[r].task
              task == [run[r].task EXCEPT ![t] = w]
              rows == [run[r].rows EXCEPT ![t] = row]
  <1>1. /\ run[r] \in RunRow /\ S \in SUBSET Tasks /\ run[r].task \in [S -> Work] /\ run[r].rows \in [S -> TaskRow]
    BY TaskTypes
  <1>2. /\ task \in [S -> Work] /\ rows \in [S -> TaskRow] /\ task[t] = w /\ rows[t] = row
        /\ DOMAIN task = S /\ DOMAIN rows = S
        /\ \A u \in S : u # t => task[u] = run[r].task[u] /\ rows[u] = run[r].rows[u]
    BY <1>1
  <1>3. rows \in Rows /\ task \in UNION {[D -> Work] : D \in SUBSET Tasks}
    BY <1>1, <1>2, RowsMember
  <1>4. x = [run[r] EXCEPT !.task = task, !.rows = rows]
    BY DEF Updated
  <1>. HIDE DEF task, rows
  <1>5. /\ x \in RunRow /\ x.group = run[r].group /\ x.dir = run[r].dir /\ x.pc = run[r].pc
        /\ x.task = task /\ x.rows = rows
    BY <1>1, <1>3, <1>4 DEF RunRow
  <1>. QED BY <1>2, <1>5

\* A task goes on: w and row are what its goroutine has then ...
TaskMoves(r, t, w, row) ==
    /\ run[r] # None /\ run[r].pc = "tasks" /\ t \in DOMAIN run[r].task
    /\ run' = [run EXCEPT ![r] = Updated(r, t, w, row)]
    /\ UNCHANGED <<groups, dirs, running, call, booting, raced, asked>>

\* ... other tasks and groups keep their rows, previews and files ...
OthersStay(g, t) ==
    /\ tasks' \in [Tasks -> TaskRow \union {None}] /\ \A u \in Tasks : u # t => tasks'[u] = tasks[u]
    /\ previews' \subseteq Tasks \X Groups
    /\ \A u \in Tasks, k \in Groups : u # t => (<<u, k>> \in previews' <=> <<u, k>> \in previews)
    /\ \A k \in Groups : k # g /\ <<t, k>> \in previews' => <<t, k>> \in previews
    /\ files' \subseteq Groups \X Tasks \X Kinds
    /\ \A k \in Groups, u \in Tasks, y \in Kinds :
         k # g \/ u # t => (<<k, u, y>> \in files' <=> <<k, u, y>> \in files)

\* ... and its own agree.
TaskStays(g, t) ==
    /\ tasks'[t] # None /\ tasks'[t].group = g
    /\ tasks'[t].state # "finished" => "log" \notin tasks'[t].paths
    /\ tasks'[t].state = "error" => <<t, g>> \notin previews'
    /\ \A k \in tasks'[t].paths : <<g, t, k>> \in files'
    /\ files' \subseteq files \/ groups[g].dir

\* It is enough to show of the task that moved that it is as it should be.
LEMMA TaskGoesOn ==
    ASSUME IInv, NEW r \in Runs, NEW t, NEW g, g = run[r].group, NEW w \in Work, NEW row \in TaskRow,
           TaskMoves(r, t, w, row), OthersStay(g, t),
           ~raced /\ run'[r].task[t] = w /\ run'[r].rows[t] = row /\ run'[r].dir = run[r].dir
               => TaskStays(g, t) /\ TaskOK(g, r, t)'
    PROVE  IInv'
  <1>0. /\ run[r] # None /\ run[r].pc = "tasks" /\ t \in DOMAIN run[r].task
        /\ UNCHANGED <<groups, dirs, running, call, booting, raced, asked>>
    BY DEF TaskMoves
  <1>. DEFINE x == Updated(r, t, w, row)
  <1>1. /\ run' = [run EXCEPT ![r] = x]
        /\ x \in RunRow /\ x.group = g /\ x.dir = run[r].dir /\ x.pc = "tasks"
        /\ DOMAIN x.task = DOMAIN run[r].task /\ DOMAIN x.rows = DOMAIN run[r].task
        /\ x.task[t] = w /\ x.rows[t] = row
        /\ \A u \in DOMAIN run[r].task : u # t => x.task[u] = run[r].task[u] /\ x.rows[u] = run[r].rows[u]
    <2>. HIDE DEF x
    <2>1. x = Updated(r, t, w, row)
      BY DEF x
    <2>2. /\ x \in RunRow /\ x.group = run[r].group /\ x.dir = run[r].dir /\ x.pc = run[r].pc
          /\ DOMAIN x.task = DOMAIN run[r].task /\ DOMAIN x.rows = DOMAIN run[r].task
          /\ x.task[t] = w /\ x.rows[t] = row
          /\ \A u \in DOMAIN run[r].task : u # t => x.task[u] = run[r].task[u] /\ x.rows[u] = run[r].rows[u]
      BY <1>0, <2>1, TaskUpdate
    <2>. QED BY <1>0, <2>1, <2>2 DEF TaskMoves
  <1>. HIDE DEF x
  <1>2. g \in Groups /\ t \in Tasks /\ DOMAIN run[r].task = DOMAIN run[r].rows /\ DOMAIN run[r].task \in SUBSET Tasks
    BY <1>0, TaskTypes
  <1>3. /\ run' \in [Runs -> RunRow \union {None}] /\ run'[r] = x
        /\ \A k \in Runs : k # r => run'[k] = run[k]
        /\ RunsKnown' /\ CallsOK' /\ BootOK'
    BY <1>0, <1>1, <1>2, RunGoesOn
  <1>4. Types'
    BY <1>0, <1>3 DEF IInv, Types, OthersStay
  <1>5. Calm'
    <2>. SUFFICES ASSUME ~raced PROVE Elsewhere(g) /\ GroupOK(g)'
      BY <1>0, <1>2, CalmKept
    <2>1. /\ RowsOK(g) /\ Kept(g) /\ Stays(g) /\ RunOK(g, r) /\ groups[g] # None
      BY <1>0, RunAlone
    <2>2. t \in Own(g) /\ tasks[t] # None /\ tasks[t].group = g
      BY <1>0, TaskKnown
    <2>3. /\ tasks'[t] # None /\ tasks'[t].group = g
          /\ tasks'[t].state # "finished" => "log" \notin tasks'[t].paths
          /\ tasks'[t].state = "error" => <<t, g>> \notin previews'
          /\ \A k \in tasks'[t].paths : <<g, t, k>> \in files'
          /\ files' \subseteq files \/ groups[g].dir
          /\ TaskOK(g, r, t)'
      BY <1>0, <1>1, <1>3 DEF TaskStays
    <2>4. Own(g)' = Own(g)
      BY <2>2, <2>3 DEF Own, OthersStay
    <2>5. \A u \in Tasks, k \in Groups \ {g} : <<u, k>> \in previews' <=> <<u, k>> \in previews
      <3>1. \A k \in Groups \ {g} : <<t, k>> \notin previews
        <4>. SUFFICES ASSUME NEW k \in Groups \ {g} PROVE <<t, k>> \notin previews
          OBVIOUS
        <4>1. RowsOK(k)
          BY DEF IInv, Calm, GroupOK
        <4>. QED BY <1>2, <2>2, <4>1 DEF RowsOK, Own
      <3>. QED BY <3>1 DEF OthersStay
    <2>6. Elsewhere(g)
      BY <1>0, <1>3, <2>2, <2>3, <2>5 DEF Elsewhere, OthersStay
    <2>7. \A u \in Own(g) \ {t} : /\ u \in Tasks /\ tasks'[u] = tasks[u]
                                  /\ <<u, g>> \in previews' <=> <<u, g>> \in previews
                                  /\ \A y \in Kinds : <<g, u, y>> \in files' <=> <<g, u, y>> \in files
      BY <1>2 DEF Own, OthersStay
    <2>8. RowsOK(g)'
      <3>1. groups[g] # None /\ ~groups[g].dir => NoFiles(g)'
        BY <2>1, <2>3 DEF RowsOK, NoFiles
      <3>2. \A u \in Tasks : <<u, g>> \in previews' => u \in Own(g)
        BY <1>2, <2>1, <2>2 DEF RowsOK, OthersStay
      <3>3. \A u \in Own(g) : /\ tasks'[u].state # "finished" => "log" \notin tasks'[u].paths
                              /\ tasks'[u].state = "error" => <<u, g>> \notin previews'
        BY <2>1, <2>3, <2>7 DEF RowsOK
      <3>. QED BY <1>0, <2>1, <2>4, <3>1, <3>2, <3>3 DEF RowsOK
    <2>9. Kept(g)'
      <3>1. \A u \in Own(g) : tasks[u].paths \subseteq Kinds
        BY DEF Own, IInv, Types, TaskRow
      <3>. QED BY <2>1, <2>3, <2>4, <2>7, <3>1 DEF Kept
    <2>10. RunOK(g, r)'
      <3>1. ASSUME NEW u \in DOMAIN run[r].rows, u # t, TaskOK(g, r, u) PROVE TaskOK(g, r, u)'
        <4>1. u \in Own(g) /\ u \in Tasks
          BY <1>0, <1>2, <2>1 DEF RunOK
        <4>2. x.task[u] = run[r].task[u] /\ x.rows[u] = run[r].rows[u]
          BY <1>1, <1>2, <3>1
        <4>3. run[r].rows[u].paths \subseteq Kinds /\ run[r].task[u].kind \in Kinds
          BY <1>0, <1>2, TaskTypes DEF TaskRow, Work
        <4>. QED BY <1>0, <1>1, <1>3, <2>7, <3>1, <4>1, <4>2, <4>3 DEF TaskOK
      <3>2. /\ DOMAIN run[r].rows # {} /\ DOMAIN run[r].rows \subseteq Own(g) /\ groups[g].state = "running"
            /\ \A u \in DOMAIN run[r].rows : TaskOK(g, r, u)
            /\ \A u \in Own(g) \ DOMAIN run[r].rows : tasks[u].state = "finished"
            /\ run[r].dir = (run[r].pc = "saveDir" \/ groups[g].dir)
        BY <1>0, <2>1 DEF RunOK
      <3>3. \A u \in DOMAIN x.rows : TaskOK(g, r, u)'
        BY <1>1, <1>2, <2>3, <3>1, <3>2
      <3>4. /\ DOMAIN x.rows # {} /\ DOMAIN x.rows \subseteq Own(g)'
            /\ \A u \in Own(g)' \ DOMAIN x.rows : tasks'[u].state = "finished"
        BY <1>0, <1>1, <1>2, <2>2, <2>4, <2>7, <3>2
      <3>5. x.dir = (x.pc = "saveDir" \/ groups'[g].dir) /\ groups'[g].state = "running"
        BY <1>0, <1>1, <3>2
      <3>. QED BY <1>1, <1>3, <3>3, <3>4, <3>5 DEF RunOK
    <2>. QED BY <1>0, <2>6, <2>8, <2>9, <2>10, RunKeepsGroup
  <1>. QED BY <1>3, <1>4, <1>5 DEF IInv

\* A task that goes on without a statement keeps its row.
LEMMA TaskGoesMoves ==
    ASSUME IInv, NEW r \in Runs, NEW t, NEW pc, NEW w, TaskGoes(r, t, pc, w)
    PROVE  TaskMoves(r, t, w, run[r].rows[t]) /\ run[r].task[t].pc = pc
  <1>1. run[r] # None /\ run[r].pc = "tasks" /\ t \in DOMAIN run[r].task /\ run' = [run EXCEPT ![r].task[t] = w]
    BY DEF TaskGoes
  <1>2. run[r] \in RunRow /\ [run[r].rows EXCEPT ![t] = run[r].rows[t]] = run[r].rows
    <2>1. run[r] \in RunRow /\ run[r].rows \in [DOMAIN run[r].task -> TaskRow]
      BY <1>1, TaskTypes
    <2>. QED BY <1>1, <2>1
  <1>3. \A y \in RunRow : \A a : [y EXCEPT !.task = a, !.rows = y.rows] = [y EXCEPT !.task = a]
    BY DEF RunRow
  <1>4. Updated(r, t, w, run[r].rows[t]) = [run[r] EXCEPT !.task[t] = w]
    BY <1>2, <1>3 DEF Updated
  <1>5. run' = [run EXCEPT ![r] = Updated(r, t, w, run[r].rows[t])]
    BY <1>1, <1>4
  <1>. QED BY <1>1, <1>5 DEF TaskGoes, TaskMoves

\* A step that writes neither rows, previews nor files.
LEMMA NothingWritten ==
    ASSUME IInv, NEW g, NEW t, UNCHANGED <<tasks, previews, files>>
    PROVE  OthersStay(g, t)
  BY DEF IInv, Types, OthersStay

\* A task that failed removes what it has written.
LEMMA FailedWork ==
    ASSUME NEW w \in Work
    PROVE  Failed(w) \in Work /\ Failed(w).pc = "clean" /\ Failed(w).failed /\ Failed(w).kind = w.kind
  BY DEF Work, Failed

\* A task that goes on without writing.
LEMMA TaskSteps ==
    ASSUME IInv, NEW r \in Runs, NEW t, NEW g, g = run[r].group, Begin(r, t) \/ OpenFails(r, t) \/ WriteFails(r, t)
    PROVE  IInv'
  <1>1. PICK w :
          /\ TaskMoves(r, t, w, run[r].rows[t]) /\ UNCHANGED <<tasks, previews, files>>
          /\ run[r].task[t].pc \in {"start", "open", "read"}
          /\ \/ run[r].dir /\ w = [run[r].task[t] EXCEPT !.pc = "open"]
             \/ w = Failed(run[r].task[t])
    BY TaskGoesMoves DEF Begin, OpenFails, WriteFails
  <1>2. /\ run[r] # None /\ run[r].pc = "tasks" /\ t \in DOMAIN run[r].task
        /\ UNCHANGED <<groups, dirs, running, call, booting, raced, asked>>
    BY <1>1 DEF TaskMoves
  <1>3. run[r].task[t] \in Work /\ run[r].rows[t] \in TaskRow
    BY <1>2, TaskTypes
  <1>4. /\ w \in Work /\ w.pc \in {"open", "clean"}
        /\ w.pc = "open" => run[r].dir /\ w.failed = run[r].task[t].failed
    <2>1. CASE w = [run[r].task[t] EXCEPT !.pc = "open"] /\ run[r].dir
      BY <1>3, <2>1 DEF Work
    <2>2. CASE w = Failed(run[r].task[t])
      BY <1>3, <2>2, FailedWork
    <2>. QED BY <1>1, <2>1, <2>2
  <1>5. ASSUME ~raced, run'[r].task[t] = w, run'[r].rows[t] = run[r].rows[t], run'[r].dir = run[r].dir
        PROVE  TaskStays(g, t) /\ TaskOK(g, r, t)'
    <2>1. /\ tasks[t] # None /\ tasks[t].group = g /\ TaskOK(g, r, t)
          /\ tasks[t].state # "finished" => "log" \notin tasks[t].paths
          /\ tasks[t].state = "error" => <<t, g>> \notin previews
          /\ \A k \in tasks[t].paths : <<g, t, k>> \in files
      BY <1>2, <1>5, TaskKnown
    <2>2. TaskStays(g, t)
      BY <1>1, <2>1 DEF TaskStays
    <2>3. TaskOK(g, r, t)'
      BY <1>1, <1>4, <1>5, <2>1 DEF TaskOK
    <2>. QED BY <2>2, <2>3
  <1>6. OthersStay(g, t)
    BY <1>1, NothingWritten
  <1>. QED BY <1>1, <1>3, <1>4, <1>5, <1>6, TaskGoesOn

\* searchLog: the file.
LEMMA OpenStep ==
    ASSUME IInv, NEW r \in Runs, NEW t, NEW g, g = run[r].group, Open(r, t)
    PROVE  IInv'
  <1>1. PICK w :
          /\ TaskMoves(r, t, w, run[r].rows[t]) /\ UNCHANGED <<tasks, previews>>
          /\ run[r].task[t].pc = "open"
          /\ w = [run[r].task[t] EXCEPT !.pc = "read", !.lines = FALSE]
          /\ files' = files \union {<<g, t, run[r].task[t].kind>>}
    BY TaskGoesMoves DEF Open
  <1>2. /\ run[r] # None /\ run[r].pc = "tasks" /\ t \in DOMAIN run[r].task
        /\ UNCHANGED <<groups, dirs, running, call, booting, raced, asked>>
    BY <1>1 DEF TaskMoves
  <1>3. run[r].task[t] \in Work /\ run[r].rows[t] \in TaskRow /\ g \in Groups /\ t \in Tasks
    BY <1>2, TaskTypes
  <1>4. /\ w \in Work /\ w.pc = "read" /\ w.failed = run[r].task[t].failed
        /\ w.kind = run[r].task[t].kind /\ w.kind \in Kinds
    BY <1>1, <1>3 DEF Work
  <1>5. ASSUME ~raced, run'[r].task[t] = w, run'[r].rows[t] = run[r].rows[t], run'[r].dir = run[r].dir
        PROVE  TaskStays(g, t) /\ TaskOK(g, r, t)'
    <2>1. /\ tasks[t] # None /\ tasks[t].group = g /\ TaskOK(g, r, t)
          /\ run[r].dir <=> groups[g].dir
          /\ tasks[t].state # "finished" => "log" \notin tasks[t].paths
          /\ tasks[t].state = "error" => <<t, g>> \notin previews
          /\ \A k \in tasks[t].paths : <<g, t, k>> \in files
      BY <1>2, <1>5, TaskKnown
    <2>2. run[r].dir /\ groups[g].dir
      BY <1>1, <2>1 DEF TaskOK
    <2>3. TaskStays(g, t)
      BY <1>1, <2>1, <2>2 DEF TaskStays
    <2>4. TaskOK(g, r, t)'
      BY <1>1, <1>4, <1>5, <2>1, <2>2 DEF TaskOK
    <2>. QED BY <2>3, <2>4
  <1>6. OthersStay(g, t)
    BY <1>1, <1>3, <1>4 DEF IInv, Types, OthersStay
  <1>. QED BY <1>1, <1>3, <1>4, <1>5, <1>6, TaskGoesOn

\* searchLog: a line and its preview.
LEMMA LineStep ==
    ASSUME IInv, NEW r \in Runs, NEW t, NEW g, g = run[r].group, Line(r, t)
    PROVE  IInv'
  <1>1. PICK w :
          /\ TaskMoves(r, t, w, run[r].rows[t]) /\ UNCHANGED <<tasks, files>>
          /\ run[r].task[t].pc = "read"
          /\ w = [run[r].task[t] EXCEPT !.lines = TRUE]
          /\ previews' = previews \union {<<t, g>>}
    BY TaskGoesMoves DEF Line
  <1>2. /\ run[r] # None /\ run[r].pc = "tasks" /\ t \in DOMAIN run[r].task
        /\ UNCHANGED <<groups, dirs, running, call, booting, raced, asked>>
    BY <1>1 DEF TaskMoves
  <1>3. run[r].task[t] \in Work /\ run[r].rows[t] \in TaskRow /\ g \in Groups /\ t \in Tasks
    BY <1>2, TaskTypes
  <1>4. /\ w \in Work /\ w.pc = "read" /\ w.failed = run[r].task[t].failed
        /\ w.kind = run[r].task[t].kind
    BY <1>1, <1>3 DEF Work
  <1>5. ASSUME ~raced, run'[r].task[t] = w, run'[r].rows[t] = run[r].rows[t], run'[r].dir = run[r].dir
        PROVE  TaskStays(g, t) /\ TaskOK(g, r, t)'
    <2>1. /\ tasks[t] # None /\ tasks[t].group = g /\ TaskOK(g, r, t)
          /\ tasks[t].state # "finished" => "log" \notin tasks[t].paths
          /\ \A k \in tasks[t].paths : <<g, t, k>> \in files
      BY <1>2, <1>5, TaskKnown
    <2>2. tasks[t].state = "running"
      BY <1>1, <2>1 DEF TaskOK
    <2>3. TaskStays(g, t)
      BY <1>1, <2>1, <2>2 DEF TaskStays
    <2>4. TaskOK(g, r, t)'
      BY <1>1, <1>4, <1>5, <2>1 DEF TaskOK
    <2>. QED BY <2>3, <2>4
  <1>6. OthersStay(g, t)
    BY <1>1, <1>3 DEF IInv, Types, OthersStay
  <1>. QED BY <1>1, <1>3, <1>4, <1>5, <1>6, TaskGoesOn

\* searchLog: the end of a stream.
LEMMA EndStep ==
    ASSUME IInv, NEW r \in Runs, NEW t, NEW g, g = run[r].group, NEW ok \in BOOLEAN, End(r, t, ok)
    PROVE  IInv'
  <1>. DEFINE old == run[r].task[t]
              w == IF ~ok THEN Failed(old)
                   ELSE IF run[r].rows[t].tikv /\ old.kind = "log" THEN [old EXCEPT !.pc = "open", !.kind = "slow"]
                   ELSE [old EXCEPT !.pc = "save"]
              row == [run[r].rows[t] EXCEPT !.paths = IF old.lines THEN @ \union {old.kind} ELSE @]
  <1>1. /\ run[r] # None /\ run[r].pc = "tasks" /\ t \in DOMAIN run[r].task /\ old.pc = "read"
        /\ run' = [run EXCEPT ![r].task[t] = w,
                              ![r].rows[t].paths = IF old.lines THEN @ \union {old.kind} ELSE @]
        /\ UNCHANGED <<groups, tasks, previews, dirs, files, running, call, booting, raced, asked>>
    BY DEF End, dbVars, fileVars
  <1>2. old \in Work /\ run[r].rows[t] \in TaskRow /\ run[r] \in RunRow
    BY <1>1, TaskTypes
  <1>3. /\ w \in Work /\ w.pc \in {"clean", "open", "save"}
        /\ w.pc \in {"open", "save"} => w.failed = old.failed
    <2>1. CASE ~ok
      BY <1>2, <2>1, FailedWork
    <2>2. CASE ok
      BY <1>2, <2>2 DEF Work, Kinds
    <2>. QED BY <2>1, <2>2
  <1>4. row \in TaskRow /\ row.group = run[r].rows[t].group /\ row.paths \subseteq run[r].rows[t].paths \union {old.kind}
    BY <1>2 DEF TaskRow, Work
  <1>5. run' = [run EXCEPT ![r] = Updated(r, t, w, row)]
    <2>. HIDE DEF w
    <2>. QED BY <1>1, <1>2 DEF Updated
  <1>. HIDE DEF w, row
  <1>6. TaskMoves(r, t, w, row)
    BY <1>1, <1>5 DEF TaskMoves
  <1>7. ASSUME ~raced, run'[r].task[t] = w, run'[r].rows[t] = row, run'[r].dir = run[r].dir
        PROVE  TaskStays(g, t) /\ TaskOK(g, r, t)'
    <2>1. /\ tasks[t] # None /\ tasks[t].group = g /\ TaskOK(g, r, t)
          /\ tasks[t].state # "finished" => "log" \notin tasks[t].paths
          /\ tasks[t].state = "error" => <<t, g>> \notin previews
          /\ \A k \in tasks[t].paths : <<g, t, k>> \in files
      BY <1>1, <1>7, TaskKnown
    <2>2. TaskStays(g, t)
      BY <1>1, <2>1 DEF TaskStays
    <2>3. TaskOK(g, r, t)'
      BY <1>1, <1>3, <1>4, <1>7, <2>1 DEF TaskOK
    <2>. QED BY <2>2, <2>3
  <1>8. OthersStay(g, t)
    BY <1>1, NothingWritten
  <1>. QED BY <1>3, <1>4, <1>6, <1>7, <1>8, TaskGoesOn

\* RemoveDataAndPreview: the log and the previews, and no other file.
LEMMA CleanStep ==
    ASSUME IInv, NEW r \in Runs, NEW t, NEW g, g = run[r].group, Clean(r, t)
    PROVE  IInv'
  <1>. DEFINE w == [run[r].task[t] EXCEPT !.pc = "save"]
              row == [run[r].rows[t] EXCEPT !.paths = @ \ {"log"}]
  <1>1. /\ run[r] # None /\ run[r].pc = "tasks" /\ t \in DOMAIN run[r].task /\ run[r].task[t].pc = "clean"
        /\ run' = [run EXCEPT ![r].task[t].pc = "save", ![r].rows[t].paths = @ \ {"log"}]
        /\ files' = IF "log" \in run[r].rows[t].paths THEN files \ {<<g, t, "log">>} ELSE files
        /\ previews' = {p \in previews : p[1] # t}
        /\ UNCHANGED <<groups, tasks, dirs, running, call, booting, raced, asked>>
    BY DEF Clean
  <1>2. run[r].task[t] \in Work /\ run[r].rows[t] \in TaskRow /\ run[r] \in RunRow /\ g \in Groups /\ t \in Tasks
    BY <1>1, TaskTypes
  <1>3. w \in Work /\ w.pc = "save"
    BY <1>2 DEF Work
  <1>4. row \in TaskRow /\ row.group = run[r].rows[t].group /\ row.paths = run[r].rows[t].paths \ {"log"}
    BY <1>2 DEF TaskRow
  <1>5. run' = [run EXCEPT ![r] = Updated(r, t, w, row)]
    BY <1>1, <1>2 DEF Updated
  <1>. HIDE DEF w, row
  <1>6. TaskMoves(r, t, w, row)
    BY <1>1, <1>5 DEF TaskMoves
  <1>7. ASSUME ~raced, run'[r].task[t] = w, run'[r].rows[t] = row, run'[r].dir = run[r].dir
        PROVE  TaskStays(g, t) /\ TaskOK(g, r, t)'
    <2>1. /\ tasks[t] # None /\ tasks[t].group = g /\ TaskOK(g, r, t)
          /\ tasks[t].state # "finished" => "log" \notin tasks[t].paths
          /\ \A k \in tasks[t].paths : <<g, t, k>> \in files
      <3>1. run[r] # None /\ run[r].pc = "tasks" /\ t \in DOMAIN run[r].task /\ ~raced
        BY <1>1, <1>7
      <3>. QED BY <3>1, TaskKnown
    <2>2. tasks[t].state = "running" /\ "log" \notin tasks[t].paths
      <3>1. tasks[t].state = "running" <=> run[r].task[t].pc # "done"
        BY <2>1 DEF TaskOK
      <3>. QED BY <1>1, <2>1, <3>1
    <2>3. files' \subseteq files /\ \A k : k # "log" /\ <<g, t, k>> \in files => <<g, t, k>> \in files'
      BY <1>1
    <2>4. <<t, g>> \notin previews'
      BY <1>1
    <2>5. TaskStays(g, t)
      BY <1>1, <2>1, <2>2, <2>3 DEF TaskStays
    <2>6. TaskOK(g, r, t)'
      BY <1>1, <1>3, <1>4, <1>7, <2>1, <2>3, <2>4 DEF TaskOK
    <2>. QED BY <2>5, <2>6
  <1>8. OthersStay(g, t)
    BY <1>1, <1>2 DEF IInv, Types, OthersStay
  <1>. QED BY <1>3, <1>4, <1>6, <1>7, <1>8, TaskGoesOn

\* Task.SyncRun, deferred: the row of the task.
LEMMA SaveTaskStep ==
    ASSUME IInv, NEW r \in Runs, NEW t, NEW g, g = run[r].group, SaveTask(r, t)
    PROVE  IInv'
  <1>. DEFINE old == run[r].task[t]
              w == [old EXCEPT !.pc = "done"]
              row == run[r].rows[t]
              saved == [row EXCEPT !.state = IF old.failed THEN "error" ELSE "finished"]
  <1>1. /\ TaskMoves(r, t, w, row) /\ UNCHANGED <<previews, files>> /\ old.pc = "save"
        /\ tasks' = [tasks EXCEPT ![t] = saved]
    BY TaskGoesMoves DEF SaveTask
  <1>2. /\ run[r] # None /\ run[r].pc = "tasks" /\ t \in DOMAIN run[r].task
        /\ UNCHANGED <<groups, dirs, running, call, booting, raced, asked>>
    BY <1>1 DEF TaskMoves
  <1>3. old \in Work /\ row \in TaskRow /\ g \in Groups /\ t \in Tasks
    BY <1>2, TaskTypes
  <1>4. w \in Work /\ w.pc = "done"
    BY <1>3 DEF Work
  <1>5. /\ saved \in TaskRow /\ saved.group = row.group /\ saved.paths = row.paths
        /\ saved.state = IF old.failed THEN "error" ELSE "finished"
    BY <1>3 DEF TaskRow
  <1>. HIDE DEF w, saved
  <1>6. /\ tasks' \in [Tasks -> TaskRow \union {None}] /\ tasks'[t] = saved /\ saved # None
        /\ \A u \in Tasks : u # t => tasks'[u] = tasks[u]
    BY <1>1, <1>3, <1>5, NoneIsNil DEF IInv, Types
  <1>7. ASSUME ~raced, run'[r].task[t] = w, run'[r].rows[t] = row, run'[r].dir = run[r].dir
        PROVE  TaskStays(g, t) /\ TaskOK(g, r, t)'
    <2>1. TaskOK(g, r, t)
      BY <1>2, <1>7, TaskKnown
    <2>2. /\ row.group = g /\ \A k \in row.paths : <<g, t, k>> \in files
      BY <2>1 DEF TaskOK
    <2>3. old.failed => "log" \notin row.paths /\ <<t, g>> \notin previews
      BY <1>1, <2>1 DEF TaskOK
    <2>4. TaskStays(g, t)
      BY <1>1, <1>5, <1>6, <2>2, <2>3 DEF TaskStays
    <2>5. TaskOK(g, r, t)'
      BY <1>1, <1>4, <1>5, <1>6, <1>7, <2>2 DEF TaskOK
    <2>. QED BY <2>4, <2>5
  <1>8. OthersStay(g, t)
    BY <1>1, <1>6 DEF IInv, Types, OthersStay
  <1>. QED BY <1>1, <1>3, <1>4, <1>7, <1>8, TaskGoesOn

-----------------------------------------------------------------------------
\* The process dies, and starts again.
LEMMA CrashStep == ASSUME IInv, Crash PROVE IInv'
  <1>1. /\ running' = [g \in Groups |-> None] /\ run' = [r \in Runs |-> None] /\ call' = [h \in Callers |-> Idle]
        /\ asked' = {} /\ booting' = TRUE /\ UNCHANGED <<groups, tasks, previews, dirs, files, raced>>
    BY DEF Crash, dbVars, fileVars, Callers
  <1>2. Types'
    BY <1>1, IdleCall DEF IInv, Types
  <1>3. RunsKnown' /\ CallsOK' /\ BootOK'
    BY <1>1, IdleCall DEF RunsKnown, CallsOK, CallOK, BootOK, Callers
  <1>4. Calm'
    <2>. SUFFICES ASSUME ~raced, NEW g \in Groups PROVE GroupOK(g)'
      BY <1>1 DEF Calm
    <2>1. RowsOK(g)
      BY DEF IInv, Calm, GroupOK
    <2>2. \A h \in Callers : ~Writes(h, g)'
      BY <1>1, IdleCall, NoneIsNil DEF Writes
    <2>3. RowsOK(g)'
      BY <1>1, <2>1, <2>2 DEF RowsOK, NoPreviews, NoFiles, Own
    <2>. QED BY <1>1, <2>2, <2>3 DEF GroupOK, Kept, Stays, Quiet, WritersOK
  <1>. QED BY <1>2, <1>3, <1>4 DEF IInv

\* cleanupAllTasks: the deletion of a group.
LEMMA CleanUpStep ==
    ASSUME IInv, NEW g \in Groups, CleanUp(g)
    PROVE  IInv'
  <1>. DEFINE c == Deletion(g)
  <1>1. /\ booting /\ call[Boot] = Idle /\ groups[g] # None /\ call' = [call EXCEPT ![Boot] = c]
        /\ UNCHANGED <<groups, tasks, previews, dirs, files, running, run, booting, raced, asked>>
    BY DEF CleanUp, dbVars, fileVars
  <1>2. c \in Call /\ c.op = "delete" /\ c.pc = "files" /\ c.group = g /\ c.dir = groups[g].dir
    BY <1>1, DeletionCall
  <1>. HIDE DEF c
  <1>3. /\ Boot \in Callers /\ call' \in [Callers -> Call] /\ call'[Boot] = c
        /\ \A k \in Callers : k # Boot => call'[k] = call[k]
    <2>1. Boot \in Callers
      BY DEF Callers
    <2>. QED BY <1>1, <1>2, <2>1, CallUpdate
  <1>4. Types' /\ RunsKnown'
    BY <1>1, <1>3, RunsKept DEF IInv, Types
  <1>5. CallOK(Boot)'
    BY <1>2, <1>3 DEF CallOK
  <1>6. CallsOK'
    BY <1>1, <1>2, <1>3, <1>5, CallsGoOn
  <1>7. BootOK'
    <2>1. \A k \in Handlers : k \in Callers /\ k # Boot
      BY LogSearchAssumption DEF Callers
    <2>. QED BY <1>1, <1>2, <1>3, <2>1 DEF IInv, BootOK
  <1>8. Calm'
    <2>. SUFFICES ASSUME ~raced PROVE Elsewhere(g) /\ GroupOK(g)'
      BY <1>1, CalmKept
    <2>1. /\ GroupOK(g) /\ running[g] = None
      BY <1>1 DEF IInv, Calm, BootOK
    <2>2. \A k \in Callers : ~Writes(k, g)
      BY <1>1, IdleCall, NoneIsNil DEF IInv, BootOK, Writes, Callers
    <2>3. Elsewhere(g)
      BY <1>1, <1>2, <1>3, IdleCall DEF Elsewhere
    <2>4. RowsOK(g)'
      BY <1>1, <2>1 DEF GroupOK, RowsOK, NoPreviews, NoFiles, Own
    <2>5. Kept(g)'
      BY <1>1 DEF Kept, Stays
    <2>6. CreateOK(g, Boot)' /\ RetryOK(g, Boot)' /\ DeleteOK(g, Boot)'
      BY <1>1, <1>2, <1>3 DEF CreateOK, RetryOK, DeleteOK
    <2>. QED BY <1>1, <1>2, <1>3, <2>1, <2>2, <2>3, <2>4, <2>5, <2>6, NewWriter
  <1>. QED BY <1>4, <1>6, <1>7, <1>8 DEF IInv

\* The process is up when there is nothing left.
LEMMA UpStep == ASSUME IInv, Up PROVE IInv'
  <1>1. /\ booting /\ (\A g \in Groups : groups[g] = None) /\ booting' = FALSE
        /\ UNCHANGED <<groups, tasks, previews, dirs, files, running, run, call, raced, asked>>
    BY DEF Up, dbVars, fileVars
  <1>2. call[Boot] = Idle
    <2>1. call[Boot] # Idle => call[Boot].group \in Groups
      BY DEF IInv, CallsOK, CallOK, Callers
    <2>. QED BY <1>1, <2>1 DEF IInv, BootOK
  <1>3. \A h \in Callers : call[h] = Idle
    BY <1>1, <1>2 DEF IInv, BootOK, Callers
  <1>4. Types' /\ RunsKnown'
    BY <1>1, RunsKept DEF IInv, Types
  <1>5. CallsOK' /\ BootOK'
    BY <1>1, <1>2 DEF IInv, CallsOK, CallOK, BootOK
  <1>6. Calm'
    <2>. SUFFICES ASSUME ~raced, NEW g \in Groups PROVE GroupOK(g)'
      BY <1>1 DEF Calm
    <2>1. RowsOK(g) /\ groups[g] = None /\ running[g] = None /\ Own(g) = {} /\ NoPreviews(g) /\ NoFiles(g)
      BY <1>1 DEF IInv, Calm, GroupOK, RowsOK
    <2>2. \A h \in Callers : ~Writes(h, g)'
      BY <1>1, <1>3, IdleCall, NoneIsNil DEF Writes
    <2>3. Own(g)' = {} /\ NoPreviews(g)' /\ NoFiles(g)' /\ groups'[g] = None /\ running'[g] = None
      BY <1>1, <2>1 DEF Own, NoPreviews, NoFiles
    <2>4. RowsOK(g)' /\ Kept(g)' /\ Quiet(g)' /\ WritersOK(g)'
      BY <2>2, <2>3 DEF RowsOK, Kept, Quiet, WritersOK, NoPreviews
    <2>. QED BY <2>3, <2>4 DEF GroupOK
  <1>. QED BY <1>4, <1>5, <1>6 DEF IInv

\* Only the counters change, or nothing.
LEMMA Stutter == ASSUME IInv, UNCHANGED vars PROVE IInv'
  <1>1. UNCHANGED <<groups, tasks, previews, dirs, files, running, run, call, booting, raced, asked>>
    BY DEF vars, dbVars, fileVars
  <1>2. Types' /\ RunsKnown' /\ CallsOK' /\ BootOK'
    BY <1>1 DEF IInv, Types, RunsKnown, CallsOK, CallOK, BootOK
  <1>3. Calm'
    <2>. SUFFICES ASSUME ~raced, NEW g \in Groups PROVE GroupOK(g)'
      BY <1>1 DEF Calm
    <2>1. GroupOK(g)
      BY DEF IInv, Calm
    <2>2. running[g] # None => RunOK(g, running[g])'
      <3>. SUFFICES ASSUME running[g] # None, NEW r, r = running[g] PROVE RunOK(g, r)'
        BY <1>1
      <3>1. RunOK(g, r)
        BY <2>1 DEF GroupOK
      <3>. QED BY <1>1, <3>1, RunRests
    <2>3. \A k \in Callers : (Writes(k, g)' <=> Writes(k, g)) /\ (Writes(k, g) => call'[k] = call[k])
      BY <1>1 DEF Writes
    <2>. QED BY <1>1, <2>1, <2>2, <2>3, SameWriters
  <1>. QED BY <1>2, <1>3 DEF IInv

-----------------------------------------------------------------------------
\* Every step keeps the invariant.
LEMMA NextInv == ASSUME IInv, [Next]_vars PROVE IInv'
  <1>1. ASSUME NEW h \in Handlers, Request(h) PROVE IInv'
    BY <1>1, CreateStep, RetryStep, CancelStep, DeleteStep DEF Request
  <1>2. ASSUME NEW h \in Callers, HandlerStep(h) PROVE IInv'
    <2>. DEFINE g == call[h].group
    <2>1. ASSUME NEW tikv \in BOOLEAN, CreateTask(h, tikv) PROVE IInv'
      BY <2>1, CreateTaskStep
    <2>2. CASE Start(h)
      BY <2>2, StartStep
    <2>3. CASE InitTasks(h)
      BY <2>3, InitTasksStep
    <2>4. CASE FindFailed(h)
      BY <2>4, FindFailedStep
    <2>5. CASE ResetGroup(h)
      BY <2>5, ResetGroupStep
    <2>6. CASE ResetTask(h)
      BY <2>6, ResetTaskStep
    <2>7. CASE Abort(h)
      BY <2>7, AbortStep
    <2>8. CASE DeleteFiles(h)
      BY <2>8, DeleteFilesStep
    <2>9. CASE DeletePreviews(h)
      BY <2>9, DeletePreviewsStep
    <2>10. CASE DeleteTasks(h)
      BY <2>10, DeleteTasksStep
    <2>11. CASE DeleteGroup(h)
      BY <2>11, DeleteGroupStep
    <2>. QED BY <1>2, <2>1, <2>2, <2>3, <2>4, <2>5, <2>6, <2>7, <2>8, <2>9, <2>10, <2>11 DEF HandlerStep
  <1>3. ASSUME NEW r \in Runs, RunStep(r) PROVE IInv'
    BY <1>3, MkDirStep, SaveDirStep, SaveFinishedStep, LeaveStep DEF RunStep
  <1>4. ASSUME NEW r \in Runs, NEW t \in Tasks, TaskStep(r, t) \/ SearchStep(r, t) PROVE IInv'
    BY <1>4, TaskSteps, OpenStep, CleanStep, SaveTaskStep, LineStep, EndStep DEF TaskStep, SearchStep
  <1>. QED BY <1>1, <1>2, <1>3, <1>4, CrashStep, CleanUpStep, UpStep, Stutter DEF Next, BootStep, Callers

\* The invariant of log search.  It says of every group what its row, the rows of
\* its tasks, the previews and the files have to do with the request that writes
\* it or the run that searches it, unless a retry or deletion met another of them.
THEOREM SearchInvariant == Spec => []IInv
  BY InitInv, NextInv, PTL DEF Spec

\* A group has one run at most, whatever the requests do to its rows: nobody else
\* writes its directory and its rows.
THEOREM OneRunAlways == Spec => []OneRun
  <1>1. IInv => OneRun
    <2>. SUFFICES ASSUME IInv PROVE OneRun
      OBVIOUS
    <2>1. ASSUME NEW h \in Callers
          PROVE  call[h].group \in Groups \union {None} /\ \A t \in DOMAIN call[h].rows : call[h].rows[t] \in TaskRow
      BY RowsMember DEF IInv, Types, Call
    <2>2. TypeOK
      BY <2>1 DEF IInv, Types, RunsKnown, TypeOK, Callers
    <2>. QED BY <2>2 DEF IInv, RunsKnown, OneRun
  <1>. QED BY <1>1, SearchInvariant, PTL

-----------------------------------------------------------------------------
\* A run that has no tasks yet has a request that gives it some.
NewRuns ==
    \A r \in Runs : run[r] # None /\ run[r].pc = "new" =>
        \E h \in Callers : call[h].pc = "init" /\ call[h].group = run[r].group

\* Where no run is made and no handler leaves, new runs keep their handlers.
LEMMA NewRunsKept ==
    ASSUME NewRuns, \A k \in Callers : call[k].pc = "init" => call'[k] = call[k],
           \A r \in Runs : run'[r] # None /\ run'[r].pc = "new" =>
               run[r] # None /\ run[r].pc = "new" /\ run'[r].group = run[r].group
    PROVE  NewRuns'
  BY DEF NewRuns

\* A step of a caller that is not at "init" leaves those that are.
LEMMA InitKept ==
    ASSUME IInv, NEW h \in Callers, call[h].pc # "init", NEW c, call' = [call EXCEPT ![h] = c]
    PROVE  \A k \in Callers : call[k].pc = "init" => call'[k] = call[k]
  BY DEF IInv, Types

\* Every step keeps a handler for each new run.
LEMMA NewRunsStep == ASSUME IInv, NewRuns, [Next]_vars PROVE NewRuns'
  <1>1. ASSUME NEW h \in Handlers, Request(h) PROVE NewRuns'
    <2>1. PICK c : call[h] = Idle /\ call' = [call EXCEPT ![h] = c] /\ run' = run
      BY <1>1 DEF Request, Create, Retry, Cancel, Delete, Take
    <2>2. h \in Callers /\ call[h].pc # "init"
      BY <2>1, IdleCall DEF Callers
    <2>. QED BY <2>1, <2>2, InitKept, NewRunsKept
  <1>2. ASSUME NEW h \in Callers, HandlerStep(h), ~Start(h), ~InitTasks(h) PROVE NewRuns'
    <2>1. call[h].pc # "init" /\ \E c : call' = [call EXCEPT ![h] = c]
      BY <1>2 DEF HandlerStep, CreateTask, FindFailed, ResetGroup, ResetTask, Abort, DeleteFiles, DeletePreviews,
                  DeleteTasks, DeleteGroup, Goes
    <2>2. \A k \in Callers : call[k].pc = "init" => call'[k] = call[k]
      BY <2>1, InitKept
    <2>3. CASE run' = run
      BY <2>2, <2>3, NewRunsKept
    <2>4. CASE run' # run
      <3>1. Abort(h)
        BY <1>2, <2>4 DEF HandlerStep, CreateTask, FindFailed, ResetGroup, ResetTask, DeleteFiles, DeletePreviews,
                          DeleteTasks, DeleteGroup
      <3>2. PICK r, x : r = running[call[h].group] /\ r # None /\ run' = [run EXCEPT ![r] = [run[r] EXCEPT !.task = x]]
        BY <2>4, <3>1 DEF Abort
      <3>3. call[h].group \in Groups
        BY <3>1, NotBooting DEF Abort, Goes
      <3>4. r \in Runs /\ run[r] # None /\ run[r] \in RunRow
        BY <3>2, <3>3 DEF IInv, Types, RunsKnown
      <3>5. /\ run'[r].pc = run[r].pc /\ run'[r].group = run[r].group
            /\ \A k \in Runs : k # r => run'[k] = run[k]
        BY <3>2, <3>4 DEF IInv, Types, RunRow
      <3>. QED BY <2>2, <3>4, <3>5, NewRunsKept
    <2>. QED BY <2>3, <2>4
  <1>3. ASSUME NEW h \in Callers, Start(h) PROVE NewRuns'
    <2>. DEFINE g == call[h].group
    <2>1. call[h].pc = "start" /\ call[h] \in Call
      BY <1>3, NotBooting DEF Start, Goes
    <2>2. CASE running[g] # None
      <3>1. call' = [call EXCEPT ![h] = Idle] /\ run' = run
        BY <1>3, <2>2 DEF Start, Goes
      <3>. QED BY <2>1, <3>1, InitKept, NewRunsKept
    <2>3. CASE running[g] = None
      <3>1. PICK r \in Runs :
              /\ run[r] = None /\ call' = [call EXCEPT ![h] = [call[h] EXCEPT !.pc = "init"]]
              /\ run' = [run EXCEPT ![r] = [group |-> g, dir |-> call[h].dir, pc |-> "new",
                                            rows |-> <<>>, task |-> <<>>]]
        BY <1>3, <2>3 DEF Start, Goes
      <3>2. run'[r].group = g /\ \A k \in Runs : k # r => run'[k] = run[k]
        BY <3>1 DEF IInv, Types
      <3>3. call'[h].pc = "init" /\ call'[h].group = g
        BY <2>1, <3>1 DEF IInv, Types, Call
      <3>4. \A k \in Callers : call[k].pc = "init" => call'[k] = call[k]
        BY <2>1, <3>1, InitKept
      <3>5. \A k \in Runs : k # r /\ run'[k] # None /\ run'[k].pc = "new" =>
              \E j \in Callers : call'[j].pc = "init" /\ call'[j].group = run'[k].group
        BY <3>2, <3>4 DEF NewRuns
      <3>. QED BY <3>2, <3>3, <3>5 DEF NewRuns
    <2>. QED BY <2>2, <2>3
  <1>4. ASSUME NEW h \in Callers, InitTasks(h) PROVE NewRuns'
    <2>. DEFINE g == call[h].group
                r == running[g]
    <2>1. call[h].pc = "init" /\ call' = [call EXCEPT ![h] = Idle]
      BY <1>4 DEF InitTasks, Goes
    <2>2. PICK rows, task : run' = [run EXCEPT ![r] = [run[r] EXCEPT !.pc = "mkdir", !.rows = rows, !.task = task]]
      BY <1>4 DEF InitTasks
    <2>3. g \in Groups /\ r \in Runs /\ run[r] # None /\ run[r] \in RunRow /\ run[r].group = g
      BY <2>1 DEF IInv, Types, CallsOK, CallOK, RunsKnown
    <2>4. run'[r].pc = "mkdir" /\ \A k \in Runs : k # r => run'[k] = run[k]
      BY <2>2, <2>3 DEF IInv, Types, RunRow
    <2>5. \A k \in Runs : k # r /\ run[k] # None => run[k].group # g
      BY <2>3 DEF IInv, RunsKnown
    <2>6. \A k \in Callers : k # h => call'[k] = call[k]
      BY <2>1 DEF IInv, Types
    <2>. QED BY <2>4, <2>5, <2>6 DEF NewRuns
  <1>5. ASSUME NEW r \in Runs, run[r] # None, call' = call, run'[r] = None \/ run'[r].pc # "new",
               \A k \in Runs : k # r => run'[k] = run[k]
        PROVE  NewRuns'
    BY <1>5, NewRunsKept
  <1>6. ASSUME NEW r \in Runs, RunStep(r) PROVE NewRuns'
    <2>. DEFINE Later == /\ run'[r] = None \/ run'[r].pc # "new"
                         /\ \A k \in Runs : k # r => run'[k] = run[k]
    <2>1. run[r] # None /\ call' = call
      BY <1>6 DEF RunStep, MkDir, MkDirFails, SaveDir, SaveFinished, Leave, RunGoes
    <2>2. run \in [Runs -> RunRow \union {None}] /\ run[r] \in RunRow
      BY <2>1 DEF IInv, Types
    <2>3. ASSUME NEW pc, NEW next, RunGoes(r, pc, next), next # "new" PROVE Later
      BY <2>2, <2>3 DEF RunGoes, RunRow
    <2>4. MkDir(r) => Later
      BY <2>2 DEF MkDir, RunRow
    <2>5. Leave(r) => Later
      BY <2>2 DEF Leave
    <2>6. MkDirFails(r) \/ SaveDir(r) \/ SaveFinished(r) => Later
      BY <2>3 DEF MkDirFails, SaveDir, SaveFinished
    <2>. QED BY <1>5, <1>6, <2>1, <2>4, <2>5, <2>6 DEF RunStep
  <1>7. ASSUME NEW r \in Runs, NEW t \in Tasks, TaskStep(r, t) \/ SearchStep(r, t) PROVE NewRuns'
    <2>. DEFINE Later == /\ run'[r] = None \/ run'[r].pc # "new"
                         /\ \A k \in Runs : k # r => run'[k] = run[k]
    <2>1. run[r] # None /\ call' = call
      BY <1>7 DEF TaskStep, SearchStep, Begin, Open, OpenFails, Line, WriteFails, End, Clean, SaveTask, TaskGoes
    <2>2. run \in [Runs -> RunRow \union {None}] /\ run[r] \in RunRow
      BY <2>1 DEF IInv, Types
    <2>3. ASSUME NEW pc, NEW w, TaskGoes(r, t, pc, w) PROVE Later
      BY <2>2, <2>3 DEF TaskGoes, RunRow
    <2>4. Begin(r, t) \/ Open(r, t) \/ OpenFails(r, t) \/ Line(r, t) \/ WriteFails(r, t) \/ SaveTask(r, t) => Later
      BY <2>3 DEF Begin, Open, OpenFails, Line, WriteFails, SaveTask
    <2>5. Clean(r, t) => Later
      BY <2>2 DEF Clean, RunRow
    <2>6. ASSUME NEW ok \in BOOLEAN, End(r, t, ok) PROVE Later
      <3>1. PICK w, x : /\ run' = [run EXCEPT ![r].task[t] = w, ![r].rows[t].paths = x]
                        /\ run[r].pc = "tasks"
        BY <2>6 DEF End
      <3>. QED BY <2>2, <3>1 DEF RunRow
    <2>. QED BY <1>5, <1>7, <2>1, <2>4, <2>5, <2>6 DEF TaskStep, SearchStep
  <1>8. CASE Crash
    BY <1>8 DEF Crash, NewRuns
  <1>9. ASSUME NEW g \in Groups, CleanUp(g) PROVE NewRuns'
    <2>1. Boot \in Callers /\ call[Boot].pc # "init" /\ run' = run
      BY <1>9, IdleCall DEF CleanUp, Callers
    <2>. QED BY <1>9, <2>1, InitKept, NewRunsKept DEF CleanUp
  <1>10. CASE Up \/ UNCHANGED vars
    <2>1. run' = run /\ call' = call
      BY <1>10 DEF Up, vars
    <2>. QED BY <2>1 DEF NewRuns
  <1>. QED BY <1>1, <1>2, <1>3, <1>4, <1>6, <1>7, <1>8, <1>9, <1>10 DEF Next, BootStep, Callers

\* Between requests a group is running if and only if it has a run, a finished one
\* has no task that is left running, and nothing is left of a deleted one.
THEOREM SettledAlways == Spec => []Settled
  <1>1. IInv /\ NewRuns => Settled
    <2>. SUFFICES ASSUME IInv, NewRuns, ~raced, NEW g \in Groups, Undisturbed(g)
                  PROVE  IF groups[g] = None
                         THEN Own(g) = {} /\ (\A p \in previews : p[2] # g) /\ (\A f \in files : f[1] # g)
                         ELSE /\ groups[g].state = "running" <=> running[g] # None /\ run[running[g]].pc # "leave"
                              /\ Own(g) # {}
                              /\ groups[g].state = "finished" => \A t \in Own(g) : tasks[t].state # "running"
      BY DEF Settled, Own
    <2>1. GroupOK(g)
      BY DEF IInv, Calm
    <2>2. ~booting /\ \A h \in Callers : ~Writes(h, g) /\ (call[h].group = g => h = Boot /\ call[h] = Idle)
      BY IdleCall, NoneIsNil DEF Undisturbed, IInv, BootOK, Writes, Callers
    <2>3. CASE groups[g] = None
      <3>1. Own(g) = {} /\ NoPreviews(g) /\ NoFiles(g)
        BY <2>1, <2>3 DEF GroupOK, RowsOK
      <3>2. (\A p \in previews : p[2] # g) /\ (\A f \in files : f[1] # g)
        BY <3>1 DEF NoPreviews, NoFiles, IInv, Types
      <3>. QED BY <2>3, <3>1, <3>2
    <2>4. CASE groups[g] # None /\ running[g] = None
      <3>1. Finished(g)
        BY <2>1, <2>2, <2>4 DEF GroupOK, Quiet
      <3>. QED BY <2>4, <3>1 DEF Finished
    <2>5. CASE groups[g] # None /\ running[g] # None
      <3>1. PICK r : r = running[g] /\ r \in Runs /\ run[r] # None /\ run[r] \in RunRow /\ run[r].group = g
        BY <2>5 DEF IInv, Types, RunsKnown
      <3>2. RunOK(g, r)
        BY <2>1, <2>5, <3>1 DEF GroupOK
      <3>3. run[r].pc # "new"
        <4>. SUFFICES ASSUME run[r].pc = "new" PROVE FALSE
          OBVIOUS
        <4>1. PICK h \in Callers : call[h].pc = "init" /\ call[h].group = g
          BY <3>1 DEF NewRuns
        <4>. QED BY <2>2, <4>1, IdleCall
      <3>4. CASE run[r].pc = "leave"
        <4>1. Finished(g)
          BY <3>2, <3>4 DEF RunOK
        <4>. QED BY <2>5, <3>1, <3>4, <4>1 DEF Finished
      <3>5. CASE run[r].pc \in {"mkdir", "saveDir", "tasks"}
        <4>1. groups[g].state = "running" /\ Own(g) # {}
          BY <3>2, <3>5 DEF RunOK
        <4>. QED BY <2>5, <3>1, <3>5, <4>1
      <3>. QED BY <3>1, <3>3, <3>4, <3>5 DEF RunRow
    <2>. QED BY <2>3, <2>4, <2>5
  <1>2. Init => NewRuns
    BY DEF Init, NewRuns
  <1>3. Spec => []NewRuns
    BY <1>2, NewRunsStep, SearchInvariant, PTL DEF Spec
  <1>. QED BY <1>1, <1>3, SearchInvariant, PTL

\* The files of a finished task are where its row says, and a task that failed
\* shows neither a log nor previews.
THEOREM ShownIsOnDiskAlways == Spec => []ShownIsOnDisk
  <1>1. IInv => ShownIsOnDisk
    <2>. SUFFICES ASSUME IInv, ~raced, NEW t \in Tasks, tasks[t] # None, NEW g, g = tasks[t].group
                  PROVE  /\ tasks[t].state = "finished" /\ Undisturbed(g) =>
                              \A k \in tasks[t].paths : <<g, t, k>> \in files
                         /\ tasks[t].state = "error" =>
                              "log" \notin tasks[t].paths /\ \A p \in previews : p[1] # t
      BY DEF ShownIsOnDisk
    <2>1. g \in Groups /\ t \in Own(g) /\ \A k \in Groups : k # g => t \notin Own(k)
      BY DEF IInv, Types, TaskRow, Own
    <2>2. RowsOK(g) /\ Kept(g) /\ \A k \in Groups : RowsOK(k)
      BY <2>1 DEF IInv, Calm, GroupOK
    <2>3. Undisturbed(g) => Stays(g)
      BY <2>1, IdleCall DEF Undisturbed, Stays, Writes, IInv, BootOK, Callers
    <2>4. tasks[t].state = "error" => \A k \in Groups : <<t, k>> \notin previews
      BY <2>1, <2>2 DEF RowsOK
    <2>5. tasks[t].state = "error" => \A p \in previews : p[1] # t
      BY <2>4 DEF IInv, Types
    <2>6. tasks[t].state = "error" => "log" \notin tasks[t].paths
      BY <2>1, <2>2 DEF RowsOK
    <2>. QED BY <2>1, <2>2, <2>3, <2>5, <2>6 DEF Kept
  <1>. QED BY <1>1, SearchInvariant, PTL

\* What was found stays until it is deleted: no request and no run writes the row
\* of a finished task.
THEOREM FinishedStaysAlways == Spec => FinishedStays
  <1>. DEFINE Stay == \A t \in Tasks : tasks[t] # None /\ tasks[t].state = "finished" /\ ~raced' =>
                          tasks'[t] \in {tasks[t], None}
  <1>1. ASSUME IInv, [Next]_vars PROVE Stay
    <2>. SUFFICES ASSUME NEW t \in Tasks, tasks[t] # None, tasks[t].state = "finished", ~raced', tasks' # tasks
                  PROVE  tasks'[t] \in {tasks[t], None}
      OBVIOUS
    <2>1. \/ \E h \in Callers : (\E tikv \in BOOLEAN : CreateTask(h, tikv)) \/ ResetTask(h) \/ DeleteTasks(h)
          \/ \E r \in Runs, u \in Tasks : SaveTask(r, u)
      <3>1. ASSUME NEW h \in Handlers, Request(h) PROVE tasks' = tasks
        BY <3>1 DEF Request, Create, Retry, Cancel, Delete, dbVars
      <3>2. ASSUME NEW h \in Callers, HandlerStep(h)
            PROVE  tasks' = tasks \/ (\E tikv \in BOOLEAN : CreateTask(h, tikv)) \/ ResetTask(h) \/ DeleteTasks(h)
        BY <3>2 DEF HandlerStep, Start, InitTasks, FindFailed, ResetGroup, Abort, DeleteFiles, DeletePreviews,
                    DeleteGroup, dbVars
      <3>3. ASSUME NEW r \in Runs, RunStep(r) PROVE tasks' = tasks
        BY <3>3 DEF RunStep, MkDir, MkDirFails, SaveDir, SaveFinished, Leave, RunGoes, dbVars
      <3>4. ASSUME NEW r \in Runs, NEW u \in Tasks, TaskStep(r, u) \/ SearchStep(r, u)
            PROVE  tasks' = tasks \/ SaveTask(r, u)
        BY <3>4 DEF TaskStep, SearchStep, Begin, Open, OpenFails, Line, WriteFails, End, Clean, dbVars
      <3>5. CASE Crash \/ BootStep \/ UNCHANGED vars
        BY <3>5 DEF Crash, BootStep, CleanUp, Up, vars, dbVars
      <3>. QED BY <1>1, <3>1, <3>2, <3>3, <3>4, <3>5 DEF Next, Callers
    <2>2. ASSUME NEW h \in Callers, NEW tikv \in BOOLEAN, CreateTask(h, tikv) PROVE tasks'[t] = tasks[t]
      <3>1. DOMAIN tasks = 1 .. MaxTask /\ MaxTask \in Nat
        BY <1>1, LogSearchAssumption DEF IInv, Types, Tasks
      <3>2. NewId(tasks) \in Tasks => tasks[NewId(tasks)] = None
        BY <3>1, NewIdFresh DEF Tasks
      <3>. QED BY <1>1, <2>2, <3>2 DEF CreateTask, IInv, Types
    <2>3. ASSUME NEW h \in Callers, ResetTask(h) PROVE tasks'[t] = tasks[t]
      <3>. DEFINE g == call[h].group
      <3>1. PICK u, rows : /\ rows = call[h].rows /\ u = Min({i \in DOMAIN rows : Rank(rows, i) = call[h].todo})
                           /\ call[h].pc = "save" /\ tasks' = [tasks EXCEPT ![u] = rows[u]] /\ raced' = raced
        BY <2>3 DEF ResetTask, Goes, Rank
      <3>2. /\ call[h] \in Call /\ CallOK(h) /\ g \in Groups /\ Writes(h, g)
            /\ call[h].op = "retry" /\ call[h].todo \in 1 .. Cardinality(DOMAIN rows)
        BY <1>1, <3>1, NotBooting, WriterStep DEF CallOK
      <3>3. DOMAIN rows \subseteq Tasks
        BY <3>1, <3>2, RowsMember DEF Call
      <3>4. u \in DOMAIN rows
        BY <3>1, <3>2, <3>3, RankMember
      <3>5. tasks[u].state # "finished"
        <4>1. RetryOK(g, h)
          BY <1>1, <3>1, <3>2, WriterAlone
        <4>. QED BY <3>1, <3>2, <3>4, <4>1 DEF RetryOK
      <3>. QED BY <1>1, <3>1, <3>5 DEF IInv, Types
    <2>4. ASSUME NEW h \in Callers, DeleteTasks(h) PROVE tasks'[t] \in {tasks[t], None}
      BY <2>4 DEF DeleteTasks
    <2>5. ASSUME NEW r \in Runs, NEW u \in Tasks, SaveTask(r, u) PROVE tasks'[t] = tasks[t]
      <3>1. /\ run[r] # None /\ run[r].pc = "tasks" /\ u \in DOMAIN run[r].task /\ run[r].task[u].pc = "save"
            /\ raced' = raced /\ \E row : tasks' = [tasks EXCEPT ![u] = row]
        BY <2>5 DEF SaveTask, TaskGoes
      <3>2. PICK g : g = run[r].group
        OBVIOUS
      <3>3. TaskOK(g, r, u)
        BY <1>1, <3>1, <3>2, TaskKnown
      <3>4. tasks[u].state = "running"
        BY <3>1, <3>3 DEF TaskOK
      <3>. QED BY <1>1, <3>1, <3>4 DEF IInv, Types
    <2>. QED BY <2>1, <2>2, <2>3, <2>4, <2>5
  <1>. QED BY <1>1, SearchInvariant, PTL DEF Spec, FinishedStays
=============================================================================
