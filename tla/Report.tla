-------------------------------- MODULE Report --------------------------------
(***************************************************************************)
(* A diagnosis report: the request that creates its row, the background    *)
(* goroutine that builds it table by table in parallel, and what the row   *)
(* says of it (pkg/apiserver/diagnose: diagnose.go, model.go, the workers  *)
(* of report.go and the goroutines of compare.go).                         *)
(*                                                                         *)
(* What a table holds is left out: the function of a table returns rows,   *)
(* no rows, an error, or panics.  DiagTables has the functions.            *)
(***************************************************************************)
EXTENDS Integers, Sequences, SequencesExt, FiniteSets

CONSTANTS
    TasksOf,        \* TasksOf[g]: how many tables group g has
    OutcomesOf,     \* OutcomesOf[g]: what the functions of group g may do, of Outcomes
    Conc,           \* workers of one getTablesParallel
    MaxRepFailures, \* bound: failing statements on the local database
    MaxRepCrashes   \* bound: how often the process dies

\* One call of getTablesParallel each.  A plain report has one, a comparison six,
\* two of which ("t1", "t2") are made by GetReportTablesIn2Range.
Groups == {"all", "header", "t1", "t2", "refer", "base", "end"}
\* The goroutines of GetCompareReportTablesForDisplay.
Lines == {"header", "ranges", "refer", "base", "end"}
\* CompareDiagnose and getTiDBAbnormalSlowQueryOnly have goroutines too: one table each.
Singles == {"diagnose", "slow"}
GroupsOf(line) == IF line = "ranges" THEN {"t1", "t2"} ELSE {line}
TaskCount(line) == IF line = "ranges" THEN TasksOf["t1"] + TasksOf["t2"] ELSE TasksOf[line]
Outcomes == {"rows", "norows", "error", "panic"}

ASSUME ReportAssumption ==
    /\ TasksOf \in [Groups -> Nat]
    /\ OutcomesOf \in [Groups -> SUBSET Outcomes]
    /\ Conc \in Nat /\ MaxRepFailures \in Nat /\ MaxRepCrashes \in Nat

VARIABLES
    reportKind,  \* "plain" or "compare", as the request asked
    reportRow,   \* the row of diagnose_reports, or NoReport
    builder,     \* the background goroutine: where it is
    repTasks,    \* repTasks[g]: the task channel
    repWorker,   \* repWorker[g][i]: a worker, its task, the percentage it is to write
    repResults,  \* repResults[g]: the result channel, in order of arrival
    repProgress, \* how many tables are done
    repTotal,    \* totalTableCount: of how many, as far as is known
    lineAt,      \* the goroutines of a comparison
    errRows,     \* the error rows (a set), which all of these append to without a lock
    repCompared, \* the tables CompareTables made of those of the two ranges
    repSingles,  \* which of Singles made their table
    repRaced,    \* history: two of these appends met
    repFailures, repCrashes

requestVars == <<reportKind, reportRow, repFailures>>
workerVars == <<repTasks, repWorker, repResults, repProgress>>
lineVars == <<lineAt, errRows, repRaced>>
repGathered == <<repCompared, repSingles>>
reportVars == <<requestVars, workerVars, lineVars, builder, repTotal, repGathered, repCrashes>>

NoReport == [progress |-> -1, content |-> "none"]
Empty == [tables |-> <<>>, errors |-> {}]
Idle == [at |-> "take", task |-> 0, pct |-> 0]

NoTasks == [g \in Groups |-> <<>>]
NoWorkers == [g \in Groups |-> [i \in 1 .. Conc |-> Idle]]
NoLines == [l \in Lines |-> "off"]

ReportInit ==
    /\ reportKind \in {"plain", "compare"}
    /\ reportRow = NoReport
    /\ builder = "none"
    /\ repTasks = NoTasks /\ repWorker = NoWorkers /\ repResults = NoTasks
    /\ repProgress = 0 /\ repTotal = 0
    /\ lineAt = NoLines
    /\ errRows = {} /\ repCompared = <<>> /\ repSingles = {}
    /\ repRaced = FALSE
    /\ repFailures = 0 /\ repCrashes = 0

\* A statement on the report's row: it takes effect, or it fails and the caller goes on.
UpdateRow(effect) ==
    /\ UNCHANGED reportKind
    /\ \/ reportRow' = effect /\ UNCHANGED repFailures
       \/ /\ repFailures < MaxRepFailures
          /\ repFailures' = repFailures + 1
          /\ UNCHANGED reportRow
UpdateReportProgress(pct) == UpdateRow([reportRow EXCEPT !.progress = pct])

-----------------------------------------------------------------------------
\* genReportHandler: the row is created before the goroutine starts.
Request ==
    /\ reportRow = NoReport
    /\ builder' = "check"
    /\ reportRow' = [progress |-> 0, content |-> Empty]
    /\ UNCHANGED <<reportKind, repFailures, workerVars, lineVars, repTotal, repGathered, repCrashes>>

\* checkBeforeReport fails: the report is one table with that error.
CheckFails ==
    /\ builder = "check"
    /\ errRows' = {<<"check", 0>>}
    /\ builder' = "full"
    /\ UNCHANGED <<requestVars, workerVars, lineAt, repRaced, repTotal, repGathered, repCrashes>>

\* func2task, and the workers of getTablesParallel.
Launch(gs) ==
    /\ repTasks' = [g \in Groups |-> IF g \in gs THEN [i \in 1 .. TasksOf[g] |-> i]
                                     ELSE repTasks[g]]
    /\ UNCHANGED <<repWorker, repResults, repProgress>>

StartPlain ==
    /\ builder = "check" /\ reportKind = "plain"
    /\ builder' = "tables"
    /\ repTotal' = TasksOf["all"]
    /\ Launch({"all"})
    /\ UNCHANGED <<requestVars, lineVars, repGathered, repCrashes>>

StartCompare ==
    /\ builder = "check" /\ reportKind = "compare"
    /\ builder' = "tables"
    /\ lineAt' = [l \in Lines |-> IF TaskCount(l) = 0 THEN "run" ELSE "start"]
    /\ UNCHANGED <<requestVars, workerVars, errRows, repRaced, repTotal, repGathered, repCrashes>>

\* Mutant: the tables of the two ranges are counted once.
TaskCountOnce(line) == IF line = "ranges" THEN TasksOf["t1"] ELSE TaskCount(line)

\* How many tables a goroutine of the comparison adds to totalTableCount.
Counted(line) == TaskCount(line)

\* It adds them first, then it gets them.
StartLine(l) ==
    /\ lineAt[l] = "start"
    /\ lineAt' = [lineAt EXCEPT ![l] = "run"]
    /\ repTotal' = repTotal + Counted(l)
    /\ Launch(GroupsOf(l))
    /\ UNCHANGED <<requestVars, errRows, repRaced, builder, repGathered, repCrashes>>

-----------------------------------------------------------------------------
\* doGetTable, one worker of a group.
Step(g, i, w) == repWorker' = [repWorker EXCEPT ![g][i] = w]

Take(g, i) ==
    /\ repWorker[g][i].at = "take"
    /\ repTasks[g] # <<>>
    /\ Step(g, i, [at |-> "run", task |-> Head(repTasks[g]), pct |-> 0])
    /\ repTasks' = [repTasks EXCEPT ![g] = Tail(@)]
    /\ UNCHANGED <<requestVars, lineVars, repResults, repProgress, builder, repTotal,
                   repGathered, repCrashes>>

\* Mutant: nobody recovers, the worker of a table that panics is gone.
FinishOrDie(g, i, out) ==
    /\ repWorker[g][i].at = "run"
    /\ Step(g, i, [repWorker[g][i] EXCEPT !.at = IF out = "panic" THEN "dead" ELSE "write",
                                          !.pct = 100])
    /\ repProgress' = repProgress + 1
    /\ repResults' = [repResults EXCEPT ![g] =
                        Append(@, [task |-> repWorker[g][i].task,
                                   out |-> IF out = "panic" THEN "error" ELSE out])]
    /\ UNCHANGED <<requestVars, lineVars, repTasks, builder, repTotal, repGathered, repCrashes>>

\* The table is there, or its error; a panic is one too.  The percentage is
\* worked out before the row is written, and the writes come in any order.
Finish(g, i, out) ==
    /\ repWorker[g][i].at = "run"
    /\ repProgress' = repProgress + 1
    /\ repResults' = [repResults EXCEPT ![g] =
                        Append(@, [task |-> repWorker[g][i].task,
                                   out |-> IF out = "panic" THEN "error" ELSE out])]
    /\ Step(g, i, [repWorker[g][i] EXCEPT !.at = "write",
                                          !.pct = (repProgress' * 100) \div repTotal])
    /\ UNCHANGED <<requestVars, lineVars, repTasks, builder, repTotal, repGathered, repCrashes>>

WriteProgress(g, i) ==
    /\ repWorker[g][i].at = "write"
    /\ UpdateReportProgress(repWorker[g][i].pct)
    /\ Step(g, i, Idle)
    /\ UNCHANGED <<lineVars, repTasks, repResults, repProgress, builder, repTotal,
                   repGathered, repCrashes>>

\* wg.Wait()
Joined(g) == repTasks[g] = <<>> /\ \A i \in 1 .. Conc : repWorker[g][i].at = "take"

TasksThat(g, out) == {r.task : r \in {x \in Range(repResults[g]) : x.out = out}}

\* getTablesParallel sorts the results by their task.
InOrder(tasks) ==
    CHOOSE s \in [1 .. Cardinality(tasks) -> tasks] : \A i, j \in DOMAIN s : i < j => s[i] < s[j]
Named(g, tasks) == [i \in 1 .. Cardinality(tasks) |-> <<g, InOrder(tasks)[i]>>]
TablesOf(g) == Named(g, TasksThat(g, "rows"))
ErrorsOf(g) == {<<g, t>> : t \in TasksThat(g, "error")}

-----------------------------------------------------------------------------
GatherPlain ==
    /\ builder = "tables" /\ reportKind = "plain"
    /\ Joined("all")
    /\ errRows' = ErrorsOf("all")
    /\ builder' = "full"
    /\ UNCHANGED <<requestVars, workerVars, lineAt, repRaced, repTotal, repGathered, repCrashes>>

\* CompareTables: the tables that both ranges have; to compare one may fail.
InBoth == TasksThat("refer", "rows") \cap TasksThat("base", "rows")

\* errRows = append(errRows, ...) has no lock: of appends that met, only the last
\* is sure to be there when the builder looks, after wg.Wait.
Appended(failed) == [k \in Groups \cup failed |->
                        IF k \in failed THEN {<<k, 0>>} ELSE ErrorsOf(k)]

GatherCompare ==
    /\ builder = "tables" /\ reportKind = "compare"
    /\ \A l \in Lines : lineAt[l] = "run" /\ \A g \in GroupsOf(l) : Joined(g)
    /\ \E failed \in SUBSET Singles, incomparable \in SUBSET InBoth :
         LET appended == Appended(failed)
         IN  \E lost \in SUBSET {k \in DOMAIN appended : appended[k] # {}} :
               /\ lost # DOMAIN appended
               /\ repRaced' = (lost # {})
               /\ repSingles' = Singles \ failed
               /\ repCompared' = Named("refer", InBoth \ incomparable)
               /\ errRows' = {<<"refer", t>> : t \in incomparable}
                            \cup UNION {appended[k] : k \in DOMAIN appended \ lost}
    /\ builder' = "full"
    /\ UNCHANGED <<requestVars, workerVars, lineAt, repTotal, repCrashes>>

\* Tables of the two ranges in turn; what one has more of comes last.
InTurns(s, t) ==
    LET n == IF Len(s) < Len(t) THEN Len(s) ELSE Len(t)
    IN  [i \in 1 .. 2 * n |-> IF i % 2 = 1 THEN s[(i + 1) \div 2] ELSE t[i \div 2]]
        \o SubSeq(s, n + 1, Len(s)) \o SubSeq(t, n + 1, Len(t))

SingleTable(k) == IF k \in repSingles THEN <<<<k, 0>>>> ELSE <<>>
CheckFailed == <<"check", 0>> \in errRows

Content ==
    [tables |-> CASE CheckFailed -> <<>>
                  [] reportKind = "plain" -> TablesOf("all")
                  [] OTHER -> TablesOf("header") \o SingleTable("slow")
                              \o InTurns(TablesOf("t1"), TablesOf("t2"))
                              \o SingleTable("diagnose") \o repCompared \o TablesOf("end"),
     errors |-> errRows]

\* Two statements: who asks in between is told that a report without content is ready.
FullProgress ==
    /\ builder = "full"
    /\ UpdateReportProgress(100)
    /\ builder' = "save"
    /\ UNCHANGED <<workerVars, lineVars, repTotal, repGathered, repCrashes>>

SaveReportContent ==
    /\ builder = "save"
    /\ UpdateRow([reportRow EXCEPT !.content = Content])
    /\ builder' = "ended"
    /\ UNCHANGED <<workerVars, lineVars, repTotal, repGathered, repCrashes>>

\* The process dies; nothing looks for unfinished reports when it is back.
ReportCrash ==
    /\ builder \notin {"none", "ended"}
    /\ repCrashes < MaxRepCrashes
    /\ repCrashes' = repCrashes + 1
    /\ builder' = "ended"
    /\ repTasks' = NoTasks /\ repWorker' = NoWorkers /\ repResults' = NoTasks
    /\ repProgress' = 0 /\ repTotal' = 0
    /\ lineAt' = NoLines
    /\ errRows' = {} /\ repCompared' = <<>> /\ repSingles' = {}
    /\ repRaced' = FALSE
    /\ UNCHANGED requestVars

WorkerOf(g, i) ==
    \/ Take(g, i) \/ WriteProgress(g, i)
    \/ \E out \in OutcomesOf[g] : Finish(g, i, out)
WorkerStep == \E g \in Groups, i \in 1 .. Conc : WorkerOf(g, i)
LineStep == \E l \in Lines : StartLine(l)
BuilderStep == CheckFails \/ StartPlain \/ StartCompare \/ GatherPlain \/ GatherCompare
               \/ FullProgress \/ SaveReportContent
ReportNext == Request \/ WorkerStep \/ LineStep \/ BuilderStep \/ ReportCrash
ReportSpec == ReportInit /\ [][ReportNext]_reportVars

-----------------------------------------------------------------------------
Ran(g, outs) == {<<g, r.task>> : r \in {x \in Range(repResults[g]) : x.out \in outs}}
RanOf(gs, outs) == UNION {Ran(g, outs) : g \in gs}
AllRan(gs) == \A g \in gs : Ran(g, Outcomes) = {<<g, t>> : t \in 1 .. TasksOf[g]}
EachOnce(s, set) == Range(s) = set /\ Len(s) = Cardinality(set)

\* What the content of a finished report has to hold: every table was made, those
\* with rows are there once, of a plain report in order, and a row of error for
\* every other that failed.  Of a comparison, the tables that only one of the
\* ranges has are not there.
ContentExact(c) ==
    IF reportKind = "plain"
    THEN /\ AllRan({"all"})
         /\ EachOnce(c.tables, Ran("all", {"rows"}))
         /\ \A i, j \in DOMAIN c.tables : i < j => c.tables[i][2] < c.tables[j][2]
         /\ c.errors = Ran("all", {"error"})
    ELSE LET single == RanOf({"header", "t1", "t2", "end"}, {"rows"})
             pairs == {t \in Ran("refer", {"rows"}) : <<"base", t[2]>> \in Ran("base", {"rows"})}
             own == {<<k, 0>> : k \in Singles}
         IN  /\ AllRan(Groups \ {"all"})
             /\ EachOnce(c.tables, (single \cup pairs \cup own) \ c.errors)
             /\ c.errors \ (pairs \cup own) = RanOf(Groups, {"error"})

\* What a report's row says is true: the percentage is one, though the tables are
\* counted while others are being made; content comes after the last table and
\* holds every table and every error (a comparison's only if no two goroutines
\* met in errRows), whatever order the workers ended in.
ReportHonest ==
    /\ reportRow # NoReport =>
         /\ reportRow.progress \in 0 .. 100
         /\ reportRow.content # Empty =>
              /\ repFailures = 0 => reportRow.progress = 100
              /\ CheckFailed \/ repRaced \/ ContentExact(reportRow.content)

\* Every report that was asked for ends with its content, as long as the process
\* lives and its database takes the statements: no table, whatever it does, holds
\* the others up.
ReportEnds ==
    (builder = "check") ~> (builder = "ended" /\ (repFailures + repCrashes > 0
                                                  \/ reportRow.content # Empty
                                                  \/ Content = Empty))
=============================================================================
