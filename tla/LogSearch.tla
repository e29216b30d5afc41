------------------------------- MODULE LogSearch -------------------------------
(***************************************************************************)
(* Log search (pkg/apiserver/logsearch).  A request creates a task group   *)
(* and its tasks as rows of the local database and hands them to the       *)
(* scheduler, which keeps the running groups in a map.  A run searches     *)
(* with one goroutine per task, writes log files and previews, and saves   *)
(* the rows when it is done.  Other requests retry, cancel and delete.     *)
(*                                                                         *)
(* Every statement of the database and every call of the file system is a  *)
(* step, so that requests and runs interleave between them.  A crash loses *)
(* everything but rows and files; the next start deletes all groups.       *)
(*                                                                         *)
(* A definition marked "Mutant" is a plausible bug in the definition that  *)
(* follows it and part of no specification: the properties refute it.      *)
(***************************************************************************)
EXTENDS Naturals, FiniteSets, FiniteSetsExt

CONSTANTS
    Handlers,     \* goroutines that serve requests
    Boot,         \* the goroutine that starts the process
    Runs,         \* runs of groups, numbered for the model only
    None,         \* no row, no run
    MaxTargets,   \* bound: targets of a group
    MaxGroup,     \* bound: ids of groups
    MaxTask,      \* bound: ids of tasks
    MaxCalls,     \* bound: requests
    MaxFailures,  \* bound: calls of the file system that fail
    MaxCrashes    \* bound: crashes

Groups == 1 .. MaxGroup
Tasks == 1 .. MaxTask
Kinds == {"log", "slow"}

GroupRow == [state : {"running", "finished"}, dir : BOOLEAN]
TaskRow == [group : Groups, tikv : BOOLEAN, state : {"running", "finished", "error"}, paths : SUBSET Kinds]
Work == [pc : {"start", "open", "read", "clean", "save", "done"}, kind : Kinds,
         failed : BOOLEAN, lines : BOOLEAN, cancelled : BOOLEAN]
Rows == UNION {[S -> TaskRow] : S \in SUBSET Tasks}
RunRow == [group : Groups, dir : BOOLEAN, pc : {"new", "mkdir", "saveDir", "tasks", "leave"},
           rows : Rows, task : UNION {[S -> Work] : S \in SUBSET Tasks}]

\* None is nil: no id, no row and no pointer.
ASSUME LogSearchAssumption ==
    /\ Boot \notin Handlers
    /\ None \notin Runs \union Nat \union GroupRow \union TaskRow \union RunRow
    /\ MaxTargets \in Nat \ {0} /\ MaxGroup \in Nat /\ MaxTask \in Nat
    /\ MaxCalls \in Nat /\ MaxFailures \in Nat /\ MaxCrashes \in Nat

VARIABLES
    groups,    \* rows: state, and whether LogStoreDir is set
    tasks,     \* rows: group, kind of target, state, and which of the two paths are set
    previews,  \* rows: <<task, group>>
    dirs,      \* groups whose directory exists
    files,     \* <<group, task, kind>>: the files in them
    running,   \* runningTaskGroups: the run of a group
    run,       \* what the goroutines of a run have
    call,      \* what a handler is doing
    booting,   \* the process has not yet deleted the groups it found
    raced,     \* history: a retry or deletion met another request or a run
    asked,     \* history: groups whose cancellation was answered while they run
    calls, failures, crashes

dbVars == <<groups, tasks, previews>>
fileVars == <<dirs, files>>
countVars == <<calls, failures, crashes>>
vars == <<dbVars, fileVars, running, run, call, booting, raced, asked, countVars>>

Idle == [op |-> "none", pc |-> "idle", group |-> None, dir |-> FALSE, rows |-> <<>>, todo |-> 0]
NewRow(state, dir) == [state |-> state, dir |-> dir]
NewTask == [pc |-> "start", kind |-> "log", failed |-> FALSE, lines |-> FALSE, cancelled |-> FALSE]

Init ==
    /\ groups = [g \in Groups |-> None]
    /\ tasks = [t \in Tasks |-> None]
    /\ previews = {} /\ dirs = {} /\ files = {}
    /\ running = [g \in Groups |-> None]
    /\ run = [r \in Runs |-> None]
    /\ call = [h \in Handlers \union {Boot} |-> Idle]
    /\ booting = FALSE
    /\ raced = FALSE
    /\ asked = {}
    /\ calls = 0 /\ failures = 0 /\ crashes = 0

\* SQLite gives a new row the id after the greatest one in the table, so that
\* ids of deleted rows come back.
NewId(rows) == Max({0} \union {i \in DOMAIN rows : rows[i] # None}) + 1

\* Another request is about to write rows of g, or a run of g is in the map.
Busy(g, h) ==
    running[g] # None \/ \E k \in Handlers \ {h} : call[k].group = g /\ call[k].op # "cancel"

\* Handler h takes a new request.
Take(h, c) ==
    /\ call[h] = Idle
    /\ ~booting
    /\ calls < MaxCalls
    /\ calls' = calls + 1
    /\ call' = [call EXCEPT ![h] = c]
    /\ UNCHANGED <<fileVars, run, running, booting, failures, crashes>>

\* Handler h is at pc and goes on with c.
Goes(h, pc, c) ==
    /\ call[h].pc = pc
    /\ call' = [call EXCEPT ![h] = c]
    /\ UNCHANGED <<booting, countVars>>

-----------------------------------------------------------------------------
\* CreateTaskGroup: the row of the group.
Create(h, n) ==
    /\ NewId(groups) \in Groups
    /\ groups' = [groups EXCEPT ![NewId(groups)] = NewRow("running", FALSE)]
    /\ Take(h, [Idle EXCEPT !.op = "create", !.pc = "targets", !.group = NewId(groups), !.todo = n])
    /\ UNCHANGED <<tasks, previews, raced, asked>>

\* CreateTaskGroup: the row of a task, whose target may be a TiKV, which has a
\* slow log too.
CreateTask(h, tikv) ==
    LET t == NewId(tasks)
        row == [group |-> call[h].group, tikv |-> tikv, state |-> "running", paths |-> {}]
        left == call[h].todo - 1
    IN  /\ t \in Tasks
        /\ Goes(h, "targets", [call[h] EXCEPT !.todo = left,
                                              !.pc = IF left = 0 THEN "start" ELSE "targets",
                                              !.rows = [i \in DOMAIN @ \union {t} |->
                                                            IF i = t THEN row ELSE @[i]]])
        /\ tasks' = [tasks EXCEPT ![t] = row]
        /\ UNCHANGED <<groups, previews, fileVars, running, run, raced, asked>>

\* Mutant: the new run replaces the one in the map.
StartAnyway(h) ==
    LET g == call[h].group
    IN  \E r \in Runs :
            /\ run[r] = None
            /\ Goes(h, "start", [call[h] EXCEPT !.pc = "init"])
            /\ running' = [running EXCEPT ![g] = r]
            /\ run' = [run EXCEPT ![r] = [group |-> g, dir |-> call[h].dir, pc |-> "new",
                                          rows |-> <<>>, task |-> <<>>]]
            /\ UNCHANGED <<dbVars, fileVars, raced, asked>>

\* AsyncStart: LoadOrStore.  The request returns if the group is running.
Start(h) ==
    LET g == call[h].group
    IN  \/ /\ call[h].pc = "start"
           /\ running[g] = None
           /\ \E r \in Runs :
                /\ run[r] = None
                /\ Goes(h, "start", [call[h] EXCEPT !.pc = "init"])
                /\ running' = [running EXCEPT ![g] = r]
                /\ run' = [run EXCEPT ![r] = [group |-> g, dir |-> call[h].dir, pc |-> "new",
                                              rows |-> <<>>, task |-> <<>>]]
           /\ UNCHANGED <<dbVars, fileVars, raced, asked>>
        \/ /\ call[h].pc = "start"
           /\ running[g] # None
           /\ Goes(h, "start", Idle)
           /\ UNCHANGED <<dbVars, fileVars, running, run, raced, asked>>

\* AsyncStart: InitTasks, and the goroutine of the run starts.
InitTasks(h) ==
    LET r == running[call[h].group]
    IN  /\ Goes(h, "init", Idle)
        /\ run' = [run EXCEPT ![r].pc = "mkdir", ![r].rows = call[h].rows,
                              ![r].task = [t \in DOMAIN call[h].rows |-> NewTask]]
        /\ UNCHANGED <<dbVars, fileVars, running, raced, asked>>

-----------------------------------------------------------------------------
\* RetryTask: the group, if it is finished.
Retry(h, g) ==
    /\ groups[g] # None
    /\ groups[g].state = "finished"
    /\ Take(h, [Idle EXCEPT !.op = "retry", !.pc = "find", !.group = g, !.dir = groups[g].dir])
    /\ raced' = (raced \/ Busy(g, h))
    /\ UNCHANGED <<dbVars, asked>>

\* Mutant: all tasks of the group.
ToRetryAll(g) == {t \in Tasks : tasks[t] # None /\ tasks[t].group = g}

\* The tasks of g that failed.
ToRetry(g) == {t \in Tasks : tasks[t] # None /\ tasks[t].group = g /\ tasks[t].state = "error"}

\* RetryTask: the tasks that failed; if there are none, it returns.
FindFailed(h) ==
    LET g == call[h].group
        failed == ToRetry(g)
        rows == [t \in failed |-> [tasks[t] EXCEPT !.state = "running"]]
    IN  /\ Goes(h, "find", IF failed = {} THEN Idle
                           ELSE [call[h] EXCEPT !.pc = "reset", !.rows = rows])
        /\ UNCHANGED <<dbVars, fileVars, running, run, raced, asked>>

\* RetryTask: save the group as running.
ResetGroup(h) ==
    /\ Goes(h, "reset", [call[h] EXCEPT !.pc = "save", !.todo = Cardinality(DOMAIN call[h].rows)])
    /\ groups' = [groups EXCEPT ![call[h].group] = NewRow("running", call[h].dir)]
    /\ UNCHANGED <<tasks, previews, fileVars, running, run, raced, asked>>

\* RetryTask: save the next of its tasks as running.
ResetTask(h) ==
    LET rows == call[h].rows
        t == Min({i \in DOMAIN rows : Cardinality({j \in DOMAIN rows : j >= i}) = call[h].todo})
        left == call[h].todo - 1
    IN  /\ Goes(h, "save", [call[h] EXCEPT !.todo = left, !.pc = IF left = 0 THEN "start" ELSE "save"])
        /\ tasks' = [tasks EXCEPT ![t] = rows[t]]
        /\ UNCHANGED <<groups, previews, fileVars, running, run, raced, asked>>

-----------------------------------------------------------------------------
\* CancelTask: only a running group can be cancelled.
Cancel(h, g) ==
    /\ groups[g] # None
    /\ groups[g].state = "running"
    /\ Take(h, [Idle EXCEPT !.op = "cancel", !.pc = "abort", !.group = g])
    /\ UNCHANGED <<dbVars, raced, asked>>

\* AsyncAbort and AbortAll cancel the contexts of the tasks that there are.
\* The request is answered in any case.
Abort(h) ==
    LET g == call[h].group
        r == running[g]
    IN  /\ Goes(h, "abort", Idle)
        /\ run' = IF r = None THEN run
                  ELSE [run EXCEPT ![r].task = [t \in DOMAIN @ |-> [@[t] EXCEPT !.cancelled = TRUE]]]
        /\ asked' = IF groups[g] # None /\ groups[g].state = "running" THEN asked \union {g} ELSE asked
        /\ UNCHANGED <<dbVars, fileVars, running, raced>>

-----------------------------------------------------------------------------
Deletion(g) == [Idle EXCEPT !.op = "delete", !.pc = "files", !.group = g, !.dir = groups[g].dir]

\* Mutant: running groups are deleted too.
DeleteAny(h, g) ==
    /\ groups[g] # None
    /\ Take(h, Deletion(g))
    /\ raced' = (raced \/ (groups[g].state = "finished" /\ Busy(g, h)))
    /\ UNCHANGED <<dbVars, asked>>

\* DeleteTaskGroup: only a group that is not running.
Delete(h, g) ==
    /\ groups[g] # None
    /\ groups[g].state # "running"
    /\ Take(h, Deletion(g))
    /\ raced' = (raced \/ Busy(g, h))
    /\ UNCHANGED <<dbVars, asked>>

\* The steps of TaskGroupModel.Delete: the directory ...
DeleteFiles(h) ==
    LET g == call[h].group
    IN  /\ Goes(h, "files", [call[h] EXCEPT !.pc = "previews"])
        /\ dirs' = IF call[h].dir THEN dirs \ {g} ELSE dirs
        /\ files' = IF call[h].dir THEN {f \in files : f[1] # g} ELSE files
        /\ UNCHANGED <<dbVars, running, run, raced, asked>>

\* ... the previews ...
DeletePreviews(h) ==
    /\ Goes(h, "previews", [call[h] EXCEPT !.pc = "tasks"])
    /\ previews' = {p \in previews : p[2] # call[h].group}
    /\ UNCHANGED <<groups, tasks, fileVars, running, run, raced, asked>>

\* ... the tasks ...
DeleteTasks(h) ==
    /\ Goes(h, "tasks", [call[h] EXCEPT !.pc = "group"])
    /\ tasks' = [t \in Tasks |-> IF tasks[t] # None /\ tasks[t].group = call[h].group
                                 THEN None ELSE tasks[t]]
    /\ UNCHANGED <<groups, previews, fileVars, running, run, raced, asked>>

\* ... and the group.
DeleteGroup(h) ==
    /\ Goes(h, "group", Idle)
    /\ groups' = [groups EXCEPT ![call[h].group] = None]
    /\ asked' = asked \ {call[h].group}
    /\ UNCHANGED <<tasks, previews, fileVars, running, run, raced>>

-----------------------------------------------------------------------------
\* Run r is at pc and goes on at next; its goroutine saves the group.
RunGoes(r, pc, next) ==
    /\ run[r] # None
    /\ run[r].pc = pc
    /\ run' = [run EXCEPT ![r].pc = next]
    /\ UNCHANGED <<tasks, previews, files, call, booting, raced, calls, crashes>>

\* Mutant: the directory is made anew.
MkDirEmpty(r) ==
    /\ run[r] # None
    /\ run[r].pc = "mkdir"
    /\ dirs' = dirs \union {run[r].group}
    /\ files' = {f \in files : f[1] # run[r].group}
    /\ run' = [run EXCEPT ![r].pc = "saveDir", ![r].dir = TRUE]
    /\ UNCHANGED <<dbVars, running, call, booting, raced, asked, countVars>>

\* TaskGroup.SyncRun: the directory.
MkDir(r) ==
    /\ run[r] # None
    /\ run[r].pc = "mkdir"
    /\ dirs' = dirs \union {run[r].group}
    /\ run' = [run EXCEPT ![r].pc = "saveDir", ![r].dir = TRUE]
    /\ UNCHANGED <<dbVars, files, running, call, booting, raced, asked, countVars>>

MkDirFails(r) ==
    /\ failures < MaxFailures
    /\ RunGoes(r, "mkdir", "tasks")
    /\ failures' = failures + 1
    /\ UNCHANGED <<groups, dirs, running, asked>>

SaveDir(r) ==
    /\ RunGoes(r, "saveDir", "tasks")
    /\ groups' = [groups EXCEPT ![run[r].group] = NewRow("running", TRUE)]
    /\ UNCHANGED <<dirs, running, asked, failures>>

TasksDone(r) == \A t \in DOMAIN run[r].task : run[r].task[t].pc = "done"

\* Mutant: without wg.Wait.
SaveFinishedEarly(r) ==
    /\ RunGoes(r, "tasks", "leave")
    /\ groups' = [groups EXCEPT ![run[r].group] = NewRow("finished", run[r].dir)]
    /\ asked' = asked \ {run[r].group}
    /\ UNCHANGED <<dirs, running, failures>>

\* TaskGroup.SyncRun: when all tasks are done, save the group as finished.
SaveFinished(r) ==
    /\ RunGoes(r, "tasks", "leave")
    /\ TasksDone(r)
    /\ groups' = [groups EXCEPT ![run[r].group] = NewRow("finished", run[r].dir)]
    /\ asked' = asked \ {run[r].group}
    /\ UNCHANGED <<dirs, running, failures>>

\* The run leaves the map.
Leave(r) ==
    /\ run[r] # None
    /\ run[r].pc = "leave"
    /\ running' = [running EXCEPT ![run[r].group] = None]
    /\ run' = [run EXCEPT ![r] = None]
    /\ UNCHANGED <<dbVars, fileVars, call, booting, raced, asked, countVars>>

-----------------------------------------------------------------------------
\* Task t of run r is at pc and becomes w.
TaskGoes(r, t, pc, w) ==
    /\ run[r] # None
    /\ run[r].pc = "tasks"
    /\ t \in DOMAIN run[r].task
    /\ run[r].task[t].pc = pc
    /\ run' = [run EXCEPT ![r].task[t] = w]
    /\ UNCHANGED <<groups, dirs, running, call, booting, raced, asked, calls, crashes>>

Failed(w) == [w EXCEPT !.failed = TRUE, !.pc = "clean"]

\* Task.SyncRun up to the first search.
Begin(r, t) ==
    LET w == run[r].task[t]
    IN  /\ TaskGoes(r, t, "start", IF run[r].dir THEN [w EXCEPT !.pc = "open"] ELSE Failed(w))
        /\ UNCHANGED <<tasks, previews, files, failures>>

\* searchLog: the stream is opened and the file created.
Open(r, t) ==
    LET w == run[r].task[t]
    IN  /\ TaskGoes(r, t, "open", [w EXCEPT !.pc = "read", !.lines = FALSE])
        /\ ~w.cancelled
        /\ run[r].group \in dirs
        /\ files' = files \union {<<run[r].group, t, w.kind>>}
        /\ UNCHANGED <<tasks, previews, failures>>

\* searchLog: no stream, because the node is down or the task was cancelled, or
\* no file, because there is no directory.
OpenFails(r, t) ==
    /\ TaskGoes(r, t, "open", Failed(run[r].task[t]))
    /\ UNCHANGED <<tasks, previews, files, failures>>

\* searchLog: the first line; it is written and kept as a preview.
Line(r, t) ==
    LET w == run[r].task[t]
    IN  /\ TaskGoes(r, t, "read", [w EXCEPT !.lines = TRUE])
        /\ ~w.lines
        /\ previews' = previews \union {<<t, run[r].group>>}
        /\ UNCHANGED <<tasks, files, failures>>

\* searchLog: a line cannot be written.
WriteFails(r, t) ==
    /\ failures < MaxFailures
    /\ TaskGoes(r, t, "read", Failed(run[r].task[t]))
    /\ failures' = failures + 1
    /\ UNCHANGED <<tasks, previews, files>>

\* searchLog: the stream ends, in good order or with an error; the path is set
\* if there were lines.  TiKV has a second search.
End(r, t, ok) ==
    LET w == run[r].task[t]
        rest == IF ~ok THEN Failed(w)
                ELSE IF run[r].rows[t].tikv /\ w.kind = "log" THEN [w EXCEPT !.pc = "open", !.kind = "slow"]
                ELSE [w EXCEPT !.pc = "save"]
    IN  /\ run[r] # None
        /\ run[r].pc = "tasks"
        /\ t \in DOMAIN run[r].task
        /\ w.pc = "read"
        /\ run' = [run EXCEPT ![r].task[t] = rest,
                              ![r].rows[t].paths = IF w.lines THEN @ \union {w.kind} ELSE @]
        /\ UNCHANGED <<dbVars, fileVars, running, call, booting, raced, asked, countVars>>

\* Mutant: it keeps the previews.
CleanFiles(r, t) ==
    /\ run[r] # None
    /\ run[r].pc = "tasks"
    /\ t \in DOMAIN run[r].task
    /\ run[r].task[t].pc = "clean"
    /\ files' = IF "log" \in run[r].rows[t].paths THEN files \ {<<run[r].group, t, "log">>} ELSE files
    /\ run' = [run EXCEPT ![r].task[t].pc = "save", ![r].rows[t].paths = @ \ {"log"}]
    /\ UNCHANGED <<dbVars, dirs, running, call, booting, raced, asked, countVars>>

\* RemoveDataAndPreview, after an error: the log, not the slow log, and the
\* previews.
Clean(r, t) ==
    /\ run[r] # None
    /\ run[r].pc = "tasks"
    /\ t \in DOMAIN run[r].task
    /\ run[r].task[t].pc = "clean"
    /\ files' = IF "log" \in run[r].rows[t].paths THEN files \ {<<run[r].group, t, "log">>} ELSE files
    /\ previews' = {p \in previews : p[1] # t}
    /\ run' = [run EXCEPT ![r].task[t].pc = "save", ![r].rows[t].paths = @ \ {"log"}]
    /\ UNCHANGED <<groups, tasks, dirs, running, call, booting, raced, asked, countVars>>

\* Mutant: the goroutine of a failed task does not reach wg.Done.
SaveTaskHangs(r, t) ==
    LET w == run[r].task[t]
    IN  /\ TaskGoes(r, t, "save", [w EXCEPT !.pc = IF w.failed THEN "hangs" ELSE "done"])
        /\ tasks' = [tasks EXCEPT ![t] = [run[r].rows[t] EXCEPT
                                              !.state = IF w.failed THEN "error" ELSE "finished"]]
        /\ UNCHANGED <<previews, files, failures>>

\* Task.SyncRun, deferred: save the task.  A row that was deleted comes back.
SaveTask(r, t) ==
    LET w == run[r].task[t]
    IN  /\ TaskGoes(r, t, "save", [w EXCEPT !.pc = "done"])
        /\ tasks' = [tasks EXCEPT ![t] = [run[r].rows[t] EXCEPT
                                              !.state = IF w.failed THEN "error" ELSE "finished"]]
        /\ UNCHANGED <<previews, files, failures>>

-----------------------------------------------------------------------------
\* The process dies, and starts again.
Crash ==
    /\ crashes < MaxCrashes
    /\ crashes' = crashes + 1
    /\ running' = [g \in Groups |-> None]
    /\ run' = [r \in Runs |-> None]
    /\ call' = [h \in Handlers \union {Boot} |-> Idle]
    /\ asked' = {}
    /\ booting' = TRUE
    /\ UNCHANGED <<dbVars, fileVars, raced, calls, failures>>

\* cleanupAllTasks, in NewService: delete the next group ...
CleanUp(g) ==
    /\ booting
    /\ call[Boot] = Idle
    /\ groups[g] # None
    /\ call' = [call EXCEPT ![Boot] = Deletion(g)]
    /\ UNCHANGED <<dbVars, fileVars, running, run, booting, raced, asked, countVars>>

\* ... until there is none.
Up ==
    /\ booting
    /\ \A g \in Groups : groups[g] = None
    /\ booting' = FALSE
    /\ UNCHANGED <<dbVars, fileVars, running, run, call, raced, asked, countVars>>

Request(h) ==
    \/ \E n \in 1 .. MaxTargets : Create(h, n)
    \/ \E g \in Groups : Retry(h, g) \/ Cancel(h, g) \/ Delete(h, g)
HandlerStep(h) ==
    \/ (\E tikv \in BOOLEAN : CreateTask(h, tikv)) \/ Start(h) \/ InitTasks(h)
    \/ FindFailed(h) \/ ResetGroup(h) \/ ResetTask(h)
    \/ Abort(h)
    \/ DeleteFiles(h) \/ DeletePreviews(h) \/ DeleteTasks(h) \/ DeleteGroup(h)
RunStep(r) == MkDir(r) \/ MkDirFails(r) \/ SaveDir(r) \/ SaveFinished(r) \/ Leave(r)
TaskStep(r, t) ==
    Begin(r, t) \/ Open(r, t) \/ OpenFails(r, t) \/ Clean(r, t) \/ SaveTask(r, t)
SearchStep(r, t) == Line(r, t) \/ WriteFails(r, t) \/ \E ok \in BOOLEAN : End(r, t, ok)
BootStep == (\E g \in Groups : CleanUp(g)) \/ Up

Next ==
    \/ \E h \in Handlers : Request(h)
    \/ \E h \in Handlers \union {Boot} : HandlerStep(h)
    \/ \E r \in Runs : RunStep(r) \/ \E t \in Tasks : TaskStep(r, t) \/ SearchStep(r, t)
    \/ Crash
    \/ BootStep

Spec == Init /\ [][Next]_vars

\* Goroutines run; a stream ends for sure only once its task is cancelled.
Fairness ==
    /\ \A h \in Handlers \union {Boot} : WF_vars(HandlerStep(h))
    /\ WF_vars(BootStep)
    /\ \A r \in Runs :
        /\ WF_vars(RunStep(r))
        /\ \A t \in Tasks :
            /\ WF_vars(TaskStep(r, t))
            /\ WF_vars(/\ run[r] # None /\ t \in DOMAIN run[r].task /\ run[r].task[t].cancelled
                       /\ \E ok \in BOOLEAN : End(r, t, ok))

FairSpec == Spec /\ Fairness

-----------------------------------------------------------------------------
\* Every variable has its type.
TypeOK ==
    /\ groups \in [Groups -> GroupRow \union {None}]
    /\ tasks \in [Tasks -> TaskRow \union {None}]
    /\ previews \subseteq Tasks \X Groups
    /\ dirs \subseteq Groups
    /\ files \subseteq Groups \X Tasks \X Kinds
    /\ running \in [Groups -> Runs \union {None}]
    /\ run \in [Runs -> RunRow \union {None}]
    /\ \A r \in Runs : run[r] # None => DOMAIN run[r].task = DOMAIN run[r].rows
    /\ \A h \in Handlers \union {Boot} :
        /\ call[h].group \in Groups \union {None}
        /\ \A t \in DOMAIN call[h].rows : call[h].rows[t] \in TaskRow
    /\ booting \in BOOLEAN /\ raced \in BOOLEAN
    /\ asked \subseteq Groups

\* A group has one run at most, the one in the map: nobody else writes its
\* directory and its rows, not even after its rows were deleted and its id was
\* given away again.
OneRun ==
    /\ TypeOK
    /\ \A r \in Runs : run[r] # None => running[run[r].group] = r

Undisturbed(g) == ~booting /\ \A h \in Handlers : call[h].group # g

\* Between requests the database says what is going on: a group is running if and
\* only if it has a run, no task of a finished group is left running, and nothing
\* is left of a deleted group.
Settled ==
    ~raced => \A g \in Groups : Undisturbed(g) =>
        LET own == {t \in Tasks : tasks[t] # None /\ tasks[t].group = g}
        IN  IF groups[g] = None
            THEN own = {} /\ (\A p \in previews : p[2] # g) /\ (\A f \in files : f[1] # g)
            ELSE /\ groups[g].state = "running" <=> running[g] # None /\ run[running[g]].pc # "leave"
                 /\ own # {}
                 /\ groups[g].state = "finished" => \A t \in own : tasks[t].state # "running"

\* What is shown is there: the files of a finished task are where its row says,
\* and a task that failed shows neither a log nor previews.
ShownIsOnDisk ==
    ~raced => \A t \in Tasks : tasks[t] # None =>
        /\ tasks[t].state = "finished" /\ Undisturbed(tasks[t].group) =>
               \A k \in tasks[t].paths : <<tasks[t].group, t, k>> \in files
        /\ tasks[t].state = "error" =>
               "log" \notin tasks[t].paths /\ \A p \in previews : p[1] # t

\* What was found is kept until it is deleted: a retry searches again only what
\* failed.
FinishedStays ==
    [][\A t \in Tasks : tasks[t] # None /\ tasks[t].state = "finished" /\ ~raced' =>
           tasks'[t] \in {tasks[t], None}]_vars

\* A running group has a run, or a request that will start one.
RunningIsRun ==
    \A g \in Groups :
        groups[g] # None /\ groups[g].state = "running" /\ Undisturbed(g) => running[g] # None

\* Once a cancellation of a running group was answered, its tasks are cancelled.
CancelReachesAll ==
    \A g \in asked :
        running[g] # None => \A t \in DOMAIN run[running[g]].task : run[running[g]].task[t].cancelled

\* A cancelled run comes to its end, whatever the nodes that are searched do.
CancelledRunEnds ==
    \A g \in Groups :
        (running[g] # None /\ run[running[g]].task # <<>>
            /\ \A t \in DOMAIN run[running[g]].task : run[running[g]].task[t].cancelled)
        ~> running[g] = None
=============================================================================
