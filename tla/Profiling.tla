------------------------------- MODULE Profiling -------------------------------
(***************************************************************************)
(* Profiling of the instances of a cluster (pkg/apiserver/profiling): the  *)
(* loop that starts groups of tasks one after the other, the goroutines of *)
(* the tasks, the rows in the local database, and the handlers that cancel *)
(* and delete a group.  What a profile holds is left out.                  *)
(***************************************************************************)
EXTENDS Integers, Sequences, SequencesExt, FiniteSets

CONSTANTS
    ProfClients,     \* whoever makes a request, one at a time
    ProfRequests,    \* requests: for each target and type, what it is, of TaskKinds
    MaxProfGroups,   \* bound: groups ever started
    MaxProfFailures, \* bound: failing statements on the local database
    MaxProfCrashes   \* bound: how often the process dies

\* A type the target has, one it has not (ErrUnsupportedProfilingType), no type at all.
TaskKinds == {"supported", "unsupported", "invalid"}
ASSUME ProfAssumption == ProfRequests \subseteq Seq(TaskKinds) /\ MaxProfGroups \in Nat

ProfGroups == 1 .. MaxProfGroups
Final == {"error", "finish", "partial", "skipped"}

VARIABLES
    profDc,      \* the last configuration pushed: "none", "manual" or "auto"
    profLoop,    \* serviceLoop: where it is, for whom, the group, what it has yet to create
    profQueue,   \* sessionCh
    profClient,  \* a handler: where it is and the group it is about
    profGroup,   \* rows of profiling_task_groups: their state, "none" for no row
    profTask,    \* rows of profiling_tasks, by group
    profRun,     \* the Task objects: "idle" before they run, "run", or their final state
    profKinds,   \* what each task of a group is
    profLast,    \* the last group created
    profLost,    \* history: groups of which a write failed, or that nothing will finish
    profFailures, profCrashes
profRowVars == <<profGroup, profTask>>
profMemVars == <<profDc, profLoop, profQueue, profRun>>
profHistory == <<profKinds, profLast, profLost, profFailures, profCrashes>>
profVars == <<profRowVars, profMemVars, profClient, profHistory>>

Resting == [at |-> "select", client |-> "none", group |-> 0, todo |-> <<>>]
NoOne == [at |-> "idle", group |-> 0, req |-> <<>>]

ProfInit ==
    /\ profDc = "none" /\ profLoop = Resting /\ profQueue = <<>>
    /\ profClient = [c \in ProfClients |-> NoOne]
    /\ profGroup = [g \in ProfGroups |-> "none"]
    /\ profTask = [g \in ProfGroups |-> <<>>]
    /\ profRun = [g \in ProfGroups |-> <<>>]
    /\ profKinds = [g \in ProfGroups |-> <<>>]
    /\ profLast = 0 /\ profLost = {} /\ profFailures = 0 /\ profCrashes = 0

\* A statement on the local database fails.
ProfFails == profFailures < MaxProfFailures /\ profFailures' = profFailures + 1
ProfWorks == UNCHANGED profFailures
Answer(c, outcome) ==
    profClient' = IF c \in ProfClients /\ profClient[c].at = "wait"
                  THEN [profClient EXCEPT ![c].at = outcome] ELSE profClient

-----------------------------------------------------------------------------
\* handleStartGroup: the session is queued, the answer waited for; not for ever.
Submit(c, req) ==
    /\ profClient[c] = NoOne
    /\ profClient' = [profClient EXCEPT ![c] = [NoOne EXCEPT !.at = "wait", !.req = req]]
    /\ profQueue' = Append(profQueue, <<c, req>>)
    /\ UNCHANGED <<profRowVars, profDc, profLoop, profRun, profHistory>>
TimesOut(c) ==
    /\ profClient[c].at = "wait"
    /\ profClient' = [profClient EXCEPT ![c].at = "timeout"]
    /\ UNCHANGED <<profRowVars, profMemVars, profHistory>>

\* exclusiveExecute: lastTaskGroup is nil at all times, no group is cancelled.  The
\* row of the group comes first.
StartGroup(client, req) ==
    \/ /\ ProfFails
       /\ Answer(client, "error")
       /\ UNCHANGED <<profRowVars, profLoop, profRun, profKinds, profLast>>
    \/ /\ profLast < MaxProfGroups
       /\ profLast' = profLast + 1
       /\ profGroup' = [profGroup EXCEPT ![profLast'] = "running"]
       /\ profKinds' = [profKinds EXCEPT ![profLast'] = req]
       /\ profLoop' = [at |-> "create", client |-> client, group |-> profLast', todo |-> req]
       /\ ProfWorks
       /\ UNCHANGED <<profTask, profRun, profClient>>

\* A configuration is pushed.  The request of an automatic collection has targets
\* but no types: a group without tasks.
Pushed(dc) ==
    /\ profLoop.at = "select"
    /\ profDc' = dc
    /\ IF dc = "auto" THEN StartGroup("none", <<>>)
       ELSE UNCHANGED <<profRowVars, profLoop, profRun, profClient, profKinds, profLast, profFailures>>
    /\ UNCHANGED <<profQueue, profLost, profCrashes>>
TimeCome ==
    /\ profLoop.at = "select" /\ profDc = "auto"
    /\ StartGroup("none", <<>>)
    /\ UNCHANGED <<profDc, profQueue, profLost, profCrashes>>

\* handleRequest, once a configuration is known.
HandleRequest ==
    /\ profLoop.at = "select" /\ profQueue # <<>> /\ profDc # "none"
    /\ LET s == Head(profQueue) IN
       /\ profQueue' = Tail(profQueue)
       /\ IF profDc = "auto"
          THEN /\ Answer(s[1], "ignored")
               /\ UNCHANGED <<profRowVars, profLoop, profRun, profKinds, profLast, profFailures>>
          ELSE StartGroup(s[1], s[2])
    /\ UNCHANGED <<profDc, profLost, profCrashes>>

\* startGroup, task by task: an invalid type ends it, the rows made so far stay.  A row
\* that cannot be created is not reported; it is made when the task is saved.
CreateTask ==
    LET g == profLoop.group IN
    /\ profLoop.at = "create" /\ profLoop.todo # <<>>
    /\ IF Head(profLoop.todo) = "invalid"
       THEN /\ Answer(profLoop.client, "error")
            /\ profLoop' = Resting
            /\ profLost' = profLost \cup {g}
            /\ UNCHANGED <<profTask, profRun>> /\ ProfWorks
       ELSE /\ \/ ProfWorks /\ profTask' = [profTask EXCEPT ![g] = Append(@, "running")]
               \/ ProfFails /\ profTask' = [profTask EXCEPT ![g] = Append(@, "none")]
            /\ profRun' = [profRun EXCEPT ![g] = Append(@, "idle")]
            /\ profLoop' = [profLoop EXCEPT !.todo = Tail(@)]
            /\ UNCHANGED <<profClient, profLost>>
    /\ UNCHANGED <<profGroup, profDc, profQueue, profKinds, profLast, profCrashes>>
Launch ==
    /\ profLoop.at = "create" /\ profLoop.todo = <<>>
    /\ profRun' = [profRun EXCEPT ![profLoop.group] = Append([k \in DOMAIN @ |-> "run"], "wait")]
    /\ profLoop' = Resting
    /\ Answer(profLoop.client, "ok")
    /\ UNCHANGED <<profRowVars, profDc, profQueue, profHistory>>

\* run: the context that stop cancels is not looked at.  Save makes the row if need be.
TaskOutcomes(kind) == IF kind = "unsupported" THEN {"skipped"} ELSE {"finish", "error"}
Saved(g, k, outcome) == [profTask EXCEPT ![g][k] = outcome]
TaskRuns(g, k) ==
    /\ profRun[g] # <<>> /\ k < Len(profRun[g]) /\ profRun[g][k] = "run"
    /\ \E outcome \in TaskOutcomes(profKinds[g][k]) :
          /\ profRun' = [profRun EXCEPT ![g][k] = outcome]
          /\ \/ ProfWorks /\ profTask' = Saved(g, k, outcome) /\ UNCHANGED profLost
             \/ ProfFails /\ profLost' = profLost \cup {g} /\ UNCHANGED profTask
    /\ UNCHANGED <<profGroup, profDc, profLoop, profQueue, profClient, profKinds, profLast, profCrashes>>

Verdict(ends) ==
    IF "error" \notin ends THEN "finish" ELSE IF "finish" \in ends THEN "partial" ELSE "error"
TaskEnds(g) == {profRun[g][k] : k \in 1 .. Len(profRun[g]) - 1}
\* Mutant: the goroutine does not wait for the tasks.
AllStarted(g) == profRun[g] # <<>>
AllDone(g) == profRun[g] # <<>> /\ TaskEnds(g) \subseteq Final
\* The last part of profRun[g] is the goroutine of the group.
GroupRuns(g) ==
    /\ AllDone(g) /\ Last(profRun[g]) = "wait"
    /\ profRun' = [profRun EXCEPT ![g][Len(profRun[g])] = "ended"]
    /\ \/ ProfWorks /\ profGroup' = [profGroup EXCEPT ![g] = Verdict(TaskEnds(g))] /\ UNCHANGED profLost
       \/ ProfFails /\ profLost' = profLost \cup {g} /\ UNCHANGED profGroup
    /\ UNCHANGED <<profTask, profDc, profLoop, profQueue, profClient, profKinds, profLast, profCrashes>>

-----------------------------------------------------------------------------
\* handleCancelGroup and deleteGroup: the tasks are told to stop, then waited for.
\* Mutant: only tasks that finished or failed have ended.
NotEnded(g) == \E k \in DOMAIN profTask[g] : profTask[g][k] \notin {"finish", "error", "none"}
Running(g) == \E k \in DOMAIN profTask[g] : profTask[g][k] = "running"
AskToEnd(c, g, what) ==
    /\ profClient[c] = NoOne /\ g <= profLast
    /\ \/ ProfWorks /\ profClient' = [profClient EXCEPT ![c] = [NoOne EXCEPT !.at = what, !.group = g]]
       \/ ProfFails /\ profClient' = [profClient EXCEPT ![c] = [NoOne EXCEPT !.at = "error", !.group = g]]
    /\ UNCHANGED <<profRowVars, profMemVars, profKinds, profLast, profLost, profCrashes>>
ClientGoes(c, here, there) ==
    /\ profClient[c].at = here
    /\ profClient' = [profClient EXCEPT ![c].at = there]
\* Every statement of theirs: the last poll, then one for the tasks, one for the group.
Statement(c) ==
    LET g == profClient[c].group IN
    /\ \/ ClientGoes(c, "cancel", "canceled") /\ ~Running(g) /\ UNCHANGED profRowVars
       \/ ClientGoes(c, "delete", "delete tasks") /\ ~Running(g) /\ UNCHANGED profRowVars
       \/ ClientGoes(c, "delete tasks", "delete group")
          /\ profTask' = [profTask EXCEPT ![g] = [k \in DOMAIN @ |-> "none"]] /\ UNCHANGED profGroup
       \/ ClientGoes(c, "delete group", "deleted")
          /\ profGroup' = [profGroup EXCEPT ![g] = "none"] /\ UNCHANGED profTask
    /\ ProfWorks
    /\ UNCHANGED <<profMemVars, profKinds, profLast, profLost, profCrashes>>
StatementFails(c) ==
    /\ profClient[c].at \in {"cancel", "delete", "delete tasks", "delete group"}
    /\ profClient' = [profClient EXCEPT ![c].at = "error"]
    /\ ProfFails
    /\ UNCHANGED <<profRowVars, profMemVars, profKinds, profLast, profLost, profCrashes>>

\* The process dies: of a failure, or of a request that came before the first
\* configuration (dc is nil).  Only the rows are left, and nothing looks at them.
Dies ==
    /\ profCrashes < MaxProfCrashes
    /\ profCrashes' = profCrashes + 1
    /\ profDc' = "none" /\ profLoop' = Resting /\ profQueue' = <<>>
    /\ profRun' = [g \in ProfGroups |-> <<>>]
    /\ profClient' = [c \in ProfClients |->
                        IF profClient[c].at \in {"idle", "deleted", "canceled", "ok"} THEN profClient[c]
                        ELSE [profClient[c] EXCEPT !.at = "error"]]
    /\ profLost' = profLost \cup {g \in ProfGroups : profGroup[g] = "running" \/ Running(g)}
    /\ UNCHANGED <<profRowVars, profKinds, profLast, profFailures>>
HandleWithoutConfig == profLoop.at = "select" /\ profQueue # <<>> /\ profDc = "none" /\ Dies

ProfWork == \/ HandleRequest \/ CreateTask \/ Launch
            \/ \E g \in ProfGroups : GroupRuns(g) \/ \E k \in 1 .. Len(profRun[g]) : TaskRuns(g, k)
            \/ \E c \in ProfClients : Statement(c)
ProfNext ==
    \/ ProfWork \/ TimeCome \/ Dies \/ HandleWithoutConfig
    \/ \E dc \in {"manual", "auto"} : Pushed(dc)
    \/ \E c \in ProfClients :
          \/ TimesOut(c) \/ StatementFails(c)
          \/ \E req \in ProfRequests : Submit(c, req)
          \/ \E g \in ProfGroups : AskToEnd(c, g, "cancel") \/ AskToEnd(c, g, "delete")
ProfSpec == ProfInit /\ [][ProfNext]_profVars

-----------------------------------------------------------------------------
\* A group says that it has ended only when all its tasks have, and then how: with
\* an error if one of them has one, partly if others did not; and what is handed out
\* as finished stays so, whoever cancels.  Not if a row could not be written or the
\* process died.
GroupTells ==
    \A g \in ProfGroups \ profLost :
        profGroup[g] \in Final =>
            /\ \A k \in DOMAIN profTask[g] : profTask[g][k] # "running"
            /\ LET ends == Range(profTask[g]) IN
               "none" \notin ends =>
                  CASE profGroup[g] = "finish" -> "error" \notin ends
                    [] profGroup[g] = "error" -> "error" \in ends /\ "finish" \notin ends
                    [] OTHER -> {"error", "finish"} \subseteq ends

\* Every group comes to its end, and so does every request to cancel or delete it: a
\* group of which no row was lost is not waited for in vain.
GroupsEnd ==
    /\ \A g \in ProfGroups :
          profGroup[g] = "running" ~> profGroup[g] # "running" \/ g \in profLost
    /\ \A c \in ProfClients :
          profClient[c].at \in {"cancel", "delete", "delete tasks", "delete group"} ~>
             \/ profClient[c].at \in {"canceled", "deleted", "error"}
             \/ profClient[c].group \in profLost
=============================================================================
