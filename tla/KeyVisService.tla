--------------------------- MODULE KeyVisService ---------------------------
(***************************************************************************)
(* The life of the key visualizer (pkg/keyvisual: service.go, manager.go): *)
(* managerLoop starts and stops it as the configuration says, fx runs the  *)
(* hooks of its parts one by one, workers scale columns for the background *)
(* goroutine and for requests, and requests use whatever fields of the     *)
(* Service they find.                                                      *)
(*                                                                         *)
(* fx itself is not part of the repository: hooks start in the order of    *)
(* construction, stop in reverse order, a hook that fails is rolled back   *)
(* before Start returns, and Start returns early when its context ends.    *)
(***************************************************************************)
EXTENDS Naturals, Sequences, FiniteSets

CONSTANTS Handlers,     \* requests that run at the same time
          Configs,      \* the configurations that may be pushed
          WorkerCount,  \* workers of a strategy
          ChanCap,      \* capacity of ScaleWorkerCh
          Tasks,        \* columns that one call of GenerateScale scales
          None,
          MaxChanges, MaxFailures, MaxTicks,   \* bounds on what happens outside
          MaxShutDown   \* changes after which no shutdown is explored

ASSUME KeyVisAssumption ==
    /\ {WorkerCount, ChanCap, Tasks} \subseteq Nat \ {0}
    /\ {MaxChanges, MaxFailures, MaxTicks, MaxShutDown} \subseteq Nat
    /\ Configs \subseteq [on : BOOLEAN, policy : {"db", "kv"}]
    /\ None \notin Nat
    /\ \A h \in Handlers : h \notin Nat /\ h # None

VARIABLES
    queue,          \* the push channel of the configuration manager
    keyVisualCfg,   \* Service.keyVisualCfg
    status,         \* Service.status
    app, stat, strategy,   \* the fields of Service: a generation, or None
    pc, cfg,        \* managerLoop, and the configuration it handles
    gen,            \* what was started, generation after generation
    call,           \* calls of GenerateScale: of requests, of the background of a generation
    cancelled,      \* the context of the dashboard is done
    changes, failures, ticks

fields == <<app, stat, strategy>>
manager == <<keyVisualCfg, pc, cfg>>
outside == <<queue, cancelled, changes, failures, ticks>>
vars == <<outside, manager, status, fields, gen, call>>

Gens == 1 .. MaxChanges

\* Mutant: the status is registered before the workers.
HooksStatusEarly == <<"waitGroup", "label", "status", "workers", "stat", "input">>

\* The hooks in the order in which fx runs their OnStart.
Hooks == <<"waitGroup", "label", "workers", "stat", "input", "status">>

NoCall == [pc |-> "idle", gen |-> None, unsent |-> 0, undone |-> 0]

Init ==
    /\ queue = <<>> /\ keyVisualCfg = None /\ status = FALSE
    /\ app = None /\ stat = None /\ strategy = None
    /\ pc = "select" /\ cfg = None
    /\ gen = <<>>
    /\ call = [o \in Handlers \cup Gens |-> NoCall]
    /\ cancelled = FALSE
    /\ changes = 0 /\ failures = 0 /\ ticks = 0

\* The context of generation g is done.
Done(g) == cancelled \/ gen[g].done

-----------------------------------------------------------------------------
\* The configuration manager pushes a configuration; what it pushes when the
\* dashboard is already shutting down is not explored.
Push(c) ==
    /\ changes < MaxChanges /\ ~cancelled
    /\ changes' = changes + 1
    /\ queue' = Append(queue, c)
    /\ UNCHANGED <<manager, status, fields, gen, call, cancelled, failures, ticks>>

ShutDown ==
    /\ changes <= MaxShutDown /\ ~cancelled
    /\ cancelled' = TRUE
    /\ UNCHANGED <<queue, manager, status, fields, gen, call, changes, failures, ticks>>

-----------------------------------------------------------------------------
\* stopService, up to app.Stop, and what follows when there is nothing to stop.
StopOr(stopping, next) ==
    IF status /\ app # None
    THEN /\ pc' = stopping
         /\ gen' = [gen EXCEPT ![app].done = TRUE, ![app].fx = "stop"]
    ELSE pc' = next /\ UNCHANGED gen

\* Mutant: only the switch stops the service.
MustStopIfOff(c) == ~c.on

\* resetKeyVisualConfig: what runs must be stopped first.
MustStop(c) == ~c.on \/ (keyVisualCfg # None /\ keyVisualCfg.policy # c.policy)

Receive ==
    /\ pc = "select" /\ queue # <<>>
    /\ cfg' = Head(queue) /\ queue' = Tail(queue)
    /\ IF MustStop(cfg') THEN StopOr("stopping", "reload") ELSE pc' = "reload" /\ UNCHANGED gen
    /\ UNCHANGED <<keyVisualCfg, status, fields, call, cancelled, changes, failures, ticks>>

Leave ==
    /\ pc = "select" /\ cancelled
    /\ StopOr("leaving", "returned")
    /\ UNCHANGED <<keyVisualCfg, cfg, status, fields, call, outside>>

DropFields == app' = None /\ stat' = None /\ strategy' = None

\* app.Stop has come back.
Stopped ==
    /\ pc \in {"stopping", "leaving"} /\ gen[app].fx = "stopped"
    /\ DropFields
    /\ pc' = IF pc = "leaving" THEN "returned" ELSE "reload"
    /\ UNCHANGED <<keyVisualCfg, cfg, status, gen, call, outside>>

\* reloadKeyVisualConfig, then startService: fx.New fills the fields.
Reload ==
    /\ pc = "reload"
    /\ keyVisualCfg' = cfg
    /\ IF cfg.on /\ ~status
       THEN /\ gen' = Append(gen, [policy |-> cfg.policy, done |-> FALSE, fx |-> "start", hook |-> 0,
                                   routines |-> {}, workers |-> 0, ch |-> <<>>, closed |-> FALSE])
            /\ app' = Len(gen') /\ stat' = Len(gen') /\ strategy' = Len(gen')
            /\ pc' = "starting"
       ELSE pc' = "select" /\ UNCHANGED <<gen, fields>>
    /\ UNCHANGED <<cfg, status, call, outside>>

Started ==
    /\ pc = "starting" /\ gen[app].fx = "started"
    /\ pc' = "select"
    /\ UNCHANGED <<keyVisualCfg, cfg, status, fields, gen, call, outside>>

\* cleanAfterError: the rollback is done, or the context is and fx goes on alone.
StartFailed ==
    /\ pc = "starting" /\ (gen[app].fx = "failed" \/ Done(app))
    /\ gen' = [gen EXCEPT ![app].done = TRUE]
    /\ DropFields
    /\ pc' = "select"
    /\ UNCHANGED <<keyVisualCfg, cfg, status, call, outside>>

Manager == Receive \/ Leave \/ Stopped \/ Reload \/ Started \/ StartFailed

-----------------------------------------------------------------------------
NextHook(g) == Hooks[gen[g].hook + 1]

\* The goroutines that the OnStart of a hook leaves running.
Starts(g, hook) ==
    CASE hook = "label" /\ gen[g].policy = "db" -> {"label"}
      [] hook = "stat" -> {"rebuild"}
      [] hook = "input" -> {"input"}
      [] OTHER -> {}

HookStarts(g) ==
    /\ gen[g].fx = "start"
    /\ NextHook(g) = "status" => ~Done(g)
    /\ gen' = [gen EXCEPT ![g].hook = @ + 1,
                          ![g].routines = @ \cup Starts(g, NextHook(g)),
                          ![g].workers = IF NextHook(g) = "workers" THEN WorkerCount ELSE @,
                          ![g].fx = IF gen[g].hook + 1 = Len(Hooks) THEN "started" ELSE @]
    /\ status' = (status \/ NextHook(g) = "status")
    /\ UNCHANGED <<manager, fields, call, outside>>

\* Restore fails, or Register finds the context done.
HookFails(g) ==
    /\ gen[g].fx = "start"
    /\ \/ NextHook(g) = "stat" /\ failures < MaxFailures /\ failures' = failures + 1
       \/ NextHook(g) = "status" /\ Done(g) /\ UNCHANGED failures
    /\ gen' = [gen EXCEPT ![g].fx = "rollback"]
    /\ UNCHANGED <<queue, manager, status, fields, call, cancelled, changes, ticks>>

AllLeft(g) == gen[g].routines = {} /\ gen[g].workers = 0

\* Mutant: the hook of the wait group does not wait.
WaitForNobody(g) == TRUE

\* The OnStop of newWaitGroup.
WaitGroupDone(g) == AllLeft(g)

HookStops(g) ==
    /\ gen[g].fx \in {"stop", "rollback"}
    /\ LET hook == Hooks[gen[g].hook]
       IN  /\ hook = "waitGroup" => WaitGroupDone(g)
           /\ gen' = [gen EXCEPT ![g].hook = @ - 1,
                                 ![g].closed = @ \/ hook = "workers",
                                 ![g].fx = IF gen[g].hook > 1 THEN @
                                           ELSE IF @ = "stop" THEN "stopped" ELSE "failed"]
           /\ status' = (status /\ hook # "status")
    /\ UNCHANGED <<manager, fields, call, outside>>

Fx(g) == HookStarts(g) \/ HookFails(g) \/ HookStops(g)

-----------------------------------------------------------------------------
\* GenerateScaleColumnWork takes the next column and scales it.
Take(g) ==
    /\ gen[g].workers > 0 /\ gen[g].ch # <<>>
    /\ gen' = [gen EXCEPT ![g].ch = Tail(@)]
    /\ LET o == Head(gen[g].ch)
       IN  call' = [call EXCEPT ![o].undone = IF call[o].gen = g THEN @ - 1 ELSE @]
    /\ UNCHANGED <<manager, status, fields, outside>>

\* A worker may choose the context though there are columns left.
Quits(g) == Done(g) \/ (gen[g].closed /\ gen[g].ch = <<>>)

Quit(g) ==
    /\ gen[g].workers > 0 /\ Quits(g)
    /\ gen' = [gen EXCEPT ![g].workers = @ - 1]
    /\ UNCHANGED <<manager, status, fields, call, outside>>

\* Background of the input looks at the context between two samples only.
InputLeaves(g) ==
    /\ "input" \in gen[g].routines /\ Done(g) /\ call[g].pc = "idle"
    /\ gen' = [gen EXCEPT ![g].routines = @ \ {"input"}]
    /\ UNCHANGED <<manager, status, fields, call, outside>>

\* Background of the label strategy and rebuildRegularly leave at once.
OthersLeave(g) ==
    /\ gen[g].routines \ {"input"} # {} /\ Done(g)
    /\ gen' = [gen EXCEPT ![g].routines = @ \cap {"input"}]
    /\ UNCHANGED <<manager, status, fields, call, outside>>

\* Mutant: GenerateScale waits for one column less.
AsksOneShort(g) == [pc |-> "sending", gen |-> g, unsent |-> Tasks, undone |-> Tasks - 1]

\* GenerateScale: wg.Add, then one column after the other is sent.
Asks(g) == [pc |-> "sending", gen |-> g, unsent |-> Tasks, undone |-> Tasks]

\* A sample whose Append has to Reduce: Stat.mutex is held until it is back.
Tick(g) ==
    /\ "input" \in gen[g].routines /\ call[g].pc = "idle" /\ ticks < MaxTicks
    /\ ticks' = ticks + 1
    /\ call' = [call EXCEPT ![g] = Asks(g)]
    /\ UNCHANGED <<queue, manager, status, fields, gen, cancelled, changes, failures>>

Send(o) ==
    /\ call[o].pc = "sending"
    /\ LET g == call[o].gen
       IN  /\ ~gen[g].closed /\ Len(gen[g].ch) < ChanCap
           /\ gen' = [gen EXCEPT ![g].ch = Append(@, o)]
    /\ call' = [call EXCEPT ![o].unsent = @ - 1,
                            ![o].pc = IF call[o].unsent = 1 THEN "waiting" ELSE @]
    /\ UNCHANGED <<manager, status, fields, outside>>

SendsToClosed(o) == call[o].pc = "sending" /\ gen[call[o].gen].closed

\* Sending on a closed channel panics. gin recovers a request ...
Recover(h) ==
    /\ SendsToClosed(h)
    /\ call' = [call EXCEPT ![h] = NoCall]
    /\ UNCHANGED <<manager, status, fields, gen, outside>>

\* ... and nothing recovers Background: the process dies.
Crash(g) ==
    /\ SendsToClosed(g)
    /\ pc' = "crashed" /\ gen' = <<>> /\ status' = FALSE /\ DropFields
    /\ call' = [o \in DOMAIN call |-> NoCall]
    /\ UNCHANGED <<keyVisualCfg, cfg, outside>>

Finish(o) ==
    /\ call[o].pc = "waiting" /\ call[o].undone = 0
    /\ call' = [call EXCEPT ![o] = NoCall]
    /\ UNCHANGED <<manager, status, fields, gen, outside>>

-----------------------------------------------------------------------------
\* MWHandleStopped lets a request through.
Admit(h) ==
    /\ call[h].pc = "idle" /\ status
    /\ call' = [call EXCEPT ![h].pc = "admitted"]
    /\ UNCHANGED <<manager, status, fields, gen, outside>>

\* heatmaps reads s.stat; a nil pointer ends in the recovery of gin.
ReadStat(h) ==
    /\ call[h].pc = "admitted"
    /\ call' = [call EXCEPT ![h] = IF stat = None THEN NoCall
                                   ELSE [@ EXCEPT !.pc = "ranging", !.gen = stat]]
    /\ UNCHANGED <<manager, status, fields, gen, outside>>

\* Stat.Range, once no Append holds the mutex, then s.strategy is read for Pixel.
Pixel(h) ==
    /\ call[h].pc = "ranging" /\ call[call[h].gen].pc = "idle"
    /\ call' = [call EXCEPT ![h] = IF strategy = None THEN NoCall ELSE Asks(strategy)]
    /\ UNCHANGED <<manager, status, fields, gen, outside>>

Request(h) == ReadStat(h) \/ Pixel(h) \/ Send(h) \/ Recover(h) \/ Finish(h)
Worker(g) == Take(g) \/ Quit(g)
Background(g) == Send(g) \/ Crash(g) \/ Finish(g)

Next ==
    \/ \E c \in Configs : Push(c)
    \/ ShutDown
    \/ Manager
    \/ \E g \in DOMAIN gen :
         Fx(g) \/ Worker(g) \/ Tick(g) \/ Background(g) \/ InputLeaves(g) \/ OthersLeave(g)
    \/ \E h \in Handlers : Admit(h) \/ Request(h)

Spec == Init /\ [][Next]_vars

\* Goroutines that can run do: the loop, fx, workers, the background and requests.
FairSpec ==
    /\ Spec
    /\ WF_vars(Manager)
    /\ \A g \in Gens :
        /\ WF_vars(g \in DOMAIN gen /\ Fx(g))
        /\ WF_vars(g \in DOMAIN gen /\ Worker(g))
        /\ WF_vars(g \in DOMAIN gen /\ Background(g))
        /\ WF_vars(g \in DOMAIN gen /\ InputLeaves(g))
        /\ WF_vars(g \in DOMAIN gen /\ OthersLeave(g))
    /\ \A h \in Handlers : WF_vars(Request(h))

-----------------------------------------------------------------------------
\* Every variable has its type.
TypeOK ==
    /\ queue \in Seq(Configs) /\ keyVisualCfg \in Configs \cup {None} /\ cfg \in Configs \cup {None}
    /\ {status, cancelled} \subseteq BOOLEAN
    /\ {app, stat, strategy} \subseteq DOMAIN gen \cup {None}
    /\ pc \in {"select", "stopping", "leaving", "reload", "starting", "returned", "crashed"}
    /\ Len(gen) <= MaxChanges
    /\ \A g \in DOMAIN gen :
        /\ gen[g].hook \in 0 .. Len(Hooks) /\ gen[g].workers \in 0 .. WorkerCount
        /\ gen[g].routines \subseteq {"label", "rebuild", "input"}
        /\ Len(gen[g].ch) <= ChanCap
    /\ \A o \in DOMAIN call : call[o].unsent <= call[o].undone /\ call[o].undone <= Tasks

\* Two generations never run at the same time, so that the table of the samples
\* has one writer at most: whatever is still running belongs to the one in app.
OneGeneration ==
    /\ TypeOK
    /\ ~cancelled => \A g \in DOMAIN gen : app # g => AllLeft(g)

\* "Must be at the end" (service.go:140): a service that says it is running is
\* complete, from the first hook to the last, until it is being stopped.
RunningIsComplete ==
    status /\ ~cancelled =>
        /\ app # None /\ stat = app /\ strategy = app
        /\ {"rebuild", "input"} \subseteq gen[app].routines \/ gen[app].done
        /\ gen[app].workers = WorkerCount \/ gen[app].done
        /\ ~gen[app].closed

\* The background waits for a column that no worker is left to scale.
LostColumn(g) == call[g].undone > 0 /\ gen[g].workers = 0

\* A failed start is rolled back before its context is cancelled: the wait group
\* then waits for the label strategy, which waits for the context.
StuckRollback(g) == gen[g].fx = "rollback" /\ "label" \in gen[g].routines /\ ~Done(g)

\* The service is what its configuration says, unless it could not start.
AsConfigured ==
    /\ pc = "select" /\ queue = <<>>
    /\ keyVisualCfg # None =>
         /\ status => keyVisualCfg.on /\ gen[app].policy = keyVisualCfg.policy
         /\ keyVisualCfg.on => status \/ gen[Len(gen)].fx = "failed"

\* The configuration takes effect in the end, and a dashboard that shuts down
\* leaves nothing behind, but for the two ways in which the loop is lost.
Converges ==
    <>[](\/ pc = "crashed"
         \/ \E g \in DOMAIN gen : LostColumn(g) \/ StuckRollback(g)
         \/ IF cancelled THEN pc = "returned" /\ \A g \in DOMAIN gen : AllLeft(g)
            ELSE AsConfigured)

\* "You can modify settings to enable the feature and wait for new data being
\* collected." (en.yaml of KeyViz): the settings take effect.
SettingsTakeEffect == <>[](cancelled \/ AsConfigured)
=============================================================================
