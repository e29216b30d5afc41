------------------------------- MODULE DynConfig -------------------------------
(***************************************************************************)
(* DynamicConfigManager (pkg/config/dynamic_config_manager.go): one        *)
(* configuration kept in etcd and in memory.  HTTP handlers change one     *)
(* section each by Modify (Get, change, Validate, Set); Set stores to etcd *)
(* without the mutex, then under it replaces the configuration in memory   *)
(* and pushes a copy into the channel of every subscriber.                 *)
(*                                                                         *)
(* Subscribers are the loops of the key visualizer and of profiling.  The  *)
(* process may crash and start again, and it may be stopped: its context   *)
(* is cancelled, the loops return, and Stop closes the channels.           *)
(*                                                                         *)
(* A definition marked "Mutant" is a plausible bug in the definition that  *)
(* follows it and part of no specification: the properties refute it.      *)
(***************************************************************************)
EXTENDS Naturals, Sequences

CONSTANTS
    Callers,      \* handlers that call Modify
    Starter,      \* the goroutine of Start
    Subscribers,
    Sections,     \* keyvisual, profiling, sso
    SectionOf,    \* SectionOf[p]: the section that caller p replaces
    Values,       \* values of a section
    Invalid,      \* those that Validate rejects
    Default,      \* what Adjust puts in place of an invalid one
    None,         \* no configuration
    Nobody,       \* the mutex is free
    ChanCap,      \* capacity of a channel (1000)
    MayStop,      \* TRUE: the process may be stopped
    MaxChanges,   \* bound: calls of Modify
    MaxFailures,  \* bound: requests to etcd that fail
    MaxCrashes    \* bound: crashes

Procs == Callers \union {Starter}
Config == [Sections -> Values]
Valid(c) == \A s \in Sections : c[s] \notin Invalid

ASSUME ConfigAssumption ==
    /\ Starter \notin Callers
    /\ Nobody \notin Procs
    /\ None \notin Config
    /\ SectionOf \in [Callers -> Sections]
    /\ Invalid \subseteq Values
    /\ Default \in Values \ Invalid
    /\ ChanCap \in Nat \ {0}
    /\ MayStop \in BOOLEAN
    /\ MaxChanges \in Nat /\ MaxFailures \in Nat /\ MaxCrashes \in Nat

VARIABLES
    etcd,           \* the value of DynamicConfigPath
    dynamicConfig,
    mu,             \* who holds the mutex for writing
    pushChannels,   \* subscribers, in the order of their channels
    queue,          \* queue[s]: what is in the channel of s
    closed,         \* subscribers whose channel is closed
    cancelled,      \* the context of the process is cancelled
    stopped,        \* Stop has returned
    pc,             \* pc[p]: "idle", "loading", "storing", "stored", "pushing"
    newDc,          \* newDc[p]: what p is setting
    next,           \* index of the next channel to push to
    view,           \* view[s]: what s received last
    gone,           \* subscribers whose loop has returned
    past,           \* history: all configurations memory has had, oldest first
    from,           \* history: from[s]: index in past of the first one for s
    received,       \* history: received[s]: how many s has received
    persisted,      \* history: all configurations etcd has had
    overlapped,     \* history: two calls of Modify have overlapped
    unsure,         \* history: a failed request may have changed etcd
    expected,       \* history: every section as the last Set of it left it
    changes, failures, crashes

memoryVars == <<dynamicConfig, mu, pushChannels, queue, closed, next>>
procVars == <<pc, newDc>>
subscriberVars == <<view, gone, received>>
stopVars == <<cancelled, stopped>>
historyVars == <<past, from, persisted, overlapped, unsure, expected>>
countVars == <<changes, failures, crashes>>
vars == <<etcd, memoryVars, procVars, subscriberVars, stopVars, historyVars, countVars>>

FreshPc == [p \in Procs |-> IF p = Starter THEN "loading" ELSE "idle"]
Nothing(S) == [x \in S |-> None]

\* etcd may hold what an older version wrote, or nothing.
Init ==
    /\ etcd \in Config \union {None}
    /\ persisted = {etcd} \ {None}
    /\ dynamicConfig = None
    /\ mu = Nobody
    /\ pushChannels = <<>>
    /\ queue = [s \in Subscribers |-> <<>>]
    /\ closed = {}
    /\ next = 1
    /\ pc = FreshPc
    /\ newDc = Nothing(Procs)
    /\ view = Nothing(Subscribers)
    /\ gone = {}
    /\ received = [s \in Subscribers |-> 0]
    /\ cancelled = FALSE
    /\ stopped = FALSE
    /\ past = <<>>
    /\ from = [s \in Subscribers |-> 1]
    /\ overlapped = FALSE
    /\ unsure = FALSE
    /\ expected = None
    /\ changes = 0 /\ failures = 0 /\ crashes = 0

-----------------------------------------------------------------------------
\* Adjust: what Validate would reject gets its default.
Adjust(c) == [s \in Sections |-> IF c[s] \in Invalid THEN Default ELSE c[s]]

Loaded == IF etcd = None THEN [s \in Sections |-> Default] ELSE etcd

\* The goroutine of Start loads and adjusts the configuration.
Load ==
    /\ pc[Starter] = "loading"
    /\ ~cancelled
    /\ pc' = [pc EXCEPT ![Starter] = "storing"]
    /\ newDc' = [newDc EXCEPT ![Starter] = Adjust(Loaded)]
    /\ UNCHANGED <<etcd, memoryVars, subscriberVars, stopVars, historyVars, countVars>>

\* load or store fails: Start tries again.
LoadFails ==
    /\ pc[Starter] = "loading"
    /\ ~cancelled
    /\ failures < MaxFailures
    /\ failures' = failures + 1
    /\ UNCHANGED <<etcd, memoryVars, procVars, subscriberVars, stopVars, historyVars,
                   changes, crashes>>

\* backoff.Retry gives up when the context is cancelled.
StartGivesUp ==
    /\ pc[Starter] \in {"loading", "storing"}
    /\ cancelled
    /\ pc' = [pc EXCEPT ![Starter] = "idle"]
    /\ UNCHANGED <<etcd, memoryVars, newDc, subscriberVars, stopVars, historyVars, countVars>>

-----------------------------------------------------------------------------
\* Others in the middle of a Modify, when p reads.
InTheMiddle(p) == {q \in Callers \ {p} : pc[q] \in {"storing", "stored"}}

\* Mutant: before Start has set the configuration, Get reads etcd.
PresentOrStored == IF dynamicConfig = None THEN Loaded ELSE dynamicConfig

\* Get
Present == dynamicConfig

\* Mutant: the other sections are reset.
ChangedAlone(p, v) == [s \in Sections |-> IF s = SectionOf[p] THEN v ELSE Default]

\* The options of the three handlers.
Changed(p, v) == [Present EXCEPT ![SectionOf[p]] = v]

\* Modify up to Set: Get, the option, Validate.  Get refuses before Start has
\* set the configuration, Validate refuses invalid values: nothing changes then.
Modify(p, v) ==
    /\ pc[p] = "idle"
    /\ mu = Nobody
    /\ Present # None
    /\ changes < MaxChanges
    /\ Valid(Changed(p, v))
    /\ newDc' = [newDc EXCEPT ![p] = Changed(p, v)]
    /\ pc' = [pc EXCEPT ![p] = "storing"]
    /\ changes' = changes + 1
    /\ overlapped' = (overlapped \/ InTheMiddle(p) # {})
    /\ UNCHANGED <<etcd, memoryVars, subscriberVars, stopVars,
                   past, from, persisted, unsure, expected, failures, crashes>>

\* Set: store succeeds.
Store(p) ==
    /\ pc[p] = "storing"
    /\ ~cancelled
    /\ etcd' = newDc[p]
    /\ persisted' = persisted \union {newDc[p]}
    /\ pc' = [pc EXCEPT ![p] = "stored"]
    /\ UNCHANGED <<memoryVars, newDc, subscriberVars, stopVars,
                   past, from, overlapped, unsure, expected, countVars>>

\* Mutant: the error is ignored.
AfterFailureOn(p) == "stored"

\* A caller gets the error, Start tries again.
AfterFailure(p) == IF p = Starter THEN "storing" ELSE "idle"

\* Set: store fails or runs into its timeout, with etcd changed or not.
StoreFails(p) ==
    /\ pc[p] = "storing"
    /\ ~cancelled => failures < MaxFailures
    /\ failures' = IF cancelled THEN failures ELSE failures + 1
    /\ etcd' \in {etcd, newDc[p]}
    /\ persisted' = persisted \union ({etcd'} \ {None})
    /\ unsure' = TRUE
    /\ pc' = [pc EXCEPT ![p] = AfterFailure(p)]
    /\ UNCHANGED <<memoryVars, newDc, subscriberVars, stopVars,
                   past, from, overlapped, expected, changes, crashes>>

\* Set: lock and replace.
Replace(p) ==
    /\ pc[p] = "stored"
    /\ mu = Nobody
    /\ mu' = p
    /\ dynamicConfig' = newDc[p]
    /\ next' = 1
    /\ pc' = [pc EXCEPT ![p] = "pushing"]
    /\ past' = Append(past, newDc[p])
    /\ expected' = IF p = Starter THEN newDc[p]
                   ELSE [expected EXCEPT ![SectionOf[p]] = newDc[p][SectionOf[p]]]
    /\ UNCHANGED <<etcd, pushChannels, queue, closed, newDc, subscriberVars, stopVars,
                   from, persisted, overlapped, unsure, countVars>>

\* Set: one push, which waits while the channel is full.
Push(p) ==
    /\ pc[p] = "pushing"
    /\ next <= Len(pushChannels)
    /\ LET s == pushChannels[next]
       IN  /\ s \notin closed
           /\ Len(queue[s]) < ChanCap
           /\ queue' = [queue EXCEPT ![s] = Append(@, dynamicConfig)]
    /\ next' = next + 1
    /\ UNCHANGED <<etcd, dynamicConfig, mu, pushChannels, closed, procVars,
                   subscriberVars, stopVars, historyVars, countVars>>

\* Mutant: the mutex is not unlocked by a deferred call.
PushPanicsLocked(p) ==
    /\ pc[p] = "pushing"
    /\ next <= Len(pushChannels)
    /\ pushChannels[next] \in closed
    /\ pc' = [pc EXCEPT ![p] = "idle"]
    /\ UNCHANGED <<etcd, memoryVars, newDc, subscriberVars, stopVars, historyVars, countVars>>

\* Set: a push into a closed channel panics; the deferred Unlock runs, and the
\* handler's recovery ends the request.
PushPanics(p) ==
    /\ pc[p] = "pushing"
    /\ next <= Len(pushChannels)
    /\ pushChannels[next] \in closed
    /\ mu' = Nobody
    /\ pc' = [pc EXCEPT ![p] = "idle"]
    /\ UNCHANGED <<etcd, dynamicConfig, pushChannels, queue, closed, next, newDc,
                   subscriberVars, stopVars, historyVars, countVars>>

\* Set returns.
Return(p) ==
    /\ pc[p] = "pushing"
    /\ next > Len(pushChannels)
    /\ mu' = Nobody
    /\ pc' = [pc EXCEPT ![p] = "idle"]
    /\ UNCHANGED <<etcd, dynamicConfig, pushChannels, queue, closed, next, newDc,
                   subscriberVars, stopVars, historyVars, countVars>>

-----------------------------------------------------------------------------
Subscribed == {pushChannels[i] : i \in 1 .. Len(pushChannels)}

\* Mutants: what is in memory is pushed even if it is nothing, or never.
FirstPushUnchecked == <<dynamicConfig>>
FirstPushNone == <<>>

\* The new channel starts with the present configuration, if there is one.
FirstPush == IF dynamicConfig = None THEN <<>> ELSE <<dynamicConfig>>

\* Mutant: without the mutex.
SubscribeUnlocked(s) ==
    /\ s \notin Subscribed
    /\ pushChannels' = Append(pushChannels, s)
    /\ queue' = [queue EXCEPT ![s] = FirstPush]
    /\ from' = [from EXCEPT ![s] = IF dynamicConfig = None THEN 1 ELSE Len(past)]
    /\ UNCHANGED <<etcd, dynamicConfig, mu, closed, next, procVars, subscriberVars, stopVars,
                   past, persisted, overlapped, unsure, expected, countVars>>

\* NewPushChannel
Subscribe(s) ==
    /\ s \notin Subscribed
    /\ mu = Nobody
    /\ pushChannels' = Append(pushChannels, s)
    /\ queue' = [queue EXCEPT ![s] = FirstPush]
    /\ from' = [from EXCEPT ![s] = IF dynamicConfig = None THEN 1 ELSE Len(past)]
    /\ UNCHANGED <<etcd, dynamicConfig, mu, closed, next, procVars, subscriberVars, stopVars,
                   past, persisted, overlapped, unsure, expected, countVars>>

\* The loop of s takes a configuration out of its channel.
Receive(s) ==
    /\ s \in Subscribed \ gone
    /\ queue[s] # <<>>
    /\ view' = [view EXCEPT ![s] = Head(queue[s])]
    /\ queue' = [queue EXCEPT ![s] = Tail(@)]
    /\ received' = [received EXCEPT ![s] = @ + 1]
    /\ UNCHANGED <<etcd, dynamicConfig, mu, pushChannels, closed, next, procVars, gone,
                   stopVars, historyVars, countVars>>

\* The loop of s returns.
Leave(s) ==
    /\ s \in Subscribed \ gone
    /\ cancelled \/ (s \in closed /\ queue[s] = <<>>)
    /\ gone' = gone \union {s}
    /\ UNCHANGED <<etcd, memoryVars, procVars, view, received, stopVars, historyVars, countVars>>

\* The process is told to stop.
Cancel ==
    /\ MayStop
    /\ ~cancelled
    /\ cancelled' = TRUE
    /\ UNCHANGED <<etcd, memoryVars, procVars, subscriberVars, stopped, historyVars, countVars>>

\* Stop: close all channels.
Stop ==
    /\ cancelled
    /\ ~stopped
    /\ mu = Nobody
    /\ closed' = Subscribed
    /\ stopped' = TRUE
    /\ UNCHANGED <<etcd, dynamicConfig, mu, pushChannels, queue, next, procVars,
                   subscriberVars, cancelled, historyVars, countVars>>

\* The process dies and starts again.
Crash ==
    /\ crashes < MaxCrashes
    /\ crashes' = crashes + 1
    /\ dynamicConfig' = None
    /\ mu' = Nobody
    /\ pushChannels' = <<>>
    /\ queue' = [s \in Subscribers |-> <<>>]
    /\ closed' = {}
    /\ next' = 1
    /\ pc' = FreshPc
    /\ newDc' = Nothing(Procs)
    /\ view' = Nothing(Subscribers)
    /\ gone' = {}
    /\ received' = [s \in Subscribers |-> 0]
    /\ cancelled' = FALSE
    /\ stopped' = FALSE
    /\ past' = <<>>
    /\ from' = [s \in Subscribers |-> 1]
    /\ overlapped' = FALSE
    /\ unsure' = FALSE
    /\ expected' = None
    /\ UNCHANGED <<etcd, persisted, changes, failures>>

CallStep(p) == Store(p) \/ StoreFails(p) \/ Replace(p) \/ Push(p) \/ PushPanics(p) \/ Return(p)
StartStep == Load \/ LoadFails \/ StartGivesUp
LoopStep(s) == Subscribe(s) \/ Receive(s) \/ Leave(s)

Next ==
    \/ StartStep
    \/ \E p \in Callers, v \in Values : Modify(p, v)
    \/ \E p \in Procs : CallStep(p)
    \/ \E s \in Subscribers : LoopStep(s)
    \/ Cancel
    \/ Stop
    \/ Crash

Spec == Init /\ [][Next]_vars

\* Goroutines that can run do run.
FairSpec ==
    /\ Spec
    /\ WF_vars(StartStep)
    /\ \A p \in Procs : WF_vars(CallStep(p))
    /\ \A s \in Subscribers : WF_vars(LoopStep(s))
    /\ WF_vars(Stop)

-----------------------------------------------------------------------------
\* Every variable has its type.
TypeOK ==
    /\ etcd \in Config \union {None}
    /\ dynamicConfig \in Config \union {None}
    /\ mu \in Procs \union {Nobody}
    /\ pushChannels \in Seq(Subscribers)
    /\ queue \in [Subscribers -> Seq(Config)]
    /\ closed \subseteq Subscribers
    /\ cancelled \in BOOLEAN /\ stopped \in BOOLEAN
    /\ pc \in [Procs -> {"idle", "loading", "storing", "stored", "pushing"}]
    /\ newDc \in [Procs -> Config \union {None}]
    /\ next \in Nat \ {0}
    /\ view \in [Subscribers -> Config \union {None}]
    /\ gone \subseteq Subscribers
    /\ past \in Seq(Config)
    /\ from \in [Subscribers -> Nat]
    /\ received \in [Subscribers -> Nat]
    /\ persisted \subseteq Config
    /\ overlapped \in BOOLEAN /\ unsure \in BOOLEAN
    /\ expected \in Config \union {None}
    /\ changes \in Nat /\ failures \in Nat /\ crashes \in Nat

\* What the channel of s got last, or what s took out of it last.
Latest(s) == IF queue[s] = <<>> THEN view[s] ELSE queue[s][Len(queue[s])]

\* A channel that the running Set has pushed to ends with the configuration in
\* memory, and without a running Set every channel does: no subscriber is left
\* with an old configuration, whenever it subscribed.
NoUpdateMissed ==
    \A i \in 1 .. Len(pushChannels) :
        (mu = Nobody /\ closed = {}) \/ (mu # Nobody /\ i < next)
            => Latest(pushChannels[i]) = dynamicConfig

\* A subscriber gets every configuration since it subscribed, once each and in
\* the order memory had them.
EachUpdateOnce ==
    \A i \in 1 .. Len(pushChannels) :
        LET s == pushChannels[i]
            got == from[s] - 1 + received[s]
        IN  /\ got + Len(queue[s]) <= Len(past)
            /\ view[s] # None => view[s] = past[got]
            /\ \A k \in 1 .. Len(queue[s]) : queue[s][k] = past[got + k]
            /\ \/ got + Len(queue[s]) = Len(past)
               \/ mu # Nobody /\ i >= next /\ got + Len(queue[s]) = Len(past) - 1
               \/ closed # {}

\* What memory and subscribers have was in etcd before: a restart finds it, or
\* what replaced it.
ServedIsPersisted == \A k \in 1 .. Len(past) : past[k] \in persisted

\* Start's own Set cannot overwrite a change: until it is done nobody gets past
\* Get.
StartBeforeChanges ==
    pc[Starter] \in {"loading", "storing", "stored"} =>
        dynamicConfig = None /\ \A p \in Callers : pc[p] = "idle"

\* Nothing that Validate would reject reaches memory, a subscriber or, after
\* the first Set, etcd.
OnlyValid ==
    /\ dynamicConfig # None => Valid(dynamicConfig) /\ Valid(etcd)
    /\ \A s \in Subscribers : \A k \in 1 .. Len(queue[s]) : Valid(queue[s][k])

\* As long as calls of Modify do not overlap, no section loses a change made to
\* it, to Start or to another section, and memory and etcd agree when none runs.
\* (With overlapping calls both can fail: the Get and the Set of Modify are not
\* one step, and Set stores without the mutex.)
SequentialExact ==
    /\ StartBeforeChanges
    /\ ~overlapped =>
        /\ dynamicConfig = expected
        /\ ~unsure /\ dynamicConfig # None /\ (\A p \in Procs : pc[p] = "idle")
              => etcd = dynamicConfig

\* Every call returns, though Set pushes under the mutex into channels that may
\* be closed and that nobody may receive from any more; so do Start and, once
\* the process is told to stop, Stop.
CallsReturn ==
    /\ \A p \in Procs : pc[p] # "idle" ~> pc[p] = "idle"
    /\ cancelled ~> stopped

\* In the end every subscriber has the configuration that memory has, if the
\* process goes on.
SubscribersConverge == <>[](cancelled \/ \A s \in Subscribers : view[s] = dynamicConfig)
=============================================================================
