------------------------------ MODULE Forwarding ------------------------------
(***************************************************************************)
(* How the dashboard reaches TiDB (pkg/tidb): the forwarder reads the      *)
(* topology from etcd and gives the instances that are up to two local     *)
(* proxies, one for SQL and one for the status API; a proxy probes its     *)
(* remotes and serves each connection in a goroutine of its own.  All of   *)
(* them share the flags of the remotes, noAliveRemote and, with no lock,   *)
(* the address that was used last (current).                               *)
(***************************************************************************)
EXTENDS Integers, FiniteSets, Sequences

CONSTANTS
    Servers,       \* the addresses of TiDB instances
    Calls,         \* the requests of the dashboard that run at the same time
    MaxFwdEvents   \* bound: changes of the topology and of what is reachable, and faults

Kinds == {"sql", "status"}
NoAddr == "" \* no address, in current and for a call that names no instance

VARIABLES
    fwdReach,    \* what answers: the instances, for each kind of port
    fwdTopology, \* etcd: the instances whose ttl key is there
    fwdRemotes,  \* for each kind: remote -> whether it is active
    fwdCurrent,  \* for each kind
    fwdNoAlive,  \* noAliveRemote, for each kind
    fwdPoll,     \* pollingForTiDB: where it is, with the instances it has read
    fwdCalls,    \* each call, and the goroutine that serves its connection
    fwdEvents
fwdShared == <<fwdRemotes, fwdCurrent, fwdNoAlive>>
fwdWorld == <<fwdReach, fwdTopology, fwdEvents>>
fwdVars == <<fwdWorld, fwdShared, fwdPoll, fwdCalls>>

NoRemotes == [s \in {} |-> FALSE]
Ended(result) == [at |-> "ended", result |-> result]
Known(k) == DOMAIN fwdRemotes[k]
Active(k) == {s \in Known(k) : fwdRemotes[k][s]}

\* newForwarder, createProxy and newProxy: no remotes yet, so none is alive.
FwdInit ==
    /\ fwdReach = [k \in Kinds |-> Servers]
    /\ fwdTopology \in SUBSET Servers
    /\ fwdRemotes = [k \in Kinds |-> NoRemotes]
    /\ fwdCurrent = [k \in Kinds |-> NoAddr]
    /\ fwdNoAlive = [k \in Kinds |-> TRUE]
    /\ fwdPoll = [at |-> "wait"]
    /\ fwdCalls = [c \in Calls |-> Ended("ok")]
    /\ fwdEvents = 0

-----------------------------------------------------------------------------
\* A port opens or closes, an instance registers in etcd or its ttl key runs out.
FwdEvent == fwdEvents < MaxFwdEvents /\ fwdEvents' = fwdEvents + 1
Toggled(set, s) == IF s \in set THEN set \ {s} ELSE set \union {s}
FwdChange(s) ==
    /\ FwdEvent
    /\ \/ /\ \E k \in Kinds : fwdReach' = [fwdReach EXCEPT ![k] = Toggled(@, s)]
          /\ UNCHANGED fwdTopology
       \/ fwdTopology' = Toggled(fwdTopology, s) /\ UNCHANGED fwdReach
    /\ UNCHANGED <<fwdShared, fwdPoll, fwdCalls>>

\* FetchTiDBTopology: an instance is up if it has a ttl key, however old its value.
FetchTiDBTopology ==
    /\ fwdPoll.at = "wait"
    /\ fwdPoll' = [at |-> "sql", up |-> fwdTopology]
    /\ UNCHANGED <<fwdWorld, fwdShared, fwdCalls>>

\* A goroutine keeps its pointer to a remote that was removed; what it marks then is
\* lost, also when the address has been added again.
Removed(held, k, gone) == [held EXCEPT !.live = @ /\ ~(held.kind = k /\ held.remote \in gone)]

\* updateRemotes: new remotes begin as inactive, the ones no longer listed are removed.
updateRemotes(k) ==
    /\ fwdPoll.at = k
    /\ fwdRemotes' = [fwdRemotes EXCEPT ![k] =
                        [s \in fwdPoll.up |-> s \in Known(k) /\ fwdRemotes[k][s]]]
    /\ fwdCalls' = [c \in Calls |-> IF fwdCalls[c].at \in {"dial", "mark"}
                                    THEN Removed(fwdCalls[c], k, Known(k) \ fwdPoll.up)
                                    ELSE fwdCalls[c]]
    /\ fwdPoll' = [fwdPoll EXCEPT !.at = "flag " \o k]
    /\ UNCHANGED <<fwdWorld, fwdCurrent, fwdNoAlive>>
\* ... then noAliveRemote is stored, before anything was probed; then the next proxy.
storeNoAlive(k) ==
    /\ fwdPoll.at = "flag " \o k
    /\ fwdNoAlive' = [fwdNoAlive EXCEPT ![k] = fwdPoll.up = {}]
    /\ fwdPoll' = IF k = "sql" THEN [fwdPoll EXCEPT !.at = "status"] ELSE [at |-> "wait"]
    /\ UNCHANGED <<fwdWorld, fwdRemotes, fwdCurrent, fwdCalls>>
PollStep == FetchTiDBTopology \/ \E k \in Kinds : updateRemotes(k) \/ storeNoAlive(k)

\* doCheck: each inactive remote is dialled in a goroutine of its own, and active if it
\* answers.  A dial that fails changes nothing, nor does one of a remote that was removed.
checkAlive(k, s) ==
    /\ s \in (Known(k) \ Active(k)) \intersect fwdReach[k]
    /\ fwdRemotes' = [fwdRemotes EXCEPT ![k][s] = TRUE]
    /\ UNCHANGED <<fwdWorld, fwdCurrent, fwdNoAlive, fwdPoll, fwdCalls>>
ProbeStep == \E k \in Kinds, s \in Servers : checkAlive(k, s)

-----------------------------------------------------------------------------
\* OpenSQLConn and Get: a call that names an instance goes there, unless the environment
\* names one too: then it is refused, or (status only) enforces its own.  The others go
\* through the proxy, which getEndpointAddr refuses by the flag of the status proxy.
Address(k, named, override, enforced) ==
    CASE named # NoAddr /\ k = "status" /\ enforced -> named
      [] named # NoAddr /\ override # NoAddr /\ ~(k = "status" /\ enforced) -> "refused"
      [] named = NoAddr /\ override # NoAddr -> override
      [] OTHER -> named
FailedAs(k) == IF fwdNoAlive[k] THEN "no alive TiDB" ELSE "failed"
Begin(c, k, addr) ==
    /\ fwdCalls[c].at = "ended"
    /\ fwdCalls' = [fwdCalls EXCEPT ![c] =
            CASE addr = "refused" -> Ended("failed")
              [] addr \in Servers -> Ended(IF addr \in fwdReach[k] THEN "ok" ELSE FailedAs(k))
              [] fwdNoAlive["status"] -> Ended("no alive TiDB")
              [] OTHER -> [at |-> "pick", kind |-> k]]
    /\ UNCHANGED <<fwdWorld, fwdShared, fwdPoll>>

\* serve, pickActiveConn and pick, step by step, for the connection of call c.
CallAt(c, place) == fwdCalls[c].at = place
CallGoes(c, new) == fwdCalls' = [fwdCalls EXCEPT ![c] = new]
Place(c, place) == [at |-> place, kind |-> fwdCalls[c].kind]
Dial(c, s) == [at |-> "dial", kind |-> fwdCalls[c].kind, remote |-> s, live |-> TRUE]

\* With no current address, the first active remote that Range meets.
pick(c) ==
    LET k == fwdCalls[c].kind IN
    /\ CallAt(c, "pick")
    /\ IF fwdCurrent[k] = NoAddr /\ Active(k) # {}
       THEN \E s \in Active(k) : fwdCurrent' = [fwdCurrent EXCEPT ![k] = s] /\ CallGoes(c, Dial(c, s))
       ELSE UNCHANGED fwdCurrent /\ CallGoes(c, Place(c, "read"))
    /\ UNCHANGED <<fwdWorld, fwdRemotes, fwdNoAlive, fwdPoll>>
\* current is two words, a pointer and a length, and nothing guards them: the value may be
\* read half before a write and half after it.  Two addresses then give no address.  The
\* pointer of none with the length of one is a fault that ends the process (started again).
readFirst(c) ==
    LET now == fwdCurrent[fwdCalls[c].kind] IN
    /\ CallAt(c, "read")
    /\ CallGoes(c, IF now = NoAddr THEN Place(c, "none")
             ELSE [at |-> "load", kind |-> fwdCalls[c].kind, saw |-> now])
    /\ UNCHANGED <<fwdWorld, fwdShared, fwdPoll>>
Torn(a, b) == a # b /\ NoAddr \notin {a, b}
readRest(c) ==
    LET k == fwdCalls[c].kind
        now == fwdCurrent[k]
        saw == fwdCalls[c].saw
    IN
    /\ CallAt(c, "load")
    /\ \/ \E addr \in {now, saw} :
            CallGoes(c, IF addr \in Known(k) THEN Dial(c, addr) ELSE Place(c, "forget"))
       \/ Torn(now, saw) /\ CallGoes(c, Place(c, "forget"))
    /\ UNCHANGED <<fwdWorld, fwdShared, fwdPoll>>
\* Mutant: an address that is not known stays the current one.
KeepsCurrent(c) ==
    /\ CallAt(c, "forget") /\ CallGoes(c, Place(c, "none"))
    /\ UNCHANGED <<fwdWorld, fwdShared, fwdPoll>>
forget(c) ==
    /\ CallAt(c, "forget") /\ CallGoes(c, Place(c, "none"))
    /\ fwdCurrent' = [fwdCurrent EXCEPT ![fwdCalls[c].kind] = NoAddr]
    /\ UNCHANGED <<fwdWorld, fwdRemotes, fwdNoAlive, fwdPoll>>
\* The picked remote is dialled, active or not.  When that fails it is forgotten as the
\* current one, then marked, and the next one is picked.
dial(c) ==
    LET k == fwdCalls[c].kind IN
    /\ CallAt(c, "dial")
    /\ IF fwdCalls[c].remote \in fwdReach[k]
       THEN CallGoes(c, Place(c, "got")) /\ UNCHANGED fwdCurrent
       ELSE CallGoes(c, [fwdCalls[c] EXCEPT !.at = "mark"]) /\ fwdCurrent' = [fwdCurrent EXCEPT ![k] = NoAddr]
    /\ UNCHANGED <<fwdWorld, fwdRemotes, fwdNoAlive, fwdPoll>>
becomeInactive(c) ==
    /\ CallAt(c, "mark")
    /\ fwdRemotes' = IF fwdCalls[c].live
                     THEN [fwdRemotes EXCEPT ![fwdCalls[c].kind][fwdCalls[c].remote] = FALSE]
                     ELSE fwdRemotes
    /\ CallGoes(c, Place(c, "pick"))
    /\ UNCHANGED <<fwdWorld, fwdCurrent, fwdNoAlive, fwdPoll>>
\* The flag is stored; the connection is copied both ways, or closed, and the caller
\* sees which, and why by the flag as it is then.
pickActiveConn(c) ==
    LET k == fwdCalls[c].kind IN
    /\ fwdCalls[c].at \in {"none", "got"}
    /\ fwdNoAlive' = [fwdNoAlive EXCEPT ![k] = CallAt(c, "none")]
    /\ CallGoes(c, IF CallAt(c, "got") THEN Ended("ok") ELSE Place(c, "closed"))
    /\ UNCHANGED <<fwdWorld, fwdRemotes, fwdCurrent, fwdPoll>>
Refused(c) ==
    /\ CallAt(c, "closed") /\ CallGoes(c, Ended(FailedAs(fwdCalls[c].kind)))
    /\ UNCHANGED <<fwdWorld, fwdShared, fwdPoll>>
Faults(c) ==
    /\ CallAt(c, "load") /\ FwdEvent
    /\ fwdCalls[c].saw # fwdCurrent[fwdCalls[c].kind]
    /\ NoAddr \in {fwdCalls[c].saw, fwdCurrent[fwdCalls[c].kind]}
    /\ fwdRemotes' = [k \in Kinds |-> NoRemotes] /\ fwdCurrent' = [k \in Kinds |-> NoAddr]
    /\ fwdNoAlive' = [k \in Kinds |-> TRUE]
    /\ fwdPoll' = [at |-> "wait"] /\ fwdCalls' = [d \in Calls |-> Ended("ok")]
    /\ UNCHANGED <<fwdReach, fwdTopology>>
ServeStep(c) ==
    \/ pick(c) \/ readFirst(c) \/ readRest(c) \/ forget(c) \/ dial(c) \/ becomeInactive(c)
    \/ pickActiveConn(c) \/ Refused(c)

FwdAsk(c, k) ==
    \E addr \in {Address(k, named, override, enforced) : named \in Servers \union {NoAddr},
                    override \in Servers \union {NoAddr}, enforced \in BOOLEAN} :
        Begin(c, k, addr)
FwdNext ==
    \/ PollStep \/ ProbeStep
    \/ \E s \in Servers : FwdChange(s)
    \/ \E c \in Calls : (\E k \in Kinds : FwdAsk(c, k)) \/ ServeStep(c) \/ Faults(c)

\* The loops of the forwarder and of the proxies run for as long as the dashboard does,
\* and every goroutine is scheduled; nobody has to call.
FwdFairness ==
    /\ \A k \in Kinds, s \in Servers : WF_fwdVars(checkAlive(k, s))
    /\ WF_fwdVars(PollStep)
    /\ \A c \in Calls : WF_fwdVars(ServeStep(c))
FwdSpec == FwdInit /\ [][FwdNext]_fwdVars /\ FwdFairness

-----------------------------------------------------------------------------
\* Once the topology and the ports have settled and no two calls overlap, the flags of the
\* proxies settle too: with every registered instance reachable, no call is refused for
\* want of TiDB any more; with none registered, each proxy says so (the polling that
\* corrects what a connection stored late, the probing, and the way back from a current
\* remote that is gone).
Reachable == fwdTopology # {} /\ \A k \in Kinds : fwdTopology \subseteq fwdReach[k]
Alone == Cardinality({c \in Calls : fwdCalls[c].at # "ended"}) <= 1
ForwarderSettles ==
    /\ <>[](Reachable /\ Alone) =>
        <>[](\A k \in Kinds : ~fwdNoAlive[k] /\ \A c \in Calls : fwdCalls[c].at \notin {"none", "closed"})
    /\ <>[](fwdTopology = {}) => <>[](\A k \in Kinds : fwdNoAlive[k])
=============================================================================
