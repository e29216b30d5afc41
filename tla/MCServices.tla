------------------------------ MODULE MCServices ------------------------------
(***************************************************************************)
(* Instances for TLC of the services that share no state: profiling,       *)
(* sign-in, forwarding to TiDB, cluster configuration and the address of   *)
(* Prometheus.  A behaviour is one of one service: focus tells which, and  *)
(* for the large ones, in which of two situations.                         *)
(***************************************************************************)
EXTENDS Profiling, Access, Forwarding, ClusterConfig, PromAddress

CONSTANTS u1, s1, c1, e1 \* one SQL user, server, call and editor

MCProfRequests == {<<"supported", "supported">>, <<"supported", "invalid">>, <<"unsupported">>}
MCGrants == {{"ALL PRIVILEGES"}, {"PROCESS", "SHOW DATABASES", "CONFIG", "DASHBOARD_CLIENT"}}
MCEditable == [k \in {"tikv_config", "pd_config", "tidb_variable"} |-> CfgItems]

VARIABLE focus
servicesVars == <<focus, profVars, accVars, fwdVars, cfgVars, promVars>>

Profiles == focus = "profiling"
Signs == focus \in {"sessions", "impersonation"}
Forwards == focus \in {"servers", "calls"}
Configures == focus \in {"edit", "view"}
Resolves == focus = "prometheus"

\* The parts that a behaviour is not about stay in one initial state.
Init ==
    /\ focus \in {"profiling", "sessions", "impersonation", "servers", "calls", "edit", "view", "prometheus"}
    /\ ProfInit
    /\ AccInit /\ (Signs \/ (~accSEM /\ ~accSSO.enabled /\ \A u \in SQLUsers : "SHOW DATABASES" \in accSQL[u].grants))
    /\ focus = "sessions" => \A u \in SQLUsers : accSQL[u] = accSQL[u1]
    /\ FwdInit /\ (Forwards \/ fwdTopology = {}) /\ (focus = "calls" => fwdTopology \subseteq {s1})
    /\ CfgInit /\ (Configures \/ (cfgStores = {} /\ \A s \in Stores : cfgHeld[s] = <<>>))
    /\ PromInit /\ (Resolves \/ (promCustom = NotDeployed /\ promDeployed = NotDeployed))

ProfStep == Profiles /\ ProfNext
\* Sessions of one user while SSO stays as it is; its configuration while nobody signs in.
AccStep ==
    \/ /\ focus = "sessions"
       /\ \/ BrowserStep /\ \A b \in Browsers : accToken'[b] # NoSession => accToken'[b].user = u1
          \/ Later \/ Restart \/ UserChanges(u1)
    \/ focus = "impersonation" /\ (ImpersonationStep \/ ConfigStep \/ Surroundings)
\* Two servers and one call at a time, or one server and calls that overlap
\* (of one kind: the proxies share nothing but what they are told).
FwdStep ==
    /\ Forwards
    /\ \/ PollStep \/ ProbeStep
       \/ \E s \in Servers : (focus = "calls" => s = s1) /\ FwdChange(s)
       \/ \E c \in Calls : ServeStep(c) \/ Faults(c)
       \/ focus = "servers" /\ \E k \in Kinds : FwdAsk(c1, k)
       \/ focus = "calls" /\ \E c \in Calls : FwdAsk(c, "status")
\* Edits that overlap, or an edit while the items are collected.
CfgStep ==
    /\ Configures
    /\ \/ EditStep \/ StoreJoins
       \/ focus = "edit" /\ EditRequest(e1)
       \/ focus = "edit" /\ \E e \in Editors, v \in CfgValues, i \in CfgItems : Edit(e, "tikv_config", i, v)
       \/ focus = "view" /\ ViewStep
       \/ focus = "view" /\ cfgView.at = "collect"
          /\ \E v \in CfgValues, i \in CfgItems : Edit(e1, "tikv_config", i, v)
PromStep == Resolves /\ PromNext

Next ==
    \/ ProfStep /\ UNCHANGED <<focus, accVars, fwdVars, cfgVars, promVars>>
    \/ AccStep /\ UNCHANGED <<focus, profVars, fwdVars, cfgVars, promVars>>
    \/ FwdStep /\ UNCHANGED <<focus, profVars, accVars, cfgVars, promVars>>
    \/ CfgStep /\ UNCHANGED <<focus, profVars, accVars, fwdVars, promVars>>
    \/ PromStep /\ UNCHANGED <<focus, profVars, accVars, fwdVars, cfgVars>>

\* The loops and the goroutines of a service run if it is the one looked at.
Spec ==
    /\ Init /\ [][Next]_servicesVars
    /\ WF_profVars(Profiles /\ ProfWork)
    /\ WF_fwdVars(Forwards /\ PollStep)
    /\ \A k \in Kinds, s \in Servers : WF_fwdVars(Forwards /\ checkAlive(k, s))
    /\ \A c \in Calls : WF_fwdVars(Forwards /\ ServeStep(c))
=============================================================================
