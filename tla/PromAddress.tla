----------------------------- MODULE PromAddress ------------------------------
(***************************************************************************)
(* The address of Prometheus (pkg/apiserver/metrics): the one in the       *)
(* configuration of PD, or else the one that the deployment has left in    *)
(* etcd, in a cache of five seconds that one request at a time fills       *)
(* (singleflight) and that a change of the address invalidates.            *)
(***************************************************************************)
EXTENDS Integers

CONSTANTS
    PromUsers,     \* requests for metrics
    PromSetters,   \* requests that set the address
    Addresses,     \* valid addresses
    PromTTL,       \* promCacheTTL
    MaxPromNow,    \* bound: the time
    MaxPromEvents  \* bound: requests that fail, and changes by others

NotDeployed == "" \* no address
BadAddress == "bad" \* one that does not parse: PD stores what it is told by others
ASSUME PromAssumption == PromTTL \in Nat \ {0} /\ {NotDeployed, BadAddress} \intersect Addresses = {}

VARIABLES
    promCustom,   \* PD: metric-storage
    promDeployed, \* etcd: /topology/prometheus
    promCache,    \* the entry, and when it was made; cacheAt is Never when invalidated
    promFill,     \* the request in the singleflight group: where it is, what it has found
    promUser, promSetter,
    promNow,
    promKnown,    \* history: the address that was set last, if nobody was reading then
    promEvents
promWorld == <<promCustom, promDeployed>>
promVars == <<promWorld, promCache, promFill, promUser, promSetter, promNow, promKnown, promEvents>>

Never == -PromTTL - 1
Unknown == [known |-> FALSE]
NoFill == [at |-> "no"]

PromInit ==
    /\ promCustom \in Addresses \union {NotDeployed}
    /\ promDeployed \in Addresses \union {NotDeployed}
    /\ promCache = [address |-> NotDeployed, cacheAt |-> Never]
    /\ promFill = NoFill
    /\ promUser = [u \in PromUsers |-> [at |-> "idle"]]
    /\ promSetter = [w \in PromSetters |-> [at |-> "idle"]]
    /\ promNow = 0 /\ promKnown = Unknown /\ promEvents = 0

PromEvent == promEvents < MaxPromEvents /\ promEvents' = promEvents + 1
PromWorks == UNCHANGED promEvents

-----------------------------------------------------------------------------
AskAddress(u) ==
    /\ promUser[u].at \in {"idle", "ok", "error"}
    /\ promUser' = [promUser EXCEPT ![u] = [at |-> "ask"]]
    /\ UNCHANGED <<promWorld, promCache, promFill, promSetter, promNow, promKnown, promEvents>>
Valid == promCache.cacheAt + PromTTL > promNow
\* getPromAddressFromCache: the first to ask looks at the entry and begins to fill it; who
\* asks in the meantime shares what it finds.
getPromAddressFromCache(u) ==
    /\ promUser[u].at = "ask"
    /\ IF promFill.at # "no" THEN promUser' = [promUser EXCEPT ![u].at = "shares"] /\ UNCHANGED promFill
       ELSE IF Valid
       THEN /\ promUser' = [promUser EXCEPT ![u] = [at |-> "ok", address |-> promCache.address]]
            /\ UNCHANGED promFill
       ELSE /\ promUser' = [promUser EXCEPT ![u].at = "shares"]
            /\ promFill' = [at |-> "custom"]
    /\ UNCHANGED <<promWorld, promCache, promSetter, promNow, promKnown, promEvents>>
Everyone(answer) ==
    promUser' = [u \in PromUsers |-> IF promUser[u].at = "shares" THEN answer ELSE promUser[u]]
FillFails == promFill' = NoFill /\ Everyone([at |-> "error"])
\* resolveCustomizedPromAddress: an address that does not parse is an error.
resolveCustomizedPromAddress ==
    /\ promFill.at = "custom"
    /\ \/ (PromEvent \/ (promCustom = BadAddress /\ PromWorks)) /\ FillFails
       \/ /\ promCustom # BadAddress /\ PromWorks /\ UNCHANGED promUser
          /\ promFill' = IF promCustom = NotDeployed THEN [at |-> "deployed"]
                         ELSE [at |-> "store", address |-> promCustom]
    /\ UNCHANGED <<promWorld, promCache, promSetter, promNow, promKnown>>
resolveDeployedPromAddress ==
    /\ promFill.at = "deployed"
    /\ \/ PromEvent /\ FillFails
       \/ PromWorks /\ UNCHANGED promUser /\ promFill' = [at |-> "store", address |-> promDeployed]
    /\ UNCHANGED <<promWorld, promCache, promSetter, promNow, promKnown>>
\* What was found is stored as of now, even when there is none.
StoreAddress ==
    /\ promFill.at = "store"
    /\ promCache' = [address |-> promFill.address, cacheAt |-> promNow]
    /\ promFill' = NoFill /\ Everyone([at |-> "ok", address |-> promFill.address])
    /\ UNCHANGED <<promWorld, promSetter, promNow, promKnown, promEvents>>

\* setCustomPromAddress: PD first (an address that does not parse is not sent), ...
setCustomPromAddress(w, addr) ==
    /\ promSetter[w].at \in {"idle", "set", "error"}
    /\ \/ addr = BadAddress /\ PromWorks /\ UNCHANGED <<promCustom, promKnown>>
            /\ promSetter' = [promSetter EXCEPT ![w] = [at |-> "error"]]
       \/ /\ addr # BadAddress /\ PromWorks /\ promCustom' = addr /\ promKnown' = Unknown
          /\ promSetter' = [promSetter EXCEPT ![w] = [at |-> "invalidate", address |-> addr]]
       \/ /\ addr # BadAddress /\ PromEvent /\ promCustom' \in {addr, promCustom} /\ promKnown' = Unknown
          /\ promSetter' = [promSetter EXCEPT ![w] = [at |-> "error"]]
    /\ UNCHANGED <<promDeployed, promCache, promFill, promUser, promNow>>
\* Mutant: the entry stays.
KeepEntry(w) ==
    /\ promSetter[w].at = "invalidate"
    /\ promSetter' = [promSetter EXCEPT ![w] = [at |-> "set"]]
    /\ promKnown' = [known |-> promFill.at = "no", address |-> promSetter[w].address]
    /\ UNCHANGED <<promWorld, promCache, promFill, promUser, promNow, promEvents>>
\* ... then the entry: who was reading by then may still store the address of before.
Invalidate(w) ==
    /\ promSetter[w].at = "invalidate"
    /\ promCache' = [address |-> promSetter[w].address, cacheAt |-> Never]
    /\ promSetter' = [promSetter EXCEPT ![w] = [at |-> "set"]]
    /\ promKnown' = IF promFill.at = "no" /\ promCustom = promSetter[w].address
                    THEN [known |-> TRUE, address |-> promCustom] ELSE Unknown
    /\ UNCHANGED <<promWorld, promFill, promUser, promNow, promEvents>>

\* Others change PD and the deployment; time passes.
ChangedByOthers ==
    /\ PromEvent /\ promKnown' = Unknown
    /\ \/ promCustom' \in Addresses \union {NotDeployed, BadAddress} /\ UNCHANGED promDeployed
       \/ promDeployed' \in Addresses \union {NotDeployed} /\ UNCHANGED promCustom
    /\ UNCHANGED <<promCache, promFill, promUser, promSetter, promNow>>
Tick ==
    /\ promNow < MaxPromNow /\ promNow' = promNow + 1
    /\ UNCHANGED <<promWorld, promCache, promFill, promUser, promSetter, promKnown, promEvents>>

PromNext ==
    \/ \E u \in PromUsers : AskAddress(u) \/ getPromAddressFromCache(u)
    \/ resolveCustomizedPromAddress \/ resolveDeployedPromAddress \/ StoreAddress
    \/ \E w \in PromSetters :
        \/ \E addr \in Addresses \union {NotDeployed, BadAddress} : setCustomPromAddress(w, addr)
        \/ Invalidate(w)
    \/ ChangedByOthers \/ Tick
PromSpec == PromInit /\ [][PromNext]_promVars

-----------------------------------------------------------------------------
\* Once a new address was set with nobody reading the old one at that moment, every
\* request is answered with it (when it was cleared: with the deployed one), until it is
\* changed again.
ChangeSeen ==
    [][\A u \in PromUsers :
        /\ promUser[u].at \in {"ask", "shares"} /\ promUser'[u].at = "ok"
        /\ promKnown.known /\ promKnown' = promKnown
        => promUser'[u].address = IF promKnown.address = NotDeployed THEN promDeployed ELSE promKnown.address
      ]_promVars
=============================================================================
