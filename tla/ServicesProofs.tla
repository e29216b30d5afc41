---------------------------- MODULE ServicesProofs -----------------------------
(***************************************************************************)
(* Proofs about services that share nothing.                               *)
(* PromAddress, ClusterConfig and Access, for any requests, addresses,     *)
(* stores, items, values and numbers of failures, and any browsers, users, *)
(* administrators, privileges and lives of tokens and codes, with restarts,*)
(* changes of the users and a key file that is lost: a new address is seen *)
(* by all requests after it, an edit that was answered without an error is *)
(* held by every store, items are shown with several values when they are  *)
(* read so, one record impersonates, sessions stay in bounds.              *)
(* Profiling, for any groups, failures, crashes, requests and clients:     *)
(* what the state of a group tells about its tasks.                        *)
(***************************************************************************)
EXTENDS PromAddress, ClusterConfig, Access, Profiling, SequenceTheorems, FiniteSetTheorems,
        WellFoundedInduction, TLAPS

(***************************************************************************)
(* The address of Prometheus                                               *)
(***************************************************************************)

Answers == Addresses \union {NotDeployed, BadAddress}
Fills == [at : {"no", "custom", "deployed"}] \union [at : {"store"}, address : Answers]
UserStates == [at : {"idle", "ask", "shares", "error"}] \union [at : {"ok"}, address : Answers]
SetterStates == [at : {"idle", "set", "error"}] \union [at : {"invalidate"}, address : Answers]

PromTypes ==
    /\ promNow \in Nat
    /\ promCustom \in Answers /\ promDeployed \in Answers
    /\ promCache \in [address : Answers, cacheAt : Int]
    /\ promFill \in Fills
    /\ promUser \in [PromUsers -> UserStates]
    /\ promSetter \in [PromSetters -> SetterStates]

\* The address that requests should be answered with while it is known.
Expected == IF promKnown.address = NotDeployed THEN promDeployed ELSE promKnown.address

\* While the address is known, PD has it, and what was read of it and what is cached agree.
KnownSeen ==
    promKnown.known =>
        /\ promCustom = promKnown.address
        /\ promFill.at = "deployed" => promCustom = NotDeployed
        /\ promFill.at = "store" => promFill.address = Expected
        /\ Valid => promCache.address = Expected

PromIInv == PromTypes /\ KnownSeen

-----------------------------------------------------------------------------
\* What the states of requests, setters and of the fill look like.
LEMMA PromRecords ==
    /\ \A at \in {"no", "custom", "deployed"} : [at |-> at] \in Fills
    /\ \A a \in Answers : [at |-> "store", address |-> a] \in Fills
    /\ \A at \in {"idle", "ask", "shares", "error"} : [at |-> at] \in UserStates
    /\ \A a \in Answers : [at |-> "ok", address |-> a] \in UserStates
    /\ \A at \in {"idle", "set", "error"} : [at |-> at] \in SetterStates
    /\ \A a \in Answers : [at |-> "invalidate", address |-> a] \in SetterStates
    /\ NotDeployed \in Answers /\ BadAddress \in Answers /\ Addresses \subseteq Answers
  BY DEF Fills, UserStates, SetterStates, Answers

\* Whoever shares a fill gets the same answer.
LEMMA EveryoneTypes ==
    ASSUME PromTypes, NEW answer \in UserStates, Everyone(answer)
    PROVE  promUser' \in [PromUsers -> UserStates]
  BY DEF PromTypes, Everyone

\* Whoever is about to be answered is answered with the address that is known.
AnswerOK ==
    \A u \in PromUsers :
        /\ promUser[u].at \in {"ask", "shares"} /\ promUser'[u].at = "ok"
        /\ promKnown.known /\ promKnown' = promKnown
        => promUser'[u].address = Expected

\* Where no request ends there is no answer to be wrong.
LEMMA NoAnswer ==
    ASSUME UNCHANGED promUser
    PROVE  AnswerOK
  BY DEF AnswerOK

\* At first nothing is cached.
LEMMA PromInitOK ==
    ASSUME PromInit
    PROVE  PromIInv
  <1>1. Never \in Int
    BY PromAssumption DEF Never
  <1>2. PromTypes
    BY <1>1, PromRecords DEF PromInit, PromTypes, NoFill
  <1>3. KnownSeen
    BY DEF PromInit, KnownSeen, Unknown
  <1>. QED BY <1>2, <1>3 DEF PromIInv

\* A request asks for the address.
LEMMA AskAddressOK ==
    ASSUME PromIInv, NEW u \in PromUsers, AskAddress(u)
    PROVE  PromIInv' /\ AnswerOK
  <1>1. promUser' \in [PromUsers -> UserStates]
    BY PromRecords DEF AskAddress, PromIInv, PromTypes
  <1>2. AnswerOK
    BY DEF AskAddress, AnswerOK, PromIInv, PromTypes
  <1>3. UNCHANGED <<promCustom, promDeployed, promCache, promFill, promSetter, promNow, promKnown>>
    BY DEF AskAddress, promWorld
  <1>. QED BY <1>1, <1>2, <1>3 DEF PromIInv, PromTypes, KnownSeen, Expected, Valid

\* A request looks at the cache, shares a fill that is under way, or begins one.
LEMMA FromCacheOK ==
    ASSUME PromIInv, NEW u \in PromUsers, getPromAddressFromCache(u)
    PROVE  PromIInv' /\ AnswerOK
  <1>1. /\ promUser[u].at = "ask" /\ promUser[u] \in UserStates
        /\ UNCHANGED <<promCustom, promDeployed, promCache, promSetter, promNow, promKnown>>
    BY DEF getPromAddressFromCache, promWorld, PromIInv, PromTypes
  <1>2. [promUser[u] EXCEPT !.at = "shares"] = [at |-> "shares"]
    BY <1>1 DEF UserStates
  <1>3. CASE promFill.at = "no" /\ Valid
    <2>1. promUser' = [promUser EXCEPT ![u] = [at |-> "ok", address |-> promCache.address]]
          /\ UNCHANGED promFill
      BY <1>3 DEF getPromAddressFromCache
    <2>2. promCache.address \in Answers
      BY DEF PromIInv, PromTypes
    <2>3. promUser' \in [PromUsers -> UserStates]
      BY <2>1, <2>2, PromRecords DEF PromIInv, PromTypes
    <2>4. AnswerOK
      BY <1>3, <2>1 DEF AnswerOK, PromIInv, PromTypes, KnownSeen
    <2>. QED BY <1>1, <2>1, <2>3, <2>4 DEF PromIInv, PromTypes, KnownSeen, Expected, Valid
  <1>4. CASE promFill.at # "no" \/ ~Valid
    <2>1. promUser' = [promUser EXCEPT ![u] = [at |-> "shares"]]
      BY <1>2, <1>4 DEF getPromAddressFromCache
    <2>2. promFill' = promFill \/ promFill' = [at |-> "custom"]
      BY <1>4 DEF getPromAddressFromCache
    <2>3. promUser' \in [PromUsers -> UserStates] /\ promFill' \in Fills
      BY <2>1, <2>2, PromRecords DEF PromIInv, PromTypes
    <2>4. AnswerOK
      BY <2>1 DEF AnswerOK, PromIInv, PromTypes
    <2>. QED BY <1>1, <2>2, <2>3, <2>4 DEF PromIInv, PromTypes, KnownSeen, Expected, Valid
  <1>. QED BY <1>3, <1>4

\* The request that fills the cache fails: who waits gets an error.
LEMMA FillFailsOK ==
    ASSUME PromIInv, FillFails,
           UNCHANGED <<promWorld, promCache, promSetter, promNow, promKnown>>
    PROVE  PromIInv' /\ AnswerOK
  <1>1. promFill' = [at |-> "no"] /\ Everyone([at |-> "error"])
    BY DEF FillFails, NoFill
  <1>2. promUser' \in [PromUsers -> UserStates] /\ promFill' \in Fills
    BY <1>1, EveryoneTypes, PromRecords DEF PromIInv
  <1>3. AnswerOK
    BY <1>1 DEF AnswerOK, Everyone
  <1>. QED BY <1>1, <1>2, <1>3 DEF PromIInv, PromTypes, KnownSeen, Expected, Valid, promWorld

\* A fill reads what was set, or else what was deployed.
LEMMA ResolveOK ==
    ASSUME PromIInv, resolveCustomizedPromAddress \/ resolveDeployedPromAddress
    PROVE  PromIInv' /\ AnswerOK
  <1>1. UNCHANGED <<promWorld, promCache, promSetter, promNow, promKnown>>
    BY DEF resolveCustomizedPromAddress, resolveDeployedPromAddress
  <1>2. CASE FillFails
    BY <1>1, <1>2, FillFailsOK
  <1>3. CASE /\ promCustom # BadAddress /\ UNCHANGED promUser
             /\ promFill' = IF promCustom = NotDeployed THEN [at |-> "deployed"]
                            ELSE [at |-> "store", address |-> promCustom]
    <2>1. promFill' \in Fills
      BY <1>3, PromRecords DEF PromIInv, PromTypes
    <2>2. KnownSeen'
      BY <1>1, <1>3 DEF PromIInv, KnownSeen, Expected, Valid, promWorld
    <2>. QED BY <1>1, <1>3, <2>1, <2>2, NoAnswer DEF PromIInv, PromTypes, promWorld
  <1>4. CASE /\ promFill.at = "deployed" /\ UNCHANGED promUser
             /\ promFill' = [at |-> "store", address |-> promDeployed]
    <2>1. promFill' \in Fills
      BY <1>4, PromRecords DEF PromIInv, PromTypes
    <2>2. KnownSeen'
      BY <1>1, <1>4 DEF PromIInv, KnownSeen, Expected, Valid, promWorld
    <2>. QED BY <1>1, <1>4, <2>1, <2>2, NoAnswer DEF PromIInv, PromTypes, promWorld
  <1>. QED BY <1>2, <1>3, <1>4 DEF resolveCustomizedPromAddress, resolveDeployedPromAddress

\* A fill stores what it has read and answers all who wait for it.
LEMMA StoreAddressOK ==
    ASSUME PromIInv, StoreAddress
    PROVE  PromIInv' /\ AnswerOK
  <1>1. /\ promFill.at = "store" /\ promFill' = [at |-> "no"]
        /\ promCache' = [address |-> promFill.address, cacheAt |-> promNow]
        /\ Everyone([at |-> "ok", address |-> promFill.address])
        /\ UNCHANGED <<promCustom, promDeployed, promSetter, promNow, promKnown>>
    BY DEF StoreAddress, NoFill, promWorld
  <1>2. promFill.address \in Answers
    BY <1>1 DEF PromIInv, PromTypes, Fills
  <1>3. promUser' \in [PromUsers -> UserStates] /\ promFill' \in Fills
    BY <1>1, <1>2, EveryoneTypes, PromRecords DEF PromIInv
  <1>4. promCache' \in [address : Answers, cacheAt : Int]
    BY <1>1, <1>2 DEF PromIInv, PromTypes
  <1>5. AnswerOK
    BY <1>1 DEF AnswerOK, Everyone, PromIInv, KnownSeen
  <1>6. KnownSeen'
    BY <1>1 DEF PromIInv, KnownSeen, Expected
  <1>. QED BY <1>1, <1>3, <1>4, <1>5, <1>6 DEF PromIInv, PromTypes

\* An address is set in PD, and the entry in the cache becomes invalid.
LEMMA SetCustomOK ==
    ASSUME PromIInv, NEW w \in PromSetters, NEW addr \in Answers, setCustomPromAddress(w, addr)
    PROVE  PromIInv' /\ AnswerOK
  <1>1. UNCHANGED <<promDeployed, promCache, promFill, promUser, promNow>>
    BY DEF setCustomPromAddress
  <1>2. promCustom' \in Answers
    BY DEF setCustomPromAddress, PromIInv, PromTypes
  <1>3. UNCHANGED <<promCustom, promKnown>> \/ promKnown' = Unknown
    BY DEF setCustomPromAddress
  <1>4. KnownSeen'
    BY <1>1, <1>3 DEF PromIInv, KnownSeen, Expected, Valid, Unknown
  <1>5. promSetter' \in [PromSetters -> SetterStates]
    <2>1. PICK state \in SetterStates : promSetter' = [promSetter EXCEPT ![w] = state]
      BY PromRecords DEF setCustomPromAddress
    <2>. QED BY <2>1 DEF PromIInv, PromTypes
  <1>. QED BY <1>1, <1>2, <1>4, <1>5, NoAnswer DEF PromIInv, PromTypes

\* The address that was set is known only if nobody fills the cache: then the next
\* request reads it.
LEMMA InvalidateOK ==
    ASSUME PromIInv, NEW w \in PromSetters, Invalidate(w)
    PROVE  PromIInv' /\ AnswerOK
  <1>1. /\ promCache' = [address |-> promSetter[w].address, cacheAt |-> Never]
        /\ promKnown' = IF promFill.at = "no" /\ promCustom = promSetter[w].address
                        THEN [known |-> TRUE, address |-> promCustom] ELSE Unknown
        /\ UNCHANGED <<promCustom, promDeployed, promFill, promUser, promNow>>
    BY DEF Invalidate, promWorld
  <1>2. Never \in Int /\ promNow' \in Nat
    BY <1>1, PromAssumption DEF Never, PromIInv, PromTypes
  <1>3. promCache' \in [address : Answers, cacheAt : Int]
    <2>1. promSetter[w].address \in Answers
      BY DEF Invalidate, PromIInv, PromTypes, SetterStates
    <2>. QED BY <1>1, <1>2, <2>1
  <1>4. ~Valid'
    BY <1>1, <1>2, PromAssumption DEF Valid, Never
  <1>5. KnownSeen'
    BY <1>1, <1>4 DEF KnownSeen, Unknown
  <1>6. promSetter' \in [PromSetters -> SetterStates]
    BY PromRecords DEF Invalidate, PromIInv, PromTypes
  <1>. QED BY <1>1, <1>3, <1>5, <1>6, NoAnswer DEF PromIInv, PromTypes

\* Changes by other processes and the clock leave no known address behind.
LEMMA OthersOK ==
    ASSUME PromIInv, ChangedByOthers \/ Tick
    PROVE  PromIInv' /\ AnswerOK
  <1>1. UNCHANGED <<promCache, promFill, promUser, promSetter>>
    BY DEF ChangedByOthers, Tick
  <1>2. promCustom' \in Answers /\ promDeployed' \in Answers /\ promNow' \in Nat
    BY DEF ChangedByOthers, Tick, PromIInv, PromTypes, Answers, promWorld
  <1>3. CASE ChangedByOthers
    BY <1>1, <1>2, <1>3, NoAnswer DEF ChangedByOthers, PromIInv, PromTypes, KnownSeen, Unknown
  <1>4. CASE Tick
    <2>1. UNCHANGED <<promCustom, promDeployed, promKnown>> /\ promNow' = promNow + 1
      BY <1>4 DEF Tick, promWorld
    <2>2. Valid' => Valid
      BY <1>1, <2>1, PromAssumption DEF Valid, PromIInv, PromTypes
    <2>3. KnownSeen'
      BY <1>1, <2>1, <2>2 DEF PromIInv, KnownSeen, Expected
    <2>. QED BY <1>1, <1>2, <2>3, NoAnswer DEF PromIInv, PromTypes
  <1>. QED BY <1>3, <1>4

\* Every step keeps the invariant, and its answers are right.
LEMMA PromStepOK ==
    ASSUME PromIInv, [PromNext]_promVars
    PROVE  PromIInv' /\ AnswerOK
  <1>1. CASE \E u \in PromUsers : AskAddress(u) \/ getPromAddressFromCache(u)
    BY <1>1, AskAddressOK, FromCacheOK
  <1>2. CASE resolveCustomizedPromAddress \/ resolveDeployedPromAddress
    BY <1>2, ResolveOK
  <1>3. CASE StoreAddress
    BY <1>3, StoreAddressOK
  <1>4. CASE \E w \in PromSetters : \E addr \in Addresses \union {NotDeployed, BadAddress} :
                setCustomPromAddress(w, addr)
    BY <1>4, SetCustomOK DEF Answers
  <1>5. CASE \E w \in PromSetters : Invalidate(w)
    BY <1>5, InvalidateOK
  <1>6. CASE ChangedByOthers \/ Tick
    BY <1>6, OthersOK
  <1>7. CASE UNCHANGED promVars
    BY <1>7, NoAnswer DEF promVars, promWorld, PromIInv, PromTypes, KnownSeen, Expected, Valid
  <1>. QED BY <1>1, <1>2, <1>3, <1>4, <1>5, <1>6, <1>7 DEF PromNext

\* The inductive invariant of the address of Prometheus: while the address that was set
\* last is known, what the filling request has read and a valid entry agree with it.
THEOREM PromInvariant == PromSpec => []PromIInv
  <1>1. PromInit => PromIInv
    BY PromInitOK
  <1>2. PromIInv /\ [PromNext]_promVars => PromIInv'
    BY PromStepOK
  <1>. QED BY <1>1, <1>2, PTL DEF PromSpec

\* Once a new address was set with nobody reading the old one, no request is answered
\* with another one until the next change, however the cache is filled and expires.
THEOREM ChangeSeenAlways == PromSpec => ChangeSeen
  <1>1. PromIInv /\ [PromNext]_promVars =>
          [\A u \in PromUsers :
             /\ promUser[u].at \in {"ask", "shares"} /\ promUser'[u].at = "ok"
             /\ promKnown.known /\ promKnown' = promKnown
             => promUser'[u].address = IF promKnown.address = NotDeployed THEN promDeployed ELSE promKnown.address
            ]_promVars
    BY PromStepOK DEF AnswerOK, Expected
  <1>. QED BY <1>1, PromInvariant, PTL DEF PromSpec, ChangeSeen

(***************************************************************************)
(* Cluster configuration                                                   *)
(***************************************************************************)

Sends == [at : {"send"}, id : CfgItems, value : CfgValues, stores : Seq(Stores),
          next : Nat \ {0}, failures : SUBSET Stores, alone : BOOLEAN]
EditStates == [at : {"idle", "clean", "warned", "failed"}]
              \union [at : {"list", "pd_config", "tidb_variable"}, id : CfgItems, value : CfgValues]
              \union Sends

CfgTypes ==
    /\ cfgStores \subseteq Stores
    /\ cfgHeld = [s \in Sources |-> cfgHeld[s]]
    /\ cfgEdit \in [Editors -> EditStates]
    /\ \A e \in Editors : cfgEdit[e].at = "send" => cfgEdit[e].next <= Len(cfgEdit[e].stores) + 1

\* The source has the value of the item.
Has(held, s, id, v) == id \in DOMAIN held[s] /\ held[s][id] = v

\* What an edit that nobody disturbed has sent, and not failed to send, is there.
AloneTakes ==
    \A e \in Editors :
        Sending = {e} /\ cfgEdit[e].alone =>
            \A j \in 1 .. cfgEdit[e].next - 1 :
                \/ cfgEdit[e].stores[j] \in cfgEdit[e].failures
                \/ Has(cfgHeld, cfgEdit[e].stores[j], cfgEdit[e].id, cfgEdit[e].value)

\* The change that was settled last is there, and nobody sends another one.
SettledTakes ==
    cfgSettled.stores # {} =>
        /\ Sending = {}
        /\ cfgSettled.stores \subseteq Stores
        /\ \A s \in cfgSettled.stores : Has(cfgHeld, s, cfgSettled.id, cfgSettled.value)

CfgIInv == CfgTypes /\ AloneTakes /\ SettledTakes

-----------------------------------------------------------------------------
\* What the states of an edit look like.
LEMMA EditRecords ==
    /\ \A at \in {"idle", "clean", "warned", "failed"} : [at |-> at] \in EditStates
    /\ \A at \in {"list", "pd_config", "tidb_variable"}, id \in CfgItems, v \in CfgValues :
          [at |-> at, id |-> id, value |-> v] \in EditStates
    /\ Sends \subseteq EditStates
    /\ \A edit \in EditStates : /\ edit.at = "send" <=> edit \in Sends
                                /\ edit.at \in {"list", "pd_config", "tidb_variable"} =>
                                        edit.id \in CfgItems /\ edit.value \in CfgValues
  BY DEF EditStates, Sends

\* The stores that PD lists, each once.
LEMMA ListedStores ==
    ASSUME NEW S \in SUBSET Stores
    PROVE  SetToSeq(S) \in Seq(Stores) /\ Len(SetToSeq(S)) \in Nat
  <1>1. IsFiniteSet(S)
    BY SourcesAssumption, FS_Subset
  <1>2. Cardinality(S) \in Nat /\ ExistsBijection(1 .. Cardinality(S), S)
    BY <1>1, FS_CardinalityType
  <1>3. PICK f : f \in [1 .. Cardinality(S) -> S] /\ \A a, b \in DOMAIN f : f[a] = f[b] => a = b
    BY <1>2 DEF ExistsBijection, Bijection, Injection, IsInjective
  <1>4. SetToSeq(S) \in [1 .. Cardinality(S) -> S]
    BY <1>3 DEF SetToSeq, IsInjective
  <1>5. SetToSeq(S) \in Seq(Stores)
    BY <1>2, <1>4
  <1>. QED BY <1>5, LenProperties

\* A step that changes neither what is held nor an edit that sends.
LEMMA NothingSent ==
    ASSUME CfgIInv, cfgEdit' \in [Editors -> EditStates], cfgStores' \subseteq Stores,
           UNCHANGED <<cfgHeld, cfgSettled>>,
           \A e \in Editors : cfgEdit'[e] = cfgEdit[e] \/ (cfgEdit[e].at # "send" /\ cfgEdit'[e].at # "send")
    PROVE  CfgIInv'
  <1>1. Sending' = Sending
    BY DEF Sending
  <1>2. CfgTypes'
    BY DEF CfgIInv, CfgTypes
  <1>3. AloneTakes'
    <2>. SUFFICES ASSUME NEW e \in Editors, Sending = {e}, cfgEdit'[e].alone,
                         NEW j \in 1 .. cfgEdit'[e].next - 1
                  PROVE  \/ cfgEdit'[e].stores[j] \in cfgEdit'[e].failures
                         \/ Has(cfgHeld', cfgEdit'[e].stores[j], cfgEdit'[e].id, cfgEdit'[e].value)
      BY <1>1 DEF AloneTakes
    <2>1. cfgEdit'[e] = cfgEdit[e]
      BY DEF Sending
    <2>. QED BY <2>1 DEF CfgIInv, AloneTakes, Has
  <1>4. SettledTakes'
    BY <1>1 DEF CfgIInv, SettledTakes, Has
  <1>. QED BY <1>2, <1>3, <1>4 DEF CfgIInv

\* A change that arrives is held, and nothing else changes.
LEMMA HeldHas ==
    ASSUME CfgTypes, NEW s, NEW id, NEW v, Held(s, id, v)
    PROVE  /\ cfgHeld' = [t \in Sources |-> cfgHeld'[t]]
           /\ s \in Sources => Has(cfgHeld', s, id, v)
           /\ \A t \in Sources : t # s => cfgHeld'[t] = cfgHeld[t]
  <1>1. cfgHeld' = [cfgHeld EXCEPT ![s] = [i \in DOMAIN cfgHeld[s] \union {id} |->
                                              IF i = id THEN v ELSE cfgHeld[s][i]]]
    BY DEF Held
  <1>2. DOMAIN cfgHeld = Sources
    BY DEF CfgTypes
  <1>. QED BY <1>1, <1>2 DEF Has

\* A statement that arrives or not, of a source that is no store.
LEMMA OtherSource ==
    ASSUME CfgIInv, cfgEdit' \in [Editors -> EditStates], UNCHANGED <<cfgStores, cfgSettled>>,
           \A e \in Editors : cfgEdit'[e] = cfgEdit[e] \/ (cfgEdit[e].at # "send" /\ cfgEdit'[e].at # "send"),
           NEW s \in {"pd", "variables"}, NEW id, NEW v, UNCHANGED cfgHeld \/ Held(s, id, v)
    PROVE  CfgIInv'
  <1>0. s \notin Stores /\ Stores \subseteq Sources
    BY SourcesAssumption DEF Sources
  <1>1. \A t \in Stores : cfgHeld'[t] = cfgHeld[t]
    BY <1>0, HeldHas DEF CfgIInv
  <1>2. cfgHeld' = [t \in Sources |-> cfgHeld'[t]]
    BY HeldHas DEF CfgIInv, CfgTypes
  <1>3. Sending' = Sending
    BY DEF Sending
  <1>4. CfgTypes'
    BY <1>2 DEF CfgIInv, CfgTypes
  <1>5. AloneTakes'
    <2>. SUFFICES ASSUME NEW e \in Editors, Sending = {e}, cfgEdit'[e].alone,
                         NEW j \in 1 .. cfgEdit'[e].next - 1
                  PROVE  \/ cfgEdit'[e].stores[j] \in cfgEdit'[e].failures
                         \/ Has(cfgHeld', cfgEdit'[e].stores[j], cfgEdit'[e].id, cfgEdit'[e].value)
      BY <1>3 DEF AloneTakes
    <2>1. cfgEdit'[e] = cfgEdit[e] /\ cfgEdit[e].at = "send"
      BY DEF Sending
    <2>2. cfgEdit[e] \in Sends /\ cfgEdit[e].next <= Len(cfgEdit[e].stores) + 1
      BY <2>1, EditRecords DEF CfgIInv, CfgTypes
    <2>3. cfgEdit[e].stores \in Seq(Stores) /\ cfgEdit[e].next \in Nat
      BY <2>2 DEF Sends
    <2>4. cfgEdit[e].stores[j] \in Stores
      <3>1. j \in 1 .. Len(cfgEdit[e].stores)
        BY <2>1, <2>2, <2>3, LenProperties
      <3>. QED BY <2>3, <3>1, ElementOfSeq
    <2>5. \/ cfgEdit[e].stores[j] \in cfgEdit[e].failures
          \/ Has(cfgHeld, cfgEdit[e].stores[j], cfgEdit[e].id, cfgEdit[e].value)
      BY <2>1 DEF CfgIInv, AloneTakes
    <2>. QED BY <1>1, <2>1, <2>4, <2>5 DEF Has
  <1>6. SettledTakes'
    BY <1>1, <1>3 DEF CfgIInv, SettledTakes, Has
  <1>. QED BY <1>4, <1>5, <1>6 DEF CfgIInv

\* An edit begins with the list of whom to send to.
LEMMA EditOK ==
    ASSUME CfgIInv, NEW e \in Editors, NEW kind \in CfgKinds, NEW id \in CfgItems, NEW v \in CfgValues,
           Edit(e, kind, id, v)
    PROVE  CfgIInv'
  <1>. DEFINE there == [at |-> IF kind = "tikv_config" THEN "list" ELSE kind, id |-> id, value |-> v]
  <1>1. PICK edit : /\ cfgEdit' = [cfgEdit EXCEPT ![e] = edit]
                    /\ edit = [at |-> "failed"] \/ (isConfigItemEditable(kind, id) /\ edit = there)
    BY DEF Edit
  <1>2. edit \in EditStates /\ edit.at # "send"
    <2>1. CASE edit = [at |-> "failed"]
      BY <2>1, EditRecords
    <2>2. CASE isConfigItemEditable(kind, id) /\ edit = there
      <3>1. kind \in {"tikv_config", "pd_config", "tidb_variable"}
        BY <2>2, EditableAssumption DEF isConfigItemEditable
      <3>2. there.at \in {"list", "pd_config", "tidb_variable"} /\ there.at # "send"
        BY <3>1
      <3>. QED BY <2>2, <3>2, EditRecords
    <2>. QED BY <1>1, <2>1, <2>2
  <1>3. cfgEdit[e].at # "send" /\ UNCHANGED <<cfgHeld, cfgStores, cfgSettled>>
    BY DEF Edit
  <1>4. cfgEdit' \in [Editors -> EditStates]
    BY <1>1, <1>2 DEF CfgIInv, CfgTypes
  <1>5. \A d \in Editors : cfgEdit'[d] = cfgEdit[d] \/ (cfgEdit[d].at # "send" /\ cfgEdit'[d].at # "send")
    BY <1>1, <1>2, <1>3 DEF CfgIInv, CfgTypes
  <1>. QED BY <1>3, <1>4, <1>5, NothingSent DEF CfgIInv, CfgTypes

\* A change of PD or of a variable is sent, and the edit ends.
LEMMA EditOneOK ==
    ASSUME CfgIInv, NEW e \in Editors, EditOne(e)
    PROVE  CfgIInv'
  <1>1. PICK s \in {"pd", "variables"} : s = IF cfgEdit[e].at = "pd_config" THEN "pd" ELSE "variables"
    OBVIOUS
  <1>2. PICK at \in {"clean", "failed"} : cfgEdit' = [cfgEdit EXCEPT ![e] = [at |-> at]]
    BY DEF EditOne
  <1>3. UNCHANGED cfgHeld \/ Held(s, cfgEdit[e].id, cfgEdit[e].value)
    BY <1>1 DEF EditOne, Sent, NotSent
  <1>4. cfgEdit[e].at # "send" /\ UNCHANGED <<cfgStores, cfgSettled>>
    BY DEF EditOne
  <1>5. cfgEdit' \in [Editors -> EditStates]
    BY <1>2, EditRecords DEF CfgIInv, CfgTypes
  <1>6. \A d \in Editors : cfgEdit'[d] = cfgEdit[d] \/ (cfgEdit[d].at # "send" /\ cfgEdit'[d].at # "send")
    BY <1>2, <1>4 DEF CfgIInv, CfgTypes
  <1>. QED BY <1>3, <1>4, <1>5, <1>6, OtherSource

\* An edit begins to send; if it is the only one it has sent nothing yet.
LEMMA ListStoresOK ==
    ASSUME CfgIInv, NEW e \in Editors, ListStores(e)
    PROVE  CfgIInv'
  <1>1. cfgEdit[e].at = "list" /\ UNCHANGED <<cfgHeld, cfgStores>>
    BY DEF ListStores
  <1>2. CASE cfgEdit' = [cfgEdit EXCEPT ![e] = [at |-> "failed"]] /\ UNCHANGED cfgSettled
    <2>1. cfgEdit' \in [Editors -> EditStates]
      BY <1>2, EditRecords DEF CfgIInv, CfgTypes
    <2>2. \A d \in Editors : cfgEdit'[d] = cfgEdit[d] \/ (cfgEdit[d].at # "send" /\ cfgEdit'[d].at # "send")
      BY <1>1, <1>2 DEF CfgIInv, CfgTypes
    <2>. QED BY <1>1, <1>2, <2>1, <2>2, NothingSent DEF CfgIInv, CfgTypes
  <1>3. CASE cfgSettled' = Unsettled
             /\ cfgEdit' = [cfgEdit EXCEPT ![e] = [at |-> "send", id |-> @.id, value |-> @.value,
                    stores |-> SetToSeq(cfgStores), next |-> 1, failures |-> {}, alone |-> Sending = {}]]
    <2>. DEFINE begun == [at |-> "send", id |-> cfgEdit[e].id, value |-> cfgEdit[e].value,
                    stores |-> SetToSeq(cfgStores), next |-> 1, failures |-> {}, alone |-> Sending = {}]
    <2>1. cfgEdit[e] \in EditStates /\ cfgStores \subseteq Stores
      BY DEF CfgIInv, CfgTypes
    <2>2. cfgEdit[e].id \in CfgItems /\ cfgEdit[e].value \in CfgValues
      BY <1>1, <2>1, EditRecords
    <2>3. SetToSeq(cfgStores) \in Seq(Stores) /\ Len(SetToSeq(cfgStores)) \in Nat
      BY <2>1, ListedStores
    <2>4. begun \in Sends
      BY <2>2, <2>3 DEF Sends
    <2>5. cfgEdit' = [cfgEdit EXCEPT ![e] = begun]
      BY <1>3
    <2>6. begun.at = "send" /\ begun.next = 1 /\ begun.stores = SetToSeq(cfgStores)
      OBVIOUS
    <2>. HIDE DEF begun
    <2>7. begun \in EditStates
      BY <2>4, EditRecords
    <2>8. cfgEdit'[e] = begun /\ \A d \in Editors : d # e => cfgEdit'[d] = cfgEdit[d]
      BY <2>5 DEF CfgIInv, CfgTypes
    <2>9. CfgTypes'
      BY <1>1, <2>3, <2>5, <2>6, <2>7, <2>8 DEF CfgIInv, CfgTypes
    <2>10. e \in Sending'
      BY <2>6, <2>8 DEF Sending
    <2>11. AloneTakes'
      <3>. SUFFICES ASSUME NEW d \in Editors, Sending' = {d}
                    PROVE  \A j \in 1 .. cfgEdit'[d].next - 1 : FALSE
        BY DEF AloneTakes
      <3>1. d = e
        BY <2>10
      <3>. QED BY <2>6, <2>8, <3>1
    <2>12. SettledTakes'
      BY <1>3 DEF SettledTakes, Unsettled
    <2>. QED BY <2>9, <2>11, <2>12 DEF CfgIInv
  <1>. QED BY <1>2, <1>3 DEF ListStores

\* The change is sent to the next store.
LEMMA SendToStoreOK ==
    ASSUME CfgIInv, NEW e \in Editors, SendToStore(e)
    PROVE  CfgIInv'
  <1>1. PICK edit, s : edit = cfgEdit[e] /\ s = edit.stores[edit.next]
    OBVIOUS
  <1>2. /\ edit.at = "send" /\ edit.next <= Len(edit.stores)
        /\ UNCHANGED <<cfgStores, cfgSettled>>
    BY <1>1 DEF SendToStore
  <1>3. edit \in Sends
    BY <1>1, <1>2, EditRecords DEF CfgIInv, CfgTypes
  <1>4. edit.stores \in Seq(Stores) /\ edit.next \in Nat \ {0} /\ Len(edit.stores) \in Nat
    BY <1>3, LenProperties DEF Sends
  <1>5. s \in Stores /\ s \in Sources
    BY <1>1, <1>2, <1>4, ElementOfSeq DEF Sources
  <1>6. PICK after : /\ cfgEdit' = [cfgEdit EXCEPT ![e] = after]
                     /\ \/ /\ Held(s, edit.id, edit.value)
                           /\ after = [edit EXCEPT !.next = @ + 1]
                        \/ /\ UNCHANGED cfgHeld \/ Held(s, edit.id, edit.value)
                           /\ after = [edit EXCEPT !.next = @ + 1, !.failures = @ \union {s}]
    <2>1. CASE /\ Held(s, edit.id, edit.value)
               /\ cfgEdit' = [cfgEdit EXCEPT ![e].next = @ + 1]
      <3>1. cfgEdit' = [cfgEdit EXCEPT ![e] = [edit EXCEPT !.next = @ + 1]]
        BY <1>1, <2>1
      <3>. QED BY <2>1, <3>1
    <2>2. CASE /\ UNCHANGED cfgHeld \/ Held(s, edit.id, edit.value)
               /\ cfgEdit' = [cfgEdit EXCEPT ![e].next = @ + 1, ![e].failures = @ \union {s}]
      <3>1. cfgEdit' = [cfgEdit EXCEPT ![e] = [edit EXCEPT !.next = @ + 1, !.failures = @ \union {s}]]
        BY <1>1, <2>2 DEF CfgIInv, CfgTypes
      <3>. QED BY <2>2, <3>1
    <2>. QED BY <1>1, <2>1, <2>2 DEF SendToStore, Sent, NotSent
  <1>7. /\ after \in Sends /\ after.at = "send" /\ after.next = edit.next + 1
        /\ after.stores = edit.stores /\ after.id = edit.id /\ after.value = edit.value
        /\ after.alone = edit.alone /\ edit.failures \subseteq after.failures
        /\ s \in after.failures \/ Held(s, edit.id, edit.value)
    <2>1. CASE after = [edit EXCEPT !.next = @ + 1] /\ Held(s, edit.id, edit.value)
      BY <1>3, <2>1 DEF Sends
    <2>2. CASE after = [edit EXCEPT !.next = @ + 1, !.failures = @ \union {s}]
      <3>1. after = [at |-> edit.at, id |-> edit.id, value |-> edit.value, stores |-> edit.stores,
                     next |-> edit.next + 1, failures |-> edit.failures \union {s}, alone |-> edit.alone]
        BY <1>3, <2>2 DEF Sends
      <3>2. edit.failures \subseteq Stores
        BY <1>3 DEF Sends
      <3>3. edit.id \in CfgItems /\ edit.value \in CfgValues /\ edit.alone \in BOOLEAN
        BY <1>3 DEF Sends
      <3>. QED BY <1>2, <1>4, <1>5, <3>1, <3>2, <3>3 DEF Sends
    <2>. QED BY <1>6, <2>1, <2>2
  <1>8. cfgEdit'[e] = after /\ \A d \in Editors : d # e => cfgEdit'[d] = cfgEdit[d]
    BY <1>6 DEF CfgIInv, CfgTypes
  <1>9. Sending' = Sending /\ e \in Sending
    BY <1>1, <1>2, <1>7, <1>8 DEF Sending
  <1>10. /\ cfgHeld' = [t \in Sources |-> cfgHeld'[t]]
         /\ Held(s, edit.id, edit.value) => Has(cfgHeld', s, edit.id, edit.value)
         /\ \A t \in Sources : t # s => cfgHeld'[t] = cfgHeld[t]
         /\ UNCHANGED cfgHeld \/ Held(s, edit.id, edit.value)
    BY <1>5, <1>6, HeldHas DEF CfgIInv, CfgTypes
  <1>11. CfgTypes'
    <2>1. cfgEdit' \in [Editors -> EditStates]
      BY <1>6, <1>7, EditRecords DEF CfgIInv, CfgTypes
    <2>2. after.next <= Len(after.stores) + 1
      BY <1>2, <1>4, <1>7
    <2>. QED BY <1>2, <1>8, <1>10, <2>1, <2>2 DEF CfgIInv, CfgTypes
  <1>12. AloneTakes'
    <2>. SUFFICES ASSUME NEW d \in Editors, Sending' = {d}, cfgEdit'[d].alone,
                         NEW j \in 1 .. cfgEdit'[d].next - 1,
                         cfgEdit'[d].stores[j] \notin cfgEdit'[d].failures
                  PROVE  Has(cfgHeld', cfgEdit'[d].stores[j], cfgEdit'[d].id, cfgEdit'[d].value)
      BY DEF AloneTakes
    <2>1. d = e /\ Sending = {e}
      BY <1>9
    <2>2. PICK t : t = edit.stores[j]
      OBVIOUS
    <2>3. j \in 1 .. edit.next /\ t \notin after.failures /\ edit.alone
      BY <1>4, <1>7, <1>8, <2>1, <2>2
    <2>6. /\ cfgEdit'[d].stores[j] = t /\ cfgEdit'[d].id = edit.id
          /\ cfgEdit'[d].value = edit.value
      BY <1>7, <1>8, <2>1, <2>2
    <2>4. CASE j = edit.next
      <3>1. t = s /\ Held(s, edit.id, edit.value)
        BY <1>1, <1>7, <2>2, <2>3, <2>4
      <3>2. Has(cfgHeld', t, edit.id, edit.value)
        BY <1>10, <3>1
      <3>. QED BY <2>6, <3>2
    <2>5. CASE j # edit.next
      <3>1. j \in 1 .. edit.next - 1 /\ t \notin edit.failures
        BY <1>4, <1>7, <2>3, <2>5
      <3>2. Has(cfgHeld, t, edit.id, edit.value)
        BY <1>1, <2>1, <2>2, <2>3, <3>1 DEF CfgIInv, AloneTakes
      <3>3. t \in Sources
        <4>1. j \in 1 .. Len(edit.stores)
          BY <1>2, <1>4, <3>1
        <4>. QED BY <1>4, <2>2, <4>1, ElementOfSeq DEF Sources
      <3>4. Has(cfgHeld', t, edit.id, edit.value)
        <4>1. CASE t = s
          BY <1>10, <3>2, <4>1 DEF Has
        <4>2. CASE t # s
          BY <1>10, <3>2, <3>3, <4>2 DEF Has
        <4>. QED BY <4>1, <4>2
      <3>. QED BY <2>6, <3>4
    <2>. QED BY <2>4, <2>5
  <1>13. SettledTakes'
    BY <1>2, <1>9 DEF CfgIInv, SettledTakes
  <1>. QED BY <1>11, <1>12, <1>13 DEF CfgIInv

\* An edit ends: what it has sent alone is settled, who still sends is not alone.
LEMMA EditEndsOK ==
    ASSUME CfgIInv, NEW e \in Editors, editConfig(e)
    PROVE  CfgIInv'
  <1>1. PICK edit, verdict : edit = cfgEdit[e] /\ verdict = EditVerdict(Range(edit.stores), edit.failures)
    OBVIOUS
  <1>2. /\ edit.at = "send" /\ edit.next > Len(edit.stores) /\ UNCHANGED <<cfgHeld, cfgStores>>
        /\ cfgEdit' = [d \in Editors |->
              IF d = e THEN [at |-> verdict]
              ELSE IF d \in Sending THEN [cfgEdit[d] EXCEPT !.alone = FALSE] ELSE cfgEdit[d]]
        /\ cfgSettled' = IF verdict = "failed" \/ ~edit.alone \/ Sending # {e} THEN Unsettled
                         ELSE [stores |-> Range(edit.stores) \ edit.failures, id |-> edit.id, value |-> edit.value]
    BY <1>1 DEF editConfig
  <1>3. verdict \in {"clean", "warned", "failed"}
    BY <1>1 DEF EditVerdict
  <1>4. edit \in Sends /\ e \in Sending
    BY <1>1, <1>2, EditRecords DEF CfgIInv, CfgTypes, Sending
  <1>5. edit.stores \in Seq(Stores) /\ edit.next \in Nat
    BY <1>4 DEF Sends
  <1>6. ASSUME NEW d \in Editors
        PROVE  /\ cfgEdit'[d] \in EditStates
               /\ cfgEdit'[d].at = "send" =>
                     /\ d \in Sending /\ d # e /\ ~cfgEdit'[d].alone
                     /\ cfgEdit'[d].next = cfgEdit[d].next /\ cfgEdit'[d].stores = cfgEdit[d].stores
    <2>1. CASE d = e
      BY <1>2, <1>3, <2>1, EditRecords
    <2>2. CASE d # e /\ d \in Sending
      <3>1. cfgEdit[d] \in Sends
        BY <2>2, EditRecords DEF Sending, CfgIInv, CfgTypes
      <3>2. cfgEdit'[d] = [cfgEdit[d] EXCEPT !.alone = FALSE]
        BY <1>2, <2>2
      <3>3. /\ cfgEdit'[d] \in Sends /\ ~cfgEdit'[d].alone
            /\ cfgEdit'[d].next = cfgEdit[d].next /\ cfgEdit'[d].stores = cfgEdit[d].stores
        BY <3>1, <3>2 DEF Sends
      <3>. QED BY <2>2, <3>3, EditRecords
    <2>3. CASE d # e /\ d \notin Sending
      BY <1>2, <2>3 DEF CfgIInv, CfgTypes, Sending
    <2>. QED BY <2>1, <2>2, <2>3
  <1>7. Sending' \subseteq Sending \ {e}
    BY <1>6 DEF Sending
  <1>8. CfgTypes'
    <2>1. cfgEdit' \in [Editors -> EditStates]
      BY <1>2, <1>6
    <2>2. \A d \in Editors : cfgEdit'[d].at = "send" => cfgEdit'[d].next <= Len(cfgEdit'[d].stores) + 1
      BY <1>6 DEF CfgIInv, CfgTypes, Sending
    <2>. QED BY <1>2, <2>1, <2>2 DEF CfgIInv, CfgTypes
  <1>9. AloneTakes'
    <2>. SUFFICES ASSUME NEW d \in Editors, Sending' = {d}, cfgEdit'[d].alone PROVE FALSE
      BY DEF AloneTakes
    <2>1. cfgEdit'[d].at = "send"
      BY DEF Sending
    <2>. QED BY <1>6, <2>1
  <1>10. SettledTakes'
    <2>1. CASE cfgSettled' = Unsettled
      BY <2>1 DEF SettledTakes, Unsettled
    <2>2. CASE edit.alone /\ Sending = {e}
               /\ cfgSettled' = [stores |-> Range(edit.stores) \ edit.failures, id |-> edit.id, value |-> edit.value]
      <3>1. Sending' = {}
        BY <1>7, <2>2
      <3>2. ASSUME NEW t \in Range(edit.stores), t \notin edit.failures
            PROVE  t \in Stores /\ Has(cfgHeld', t, edit.id, edit.value)
        <4>1. PICK j \in 1 .. Len(edit.stores) : t = edit.stores[j]
          BY <1>5, <3>2, LenProperties DEF Range
        <4>2. j \in 1 .. edit.next - 1
          BY <1>2, <1>5, LenProperties
        <4>3. Has(cfgHeld, t, edit.id, edit.value)
          BY <1>1, <2>2, <3>2, <4>1, <4>2 DEF CfgIInv, AloneTakes
        <4>4. t \in Stores
          BY <1>5, <4>1, ElementOfSeq
        <4>. QED BY <1>2, <4>3, <4>4
      <3>. QED BY <2>2, <3>1, <3>2 DEF SettledTakes
    <2>. QED BY <1>2, <2>1, <2>2
  <1>. QED BY <1>8, <1>9, <1>10 DEF CfgIInv

-----------------------------------------------------------------------------
\* At first nothing was edited.
LEMMA CfgInitOK ==
    ASSUME CfgInit
    PROVE  CfgIInv
  <1>1. cfgEdit \in [Editors -> EditStates] /\ \A e \in Editors : cfgEdit[e].at = "idle"
    BY EditRecords DEF CfgInit, NoEdit
  <1>2. cfgStores \subseteq Stores /\ cfgSettled.stores = {}
    BY DEF CfgInit, Unsettled
  <1>3. cfgHeld = [s \in Sources |-> cfgHeld[s]]
    BY DEF CfgInit
  <1>4. Sending = {}
    BY <1>1 DEF Sending
  <1>. QED BY <1>1, <1>2, <1>3, <1>4 DEF CfgIInv, CfgTypes, AloneTakes, SettledTakes

\* Every step keeps the invariant.
LEMMA CfgStepOK ==
    ASSUME CfgIInv, [CfgNext]_cfgVars
    PROVE  CfgIInv'
  <1>1. CASE \E e \in Editors : EditRequest(e)
    BY <1>1, EditOK DEF EditRequest
  <1>2. CASE EditStep
    BY <1>2, EditOneOK, ListStoresOK, SendToStoreOK, EditEndsOK DEF EditStep
  <1>3. CASE ViewStep \/ UNCHANGED cfgVars
    <2>1. UNCHANGED <<cfgHeld, cfgStores, cfgEdit, cfgSettled>>
      BY <1>3 DEF ViewStep, GetAll, GetItems, Arrives, Show, cfgVars
    <2>. QED BY <2>1, NothingSent DEF CfgIInv, CfgTypes
  <1>4. CASE StoreJoins
    <2>1. cfgStores' \subseteq Stores /\ UNCHANGED <<cfgHeld, cfgEdit, cfgSettled>>
      BY <1>4 DEF StoreJoins, CfgIInv, CfgTypes
    <2>. QED BY <2>1, NothingSent DEF CfgIInv, CfgTypes
  <1>. QED BY <1>1, <1>2, <1>3, <1>4 DEF CfgNext

\* The inductive invariant of edits: one that sends alone has reached every store before
\* the next one or warns of it, and what is settled is held while nobody sends.
THEOREM EditInvariant == CfgSpec => []CfgIInv
  <1>1. CfgInit => CfgIInv
    BY CfgInitOK
  <1>2. CfgIInv /\ [CfgNext]_cfgVars => CfgIInv'
    BY CfgStepOK
  <1>. QED BY <1>1, <1>2, PTL DEF CfgSpec

\* After an edit of TiKV that no other one overlapped, every listed store but those it
\* warns of holds the value, until the next edit begins.
THEOREM EditTakesAlways == CfgSpec => []EditTakes
  <1>1. CfgIInv => EditTakes
    BY DEF CfgIInv, SettledTakes, EditTakes, Has
  <1>. QED BY <1>1, EditInvariant, PTL

-----------------------------------------------------------------------------
\* The collection of all items.

\* A set of numbers that is not empty has a least one.
LEMMA Least ==
    ASSUME NEW S \in SUBSET Nat, S # {}
    PROVE  \E x \in S : \A y \in S : x <= y
  <1>. DEFINE R == OpToRel(<, Nat)
  <1>1. IsWellFoundedOn(R, Nat)
    BY NatLessThanWellFounded
  <1>2. \A x, y \in Nat : <<y, x>> \in R <=> y < x
    BY DEF OpToRel
  <1>. HIDE DEF R
  <1>3. PICK x \in S : \A y \in S : ~(<<y, x>> \in R)
    BY <1>1, WFMin
  <1>4. \A y \in S : ~(y < x)
    BY <1>2, <1>3
  <1>. QED BY <1>4

\* What the loop has of each item after n answers.
IsMerged(f, answers, n) ==
    f = [m \in 0 .. n |-> IF m = 0 THEN <<>> ELSE Occur(f[m - 1], answers[m])]

\* The values of an item in a set of answers.
ValuesIn(S, i) == {a[i] : a \in {b \in S : i \in DOMAIN b}}

\* What is known of the items of the answers of a set: where an item is, one of its
\* values, and whether it has others.
Tells(items, S) ==
    /\ DOMAIN items = UNION {DOMAIN a : a \in S}
    /\ \A i \in DOMAIN items : /\ items[i].value \in ValuesIn(S, i)
                               /\ items[i].identical \in BOOLEAN
                               /\ items[i].identical <=> \A v \in ValuesIn(S, i) : v = items[i].value

\* One answer more.
LEMMA OccurTells ==
    ASSUME NEW items, NEW S, NEW answer, Tells(items, S)
    PROVE  Tells(Occur(items, answer), S \union {answer})
  <1>. DEFINE after == Occur(items, answer)
              T == S \union {answer}
  <1>1. DOMAIN after = UNION {DOMAIN a : a \in T}
    BY DEF Occur, Tells
  <1>2. ASSUME NEW i \in DOMAIN after
        PROVE  /\ after[i].value \in ValuesIn(T, i)
               /\ after[i].identical \in BOOLEAN
               /\ after[i].identical <=> \A v \in ValuesIn(T, i) : v = after[i].value
    <2>1. ValuesIn(T, i) = ValuesIn(S, i) \union (IF i \in DOMAIN answer THEN {answer[i]} ELSE {})
      BY DEF ValuesIn
    <2>2. i \in DOMAIN items \union DOMAIN answer
      BY DEF Occur
    <2>3. CASE i \notin DOMAIN items
      <3>1. after[i].value = answer[i] /\ after[i].identical = TRUE
        BY <2>2, <2>3 DEF Occur
      <3>2. ValuesIn(S, i) = {}
        BY <2>3 DEF Tells, ValuesIn
      <3>. QED BY <2>1, <2>2, <2>3, <3>1, <3>2
    <2>4. CASE i \in DOMAIN items \ DOMAIN answer
      <3>1. after[i] = items[i]
        BY <2>2, <2>4 DEF Occur
      <3>. QED BY <2>1, <2>4, <3>1 DEF Tells
    <2>5. CASE i \in DOMAIN items /\ i \in DOMAIN answer
      <3>1. after[i] = [items[i] EXCEPT !.times = @ + 1, !.identical = @ /\ answer[i] = items[i].value]
        BY <2>2, <2>5 DEF Occur
      <3>2. after[i].value = items[i].value
        BY <3>1
      <3>3. after[i].identical = (items[i].identical /\ answer[i] = items[i].value)
        BY <3>1
      <3>. QED BY <2>1, <2>5, <3>2, <3>3 DEF Tells
    <2>. QED BY <2>2, <2>3, <2>4, <2>5
  <1>. HIDE DEF after, T
  <1>3. Tells(after, T)
    BY <1>1, <1>2 DEF Tells
  <1>. QED BY <1>3 DEF after, T

\* The loop over the answers has a result, which tells of all of them.
LEMMA LoopTells ==
    ASSUME NEW A, NEW answers \in Seq(A), NEW n \in 0 .. Len(answers)
    PROVE  \E f : IsMerged(f, answers, n) /\ Tells(f[n], {answers[m] : m \in 1 .. n})
  <1>. DEFINE Good(m) == \E f : IsMerged(f, answers, m) /\ Tells(f[m], {answers[j] : j \in 1 .. m})
              Bad == {m \in 0 .. Len(answers) : ~Good(m)}
  <1>0. Len(answers) \in Nat
    OBVIOUS
  <1>. SUFFICES ASSUME Bad # {} PROVE FALSE
    OBVIOUS
  <1>1. Bad \in SUBSET Nat
    BY <1>0
  <1>2. PICK m \in Bad : \A k \in Bad : m <= k
    BY <1>1, Least, Zenon
  <1>3. m \in 0 .. Len(answers) /\ m \in Nat /\ ~Good(m)
    BY <1>1
  <1>4. CASE m = 0
    <2>. DEFINE f == [j \in 0 .. 0 |-> <<>>]
    <2>1. f[0] = <<>> /\ DOMAIN f[0] = {}
      OBVIOUS
    <2>2. IsMerged(f, answers, 0)
      BY DEF IsMerged
    <2>3. Tells(f[0], {answers[j] : j \in 1 .. 0})
      BY <2>1 DEF Tells
    <2>. QED BY <1>3, <1>4, <2>2, <2>3
  <1>5. CASE m # 0
    <2>1. m - 1 \in 0 .. Len(answers) /\ ~(m <= m - 1)
      BY <1>0, <1>3, <1>5
    <2>2. Good(m - 1)
      BY <1>2, <2>1
    <2>3. PICK f : IsMerged(f, answers, m - 1) /\ Tells(f[m - 1], {answers[j] : j \in 1 .. m - 1})
      BY <2>2
    <2>. DEFINE g == [j \in 0 .. m |-> IF j = m THEN Occur(f[m - 1], answers[m]) ELSE f[j]]
    <2>4. g[m] = Occur(f[m - 1], answers[m])
      BY <1>3
    <2>5. IsMerged(g, answers, m)
      <3>1. \A j \in 0 .. m - 1 : g[j] = f[j] /\ f[j] = IF j = 0 THEN <<>> ELSE Occur(f[j - 1], answers[j])
        BY <1>3, <2>3 DEF IsMerged
      <3>2. ASSUME NEW j \in 0 .. m PROVE g[j] = IF j = 0 THEN <<>> ELSE Occur(g[j - 1], answers[j])
        <4>1. CASE j = m
          <5>1. m - 1 \in 0 .. m - 1
            BY <1>3, <1>5
          <5>. QED BY <1>5, <2>4, <3>1, <4>1, <5>1
        <4>2. CASE j # m
          <5>1. j \in 0 .. m - 1 /\ (j # 0 => j - 1 \in 0 .. m - 1)
            BY <1>3, <4>2
          <5>. QED BY <3>1, <5>1
        <4>. QED BY <4>1, <4>2
      <3>3. g = [j \in 0 .. m |-> g[j]]
        OBVIOUS
      <3>. HIDE DEF g
      <3>4. g = [j \in 0 .. m |-> IF j = 0 THEN <<>> ELSE Occur(g[j - 1], answers[j])]
        BY <3>2, <3>3
      <3>. QED BY <3>4 DEF IsMerged
    <2>6. {answers[j] : j \in 1 .. m} = {answers[j] : j \in 1 .. m - 1} \union {answers[m]}
      BY <1>3, <1>5
    <2>7. Tells(g[m], {answers[j] : j \in 1 .. m})
      BY <2>3, <2>4, <2>6, OccurTells
    <2>. QED BY <1>3, <2>5, <2>7
  <1>. QED BY <1>4, <1>5

\* What the loop has of each item tells of all answers.
LEMMA MergedTells ==
    ASSUME NEW A, NEW answers \in Seq(A)
    PROVE  Tells(Merged(answers), {answers[m] : m \in DOMAIN answers})
  <1>. DEFINE n == Len(answers)
              Is(f) == f = [m \in 0 .. n |-> IF m = 0 THEN <<>> ELSE Occur(f[m - 1], answers[m])]
              items == CHOOSE f : Is(f)
  <1>1. n \in Nat /\ n \in 0 .. n /\ DOMAIN answers = 1 .. n
    OBVIOUS
  <1>2. Merged(answers) = items[n]
    BY DEF Merged
  <1>3. PICK f : Is(f)
    BY <1>1, LoopTells DEF IsMerged
  <1>4. Is(items)
    BY <1>3, Zenon
  <1>. HIDE DEF items
  <1>5. \A m \in 0 .. n : items[m] = IF m = 0 THEN <<>> ELSE Occur(items[m - 1], answers[m])
    BY <1>4
  <1>. DEFINE Good(m) == Tells(items[m], {answers[j] : j \in 1 .. m})
              Bad == {m \in 0 .. n : ~Good(m)}
  <1>6. Bad = {}
    <2>. SUFFICES ASSUME Bad # {} PROVE FALSE
      OBVIOUS
    <2>1. Bad \in SUBSET Nat
      BY <1>1
    <2>2. PICK m \in Bad : \A k \in Bad : m <= k
      BY <2>1, Least, Zenon
    <2>3. m \in 0 .. n /\ m \in Nat /\ ~Good(m)
      BY <2>1
    <2>4. CASE m = 0
      <3>1. items[0] = <<>> /\ DOMAIN items[0] = {}
        BY <1>1, <1>5
      <3>2. {answers[j] : j \in 1 .. 0} = {}
        OBVIOUS
      <3>3. Tells(items[0], {})
        BY <3>1 DEF Tells
      <3>. QED BY <2>3, <2>4, <3>2, <3>3
    <2>5. CASE m # 0
      <3>1. m - 1 \in 0 .. n /\ ~(m <= m - 1)
        BY <1>1, <2>3, <2>5
      <3>2. Good(m - 1)
        BY <2>2, <3>1
      <3>3. items[m] = Occur(items[m - 1], answers[m])
        BY <1>5, <2>3, <2>5
      <3>4. {answers[j] : j \in 1 .. m} = {answers[j] : j \in 1 .. m - 1} \union {answers[m]}
        BY <2>3, <2>5
      <3>. QED BY <2>3, <3>2, <3>3, <3>4, OccurTells
    <2>. QED BY <2>4, <2>5
  <1>7. Good(n)
    BY <1>1, <1>6
  <1>. QED BY <1>1, <1>2, <1>7

\* What has been read of a kind and has arrived.
Arrived(view, k) == {view.seen[s] : s \in {t \in DOMAIN view.seen \ view.wait : KindOf(t) = k}}

\* While it is collected each kind has the answers of its sources that have arrived, in
\* some order.
Collecting(view) ==
    /\ view = [at |-> "collect", wait |-> view.wait, seen |-> view.seen, errors |-> view.errors,
               got |-> view.got]
    /\ DOMAIN view.seen \subseteq Sources
    /\ view.got = [k \in CfgKinds |-> view.got[k]]
    /\ \A k \in CfgKinds :
          /\ view.got[k] \in Seq(Arrived(view, k))
          /\ Arrived(view, k) \subseteq {view.got[k][n] : n \in DOMAIN view.got[k]}

\* What is shown of a kind tells of all that was read of it.
Shown(view) ==
    /\ DOMAIN view.seen \subseteq Sources
    /\ \A k \in CfgKinds :
          \E items : /\ Tells(items, {view.seen[s] : s \in {t \in DOMAIN view.seen : KindOf(t) = k}})
                     /\ DOMAIN view.items[k] = DOMAIN items
                     /\ \A i \in DOMAIN items : /\ view.items[k][i].value = items[i].value
                                                /\ view.items[k][i].multi <=> ~items[i].identical

ViewInv ==
    /\ cfgView.at = "collect" => Collecting(cfgView)
    /\ cfgView.at = "shown" => Shown(cfgView)

\* The items of a kind are those that its answers tell of.
LEMMA ItemsTell ==
    ASSUME NEW A, NEW answers \in Seq(A)
    PROVE  \E items : /\ Tells(items, {answers[m] : m \in DOMAIN answers})
                      /\ DOMAIN ItemsOf(answers) = DOMAIN items
                      /\ \A i \in DOMAIN items : /\ ItemsOf(answers)[i].value = items[i].value
                                                 /\ ItemsOf(answers)[i].multi <=> ~items[i].identical
  <1>1. PICK items : items = Merged(answers)
    OBVIOUS
  <1>2. ItemsOf(answers) = [i \in DOMAIN items |-> ItemOf(items[i], Len(answers))]
    BY <1>1 DEF ItemsOf
  <1>3. Tells(items, {answers[m] : m \in DOMAIN answers})
    BY <1>1, MergedTells
  <1>4. ASSUME NEW i \in DOMAIN items
        PROVE  ItemsOf(answers)[i].value = items[i].value /\ (ItemsOf(answers)[i].multi <=> ~items[i].identical)
    <2>1. ItemsOf(answers)[i] = ItemOf(items[i], Len(answers))
      BY <1>2
    <2>2. items[i].identical \in BOOLEAN
      BY <1>3 DEF Tells
    <2>3. ItemOf(items[i], Len(answers)).multi <=> ~items[i].identical
      <3>1. CASE items[i].identical = TRUE
        BY <3>1 DEF ItemOf
      <3>2. CASE items[i].identical = FALSE
        BY <3>2 DEF ItemOf
      <3>. QED BY <2>2, <3>1, <3>2
    <2>4. ItemOf(items[i], Len(answers)).value = items[i].value
      BY DEF ItemOf
    <2>. QED BY <2>1, <2>3, <2>4
  <1>5. DOMAIN ItemsOf(answers) = DOMAIN items
    BY <1>2
  <1>. QED BY <1>3, <1>4, <1>5

\* An answer that has been read but has not arrived, or will not come, changes nothing of
\* what has arrived.
LEMMA GetItemsOK ==
    ASSUME ViewInv, NEW s \in Sources, GetItems(s)
    PROVE  ViewInv'
  <1>0. cfgView.at = "collect" /\ Collecting(cfgView) /\ s \in cfgView.wait \ DOMAIN cfgView.seen
    BY DEF ViewInv, GetItems
  <1>1. PICK wait, seen, errors, got :
            cfgView = [at |-> "collect", wait |-> wait, seen |-> seen, errors |-> errors, got |-> got]
    BY <1>0 DEF Collecting
  <1>2. /\ s \in wait /\ s \notin DOMAIN seen /\ DOMAIN seen \subseteq Sources
        /\ got = [k \in CfgKinds |-> got[k]]
        /\ \A k \in CfgKinds : /\ got[k] \in Seq(Arrived(cfgView, k))
                               /\ Arrived(cfgView, k) \subseteq {got[k][n] : n \in DOMAIN got[k]}
    BY <1>0, <1>1 DEF Collecting
  <1>3. PICK wait2, seen2, errors2 :
            /\ cfgView' = [at |-> "collect", wait |-> wait2, seen |-> seen2, errors |-> errors2, got |-> got]
            /\ \/ wait2 = wait \ {s} /\ seen2 = seen
               \/ wait2 = wait /\ seen2 = [t \in DOMAIN seen \union {s} |-> IF t = s THEN cfgHeld[s] ELSE seen[t]]
    <2>1. CASE cfgView' = [cfgView EXCEPT !.wait = @ \ {s}, !.errors = @ + 1]
      BY <1>1, <2>1
    <2>2. CASE cfgView' = [cfgView EXCEPT !.seen =
                    [t \in DOMAIN cfgView.seen \union {s} |-> IF t = s THEN cfgHeld[s] ELSE cfgView.seen[t]]]
      BY <1>1, <2>2
    <2>. QED BY <2>1, <2>2 DEF GetItems
  <1>4. /\ DOMAIN seen2 \subseteq Sources /\ DOMAIN seen2 \ wait2 = DOMAIN seen \ wait
        /\ \A t \in DOMAIN seen : seen2[t] = seen[t]
    <2>1. CASE wait2 = wait \ {s} /\ seen2 = seen
      BY <1>2, <2>1
    <2>2. CASE wait2 = wait /\ seen2 = [t \in DOMAIN seen \union {s} |-> IF t = s THEN cfgHeld[s] ELSE seen[t]]
      BY <1>2, <2>2
    <2>. QED BY <1>3, <2>1, <2>2
  <1>5. \A k \in CfgKinds : Arrived(cfgView', k) = Arrived(cfgView, k)
    BY <1>1, <1>3, <1>4 DEF Arrived
  <1>6. Collecting(cfgView')
    BY <1>2, <1>3, <1>4, <1>5 DEF Collecting
  <1>. QED BY <1>3, <1>6 DEF ViewInv

\* An answer that has arrived is one of those of its kind.
LEMMA ArrivesOK ==
    ASSUME ViewInv, NEW s \in Sources, Arrives(s)
    PROVE  ViewInv'
  <1>0. cfgView.at = "collect" /\ Collecting(cfgView) /\ s \in cfgView.wait \intersect DOMAIN cfgView.seen
    BY DEF ViewInv, Arrives
  <1>1. PICK wait, seen, errors, got :
            cfgView = [at |-> "collect", wait |-> wait, seen |-> seen, errors |-> errors, got |-> got]
    BY <1>0 DEF Collecting
  <1>2. /\ s \in wait /\ s \in DOMAIN seen /\ DOMAIN seen \subseteq Sources
        /\ got = [k \in CfgKinds |-> got[k]]
        /\ \A k \in CfgKinds : /\ got[k] \in Seq(Arrived(cfgView, k))
                               /\ Arrived(cfgView, k) \subseteq {got[k][n] : n \in DOMAIN got[k]}
    BY <1>0, <1>1 DEF Collecting
  <1>3. PICK got2 :
            /\ cfgView' = [at |-> "collect", wait |-> wait \ {s}, seen |-> seen, errors |-> errors, got |-> got2]
            /\ got2 = [got EXCEPT ![KindOf(s)] = Append(@, seen[s])]
    BY <1>1 DEF Arrives
  <1>4. ASSUME NEW k \in CfgKinds
        PROVE  /\ got2[k] \in Seq(Arrived(cfgView', k))
               /\ Arrived(cfgView', k) \subseteq {got2[k][n] : n \in DOMAIN got2[k]}
    <2>1. CASE k # KindOf(s)
      <3>1. got2[k] = got[k]
        BY <1>2, <1>3, <2>1
      <3>2. Arrived(cfgView', k) = Arrived(cfgView, k)
        BY <1>1, <1>3, <2>1 DEF Arrived
      <3>. QED BY <1>2, <3>1, <3>2
    <2>2. CASE k = KindOf(s)
      <3>1. got2[k] = Append(got[k], seen[s])
        BY <1>2, <1>3, <2>2
      <3>2. Arrived(cfgView', k) = Arrived(cfgView, k) \union {seen[s]}
        BY <1>1, <1>2, <1>3, <2>2 DEF Arrived
      <3>. DEFINE old == Arrived(cfgView, k)
                  new == old \union {seen[s]}
      <3>3. got[k] \in Seq(new)
        BY <1>2
      <3>. HIDE DEF old
      <3>4. got2[k] \in Seq(new) /\ Len(got2[k]) = Len(got[k]) + 1 /\ Len(got[k]) \in Nat
        BY <3>1, <3>3
      <3>5. \A n \in 1 .. Len(got[k]) : got2[k][n] = got[k][n]
        BY <3>1, <3>3
      <3>6. got2[k][Len(got[k]) + 1] = seen[s]
        BY <3>1, <3>3
      <3>7. DOMAIN got2[k] = 1 .. Len(got[k]) + 1 /\ DOMAIN got[k] = 1 .. Len(got[k])
        BY <3>3, <3>4
      <3>8. new \subseteq {got2[k][n] : n \in DOMAIN got2[k]}
        <4>1. old \subseteq {got[k][n] : n \in DOMAIN got[k]}
          BY <1>2 DEF old
        <4>. QED BY <3>4, <3>5, <3>6, <3>7, <4>1
      <3>. QED BY <3>2, <3>4, <3>8 DEF old
    <2>. QED BY <2>1, <2>2
  <1>5. got2 = [k \in CfgKinds |-> got2[k]]
    BY <1>2, <1>3
  <1>6. cfgView'.seen = seen /\ cfgView'.got = got2
    BY <1>3
  <1>7. cfgView' = [at |-> "collect", wait |-> cfgView'.wait, seen |-> cfgView'.seen,
                    errors |-> cfgView'.errors, got |-> cfgView'.got]
    BY <1>3
  <1>8. Collecting(cfgView')
    BY <1>2, <1>4, <1>5, <1>6, <1>7 DEF Collecting
  <1>. QED BY <1>3, <1>8 DEF ViewInv

\* When nothing is waited for any more, all that was read has arrived.
LEMMA ShowOK ==
    ASSUME ViewInv, Show
    PROVE  ViewInv'
  <1>1. Collecting(cfgView) /\ cfgView.wait = {}
    BY DEF ViewInv, Show
  <1>2. /\ cfgView'.at = "shown" /\ cfgView'.seen = cfgView.seen
        /\ \A k \in CfgKinds : cfgView'.items[k] = ItemsOf(cfgView.got[k])
    BY DEF Show
  <1>3. ASSUME NEW k \in CfgKinds
        PROVE  \E items : /\ Tells(items, Arrived(cfgView, k))
                          /\ DOMAIN cfgView'.items[k] = DOMAIN items
                          /\ \A i \in DOMAIN items : /\ cfgView'.items[k][i].value = items[i].value
                                                     /\ cfgView'.items[k][i].multi <=> ~items[i].identical
    <2>1. /\ cfgView.got[k] \in Seq(Arrived(cfgView, k))
          /\ Arrived(cfgView, k) \subseteq {cfgView.got[k][n] : n \in DOMAIN cfgView.got[k]}
      BY <1>1 DEF Collecting
    <2>2. {cfgView.got[k][n] : n \in DOMAIN cfgView.got[k]} = Arrived(cfgView, k)
      BY <2>1
    <2>3. PICK items :
              /\ Tells(items, {cfgView.got[k][n] : n \in DOMAIN cfgView.got[k]})
              /\ DOMAIN ItemsOf(cfgView.got[k]) = DOMAIN items
              /\ \A i \in DOMAIN items : /\ ItemsOf(cfgView.got[k])[i].value = items[i].value
                                         /\ ItemsOf(cfgView.got[k])[i].multi <=> ~items[i].identical
      BY <2>1, ItemsTell
    <2>. QED BY <1>2, <2>2, <2>3
  <1>4. \A k \in CfgKinds : Arrived(cfgView, k) =
            {cfgView'.seen[s] : s \in {t \in DOMAIN cfgView'.seen : KindOf(t) = k}}
    BY <1>1, <1>2 DEF Arrived
  <1>5. Shown(cfgView')
    <2>1. DOMAIN cfgView'.seen \subseteq Sources
      BY <1>1, <1>2 DEF Collecting
    <2>2. ASSUME NEW k \in CfgKinds
          PROVE  \E items :
                    /\ Tells(items, {cfgView'.seen[s] : s \in {t \in DOMAIN cfgView'.seen : KindOf(t) = k}})
                    /\ DOMAIN cfgView'.items[k] = DOMAIN items
                    /\ \A i \in DOMAIN items : /\ cfgView'.items[k][i].value = items[i].value
                                               /\ cfgView'.items[k][i].multi <=> ~items[i].identical
      BY <1>3, <1>4
    <2>. QED BY <2>1, <2>2 DEF Shown
  <1>. QED BY <1>2, <1>5 DEF ViewInv

\* A request begins without an answer.
LEMMA GetAllOK ==
    ASSUME ViewInv, GetAll
    PROVE  ViewInv'
  <1>1. CASE cfgView' = [at |-> "failed"]
    BY <1>1 DEF ViewInv
  <1>2. CASE cfgView' = [at |-> "collect", wait |-> cfgStores \union TiDBs \union {"pd", "variables"},
                         seen |-> <<>>, errors |-> 0, got |-> [k \in CfgKinds |-> <<>>]]
    <2>1. cfgView'.at = "collect" /\ cfgView'.seen = <<>> /\ cfgView'.got = [k \in CfgKinds |-> <<>>]
      BY <1>2
    <2>2. DOMAIN cfgView'.seen = {}
      BY <2>1
    <2>3. \A k \in CfgKinds : Arrived(cfgView', k) = {}
      BY <2>2 DEF Arrived
    <2>4. cfgView' = [at |-> "collect", wait |-> cfgView'.wait, seen |-> cfgView'.seen,
                      errors |-> cfgView'.errors, got |-> cfgView'.got]
      BY <1>2
    <2>5. \A k \in CfgKinds : cfgView'.got[k] = <<>> /\ <<>> \in Seq(Arrived(cfgView', k))
      BY <2>1
    <2>6. cfgView'.got = [k \in CfgKinds |-> cfgView'.got[k]]
      BY <2>1
    <2>7. Collecting(cfgView')
      BY <2>2, <2>3, <2>4, <2>5, <2>6 DEF Collecting
    <2>. QED BY <2>1, <2>7 DEF ViewInv
  <1>. QED BY <1>1, <1>2 DEF GetAll

\* What the collection of all items keeps at every step: what has arrived is what was read.
THEOREM ViewInvariant == CfgSpec => []ViewInv
  <1>1. CfgInit => ViewInv
    BY DEF CfgInit, ViewInv
  <1>2. ViewInv /\ [CfgNext]_cfgVars => ViewInv'
    <2>. SUFFICES ASSUME ViewInv, [CfgNext]_cfgVars PROVE ViewInv'
      OBVIOUS
    <2>1. CASE UNCHANGED cfgView
      BY <2>1 DEF ViewInv
    <2>2. CASE ViewStep
      BY <2>2, GetAllOK, ShowOK, GetItemsOK, ArrivesOK DEF ViewStep
    <2>3. CASE \E e \in Editors : EditRequest(e)
      BY <2>1, <2>3 DEF EditRequest, Edit
    <2>4. CASE EditStep
      BY <2>1, <2>4 DEF EditStep, EditOne, ListStores, SendToStore, editConfig
    <2>5. CASE StoreJoins
      BY <2>1, <2>5 DEF StoreJoins
    <2>. QED BY <2>1, <2>2, <2>3, <2>4, <2>5 DEF CfgNext, cfgVars
  <1>. QED BY <1>1, <1>2, PTL DEF CfgSpec

\* Two values are more than one.
LEMMA SeveralValues ==
    ASSUME NEW S, IsFiniteSet(S), NEW v \in S
    PROVE  Cardinality(S) > 1 <=> ~\A w \in S : w = v
  <1>1. CASE \A w \in S : w = v
    <2>1. S = {v}
      BY <1>1
    <2>2. Cardinality(S) = 1
      BY <2>1, FS_Singleton
    <2>. QED BY <1>1, <2>2
  <1>2. CASE ~\A w \in S : w = v
    <2>1. PICK w \in S : w # v
      BY <1>2
    <2>2. IsFiniteSet({v}) /\ Cardinality({v}) = 1
      BY FS_Singleton
    <2>3. IsFiniteSet({v} \union {w}) /\ Cardinality({v} \union {w}) = 2
      BY <2>1, <2>2, FS_AddElement
    <2>4. Cardinality({v} \union {w}) <= Cardinality(S) /\ Cardinality(S) \in Nat
      BY <2>1, <2>3, FS_Subset, FS_CardinalityType
    <2>. QED BY <1>2, <2>3, <2>4
  <1>. QED BY <1>1, <1>2

\* The values of an item that is shown, from the answers of its kind.
LEMMA ShownExact ==
    ASSUME ViewInv
    PROVE  ViewExact
  <1>. SUFFICES ASSUME cfgView.at = "shown", NEW k \in CfgKinds, NEW i \in CfgItems
                PROVE  LET Seen == {cfgView.seen[s][i] : s \in {t \in DOMAIN cfgView.seen :
                                                    KindOf(t) = k /\ i \in DOMAIN cfgView.seen[t]}}
                       IN  /\ i \in DOMAIN cfgView.items[k] <=> Seen # {}
                           /\ Seen # {} => /\ cfgView.items[k][i].value \in Seen
                                           /\ cfgView.items[k][i].multi <=> Cardinality(Seen) > 1
    BY DEF ViewExact
  <1>. DEFINE from == {t \in DOMAIN cfgView.seen : KindOf(t) = k /\ i \in DOMAIN cfgView.seen[t]}
              Seen == {cfgView.seen[s][i] : s \in from}
              read == {cfgView.seen[s] : s \in {t \in DOMAIN cfgView.seen : KindOf(t) = k}}
  <1>1. Shown(cfgView)
    BY DEF ViewInv
  <1>2. PICK items : /\ Tells(items, read)
                     /\ DOMAIN cfgView.items[k] = DOMAIN items
                     /\ \A j \in DOMAIN items : /\ cfgView.items[k][j].value = items[j].value
                                                /\ cfgView.items[k][j].multi <=> ~items[j].identical
    BY <1>1 DEF Shown
  <1>3. ValuesIn(read, i) = Seen
    BY DEF ValuesIn
  <1>4. i \in DOMAIN items <=> Seen # {}
    <2>1. PICK S : S = read
      OBVIOUS
    <2>2. i \in DOMAIN items <=> \E a \in S : i \in DOMAIN a
      BY <1>2, <2>1 DEF Tells
    <2>3. ValuesIn(S, i) # {} <=> \E a \in S : i \in DOMAIN a
      BY DEF ValuesIn
    <2>. QED BY <1>3, <2>1, <2>2, <2>3
  <1>5. IsFiniteSet(Seen)
    <2>1. IsFiniteSet(Sources)
      <3>1. IsFiniteSet(Stores \union TiDBs)
        BY SourcesAssumption, FS_Union
      <3>2. IsFiniteSet((Stores \union TiDBs) \union {"pd"})
        BY <3>1, FS_AddElement
      <3>3. IsFiniteSet(((Stores \union TiDBs) \union {"pd"}) \union {"variables"})
        BY <3>2, FS_AddElement
      <3>4. Sources = ((Stores \union TiDBs) \union {"pd"}) \union {"variables"}
        BY DEF Sources
      <3>. QED BY <3>3, <3>4
    <2>2. from \subseteq Sources
      BY <1>1 DEF Shown
    <2>3. IsFiniteSet(from)
      BY <2>1, <2>2, FS_Subset
    <2>. DEFINE f == [s \in from |-> cfgView.seen[s][i]]
    <2>4. f \in Surjection(from, Seen)
      BY DEF Surjection
    <2>. HIDE DEF f, from, Seen
    <2>. QED BY <2>3, <2>4, FS_Surjection
  <1>6. ASSUME i \in DOMAIN items
        PROVE  /\ cfgView.items[k][i].value \in Seen
               /\ cfgView.items[k][i].multi <=> Cardinality(Seen) > 1
    <2>1. /\ items[i].value \in Seen
          /\ items[i].identical \in BOOLEAN
          /\ items[i].identical <=> \A v \in Seen : v = items[i].value
      BY <1>2, <1>3, <1>6 DEF Tells
    <2>2. Cardinality(Seen) > 1 <=> ~\A v \in Seen : v = items[i].value
      BY <1>5, <2>1, SeveralValues
    <2>3. /\ cfgView.items[k][i].value = items[i].value
          /\ cfgView.items[k][i].multi <=> ~items[i].identical
      BY <1>2, <1>6
    <2>. QED BY <2>1, <2>2, <2>3
  <1>. QED BY <1>2, <1>4, <1>6

\* getAllConfigItems (service.go): in whatever order the answers come in, and whichever
\* fail, an item is shown with several values exactly when two sources of its kind were
\* read with different ones.
THEOREM ViewExactAlways == CfgSpec => []ViewExact
  BY ViewInvariant, ShownExact, PTL

(***************************************************************************)
(* Signing in: the record that single sign-on impersonates, and the bounds *)
(* of sessions                                                             *)
(***************************************************************************)

Users == [SQLUsers -> [password : Nat, grants : Grants]]
Statuses == {"none", "auth_fail", "insufficient_privileges", "success"}
Records == [user : SQLUsers, password : Nat, key : Nat \ {0}, status : Statuses]
Steps ==
    {NoAdmin}
    \cup [at : {"key"}, user : SQLUsers, password : Nat]
    \cup [at : {"wait", "create"}, user : SQLUsers, password : Nat, key : Nat \ {0}]
    \cup [at : {"modify"}, enabled : BOOLEAN, readOnly : BOOLEAN]
Sessions ==
    [from : {"sql", "code", "sso"}, user : SQLUsers, password : Nat, share : BOOLEAN,
     write : BOOLEAN, made : Int, run : Nat, root : BOOLEAN, until : Int, expireAt : Int]
Codes == [session : Sessions, expireAt : Int, revoke : BOOLEAN, run : Nat]

AccTypeOK ==
    /\ accNow \in Nat /\ accRun \in Nat
    /\ accSQL \in Users
    /\ accSSO \in [enabled : BOOLEAN, readOnly : BOOLEAN]
    /\ accToken \in [Browsers -> Sessions \cup {NoSession}]
    /\ accCode \in Codes \cup {NoCode}
    /\ accKey \in Nat \cup {Broken} /\ accKeys \in Nat
    /\ accRows \subseteq Records
    /\ accAdmin \in [Admins -> Steps]

\* The lock: one handler at most is between the deletion of all records and the new
\* one, and then there are none.
Creating(a) == accAdmin[a].at = "create"
OneCreates ==
    /\ \A a, b \in Admins : Creating(a) /\ Creating(b) => a = b
    /\ (\E a \in Admins : Creating(a)) => accRows = {}

\* Two records are the same.
OneRow == \A r, s \in accRows : r = s

\* Records, and those that are about to be made, are written with the key in the
\* file, as long as nobody damages it.
KeyFits ==
    ~accDamaged =>
        /\ \A r \in accRows : r.key = accKey
        /\ \A a \in Admins : accAdmin[a].at \in {"wait", "create"} => accAdmin[a].key = accKey

\* What a session may do and how long it lasts, as of its sign-in, also when it is
\* shared on.
SessionOK(s) ==
    /\ s.write => s.root
    /\ s.from = "code" => ~s.share /\ s.expireAt = s.until
SessionsOK ==
    /\ \A b \in Browsers : accToken[b] # NoSession => SessionOK(accToken[b])
    /\ accCode # NoCode => SessionOK(accCode.session)

AccInv == AccTypeOK /\ OneCreates /\ OneRow /\ KeyFits /\ SessionsOK

-----------------------------------------------------------------------------
\* The four shapes of a handler's state are told apart by where it is.
LEMMA StepShapes ==
    ASSUME NEW s \in Steps
    PROVE  /\ s.at = "idle" => s = NoAdmin
           /\ s.at = "key" => s.user \in SQLUsers /\ s.password \in Nat
           /\ s.at \in {"wait", "create"} =>
                s \in [at : {"wait", "create"}, user : SQLUsers, password : Nat, key : Nat \ {0}]
           /\ s.at = "modify" => s \in [at : {"modify"}, enabled : BOOLEAN, readOnly : BOOLEAN]
  BY DEF Steps, NoAdmin

\* A session is none of the value that stands for none, and so for codes.
LEMMA NoneApart ==
    /\ \A s \in Sessions : s # NoSession
    /\ \A c \in Codes : c # NoCode
  <1>1. ASSUME NEW s \in Sessions PROVE s # NoSession
    BY <1>1 DEF Sessions, NoSession
  <1>2. ASSUME NEW c \in Codes PROVE c # NoCode
    BY <1>1, <1>2 DEF Codes, NoCode
  <1>. QED BY <1>1, <1>2

\* At first nobody has signed in.
LEMMA InitInv == AccInit => AccInv
  <1>. SUFFICES ASSUME AccInit PROVE AccInv
    OBVIOUS
  <1>1. /\ accRows \subseteq Records /\ OneRow
        /\ accKey \in Nat \cup {Broken} /\ accKeys \in Nat
        /\ accSSO \in [enabled : BOOLEAN, readOnly : BOOLEAN]
        /\ \A r \in accRows : r.key = accKey
    <2>1. CASE /\ accRows = {} /\ accKey = 0 /\ accKeys = 0
               /\ accSSO = [enabled |-> FALSE, readOnly |-> FALSE]
      BY <2>1 DEF OneRow
    <2>2. CASE /\ accKey = 1 /\ accKeys = 1 /\ accSSO \in [enabled : {TRUE}, readOnly : BOOLEAN]
               /\ \E u \in SQLUsers :
                    accRows = {[user |-> u, password |-> 1, key |-> 1, status |-> "none"]}
      <3>1. accSSO \in [enabled : BOOLEAN, readOnly : BOOLEAN]
        BY <2>2
      <3>. QED BY <2>2, <3>1 DEF Records, Statuses, OneRow
    <2>. QED BY <2>1, <2>2 DEF AccInit
  <1>2. accAdmin \in [Admins -> Steps] /\ \A a \in Admins : accAdmin[a] = NoAdmin
    BY DEF AccInit, Steps
  <1>3. accSQL \in Users
    BY DEF AccInit, Users
  <1>4. AccTypeOK
    BY <1>1, <1>2, <1>3 DEF AccInit, AccTypeOK
  <1>5. OneCreates /\ KeyFits
    BY <1>1, <1>2 DEF OneCreates, Creating, KeyFits, NoAdmin
  <1>6. SessionsOK
    BY DEF AccInit, SessionsOK
  <1>. QED BY <1>1, <1>4, <1>5, <1>6 DEF AccInv

-----------------------------------------------------------------------------
\* What a step leaves alone keeps what is said of it.
LEMMA StoreKept ==
    ASSUME AccInv, UNCHANGED <<accKey, accRows, accAdmin, accDamaged>>
    PROVE  (OneCreates /\ OneRow /\ KeyFits)'
  BY DEF AccInv, OneCreates, Creating, OneRow, KeyFits

\* Where tokens and codes stay, so do their bounds.
LEMMA SessionsKept ==
    ASSUME AccInv, UNCHANGED <<accToken, accCode>>
    PROVE  SessionsOK'
  BY DEF AccInv, SessionsOK, SessionOK

\* A browser that signs in gets a session, and nobody else does.
LEMMA SignInKeeps ==
    ASSUME AccInv, NEW b \in Browsers, NEW s \in Sessions, SessionOK(s), SignIn(b, s),
           UNCHANGED accCode
    PROVE  accToken' \in [Browsers -> Sessions \cup {NoSession}] /\ SessionsOK'
  <1>1. accToken' = [accToken EXCEPT ![b] = s] /\ accToken \in [Browsers -> Sessions \cup {NoSession}]
    BY DEF AccInv, AccTypeOK, SignIn
  <1>2. accToken' \in [Browsers -> Sessions \cup {NoSession}]
    BY <1>1
  <1>3. ASSUME NEW c \in Browsers, accToken'[c] # NoSession PROVE SessionOK(accToken'[c])
    BY <1>1, <1>3 DEF AccInv, SessionsOK
  <1>4. accCode' # NoCode => SessionOK(accCode'.session)
    BY DEF AccInv, SessionsOK
  <1>. QED BY <1>2, <1>3, <1>4 DEF SessionsOK, SessionOK

-----------------------------------------------------------------------------
\* The steps of browsers.
LEMMA LoginSQLStep ==
    ASSUME AccInv, NEW b \in Browsers, NEW u \in SQLUsers, LoginSQL(b, u)
    PROVE  AccInv'
  <1>. DEFINE write == checkWriteablePriv(accSQL[u].grants)
              s == Session("sql", u, accSQL[u].password, TRUE, write, write, accNow + TokenLife)
  <1>1. s \in Sessions /\ SessionOK(s)
    <2>1. accSQL[u].password \in Nat /\ accNow \in Nat /\ accRun \in Nat /\ write \in BOOLEAN
      BY DEF AccInv, AccTypeOK, Users, checkWriteablePriv
    <2>2. accNow + TokenLife \in Int
      BY <2>1, AccessAssumption
    <2>. QED BY <2>1, <2>2 DEF Session, Sessions, SessionOK
  <1>2. SignIn(b, s) /\ UNCHANGED accCode
    BY DEF LoginSQL
  <1>3. accToken' \in [Browsers -> Sessions \cup {NoSession}] /\ SessionsOK'
    BY <1>1, <1>2, SignInKeeps
  <1>4. UNCHANGED <<accNow, accRun, accSQL, accSSO, accCode, accKey, accKeys, accRows, accAdmin, accDamaged>>
    BY DEF LoginSQL, accStoreVars
  <1>5. (OneCreates /\ OneRow /\ KeyFits)'
    BY <1>4, StoreKept
  <1>. QED BY <1>3, <1>4, <1>5 DEF AccInv, AccTypeOK

\* A sharing code holds no more than the session that shares it.
LEMMA ShareStep ==
    ASSUME AccInv, NEW b \in Browsers, NEW life \in 0 .. MaxShareLife + 1, NEW revoke \in BOOLEAN,
           Share(b, life, revoke)
    PROVE  AccInv'
  <1>1. accToken[b] \in Sessions /\ SessionOK(accToken[b])
    BY DEF AccInv, AccTypeOK, SessionsOK, Share, Accepted
  <1>2. accCode' = [session |-> accToken[b], expireAt |-> accNow + life, revoke |-> revoke, run |-> accRun]
    BY DEF Share
  <1>3. life \in Int
    BY AccessAssumption
  <1>4. accCode' \in Codes
    BY <1>1, <1>2, <1>3 DEF AccInv, AccTypeOK, Codes
  <1>5. UNCHANGED <<accNow, accRun, accSQL, accSSO, accToken, accKey, accKeys, accRows, accAdmin, accDamaged>>
    BY DEF Share, accStoreVars
  <1>6. SessionsOK'
    BY <1>1, <1>2, <1>5 DEF AccInv, SessionsOK, SessionOK
  <1>7. (OneCreates /\ OneRow /\ KeyFits)'
    BY <1>5, StoreKept
  <1>. QED BY <1>4, <1>5, <1>6, <1>7 DEF AccInv, AccTypeOK

\* A shared session writes only if the one that was shared does.
LEMMA LoginCodeStep ==
    ASSUME AccInv, NEW b \in Browsers, LoginCode(b)
    PROVE  AccInv'
  <1>. DEFINE old == accCode.session
              s == NewSessionFromSharingCode(old)
  <1>1. accCode \in Codes /\ old \in Sessions /\ SessionOK(old) /\ accNow \in Nat /\ accRun \in Nat
    BY DEF AccInv, AccTypeOK, LoginCode, SessionsOK, Codes
  <1>2. accCode.revoke \in BOOLEAN /\ accCode.expireAt \in Int
    BY <1>1 DEF Codes
  <1>3. s \in Sessions
    BY <1>1, <1>2 DEF NewSessionFromSharingCode, Sessions
  <1>4. s \in Sessions /\ SessionOK(s)
    BY <1>1, <1>2, <1>3 DEF NewSessionFromSharingCode, Sessions, SessionOK
  <1>5. SignIn(b, s) /\ UNCHANGED accCode
    BY DEF LoginCode
  <1>6. accToken' \in [Browsers -> Sessions \cup {NoSession}] /\ SessionsOK'
    BY <1>4, <1>5, SignInKeeps
  <1>7. UNCHANGED <<accNow, accRun, accSQL, accSSO, accCode, accKey, accKeys, accRows, accAdmin, accDamaged>>
    BY DEF LoginCode, accStoreVars
  <1>8. (OneCreates /\ OneRow /\ KeyFits)'
    BY <1>7, StoreKept
  <1>. QED BY <1>6, <1>7, <1>8 DEF AccInv, AccTypeOK

\* A single sign-on under way, or a sign-in that fails, writes nothing.
LEMMA LoginSSOStep ==
    ASSUME AccInv, NEW b \in Browsers, NEW from, NEW to, LoginSSO(b, from, to) \/ LoginFails(b)
    PROVE  AccInv'
  <1>1. UNCHANGED <<accNow, accRun, accSQL, accSSO, accToken, accCode, accKey, accKeys, accRows,
                    accAdmin, accDamaged>>
    BY DEF LoginSSO, LoginFails, accStoreVars
  <1>2. (OneCreates /\ OneRow /\ KeyFits)' /\ SessionsOK'
    BY <1>1, StoreKept, SessionsKept
  <1>. QED BY <1>1, <1>2 DEF AccInv, AccTypeOK

\* The record is decrypted, its user verified, and what came of it noted in the record.
LEMMA ImpersonateStep ==
    ASSUME AccInv, NEW b \in Browsers, newSessionFromImpersonation(b)
    PROVE  AccInv'
  <1>1. UNCHANGED <<accNow, accRun, accSQL, accSSO, accCode, accKey, accKeys, accAdmin, accDamaged>>
    BY DEF newSessionFromImpersonation
  <1>2. CASE UNCHANGED <<accToken, accRows>>
    <2>1. (OneCreates /\ OneRow /\ KeyFits)' /\ SessionsOK'
      BY <1>1, <1>2, StoreKept, SessionsKept
    <2>. QED BY <1>1, <1>2, <2>1 DEF AccInv, AccTypeOK
  <1>3. ASSUME NEW row \in accRows, NEW status \in Statuses,
               accRows' = {[r EXCEPT !.status = status] : r \in accRows},
               \/ UNCHANGED accToken
               \/ LET write == checkWriteablePriv(accSQL[row.user].grants) IN
                  SignIn(b, Session("sso", row.user, row.password, TRUE,
                                    write /\ ~accSSO.readOnly, write, accNow + TokenLife))
        PROVE  AccInv'
    <2>. DEFINE write == checkWriteablePriv(accSQL[row.user].grants)
                s == Session("sso", row.user, row.password, TRUE, write /\ ~accSSO.readOnly,
                             write, accNow + TokenLife)
    <2>1. row \in Records /\ accNow \in Nat /\ accRun \in Nat
      BY DEF AccInv, AccTypeOK
    <2>2. s \in Sessions /\ SessionOK(s)
      <3>1. row.user \in SQLUsers /\ row.password \in Nat /\ accNow + TokenLife \in Int
        BY <2>1, AccessAssumption DEF Records
      <3>2. write \in BOOLEAN /\ (write /\ ~accSSO.readOnly) \in BOOLEAN
        BY DEF checkWriteablePriv
      <3>. QED BY <2>1, <3>1, <3>2 DEF Session, Sessions, SessionOK
    <2>3. accToken' \in [Browsers -> Sessions \cup {NoSession}] /\ SessionsOK'
      <3>1. CASE UNCHANGED accToken
        BY <1>1, <3>1, SessionsKept DEF AccInv, AccTypeOK
      <3>2. CASE SignIn(b, s)
        BY <1>1, <2>2, <3>2, SignInKeeps
      <3>. QED BY <1>3, <3>1, <3>2
    <2>4. accRows' \subseteq Records /\ \A r \in accRows' : \E old \in accRows :
                /\ r = [old EXCEPT !.status = status]
                /\ r.key = old.key
      BY <1>3 DEF AccInv, AccTypeOK, Records
    <2>5. OneRow'
      BY <2>4 DEF AccInv, OneRow
    <2>6. OneCreates'
      BY <1>1 DEF AccInv, OneCreates, Creating
    <2>7. KeyFits'
      BY <1>1, <2>4 DEF AccInv, KeyFits
    <2>. QED BY <1>1, <2>3, <2>4, <2>5, <2>6, <2>7 DEF AccInv, AccTypeOK
  <1>. QED BY <1>2, <1>3 DEF newSessionFromImpersonation, Statuses

-----------------------------------------------------------------------------
\* What a handler of an administrator goes through.
LEMMA ToKeeps ==
    ASSUME AccInv, NEW a \in Admins, NEW here, NEW there \in Steps, To(a, here, there)
    PROVE  /\ accAdmin' \in [Admins -> Steps]
           /\ accAdmin[a] \in Steps /\ accAdmin[a].at = here /\ accAdmin'[a] = there
           /\ \A c \in Admins : c # a => accAdmin'[c] = accAdmin[c]
  BY DEF AccInv, AccTypeOK, To

\* The key of a new impersonation is made once the password has been tried.
LEMMA VerifyStep ==
    ASSUME AccInv, NEW a \in Admins, NEW u \in SQLUsers, VerifyImpersonation(a, u),
           UNCHANGED <<accNow, accRun, accSQL, accToken, accCode, accDamaged>>
    PROVE  AccInv'
  <1>. DEFINE there == [at |-> "key", user |-> u, password |-> accSQL[u].password]
  <1>1. there \in Steps
    BY DEF AccInv, AccTypeOK, Users, Steps
  <1>2. To(a, "idle", there) /\ UNCHANGED <<accKey, accKeys, accRows, accSSO>>
    BY DEF VerifyImpersonation
  <1>3. /\ accAdmin' \in [Admins -> Steps] /\ accAdmin'[a] = there
        /\ \A c \in Admins : c # a => accAdmin'[c] = accAdmin[c]
    BY <1>1, <1>2, ToKeeps
  <1>4. OneCreates' /\ OneRow'
    BY <1>2, <1>3 DEF AccInv, OneCreates, Creating, OneRow
  <1>5. KeyFits'
    BY <1>2, <1>3 DEF AccInv, KeyFits
  <1>6. SessionsOK'
    BY SessionsKept
  <1>. QED BY <1>2, <1>3, <1>4, <1>5, <1>6 DEF AccInv, AccTypeOK

\* Without a key nothing is written with one, and nothing is about to be.
LEMMA NoKeyNoRow ==
    ASSUME AccInv, ~accDamaged, accKey \in {0, Broken}
    PROVE  accRows = {} /\ \A c \in Admins : accAdmin[c].at \notin {"wait", "create"}
  <1>1. \A r \in accRows : r.key \in Nat \ {0} /\ r.key = accKey
    BY DEF AccInv, AccTypeOK, Records, KeyFits
  <1>2. ASSUME NEW c \in Admins, accAdmin[c].at \in {"wait", "create"}
        PROVE  accAdmin[c].key \in Nat \ {0} /\ accAdmin[c].key = accKey
    <2>1. accAdmin[c] \in Steps
      BY DEF AccInv, AccTypeOK
    <2>. QED BY <1>2, <2>1, StepShapes DEF AccInv, KeyFits
  <1>3. accKey \notin Nat \ {0}
    BY DEF Broken
  <1>. QED BY <1>1, <1>2, <1>3

\* A key is made only when there is none that fits, and then no record is about to be
\* written with another one.
LEMMA MakeKeyStep ==
    ASSUME AccInv, NEW a \in Admins, MakeKey(a),
           UNCHANGED <<accNow, accRun, accSQL, accToken, accCode, accDamaged>>
    PROVE  AccInv'
  <1>1. UNCHANGED <<accRows, accSSO>>
    BY DEF MakeKey
  <1>2. accAdmin[a] \in Steps /\ accAdmin[a].user \in SQLUsers /\ accAdmin[a].password \in Nat
    <2>1. accAdmin[a] \in Steps /\ accAdmin[a].at = "key"
      BY DEF MakeKey, AccInv, AccTypeOK
    <2>. QED BY <2>1, StepShapes
  <1>3. SessionsOK'
    BY SessionsKept
  <1>4. ASSUME NEW key \in Nat \ {0}, WithKey(a, key), accKey' = key, accKeys' \in Nat,
               accKey = key \/ accKey \in {0, Broken}
        PROVE  AccInv'
    <2>. DEFINE there == [at |-> "wait", user |-> accAdmin[a].user,
                          password |-> accAdmin[a].password, key |-> key]
    <2>1. there \in Steps
      BY <1>2 DEF Steps
    <2>2. To(a, "key", there)
      BY <1>4 DEF WithKey
    <2>3. /\ accAdmin' \in [Admins -> Steps] /\ accAdmin'[a] = there
          /\ \A c \in Admins : c # a => accAdmin'[c] = accAdmin[c]
      BY <2>1, <2>2, ToKeeps
    <2>4. OneCreates' /\ OneRow'
      BY <1>1, <2>3 DEF AccInv, OneCreates, Creating, OneRow
    <2>5. KeyFits'
      <3>1. CASE accKey = key
        BY <1>1, <1>4, <2>3, <3>1 DEF AccInv, KeyFits
      <3>2. CASE accKey \in {0, Broken}
        BY <1>1, <1>4, <2>3, <3>2, NoKeyNoRow DEF KeyFits
      <3>. QED BY <1>4, <3>1, <3>2
    <2>. QED BY <1>1, <1>3, <1>4, <2>3, <2>4, <2>5 DEF AccInv, AccTypeOK
  <1>5. ASSUME To(a, "key", NoAdmin), accKey \in {0, Broken}, accKey' \in {accKey, Broken},
               UNCHANGED accKeys
        PROVE  AccInv'
    <2>1. NoAdmin \in Steps
      BY DEF Steps
    <2>2. /\ accAdmin' \in [Admins -> Steps] /\ accAdmin'[a] = NoAdmin
          /\ \A c \in Admins : c # a => accAdmin'[c] = accAdmin[c]
      BY <1>5, <2>1, ToKeeps
    <2>3. OneCreates' /\ OneRow'
      BY <1>1, <2>2 DEF AccInv, OneCreates, Creating, OneRow, NoAdmin
    <2>4. KeyFits'
      BY <1>1, <1>5, <2>2, NoKeyNoRow DEF KeyFits, NoAdmin
    <2>5. accKey' \in Nat \cup {Broken}
      BY <1>5
    <2>. QED BY <1>1, <1>3, <1>5, <2>2, <2>3, <2>4, <2>5 DEF AccInv, AccTypeOK
  <1>6. accKey \in Nat \cup {Broken} /\ accKeys \in Nat
    BY DEF AccInv, AccTypeOK
  <1>7. CASE accKey \notin {0, Broken} /\ WithKey(a, accKey) /\ UNCHANGED <<accKey, accKeys>>
    BY <1>4, <1>6, <1>7
  <1>8. CASE /\ accKey \in {0, Broken} /\ accKey' = accKeys + 1 /\ accKeys' = accKeys + 1
             /\ WithKey(a, accKeys + 1)
    <2>1. accKeys + 1 \in Nat \ {0}
      BY <1>6
    <2>. QED BY <1>4, <1>8, <2>1
  <1>. QED BY <1>5, <1>7, <1>8 DEF MakeKey, getOrCreateMasterEncKey

\* With the lock, the old records go, ...
LEMMA ReplaceStep ==
    ASSUME AccInv, NEW a \in Admins, Replace(a),
           UNCHANGED <<accNow, accRun, accSQL, accToken, accCode, accDamaged>>
    PROVE  AccInv'
  <1>1. UNCHANGED <<accKey, accKeys, accSSO>> /\ Unlocked
    BY DEF Replace
  <1>2. SessionsOK'
    BY SessionsKept
  <1>3. CASE To(a, "wait", [accAdmin[a] EXCEPT !.at = "create"]) /\ accRows' = {}
    <2>. DEFINE there == [accAdmin[a] EXCEPT !.at = "create"]
    <2>1. accAdmin[a] \in [at : {"wait", "create"}, user : SQLUsers, password : Nat, key : Nat \ {0}]
          /\ accAdmin[a].at = "wait"
      <3>1. accAdmin[a] \in Steps /\ accAdmin[a].at = "wait"
        BY <1>3 DEF AccInv, AccTypeOK, To
      <3>. QED BY <3>1, StepShapes
    <2>2. there \in Steps /\ there.key = accAdmin[a].key /\ there.at = "create"
      <3>1. there \in [at : {"wait", "create"}, user : SQLUsers, password : Nat, key : Nat \ {0}]
            /\ there.key = accAdmin[a].key /\ there.at = "create"
        BY <2>1
      <3>. QED BY <3>1 DEF Steps
    <2>3. /\ accAdmin' \in [Admins -> Steps] /\ accAdmin'[a] = there
          /\ \A c \in Admins : c # a => accAdmin'[c] = accAdmin[c]
      BY <1>3, <2>2, ToKeeps
    <2>4. OneCreates' /\ OneRow'
      BY <1>1, <1>3, <2>3 DEF OneCreates, Creating, OneRow, Unlocked
    <2>5. KeyFits'
      BY <1>1, <1>3, <2>1, <2>2, <2>3 DEF AccInv, KeyFits
    <2>. QED BY <1>1, <1>2, <1>3, <2>3, <2>4, <2>5 DEF AccInv, AccTypeOK
  <1>4. CASE To(a, "wait", NoAdmin) /\ UNCHANGED accRows
    <2>1. NoAdmin \in Steps
      BY DEF Steps
    <2>2. /\ accAdmin' \in [Admins -> Steps] /\ accAdmin'[a] = NoAdmin
          /\ \A c \in Admins : c # a => accAdmin'[c] = accAdmin[c]
      BY <1>4, <2>1, ToKeeps
    <2>3. (OneCreates /\ OneRow /\ KeyFits)'
      BY <1>1, <1>4, <2>2 DEF AccInv, OneCreates, Creating, OneRow, KeyFits, NoAdmin
    <2>. QED BY <1>1, <1>2, <1>4, <2>2, <2>3 DEF AccInv, AccTypeOK
  <1>. QED BY <1>3, <1>4 DEF Replace

\* ... and the new one comes where there is none.
LEMMA CreateStep ==
    ASSUME AccInv, NEW a \in Admins, CreateRow(a),
           UNCHANGED <<accNow, accRun, accSQL, accToken, accCode, accDamaged>>
    PROVE  AccInv'
  <1>1. UNCHANGED <<accKey, accKeys, accSSO>> /\ To(a, "create", NoAdmin)
    BY DEF CreateRow
  <1>2. SessionsOK'
    BY SessionsKept
  <1>3. NoAdmin \in Steps
    BY DEF Steps
  <1>4. /\ accAdmin' \in [Admins -> Steps] /\ accAdmin'[a] = NoAdmin
        /\ accAdmin[a] \in Steps /\ accAdmin[a].at = "create"
        /\ \A c \in Admins : c # a => accAdmin'[c] = accAdmin[c]
    BY <1>1, <1>3, ToKeeps
  <1>5. accRows = {} /\ \A c \in Admins : accAdmin'[c].at # "create"
    BY <1>4 DEF AccInv, OneCreates, Creating, NoAdmin
  <1>6. accAdmin[a] \in [at : {"wait", "create"}, user : SQLUsers, password : Nat, key : Nat \ {0}]
    BY <1>4, StepShapes
  <1>7. accRows' = {} \/ accRows' = {[user |-> accAdmin[a].user, password |-> accAdmin[a].password,
                                      key |-> accAdmin[a].key, status |-> "none"]}
    BY <1>5 DEF CreateRow
  <1>8. accRows' \subseteq Records /\ OneRow' /\ \A r \in accRows' : r.key = accAdmin[a].key
    BY <1>6, <1>7 DEF Records, Statuses, OneRow
  <1>9. OneCreates' /\ KeyFits'
    BY <1>1, <1>4, <1>5, <1>8 DEF AccInv, OneCreates, Creating, KeyFits, NoAdmin
  <1>. QED BY <1>1, <1>2, <1>4, <1>8, <1>9 DEF AccInv, AccTypeOK

\* Changing the configuration deletes records and makes none.
LEMMA ConfigKeeps ==
    ASSUME AccInv, NEW a \in Admins,
           \/ Modify(a)
           \/ \E enabled, readOnly \in BOOLEAN : SetConfig(a, enabled, readOnly),
           UNCHANGED <<accNow, accRun, accSQL, accToken, accCode, accDamaged>>
    PROVE  AccInv'
  <1>1. SessionsOK' /\ UNCHANGED <<accKey, accKeys>>
    BY SessionsKept DEF Modify, SetConfig
  <1>2. CASE Modify(a)
    <2>1. NoAdmin \in Steps /\ To(a, "modify", NoAdmin) /\ UNCHANGED accRows
      BY <1>2 DEF Steps, Modify
    <2>2. /\ accAdmin' \in [Admins -> Steps] /\ accAdmin'[a] = NoAdmin
          /\ accAdmin[a] \in Steps /\ accAdmin[a].at = "modify"
          /\ \A c \in Admins : c # a => accAdmin'[c] = accAdmin[c]
      BY <2>1, ToKeeps
    <2>3. accAdmin[a].enabled \in BOOLEAN /\ accAdmin[a].readOnly \in BOOLEAN
      BY <2>2, StepShapes
    <2>4. accSSO' \in [enabled : BOOLEAN, readOnly : BOOLEAN]
      BY <1>2, <2>3 DEF AccInv, AccTypeOK, Modify
    <2>5. (OneCreates /\ OneRow /\ KeyFits)'
      BY <1>1, <2>1, <2>2 DEF AccInv, OneCreates, Creating, OneRow, KeyFits, NoAdmin
    <2>. QED BY <1>1, <2>1, <2>2, <2>4, <2>5 DEF AccInv, AccTypeOK
  <1>3. ASSUME NEW enabled \in BOOLEAN, NEW readOnly \in BOOLEAN, SetConfig(a, enabled, readOnly)
        PROVE  AccInv'
    <2>. DEFINE there == [at |-> "modify", enabled |-> enabled, readOnly |-> readOnly]
    <2>1. there \in Steps /\ To(a, "idle", there) /\ accRows' \subseteq accRows /\ UNCHANGED accSSO
      BY <1>3 DEF Steps, SetConfig
    <2>2. /\ accAdmin' \in [Admins -> Steps] /\ accAdmin'[a] = there
          /\ \A c \in Admins : c # a => accAdmin'[c] = accAdmin[c]
      BY <2>1, ToKeeps
    <2>3. (OneCreates /\ OneRow /\ KeyFits)'
      BY <1>1, <2>1, <2>2 DEF AccInv, OneCreates, Creating, OneRow, KeyFits
    <2>. QED BY <1>1, <2>1, <2>2, <2>3 DEF AccInv, AccTypeOK
  <1>. QED BY <1>2, <1>3

-----------------------------------------------------------------------------
\* Time, restarts, users that change, a key file that is lost.
LEMMA AroundStep ==
    ASSUME AccInv, Later \/ Surroundings
    PROVE  AccInv'
  <1>1. CASE Later
    <2>1. /\ accNow' \in Nat
          /\ UNCHANGED <<accRun, accSQL, accSSO, accToken, accCode, accKey, accKeys, accRows, accAdmin,
                         accDamaged>>
      BY <1>1 DEF Later, AccInv, AccTypeOK, accSessionVars, accStoreVars
    <2>2. (OneCreates /\ OneRow /\ KeyFits)' /\ SessionsOK'
      BY <2>1, StoreKept, SessionsKept
    <2>. QED BY <2>1, <2>2 DEF AccInv, AccTypeOK
  <1>2. CASE Restart
    <2>1. /\ accRun' \in Nat /\ accAdmin' = [a \in Admins |-> NoAdmin]
          /\ UNCHANGED <<accNow, accSQL, accSSO, accToken, accCode, accKey, accKeys, accRows, accDamaged>>
      BY <1>2 DEF Restart, AccInv, AccTypeOK
    <2>2. accAdmin' \in [Admins -> Steps]
      BY <2>1 DEF Steps
    <2>3. (OneCreates /\ OneRow /\ KeyFits)'
      BY <2>1 DEF AccInv, OneCreates, Creating, OneRow, KeyFits, NoAdmin
    <2>. QED BY <2>1, <2>2, <2>3, SessionsKept DEF AccInv, AccTypeOK
  <1>3. ASSUME NEW u \in SQLUsers, UserChanges(u) PROVE AccInv'
    <2>1. UNCHANGED <<accNow, accRun, accSSO, accToken, accCode, accKey, accKeys, accRows, accAdmin,
                      accDamaged>>
      BY <1>3 DEF UserChanges, accSessionVars, accStoreVars
    <2>2. accSQL' \in Users
      BY <1>3 DEF UserChanges, AccInv, AccTypeOK, Users
    <2>3. (OneCreates /\ OneRow /\ KeyFits)' /\ SessionsOK'
      BY <2>1, StoreKept, SessionsKept
    <2>. QED BY <2>1, <2>2, <2>3 DEF AccInv, AccTypeOK
  <1>4. CASE KeyLost
    <2>1. /\ accKey' \in Nat \cup {Broken} /\ accDamaged' = TRUE
          /\ UNCHANGED <<accNow, accRun, accSQL, accSSO, accToken, accCode, accKeys, accRows, accAdmin>>
      BY <1>4 DEF KeyLost, accSessionVars
    <2>2. (OneCreates /\ OneRow /\ KeyFits)' /\ SessionsOK'
      BY <2>1, SessionsKept DEF AccInv, OneCreates, Creating, OneRow, KeyFits
    <2>. QED BY <2>1, <2>2 DEF AccInv, AccTypeOK
  <1>. QED BY <1>1, <1>2, <1>3, <1>4 DEF Surroundings

\* Every step keeps the invariant.
LEMMA NextInv == AccInv /\ [AccNext]_accVars => AccInv'
  <1>. SUFFICES ASSUME AccInv, [AccNext]_accVars PROVE AccInv'
    OBVIOUS
  <1>1. CASE BrowserStep
    BY <1>1, LoginSQLStep, ShareStep, LoginCodeStep, ImpersonateStep, LoginSSOStep DEF BrowserStep
  <1>2. CASE ImpersonationStep
    <2>1. UNCHANGED <<accNow, accRun, accSQL, accToken, accCode, accDamaged>>
      BY <1>2 DEF ImpersonationStep, accSessionVars
    <2>. QED BY <1>2, <2>1, VerifyStep, MakeKeyStep, ReplaceStep, CreateStep DEF ImpersonationStep
  <1>3. CASE ConfigStep
    <2>1. UNCHANGED <<accNow, accRun, accSQL, accToken, accCode, accDamaged>>
      BY <1>3 DEF ConfigStep, accSessionVars
    <2>. QED BY <1>3, <2>1, ConfigKeeps DEF ConfigStep
  <1>4. CASE Later \/ Surroundings
    BY <1>4, AroundStep
  <1>5. CASE UNCHANGED accVars
    <2>1. UNCHANGED <<accNow, accRun, accSQL, accSSO, accToken, accCode, accKey, accKeys, accRows,
                      accAdmin, accDamaged>>
      BY <1>5 DEF accVars, accSessionVars, accStoreVars
    <2>2. (OneCreates /\ OneRow /\ KeyFits)' /\ SessionsOK'
      BY <2>1, StoreKept, SessionsKept
    <2>. QED BY <2>1, <2>2 DEF AccInv, AccTypeOK
  <1>. QED BY <1>1, <1>2, <1>3, <1>4, <1>5 DEF AccNext

\* The inductive invariant of signing in.
THEOREM AccessInvariant == AccSpec => []AccInv
  <1>. QED BY InitInv, NextInv, PTL DEF AccSpec

\* SSO impersonates one SQL user, whatever administrators do at the same time, and its
\* record can be read while the key file is left alone.
THEOREM Impersonation == AccSpec => []OneImpersonation
  <1>1. AccInv => OneImpersonation
    <2>. SUFFICES ASSUME AccInv PROVE OneImpersonation
      OBVIOUS
    <2>1. Cardinality(accRows) <= 1
      <3>1. CASE accRows = {}
        BY <3>1, FS_EmptySet
      <3>2. ASSUME NEW r \in accRows PROVE Cardinality(accRows) <= 1
        <4>1. accRows = {r}
          BY <3>2 DEF AccInv, OneRow
        <4>2. Cardinality({r}) = 1
          BY FS_Singleton
        <4>. QED BY <4>1, <4>2
      <3>. QED BY <3>1, <3>2
    <2>2. ASSUME ~accDamaged, NEW r \in accRows PROVE Readable(r)
      <3>1. r.key \in Nat \ {0} /\ r.key = accKey
        BY <2>2 DEF AccInv, AccTypeOK, Records, KeyFits
      <3>. QED BY <3>1 DEF Readable, Broken
    <2>. QED BY <2>1, <2>2 DEF OneImpersonation
  <1>. QED BY <1>1, AccessInvariant, PTL

\* No session writes that began without that right, is used longer than it may be, or is
\* shared on when it was shared: for any life of tokens and of codes.
THEOREM Bounded == AccSpec => []SessionsBounded
  <1>1. AccInv => SessionsBounded
    <2>. SUFFICES ASSUME AccInv, NEW b \in Browsers, Accepted(accToken[b])
         PROVE  /\ accToken[b].write => accToken[b].root
                /\ accNow - accToken[b].made < TokenLife
                /\ accToken[b].from = "code" => accNow <= accToken[b].until /\ ~accToken[b].share
      BY DEF SessionsBounded
    <2>1. accToken[b] \in Sessions /\ SessionOK(accToken[b]) /\ accNow \in Nat
      BY DEF AccInv, AccTypeOK, SessionsOK, Accepted
    <2>2. accToken[b].made \in Int /\ TokenLife \in Nat
      BY <2>1, AccessAssumption DEF Sessions
    <2>3. accNow < accToken[b].made + TokenLife
      BY DEF Accepted
    <2>4. accNow - accToken[b].made < TokenLife
      BY <2>1, <2>2, <2>3
    <2>. QED BY <2>1, <2>4 DEF SessionOK, Accepted, ProcessSession
  <1>. QED BY <1>1, AccessInvariant, PTL

-----------------------------------------------------------------------------
(***************************************************************************)
(* Profiling, for any number of groups, of failures and of crashes, and    *)
(* any requests and clients: what the state of a group tells about its     *)
(* tasks.                                                                  *)
(***************************************************************************)
GroupStates == {"none", "running", "error", "finish", "partial"}
TaskStates == {"none", "running"} \union Final
RunStates == {"idle", "run", "wait", "ended"} \union Final
ClientStates == {"idle", "wait", "timeout", "ok", "error", "ignored", "cancel", "canceled",
                 "delete", "delete tasks", "delete group", "deleted"}
Loop == [at : {"select", "create"}, client : ProfClients \union {"none"},
         group : 0 .. MaxProfGroups, todo : Seq(TaskKinds)]
Client == [at : ClientStates, group : 0 .. MaxProfGroups, req : Seq(TaskKinds)]

ProfTypes ==
    /\ profDc \in {"none", "manual", "auto"}
    /\ profLoop \in Loop
    /\ profQueue \in Seq(ProfClients \X ProfRequests)
    /\ profClient \in [ProfClients -> Client]
    /\ profGroup \in [ProfGroups -> GroupStates]
    /\ profTask \in [ProfGroups -> Seq(TaskStates)]
    /\ profRun \in [ProfGroups -> Seq(RunStates)]
    /\ profKinds \in [ProfGroups -> Seq(TaskKinds)]
    /\ profLast \in 0 .. MaxProfGroups
    /\ profLost \subseteq ProfGroups
    /\ profFailures \in Nat /\ profCrashes \in Nat

\* The loop creates the tasks of a group.
CreatingGroup(g) == profLoop.at = "create" /\ profLoop.group = g

\* A group whose turn has not come has nothing.
UnusedOK ==
    /\ profLoop.at = "create" => profLoop.group \in 1 .. profLast
    /\ \A g \in ProfGroups : g > profLast => profGroup[g] = "none" /\ profTask[g] = <<>> /\ profRun[g] = <<>>

\* While its tasks are created, a group has not ended and none of them runs.
Created(group, tasks, runs) ==
    /\ group \notin Final
    /\ Len(runs) = Len(tasks)
    /\ \A k \in DOMAIN runs : runs[k] = "idle" /\ tasks[k] \in {"running", "none"}

\* Once started, a task and its row agree, and so do the group and its row; if the rows
\* were not deleted.
Launched(group, tasks, runs) ==
    LET n == Len(tasks) IN
    /\ Len(runs) = n + 1
    /\ runs[n + 1] \in {"wait", "ended"}
    /\ \A k \in 1 .. n : \/ runs[k] = "run" /\ tasks[k] \in {"running", "none"}
                         \/ runs[k] \in Final /\ tasks[k] \in {runs[k], "none"}
    /\ runs[n + 1] = "wait" => group \notin Final
    /\ runs[n + 1] = "ended" => /\ \A k \in 1 .. n : runs[k] \in Final
                                /\ group \in {Verdict({runs[k] : k \in 1 .. n}), "none"}

\* What the state of a group tells.
Told(group, tasks) ==
    group \in Final =>
        /\ \A k \in DOMAIN tasks : tasks[k] # "running"
        /\ LET ends == Range(tasks) IN
           "none" \notin ends =>
              CASE group = "finish" -> "error" \notin ends
                [] group = "error" -> "error" \in ends /\ "finish" \notin ends
                [] OTHER -> {"error", "finish"} \subseteq ends

\* A group of which no row was lost.
GroupOK(g) ==
    /\ CreatingGroup(g) => Created(profGroup[g], profTask[g], profRun[g])
    /\ ~CreatingGroup(g) /\ profRun[g] # <<>> => Launched(profGroup[g], profTask[g], profRun[g])
    /\ ~CreatingGroup(g) /\ profRun[g] = <<>> => profGroup[g] # "running" /\ Told(profGroup[g], profTask[g])

GroupsOK == \A g \in ProfGroups \ profLost : GroupOK(g)

ProfIInv == ProfTypes /\ UnusedOK /\ GroupsOK

-----------------------------------------------------------------------------
\* What is started agrees with its rows, so its state tells the truth.
LEMMA LaunchedTold ==
    ASSUME NEW group, NEW tasks \in Seq(TaskStates), NEW runs \in Seq(RunStates),
           Launched(group, tasks, runs)
    PROVE  Told(group, tasks)
  <1>. DEFINE n == Len(tasks)
              ends == {runs[k] : k \in 1 .. n}
  <1>. SUFFICES ASSUME group \in Final PROVE Told(group, tasks)
    BY DEF Told
  <1>1. n \in Nat /\ DOMAIN tasks = 1 .. n
    BY LenProperties
  <1>2. /\ \A k \in 1 .. n : runs[k] \in Final /\ tasks[k] \in {runs[k], "none"}
        /\ group = Verdict(ends)
    BY DEF Launched, Final
  <1>3. \A k \in DOMAIN tasks : tasks[k] # "running"
    BY <1>1, <1>2 DEF Final
  <1>4. ASSUME "none" \notin Range(tasks) PROVE Range(tasks) = ends
    <2>1. \A k \in DOMAIN tasks : tasks[k] \in Range(tasks)
      BY DEF Range
    <2>2. \A k \in 1 .. n : tasks[k] = runs[k]
      BY <1>1, <1>2, <1>4, <2>1
    <2>. QED BY <1>1, <2>2 DEF Range
  <1>. HIDE DEF ends, n
  <1>5. CASE "none" \notin Range(tasks)
    <2>1. Range(tasks) = ends
      BY <1>4, <1>5
    <2>2. CASE "error" \notin ends
      BY <1>2, <1>3, <2>1, <2>2 DEF Told, Verdict
    <2>3. CASE "error" \in ends /\ "finish" \in ends
      BY <1>2, <1>3, <2>1, <2>3 DEF Told, Verdict
    <2>4. CASE "error" \in ends /\ "finish" \notin ends
      BY <1>2, <1>3, <2>1, <2>4 DEF Told, Verdict
    <2>. QED BY <2>2, <2>3, <2>4
  <1>6. CASE "none" \in Range(tasks)
    BY <1>3, <1>6 DEF Told
  <1>. QED BY <1>5, <1>6

\* A task is created, with its row or without it.
LEMMA CreatedAppend ==
    ASSUME NEW group, NEW tasks \in Seq(TaskStates), NEW runs \in Seq(RunStates),
           Created(group, tasks, runs), NEW row \in {"running", "none"}
    PROVE  /\ Created(group, Append(tasks, row), Append(runs, "idle"))
           /\ Append(tasks, row) \in Seq(TaskStates) /\ Append(runs, "idle") \in Seq(RunStates)
  <1>1. row \in TaskStates /\ "idle" \in RunStates
    BY DEF TaskStates, RunStates
  <1>2. Append(tasks, row) \in Seq(TaskStates) /\ Append(runs, "idle") \in Seq(RunStates)
    BY <1>1, AppendProperties
  <1>3. Len(runs) = Len(tasks) /\ Len(tasks) \in Nat
    BY LenProperties DEF Created
  <1>4. ASSUME NEW k \in DOMAIN Append(runs, "idle")
        PROVE  Append(runs, "idle")[k] = "idle" /\ Append(tasks, row)[k] \in {"running", "none"}
    <2>1. k \in 1 .. Len(runs) + 1 /\ DOMAIN runs = 1 .. Len(runs)
      BY <1>1, <1>4, AppendProperties, LenProperties
    <2>2. CASE k = Len(runs) + 1
      BY <1>1, <1>3, <2>2, AppendProperties
    <2>3. CASE k \in 1 .. Len(runs)
      <3>1. Append(runs, "idle")[k] = runs[k] /\ Append(tasks, row)[k] = tasks[k]
        BY <1>1, <1>3, <2>3, AppendProperties
      <3>. QED BY <2>1, <2>3, <3>1 DEF Created
    <2>. QED BY <1>3, <2>1, <2>2, <2>3
  <1>. QED BY <1>1, <1>2, <1>3, <1>4, AppendProperties DEF Created

\* All tasks of a group are started, and the goroutine that waits for them.
LEMMA CreatedLaunched ==
    ASSUME NEW group, NEW tasks \in Seq(TaskStates), NEW runs \in Seq(RunStates),
           Created(group, tasks, runs),
           NEW new, new = Append([k \in DOMAIN runs |-> "run"], "wait")
    PROVE  Launched(group, tasks, new) /\ new \in Seq(RunStates) /\ new # <<>>
  <1>. DEFINE s == [k \in DOMAIN runs |-> "run"]
              n == Len(tasks)
  <1>1. n \in Nat /\ Len(runs) = n /\ DOMAIN runs = 1 .. n /\ DOMAIN tasks = 1 .. n
    BY LenProperties DEF Created
  <1>2. {"run", "wait"} \subseteq RunStates
    BY DEF RunStates
  <1>3. s \in Seq(RunStates) /\ Len(s) = n
    BY <1>1, <1>2
  <1>4. /\ new \in Seq(RunStates) /\ Len(new) = n + 1 /\ new[n + 1] = "wait"
        /\ \A k \in 1 .. n : new[k] = s[k]
    BY <1>2, <1>3, AppendProperties
  <1>5. \A k \in 1 .. n : new[k] = "run" /\ tasks[k] \in {"running", "none"}
    BY <1>1, <1>4 DEF Created
  <1>6. new # <<>>
    BY <1>1, <1>4, EmptySeq
  <1>. HIDE DEF n, s
  <1>7. group \notin Final
    BY DEF Created
  <1>8. Launched(group, tasks, new)
    BY <1>4, <1>5, <1>7 DEF Launched, n
  <1>. QED BY <1>4, <1>6, <1>8

\* A task ends and its row is written.
LEMMA LaunchedTask ==
    ASSUME NEW group, NEW tasks \in Seq(TaskStates), NEW runs \in Seq(RunStates),
           Launched(group, tasks, runs), NEW k \in 1 .. Len(runs), k < Len(runs), runs[k] = "run",
           NEW outcome \in {"skipped", "finish", "error"},
           NEW t, t = [tasks EXCEPT ![k] = outcome], NEW r, r = [runs EXCEPT ![k] = outcome]
    PROVE  Launched(group, t, r) /\ t \in Seq(TaskStates) /\ r \in Seq(RunStates) /\ r # <<>>
  <1>. DEFINE n == Len(tasks)
  <1>1. n \in Nat /\ Len(runs) = n + 1 /\ DOMAIN runs = 1 .. n + 1 /\ DOMAIN tasks = 1 .. n
    BY LenProperties DEF Launched
  <1>2. outcome \in TaskStates /\ outcome \in RunStates /\ outcome \in Final
    BY DEF TaskStates, RunStates, Final
  <1>3. k \in 1 .. n /\ k # n + 1
    BY <1>1
  <1>4. /\ t \in Seq(TaskStates) /\ Len(t) = n /\ r \in Seq(RunStates) /\ Len(r) = n + 1
        /\ \A j \in 1 .. n : t[j] = IF j = k THEN outcome ELSE tasks[j]
        /\ \A j \in 1 .. n + 1 : r[j] = IF j = k THEN outcome ELSE runs[j]
    BY <1>1, <1>2, <1>3, ExceptSeq
  <1>5. r # <<>>
    BY <1>1, <1>4, EmptySeq
  <1>. HIDE DEF n
  <1>6. r[n + 1] = runs[n + 1]
    BY <1>1, <1>3, <1>4
  <1>7. r[n + 1] = "wait" /\ group \notin Final
    BY <1>1, <1>3, <1>6 DEF Launched, n, Final
  <1>8. \A j \in 1 .. n : \/ r[j] = "run" /\ t[j] \in {"running", "none"}
                          \/ r[j] \in Final /\ t[j] \in {r[j], "none"}
    BY <1>1, <1>2, <1>4 DEF Launched, n
  <1>9. Launched(group, t, r)
    BY <1>4, <1>7, <1>8 DEF Launched
  <1>. QED BY <1>4, <1>5, <1>9

\* The goroutine of a group writes the row of the group when the tasks have ended.
LEMMA LaunchedEnds ==
    ASSUME NEW group, NEW tasks \in Seq(TaskStates), NEW runs \in Seq(RunStates),
           Launched(group, tasks, runs), NEW ends, ends = {runs[k] : k \in 1 .. Len(runs) - 1},
           ends \subseteq Final, NEW r, r = [runs EXCEPT ![Len(runs)] = "ended"]
    PROVE  Launched(Verdict(ends), tasks, r) /\ r \in Seq(RunStates) /\ r # <<>>
  <1>. DEFINE n == Len(tasks)
  <1>1. n \in Nat /\ Len(runs) = n + 1 /\ DOMAIN runs = 1 .. n + 1
    BY LenProperties DEF Launched
  <1>2. "ended" \in RunStates
    BY DEF RunStates
  <1>3. /\ r \in Seq(RunStates) /\ Len(r) = n + 1 /\ r[n + 1] = "ended"
        /\ \A j \in 1 .. n : r[j] = runs[j]
    BY <1>1, <1>2, ExceptSeq
  <1>4. r # <<>>
    BY <1>1, <1>3, EmptySeq
  <1>. HIDE DEF n
  <1>5. ends = {runs[k] : k \in 1 .. n} /\ ends = {r[k] : k \in 1 .. n}
    BY <1>1, <1>3
  <1>6. \A k \in 1 .. n : r[k] \in Final /\ tasks[k] \in {r[k], "none"}
    <2>. SUFFICES ASSUME NEW k \in 1 .. n PROVE r[k] \in Final /\ tasks[k] \in {r[k], "none"}
      OBVIOUS
    <2>1. runs[k] \in Final /\ r[k] = runs[k]
      BY <1>3, <1>5
    <2>2. runs[k] # "run"
      BY <2>1 DEF Final
    <2>. QED BY <2>1, <2>2 DEF Launched, n
  <1>7. Launched(Verdict(ends), tasks, r)
    BY <1>3, <1>5, <1>6 DEF Launched, n
  <1>. QED BY <1>3, <1>4, <1>7

\* The rows of the tasks are deleted.
LEMMA RowsDeleted ==
    ASSUME NEW group, NEW tasks \in Seq(TaskStates), NEW runs \in Seq(RunStates),
           NEW t, t = [k \in DOMAIN tasks |-> "none"]
    PROVE  /\ t \in Seq(TaskStates)
           /\ Created(group, tasks, runs) => Created(group, t, runs)
           /\ Launched(group, tasks, runs) => Launched(group, t, runs)
           /\ Told(group, tasks) => Told(group, t)
  <1>. DEFINE n == Len(tasks)
  <1>1. n \in Nat /\ DOMAIN tasks = 1 .. n /\ DOMAIN runs = 1 .. Len(runs)
    BY LenProperties
  <1>2. t \in Seq(TaskStates) /\ Len(t) = n /\ DOMAIN t = 1 .. n
    BY <1>1 DEF TaskStates
  <1>3. \A k \in 1 .. n : t[k] = "none"
    BY <1>1
  <1>. HIDE DEF n
  <1>4. Created(group, tasks, runs) => Created(group, t, runs)
    BY <1>1, <1>2, <1>3 DEF Created, n
  <1>5. Launched(group, tasks, runs) => Launched(group, t, runs)
    BY <1>1, <1>2, <1>3 DEF Launched, n
  <1>6. ASSUME Told(group, tasks) PROVE Told(group, t)
    <2>1. CASE n = 0
      <3>1. DOMAIN t = {} /\ DOMAIN tasks = {}
        BY <1>1, <1>2, <2>1
      <3>2. Range(t) = {} /\ Range(tasks) = {}
        BY <3>1 DEF Range
      <3>. QED BY <1>6, <3>1, <3>2 DEF Told
    <2>2. CASE n # 0
      <3>1. 1 \in DOMAIN t /\ t[1] = "none"
        BY <1>1, <1>2, <1>3, <2>2
      <3>2. "none" \in Range(t)
        BY <3>1 DEF Range
      <3>. QED BY <1>2, <1>3, <3>2 DEF Told
    <2>. QED BY <2>1, <2>2
  <1>. QED BY <1>2, <1>4, <1>5, <1>6

\* The row of the group is deleted.
LEMMA GroupDeleted ==
    ASSUME NEW group, NEW tasks, NEW runs
    PROVE  /\ Created(group, tasks, runs) => Created("none", tasks, runs)
           /\ Launched(group, tasks, runs) => Launched("none", tasks, runs)
           /\ Told("none", tasks)
  BY DEF Created, Launched, Told, Final

-----------------------------------------------------------------------------
\* What a step says of a group that it does not change.
Same(g) ==
    /\ profGroup'[g] = profGroup[g] /\ profTask'[g] = profTask[g] /\ profRun'[g] = profRun[g]
    /\ CreatingGroup(g)' <=> CreatingGroup(g)

\* A group that a step does not touch stays as it should be.
LEMMA SameOK ==
    ASSUME NEW g, Same(g), GroupOK(g)
    PROVE  GroupOK(g)'
  BY DEF Same, GroupOK

\* A step that changes no group keeps what is said of the groups.
LEMMA NothingChanges ==
    ASSUME UnusedOK, GroupsOK, UNCHANGED <<profRowVars, profRun, profLast, profLost>>,
           \/ UNCHANGED profLoop
           \/ profLoop.at = "select" /\ profLoop'.at = "select"
    PROVE  UnusedOK' /\ GroupsOK'
  <1>1. ASSUME NEW g \in ProfGroups PROVE Same(g)
    BY <1>1 DEF Same, CreatingGroup, profRowVars
  <1>2. GroupsOK'
    BY <1>1, SameOK DEF GroupsOK
  <1>3. UnusedOK'
    BY DEF UnusedOK, profRowVars
  <1>. QED BY <1>2, <1>3

\* What the rows of a group and its tasks look like.
LEMMA Values ==
    ASSUME ProfTypes, NEW g \in ProfGroups
    PROVE  /\ profGroup[g] \in GroupStates
           /\ profTask[g] \in Seq(TaskStates)
           /\ profRun[g] \in Seq(RunStates)
  BY DEF ProfTypes

\* The loop at rest and a client without a request.
LEMMA RestTypes ==
    Resting \in Loop /\ NoOne \in Client
  BY ProfAssumption, EmptySeq DEF Resting, NoOne, Loop, Client, ClientStates

\* An answer only changes who gets it.
LEMMA AnswerTypes ==
    ASSUME ProfTypes, NEW c, NEW outcome \in ClientStates, Answer(c, outcome)
    PROVE  profClient' \in [ProfClients -> Client]
  BY DEF ProfTypes, Answer, Client

-----------------------------------------------------------------------------
\* A group is started, or its row could not be created.
LEMMA StartGroupTypes ==
    ASSUME ProfTypes, NEW client \in ProfClients \union {"none"}, NEW req \in Seq(TaskKinds),
           StartGroup(client, req)
    PROVE  /\ profLoop' \in Loop /\ profClient' \in [ProfClients -> Client]
           /\ profGroup' \in [ProfGroups -> GroupStates]
           /\ profTask' \in [ProfGroups -> Seq(TaskStates)]
           /\ profRun' \in [ProfGroups -> Seq(RunStates)]
           /\ profKinds' \in [ProfGroups -> Seq(TaskKinds)]
           /\ profLast' \in 0 .. MaxProfGroups /\ profFailures' \in Nat
  <1>1. CASE ProfFails /\ Answer(client, "error")
             /\ UNCHANGED <<profRowVars, profLoop, profRun, profKinds, profLast>>
    <2>1. profClient' \in [ProfClients -> Client]
      BY <1>1, AnswerTypes DEF ClientStates
    <2>. QED BY <1>1, <2>1 DEF ProfTypes, ProfFails, profRowVars
  <1>2. CASE /\ profLast < MaxProfGroups
             /\ profLast' = profLast + 1
             /\ profGroup' = [profGroup EXCEPT ![profLast'] = "running"]
             /\ profKinds' = [profKinds EXCEPT ![profLast'] = req]
             /\ profLoop' = [at |-> "create", client |-> client, group |-> profLast', todo |-> req]
             /\ ProfWorks
             /\ UNCHANGED <<profTask, profRun, profClient>>
    <2>1. profLast' \in 0 .. MaxProfGroups
      BY <1>2, ProfAssumption DEF ProfTypes
    <2>2. profLoop' \in Loop
      BY <1>2, <2>1 DEF Loop
    <2>3. profGroup' \in [ProfGroups -> GroupStates]
      BY <1>2 DEF ProfTypes, GroupStates
    <2>4. profKinds' \in [ProfGroups -> Seq(TaskKinds)]
      BY <1>2 DEF ProfTypes
    <2>. QED BY <1>2, <2>1, <2>2, <2>3, <2>4 DEF ProfTypes, ProfWorks
  <1>. QED BY <1>1, <1>2 DEF StartGroup

\* A group that is started is a new one, in which nothing runs.
LEMMA StartGroupKeeps ==
    ASSUME ProfTypes, UnusedOK, GroupsOK, profLoop.at = "select", UNCHANGED profLost,
           NEW client, NEW req, StartGroup(client, req)
    PROVE  UnusedOK' /\ GroupsOK'
  <1>1. CASE UNCHANGED <<profRowVars, profLoop, profRun, profKinds, profLast>>
    BY <1>1, NothingChanges
  <1>2. CASE /\ profLast < MaxProfGroups
             /\ profLast' = profLast + 1
             /\ profGroup' = [profGroup EXCEPT ![profLast'] = "running"]
             /\ profLoop' = [at |-> "create", client |-> client, group |-> profLast', todo |-> req]
             /\ UNCHANGED <<profTask, profRun, profClient>>
    <2>1. PICK n : n = profLast + 1
      OBVIOUS
    <2>2. n \in ProfGroups /\ n > profLast /\ profLast \in Nat
      BY <1>2, <2>1, ProfAssumption DEF ProfTypes, ProfGroups
    <2>3. /\ profGroup[n] = "none" /\ profTask[n] = <<>> /\ profRun[n] = <<>>
          /\ profGroup'[n] = "running" /\ profTask'[n] = <<>> /\ profRun'[n] = <<>>
      BY <1>2, <2>1, <2>2 DEF UnusedOK, ProfTypes
    <2>4. profLoop'.at = "create" /\ profLoop'.group = n
      BY <1>2, <2>1
    <2>5. GroupOK(n)'
      <3>1. Created("running", <<>>, <<>>)
        BY DEF Created, Final
      <3>. QED BY <2>3, <2>4, <3>1 DEF GroupOK, CreatingGroup
    <2>6. ASSUME NEW g \in ProfGroups, g # n PROVE Same(g)
      BY <1>2, <2>1, <2>4, <2>6 DEF Same, CreatingGroup, ProfTypes
    <2>7. GroupsOK'
      BY <2>5, <2>6, SameOK DEF GroupsOK
    <2>8. UnusedOK'
      <3>1. profLoop'.group \in 1 .. profLast'
        BY <1>2, <2>1, <2>2, <2>4
      <3>2. ASSUME NEW g \in ProfGroups, g > profLast'
            PROVE  profGroup'[g] = "none" /\ profTask'[g] = <<>> /\ profRun'[g] = <<>>
        <4>1. g # n /\ g > profLast
          BY <1>2, <2>1, <2>2, <3>2 DEF ProfGroups
        <4>. QED BY <2>6, <4>1 DEF UnusedOK, Same
      <3>. QED BY <3>1, <3>2 DEF UnusedOK
    <2>. QED BY <2>7, <2>8
  <1>. QED BY <1>1, <1>2 DEF StartGroup

\* A new configuration may start the automatic collection.
LEMMA PushedKeeps ==
    ASSUME ProfIInv, NEW dc \in {"manual", "auto"}, Pushed(dc)
    PROVE  ProfIInv'
  <1>1. CASE dc = "auto"
    <2>0. StartGroup("none", <<>>)
      BY <1>1 DEF Pushed
    <2>1. UnusedOK' /\ GroupsOK'
      BY <2>0, StartGroupKeeps DEF Pushed, ProfIInv
    <2>2. <<>> \in Seq(TaskKinds)
      BY EmptySeq
    <2>. QED BY <1>1, <2>0, <2>1, <2>2, StartGroupTypes DEF Pushed, ProfIInv, ProfTypes
  <1>2. CASE dc = "manual"
    <2>1. UNCHANGED <<profRowVars, profLoop, profRun, profClient, profKinds, profLast, profFailures>>
      BY <1>2 DEF Pushed
    <2>2. UnusedOK' /\ GroupsOK'
      BY <2>1, NothingChanges DEF Pushed, ProfIInv
    <2>. QED BY <1>2, <2>1, <2>2 DEF Pushed, ProfIInv, ProfTypes, profRowVars
  <1>. QED BY <1>1, <1>2

\* The automatic collection starts a group while the loop is at rest.
LEMMA TimeComeKeeps ==
    ASSUME ProfIInv, TimeCome
    PROVE  ProfIInv'
  <1>1. UnusedOK' /\ GroupsOK'
    BY StartGroupKeeps DEF TimeCome, ProfIInv
  <1>2. <<>> \in Seq(TaskKinds)
    BY EmptySeq
  <1>. QED BY <1>1, <1>2, StartGroupTypes DEF TimeCome, ProfIInv, ProfTypes

\* A request from the queue starts a group, or is refused.
LEMMA HandleRequestKeeps ==
    ASSUME ProfIInv, HandleRequest
    PROVE  ProfIInv'
  <1>. DEFINE s == Head(profQueue)
  <1>1. s \in ProfClients \X ProfRequests /\ profQueue' \in Seq(ProfClients \X ProfRequests)
    BY HeadTailProperties DEF ProfIInv, ProfTypes, HandleRequest
  <1>2. s[1] \in ProfClients /\ s[2] \in Seq(TaskKinds)
    BY <1>1, ProfAssumption
  <1>3. CASE profDc = "auto"
    <2>1. profClient' \in [ProfClients -> Client]
      <3>1. Answer(s[1], "ignored")
        BY <1>3 DEF HandleRequest
      <3>. QED BY <3>1, AnswerTypes DEF ProfIInv, ClientStates
    <2>2. /\ UNCHANGED <<profRowVars, profLoop, profRun, profKinds, profLast, profFailures>>
          /\ UNCHANGED <<profDc, profLost, profCrashes>>
      BY <1>3 DEF HandleRequest
    <2>3. UnusedOK' /\ GroupsOK'
      BY <2>2, NothingChanges DEF ProfIInv
    <2>. QED BY <1>1, <2>1, <2>2, <2>3 DEF ProfIInv, ProfTypes, profRowVars
  <1>4. CASE profDc # "auto"
    <2>1. StartGroup(s[1], s[2]) /\ profLoop.at = "select"
      BY <1>4 DEF HandleRequest
    <2>2. UNCHANGED <<profDc, profLost, profCrashes>>
      BY DEF HandleRequest
    <2>. HIDE DEF s
    <2>3. UnusedOK' /\ GroupsOK'
      BY <2>1, <2>2, StartGroupKeeps DEF ProfIInv
    <2>. QED BY <1>1, <1>2, <2>1, <2>2, <2>3, StartGroupTypes DEF ProfIInv, ProfTypes
  <1>. QED BY <1>3, <1>4

-----------------------------------------------------------------------------
\* One group changes, and it is still as it should be unless it is lost.
LEMMA OneChanges ==
    ASSUME ProfTypes, UnusedOK, GroupsOK, NEW g \in ProfGroups, g <= profLast, UNCHANGED profLast,
           \/ UNCHANGED profLoop
           \/ profLoop.at = "create" /\ profLoop.group = g /\ profLoop'.at = "select"
           \/ profLoop.at = "create" /\ profLoop.group = g /\ profLoop'.at = "create" /\ profLoop'.group = g,
           profLost' = profLost \/ profLost' = profLost \union {g},
           \A k \in ProfGroups : k # g => /\ profGroup'[k] = profGroup[k]
                                          /\ profTask'[k] = profTask[k] /\ profRun'[k] = profRun[k],
           g \notin profLost /\ GroupOK(g) /\ g \notin profLost' => GroupOK(g)'
    PROVE  UnusedOK' /\ GroupsOK'
  <1>1. ASSUME NEW k \in ProfGroups, k # g PROVE Same(k)
    BY <1>1 DEF Same, CreatingGroup
  <1>2. ASSUME NEW k \in ProfGroups, k \notin profLost' PROVE GroupOK(k)'
    <2>1. k \notin profLost /\ GroupOK(k)
      BY <1>2 DEF GroupsOK
    <2>. QED BY <1>1, <1>2, <2>1, SameOK
  <1>3. ASSUME NEW k \in ProfGroups, k > profLast'
        PROVE  profGroup'[k] = "none" /\ profTask'[k] = <<>> /\ profRun'[k] = <<>>
    <2>1. k # g /\ k > profLast
      BY <1>3 DEF ProfTypes, ProfGroups
    <2>. QED BY <1>1, <2>1 DEF UnusedOK, Same
  <1>4. GroupsOK'
    BY <1>2 DEF GroupsOK
  <1>5. UnusedOK'
    BY <1>3 DEF UnusedOK
  <1>. QED BY <1>4, <1>5

\* The group that the loop creates.
LEMMA CreatingLoop ==
    ASSUME ProfTypes, UnusedOK, profLoop.at = "create", NEW g, g = profLoop.group
    PROVE  g \in ProfGroups /\ g <= profLast /\ CreatingGroup(g) /\ g \in 0 .. MaxProfGroups
  BY ProfAssumption DEF ProfTypes, UnusedOK, CreatingGroup, ProfGroups, Loop

\* One more task is made for the group that is being created.
LEMMA CreateTaskKeeps ==
    ASSUME ProfIInv, CreateTask
    PROVE  ProfIInv'
  <1>. DEFINE G == profLoop.group
  <1>1. PICK g : g = G
    OBVIOUS
  <1>2. /\ g \in ProfGroups /\ g <= profLast /\ CreatingGroup(g)
        /\ profGroup[g] \in GroupStates /\ profTask[g] \in Seq(TaskStates) /\ profRun[g] \in Seq(RunStates)
    BY <1>1, CreatingLoop, Values DEF ProfIInv, CreateTask
  <1>3. UNCHANGED <<profGroup, profDc, profQueue, profKinds, profLast, profCrashes>>
    BY DEF CreateTask
  <1>4. CASE Head(profLoop.todo) = "invalid"
    <2>1. /\ Answer(profLoop.client, "error") /\ profLoop' = Resting
          /\ profLost' = profLost \union {g} /\ UNCHANGED <<profTask, profRun>> /\ UNCHANGED profFailures
      BY <1>1, <1>4 DEF CreateTask, ProfWorks
    <2>2. profClient' \in [ProfClients -> Client]
      BY <2>1, AnswerTypes DEF ProfIInv, ClientStates
    <2>3. ProfTypes'
      BY <1>2, <1>3, <2>1, <2>2, RestTypes DEF ProfIInv, ProfTypes
    <2>4. UnusedOK' /\ GroupsOK'
      <3>1. profLoop'.at = "select" /\ profLoop.at = "create"
        BY <2>1 DEF Resting, CreateTask
      <3>. QED BY <1>1, <1>2, <1>3, <2>1, <3>1, OneChanges DEF ProfIInv
    <2>. QED BY <2>3, <2>4 DEF ProfIInv
  <1>5. CASE Head(profLoop.todo) # "invalid"
    <2>1. PICK row \in {"running", "none"} :
            profTask' = [profTask EXCEPT ![g] = Append(@, row)]
      BY <1>1, <1>5 DEF CreateTask
    <2>2. profFailures' \in Nat
      BY <1>5 DEF CreateTask, ProfWorks, ProfFails, ProfIInv, ProfTypes
    <2>3. /\ profRun' = [profRun EXCEPT ![g] = Append(@, "idle")]
          /\ profLoop' = [profLoop EXCEPT !.todo = Tail(@)]
          /\ UNCHANGED <<profClient, profLost>>
      BY <1>1, <1>5 DEF CreateTask
    <2>4. profLoop.todo \in Seq(TaskKinds) /\ profLoop.todo # <<>> /\ profLoop \in Loop
      BY DEF ProfIInv, ProfTypes, Loop, CreateTask
    <2>5. Tail(profLoop.todo) \in Seq(TaskKinds)
      BY <2>4, HeadTailProperties
    <2>6. profLoop' \in Loop /\ profLoop'.at = "create" /\ profLoop'.group = g
      <3>1. profLoop.at = "create"
        BY DEF CreateTask
      <3>. QED BY <1>1, <2>3, <2>4, <2>5, <3>1 DEF Loop
    <2>7. row \in TaskStates /\ "idle" \in RunStates
      BY DEF TaskStates, RunStates
    <2>8. /\ Append(profTask[g], row) \in Seq(TaskStates)
          /\ Append(profRun[g], "idle") \in Seq(RunStates)
      BY <1>2, <2>7, AppendProperties
    <2>9. /\ profTask'[g] = Append(profTask[g], row) /\ profRun'[g] = Append(profRun[g], "idle")
          /\ profGroup'[g] = profGroup[g]
      BY <1>2, <1>3, <2>1, <2>3 DEF ProfIInv, ProfTypes
    <2>10. ProfTypes'
      BY <1>2, <1>3, <2>1, <2>2, <2>3, <2>6, <2>8 DEF ProfIInv, ProfTypes
    <2>11. GroupOK(g) => GroupOK(g)'
      <3>. SUFFICES ASSUME GroupOK(g) PROVE GroupOK(g)'
        OBVIOUS
      <3>1. Created(profGroup[g], profTask[g], profRun[g])
        BY <1>2 DEF GroupOK
      <3>2. Created(profGroup[g], Append(profTask[g], row), Append(profRun[g], "idle"))
        BY <1>2, <3>1, CreatedAppend
      <3>. QED BY <2>6, <2>9, <3>2 DEF GroupOK, CreatingGroup
    <2>12. \A k \in ProfGroups : k # g => /\ profGroup'[k] = profGroup[k]
                                          /\ profTask'[k] = profTask[k] /\ profRun'[k] = profRun[k]
      BY <1>2, <1>3, <2>1, <2>3 DEF ProfIInv, ProfTypes
    <2>13. UnusedOK' /\ GroupsOK'
      <3>1. profLoop.at = "create"
        BY DEF CreateTask
      <3>. QED BY <1>1, <1>2, <1>3, <2>3, <2>6, <2>11, <2>12, <3>1, OneChanges DEF ProfIInv
    <2>. QED BY <2>10, <2>13 DEF ProfIInv
  <1>. QED BY <1>4, <1>5

\* All tasks of the group begin, and the goroutine that waits for them.
LEMMA LaunchKeeps ==
    ASSUME ProfIInv, Launch
    PROVE  ProfIInv'
  <1>1. PICK g : g = profLoop.group
    OBVIOUS
  <1>2. /\ g \in ProfGroups /\ g <= profLast /\ CreatingGroup(g)
        /\ profGroup[g] \in GroupStates /\ profTask[g] \in Seq(TaskStates) /\ profRun[g] \in Seq(RunStates)
    BY <1>1, CreatingLoop, Values DEF ProfIInv, Launch
  <1>3. /\ profLoop' = Resting /\ Answer(profLoop.client, "ok")
        /\ profRun' = [profRun EXCEPT ![g] = Append([k \in DOMAIN @ |-> "run"], "wait")]
        /\ UNCHANGED <<profRowVars, profDc, profQueue, profHistory>>
    BY <1>1 DEF Launch
  <1>4. PICK new : new = Append([k \in DOMAIN profRun[g] |-> "run"], "wait")
    OBVIOUS
  <1>5. profRun'[g] = new /\ profTask'[g] = profTask[g] /\ profGroup'[g] = profGroup[g]
    BY <1>2, <1>3, <1>4 DEF ProfIInv, ProfTypes, profRowVars
  <1>6. new \in Seq(RunStates)
    <2>1. [k \in DOMAIN profRun[g] |-> "run"] \in Seq(RunStates)
      <3>1. DOMAIN profRun[g] = 1 .. Len(profRun[g]) /\ Len(profRun[g]) \in Nat
        BY <1>2, LenProperties
      <3>. QED BY <3>1 DEF RunStates
    <2>. QED BY <1>4, <2>1, AppendProperties DEF RunStates
  <1>7. profClient' \in [ProfClients -> Client]
    BY <1>3, AnswerTypes DEF ProfIInv, ClientStates
  <1>8. ProfTypes'
    BY <1>2, <1>3, <1>4, <1>6, <1>7, RestTypes DEF ProfIInv, ProfTypes, profRowVars, profHistory
  <1>9. profLoop.at = "create" /\ profLoop'.at = "select"
    BY <1>3 DEF Launch, Resting
  <1>10. GroupOK(g) => GroupOK(g)'
    <2>. SUFFICES ASSUME GroupOK(g) PROVE GroupOK(g)'
      OBVIOUS
    <2>1. Created(profGroup[g], profTask[g], profRun[g])
      BY <1>2 DEF GroupOK
    <2>2. Launched(profGroup[g], profTask[g], new) /\ new # <<>>
      BY <1>2, <1>4, <2>1, CreatedLaunched
    <2>. QED BY <1>5, <1>9, <2>2 DEF GroupOK, CreatingGroup
  <1>11. \A k \in ProfGroups : k # g => /\ profGroup'[k] = profGroup[k]
                                        /\ profTask'[k] = profTask[k] /\ profRun'[k] = profRun[k]
    BY <1>2, <1>3 DEF ProfIInv, ProfTypes, profRowVars
  <1>12. UnusedOK' /\ GroupsOK'
    BY <1>1, <1>2, <1>3, <1>9, <1>10, <1>11, OneChanges DEF ProfIInv, profHistory
  <1>. QED BY <1>8, <1>12 DEF ProfIInv

\* What goes on in a group that is not lost has been launched.
LEMMA GoesOn ==
    ASSUME ProfTypes, UnusedOK, NEW g \in ProfGroups, GroupOK(g), profRun[g] # <<>>,
           NEW k \in DOMAIN profRun[g], profRun[g][k] # "idle"
    PROVE  ~CreatingGroup(g) /\ Launched(profGroup[g], profTask[g], profRun[g])
  BY DEF GroupOK, Created

\* A task of a group runs and writes its row.
LEMMA TaskRunsKeeps ==
    ASSUME ProfIInv, NEW g \in ProfGroups, NEW k \in 1 .. Len(profRun[g]), TaskRuns(g, k)
    PROVE  ProfIInv'
  <1>1. /\ profGroup[g] \in GroupStates /\ profTask[g] \in Seq(TaskStates)
        /\ profRun[g] \in Seq(RunStates)
    BY Values DEF ProfIInv
  <1>2. /\ profRun[g] # <<>> /\ k < Len(profRun[g]) /\ profRun[g][k] = "run"
        /\ UNCHANGED <<profGroup, profDc, profLoop, profQueue, profClient, profKinds, profLast, profCrashes>>
    BY DEF TaskRuns
  <1>3. PICK outcome \in {"skipped", "finish", "error"} :
          /\ profRun' = [profRun EXCEPT ![g][k] = outcome]
          /\ \/ ProfWorks /\ profTask' = Saved(g, k, outcome) /\ UNCHANGED profLost
             \/ ProfFails /\ profLost' = profLost \union {g} /\ UNCHANGED profTask
    BY DEF TaskRuns, TaskOutcomes
  <1>4. outcome \in RunStates /\ outcome \in TaskStates
    BY DEF RunStates, TaskStates, Final
  <1>5. profRun'[g] = [profRun[g] EXCEPT ![k] = outcome]
    BY <1>3 DEF ProfIInv, ProfTypes
  <1>6. profRun'[g] \in Seq(RunStates)
    BY <1>1, <1>4, <1>5, ExceptSeq
  <1>7. profRun' \in [ProfGroups -> Seq(RunStates)]
    BY <1>1, <1>3, <1>5, <1>6 DEF ProfIInv, ProfTypes
  <1>8. g <= profLast
    BY <1>2, ProfAssumption DEF ProfIInv, ProfTypes, UnusedOK, ProfGroups
  <1>9. CASE ProfWorks /\ profTask' = Saved(g, k, outcome) /\ UNCHANGED profLost
    <2>1. profTask' = [profTask EXCEPT ![g] = [profTask[g] EXCEPT ![k] = outcome]]
      BY <1>9 DEF Saved
    <2>2. profTask'[g] = [profTask[g] EXCEPT ![k] = outcome]
      BY <2>1 DEF ProfIInv, ProfTypes
    <2>3. [profTask[g] EXCEPT ![k] = outcome] \in Seq(TaskStates)
      <3>1. CASE k \in 1 .. Len(profTask[g])
        BY <1>1, <1>4, <3>1, ExceptSeq
      <3>2. CASE k \notin 1 .. Len(profTask[g])
        <4>1. k \notin DOMAIN profTask[g]
          BY <1>1, <3>2, LenProperties
        <4>2. [profTask[g] EXCEPT ![k] = outcome] = profTask[g]
          <5>1. profTask[g] = [j \in DOMAIN profTask[g] |-> profTask[g][j]]
            BY <1>1, LenProperties
          <5>. QED BY <4>1, <5>1
        <4>. QED BY <1>1, <4>2
      <3>. QED BY <3>1, <3>2
    <2>4. ProfTypes'
      BY <1>2, <1>7, <1>9, <2>1, <2>3 DEF ProfIInv, ProfTypes, ProfWorks
    <2>5. g \notin profLost /\ GroupOK(g) => GroupOK(g)'
      <3>. SUFFICES ASSUME GroupOK(g) PROVE GroupOK(g)'
        OBVIOUS
      <3>1. k \in DOMAIN profRun[g]
        BY <1>1, LenProperties
      <3>2. ~CreatingGroup(g) /\ Launched(profGroup[g], profTask[g], profRun[g])
        BY <1>2, <3>1, GoesOn DEF ProfIInv
      <3>3. Launched(profGroup[g], profTask'[g], profRun'[g]) /\ profRun'[g] # <<>>
        <4>1. PICK tasks \in Seq(TaskStates) : tasks = profTask[g]
          BY <1>1
        <4>2. PICK runs \in Seq(RunStates) : runs = profRun[g]
          BY <1>1
        <4>3. Launched(profGroup[g], tasks, runs)
          BY <3>2, <4>1, <4>2
        <4>4. k \in 1 .. Len(runs) /\ k < Len(runs) /\ runs[k] = "run"
          BY <1>2, <4>2
        <4>5. profTask'[g] = [tasks EXCEPT ![k] = outcome]
          BY <2>2, <4>1
        <4>6. profRun'[g] = [runs EXCEPT ![k] = outcome]
          BY <1>5, <4>2
        <4>. QED BY <4>3, <4>4, <4>5, <4>6, LaunchedTask
      <3>. QED BY <1>2, <3>2, <3>3 DEF GroupOK, CreatingGroup
    <2>6. \A j \in ProfGroups : j # g => /\ profGroup'[j] = profGroup[j]
                                         /\ profTask'[j] = profTask[j] /\ profRun'[j] = profRun[j]
      BY <1>2, <1>3, <2>1 DEF ProfIInv, ProfTypes
    <2>7. UnusedOK' /\ GroupsOK'
      BY <1>2, <1>8, <1>9, <2>5, <2>6, OneChanges DEF ProfIInv
    <2>. QED BY <2>4, <2>7 DEF ProfIInv
  <1>10. CASE ProfFails /\ profLost' = profLost \union {g} /\ UNCHANGED profTask
    <2>1. ProfTypes'
      BY <1>2, <1>7, <1>10 DEF ProfIInv, ProfTypes, ProfFails
    <2>2. \A j \in ProfGroups : j # g => /\ profGroup'[j] = profGroup[j]
                                         /\ profTask'[j] = profTask[j] /\ profRun'[j] = profRun[j]
      BY <1>2, <1>3, <1>10 DEF ProfIInv, ProfTypes
    <2>3. UnusedOK' /\ GroupsOK'
      BY <1>2, <1>8, <1>10, <2>2, OneChanges DEF ProfIInv
    <2>. QED BY <2>1, <2>3 DEF ProfIInv
  <1>. QED BY <1>3, <1>9, <1>10

\* How a group ends is a state of a group.
LEMMA VerdictType ==
    ASSUME NEW ends
    PROVE  Verdict(ends) \in GroupStates
  BY DEF Verdict, GroupStates

\* The goroutine of a group writes its row when all tasks have ended.
LEMMA GroupRunsKeeps ==
    ASSUME ProfIInv, NEW g \in ProfGroups, GroupRuns(g)
    PROVE  ProfIInv'
  <1>1. /\ profGroup[g] \in GroupStates /\ profTask[g] \in Seq(TaskStates)
        /\ profRun[g] \in Seq(RunStates)
    BY Values DEF ProfIInv
  <1>2. PICK n : n = Len(profRun[g])
    OBVIOUS
  <1>3. /\ profRun[g] # <<>> /\ profRun[g][n] = "wait" /\ TaskEnds(g) \subseteq Final
        /\ profRun' = [profRun EXCEPT ![g][n] = "ended"]
        /\ UNCHANGED <<profTask, profDc, profLoop, profQueue, profClient, profKinds, profLast, profCrashes>>
    BY <1>2 DEF GroupRuns, AllDone, Last
  <1>4. n \in 1 .. Len(profRun[g])
    BY <1>1, <1>2, <1>3, EmptySeq, LenProperties
  <1>5. profRun'[g] = [profRun[g] EXCEPT ![n] = "ended"]
    BY <1>3 DEF ProfIInv, ProfTypes
  <1>6. profRun'[g] \in Seq(RunStates)
    <2>1. "ended" \in RunStates
      BY DEF RunStates
    <2>. QED BY <1>1, <1>4, <1>5, <2>1, ExceptSeq
  <1>7. profRun' \in [ProfGroups -> Seq(RunStates)]
    BY <1>1, <1>3, <1>5, <1>6 DEF ProfIInv, ProfTypes
  <1>8. g <= profLast
    BY <1>3, ProfAssumption DEF ProfIInv, ProfTypes, UnusedOK, ProfGroups
  <1>9. PICK ends : ends = TaskEnds(g)
    OBVIOUS
  <1>10. CASE ProfWorks /\ profGroup' = [profGroup EXCEPT ![g] = Verdict(TaskEnds(g))] /\ UNCHANGED profLost
    <2>1. profGroup'[g] = Verdict(ends) /\ profGroup' = [profGroup EXCEPT ![g] = Verdict(ends)]
      BY <1>9, <1>10 DEF ProfIInv, ProfTypes
    <2>2. ProfTypes'
      BY <1>3, <1>7, <1>10, <2>1, VerdictType DEF ProfIInv, ProfTypes, ProfWorks
    <2>3. g \notin profLost /\ GroupOK(g) => GroupOK(g)'
      <3>. SUFFICES ASSUME GroupOK(g) PROVE GroupOK(g)'
        OBVIOUS
      <3>1. n \in DOMAIN profRun[g]
        BY <1>1, <1>4, LenProperties
      <3>2. ~CreatingGroup(g) /\ Launched(profGroup[g], profTask[g], profRun[g])
        BY <1>3, <3>1, GoesOn DEF ProfIInv
      <3>3. Launched(Verdict(ends), profTask[g], profRun'[g]) /\ profRun'[g] # <<>>
        <4>1. ends = {profRun[g][k] : k \in 1 .. Len(profRun[g]) - 1} /\ ends \subseteq Final
          BY <1>3, <1>9 DEF TaskEnds
        <4>2. PICK r : r = [profRun[g] EXCEPT ![Len(profRun[g])] = "ended"]
          OBVIOUS
        <4>3. r = profRun'[g]
          BY <1>2, <1>5, <4>2
        <4>4. PICK tasks \in Seq(TaskStates) : tasks = profTask[g]
          BY <1>1
        <4>5. PICK runs \in Seq(RunStates) : runs = profRun[g]
          BY <1>1
        <4>6. Launched(profGroup[g], tasks, runs)
          BY <3>2, <4>4, <4>5
        <4>7. ends = {runs[k] : k \in 1 .. Len(runs) - 1}
          BY <4>1, <4>5
        <4>8. r = [runs EXCEPT ![Len(runs)] = "ended"]
          BY <4>2, <4>5
        <4>9. Launched(Verdict(ends), tasks, r) /\ r # <<>>
          BY <4>1, <4>6, <4>7, <4>8, LaunchedEnds
        <4>. QED BY <4>3, <4>4, <4>9
      <3>. QED BY <1>3, <2>1, <3>2, <3>3 DEF GroupOK, CreatingGroup
    <2>4. \A j \in ProfGroups : j # g => /\ profGroup'[j] = profGroup[j]
                                         /\ profTask'[j] = profTask[j] /\ profRun'[j] = profRun[j]
      BY <1>3, <2>1 DEF ProfIInv, ProfTypes
    <2>5. UnusedOK' /\ GroupsOK'
      BY <1>3, <1>8, <1>10, <2>3, <2>4, OneChanges DEF ProfIInv
    <2>. QED BY <2>2, <2>5 DEF ProfIInv
  <1>11. CASE ProfFails /\ profLost' = profLost \union {g} /\ UNCHANGED profGroup
    <2>1. ProfTypes'
      BY <1>3, <1>7, <1>11 DEF ProfIInv, ProfTypes, ProfFails
    <2>2. \A j \in ProfGroups : j # g => /\ profGroup'[j] = profGroup[j]
                                         /\ profTask'[j] = profTask[j] /\ profRun'[j] = profRun[j]
      BY <1>3, <1>11 DEF ProfIInv, ProfTypes
    <2>3. UnusedOK' /\ GroupsOK'
      BY <1>3, <1>8, <1>11, <2>2, OneChanges DEF ProfIInv
    <2>. QED BY <2>1, <2>3 DEF ProfIInv
  <1>. QED BY <1>10, <1>11 DEF GroupRuns

-----------------------------------------------------------------------------
\* A handler goes to another point.
LEMMA ClientGoesTypes ==
    ASSUME ProfTypes, NEW c \in ProfClients, NEW at \in ClientStates,
           profClient' = [profClient EXCEPT ![c].at = at]
    PROVE  profClient' \in [ProfClients -> Client]
  <1>1. [profClient[c] EXCEPT !.at = at] \in Client
    BY DEF ProfTypes, Client
  <1>. QED BY <1>1 DEF ProfTypes

\* A request waits in the queue.
LEMMA SubmitKeeps ==
    ASSUME ProfIInv, NEW c \in ProfClients, NEW req \in ProfRequests, Submit(c, req)
    PROVE  ProfIInv'
  <1>1. req \in Seq(TaskKinds)
    BY ProfAssumption
  <1>2. profClient' \in [ProfClients -> Client]
    BY <1>1, RestTypes DEF Submit, ProfIInv, ProfTypes, NoOne, Client, ClientStates
  <1>3. profQueue' \in Seq(ProfClients \X ProfRequests)
    BY AppendProperties DEF Submit, ProfIInv, ProfTypes
  <1>4. UNCHANGED <<profRowVars, profDc, profLoop, profRun, profHistory>>
    BY DEF Submit
  <1>5. UnusedOK' /\ GroupsOK'
    BY <1>4, NothingChanges DEF ProfIInv, profHistory
  <1>. QED BY <1>2, <1>3, <1>4, <1>5 DEF ProfIInv, ProfTypes, profRowVars, profHistory

\* A client that gives up leaves its request behind.
LEMMA TimesOutKeeps ==
    ASSUME ProfIInv, NEW c \in ProfClients, TimesOut(c)
    PROVE  ProfIInv'
  <1>1. profClient' \in [ProfClients -> Client]
    BY DEF TimesOut, ProfIInv, ProfTypes, Client, ClientStates
  <1>2. UNCHANGED <<profRowVars, profMemVars, profHistory>>
    BY DEF TimesOut
  <1>3. UnusedOK' /\ GroupsOK'
    BY <1>2, NothingChanges DEF ProfIInv, profHistory, profMemVars
  <1>. QED BY <1>1, <1>2, <1>3 DEF ProfIInv, ProfTypes, profRowVars, profMemVars, profHistory

\* Whoever asks to cancel or delete begins by telling the tasks.
LEMMA AskToEndKeeps ==
    ASSUME ProfIInv, NEW c \in ProfClients, NEW g \in ProfGroups, NEW what \in {"cancel", "delete"},
           AskToEnd(c, g, what)
    PROVE  ProfIInv'
  <1>1. g \in 0 .. MaxProfGroups
    BY ProfAssumption DEF ProfGroups
  <1>2. profClient' \in [ProfClients -> Client] /\ profFailures' \in Nat
    <2>1. PICK at \in ClientStates : profClient' = [profClient EXCEPT ![c] = [NoOne EXCEPT !.at = at, !.group = g]]
      BY DEF AskToEnd, ClientStates
    <2>2. [NoOne EXCEPT !.at = at, !.group = g] \in Client
      BY <1>1, RestTypes DEF Client
    <2>3. profFailures' \in Nat
      BY DEF AskToEnd, ProfWorks, ProfFails, ProfIInv, ProfTypes
    <2>. QED BY <2>1, <2>2, <2>3 DEF ProfIInv, ProfTypes
  <1>3. UNCHANGED <<profRowVars, profMemVars, profKinds, profLast, profLost, profCrashes>>
    BY DEF AskToEnd
  <1>4. UnusedOK' /\ GroupsOK'
    BY <1>3, NothingChanges DEF ProfIInv, profMemVars
  <1>. QED BY <1>2, <1>3, <1>4 DEF ProfIInv, ProfTypes, profRowVars, profMemVars

\* A statement of a cancellation or deletion that fails changes no row.
LEMMA StatementFailsKeeps ==
    ASSUME ProfIInv, NEW c \in ProfClients, StatementFails(c)
    PROVE  ProfIInv'
  <1>1. profClient' \in [ProfClients -> Client] /\ profFailures' \in Nat
    <2>1. profClient' \in [ProfClients -> Client]
      <3>1. PICK at \in ClientStates : profClient' = [profClient EXCEPT ![c].at = at]
        BY DEF StatementFails, ClientStates
      <3>. QED BY <3>1, ClientGoesTypes DEF ProfIInv
    <2>2. profFailures' \in Nat
      <3>1. profFailures' = profFailures + 1
        BY DEF StatementFails, ProfFails
      <3>. QED BY <3>1 DEF ProfIInv, ProfTypes
    <2>. QED BY <2>1, <2>2
  <1>2. UNCHANGED <<profRowVars, profMemVars, profKinds, profLast, profLost, profCrashes>>
    BY DEF StatementFails
  <1>3. UnusedOK' /\ GroupsOK'
    BY <1>2, NothingChanges DEF ProfIInv, profMemVars
  <1>. QED BY <1>1, <1>2, <1>3 DEF ProfIInv, ProfTypes, profRowVars, profMemVars

\* Rows of a group are deleted, those of its tasks or its own.
LEMMA DeletionKeeps ==
    ASSUME ProfTypes, UnusedOK, GroupsOK, NEW g,
           UNCHANGED <<profMemVars, profLast, profLost>>,
           \/ profTask' = [profTask EXCEPT ![g] = [k \in DOMAIN @ |-> "none"]] /\ UNCHANGED profGroup
           \/ profGroup' = [profGroup EXCEPT ![g] = "none"] /\ UNCHANGED profTask
    PROVE  /\ UnusedOK' /\ GroupsOK'
           /\ profTask' \in [ProfGroups -> Seq(TaskStates)]
           /\ profGroup' \in [ProfGroups -> GroupStates]
  <1>1. \A j \in ProfGroups : /\ profGroup[j] \in GroupStates /\ profTask[j] \in Seq(TaskStates)
                              /\ profRun[j] \in Seq(RunStates)
    BY DEF ProfTypes
  <1>2. UNCHANGED <<profLoop, profRun>>
    BY DEF profMemVars
  <1>3. CASE profTask' = [profTask EXCEPT ![g] = [k \in DOMAIN @ |-> "none"]] /\ UNCHANGED profGroup
    <2>1. ASSUME NEW j \in ProfGroups, j # g PROVE Same(j)
      BY <1>2, <1>3, <2>1 DEF Same, CreatingGroup, ProfTypes
    <2>2. ASSUME g \in ProfGroups
          PROVE  /\ profTask'[g] = [k \in DOMAIN profTask[g] |-> "none"]
                 /\ profTask'[g] \in Seq(TaskStates)
                 /\ profTask[g] = <<>> => profTask'[g] = <<>>
                 /\ GroupOK(g) => GroupOK(g)'
      <3>1. PICK t : t = [k \in DOMAIN profTask[g] |-> "none"]
        OBVIOUS
      <3>2. profTask'[g] = t
        BY <1>3, <2>2, <3>1 DEF ProfTypes
      <3>3. /\ t \in Seq(TaskStates)
            /\ Created(profGroup[g], profTask[g], profRun[g]) => Created(profGroup[g], t, profRun[g])
            /\ Launched(profGroup[g], profTask[g], profRun[g]) => Launched(profGroup[g], t, profRun[g])
            /\ Told(profGroup[g], profTask[g]) => Told(profGroup[g], t)
        BY <1>1, <2>2, <3>1, RowsDeleted
      <3>4. GroupOK(g) => GroupOK(g)'
        BY <1>2, <1>3, <3>2, <3>3 DEF GroupOK, CreatingGroup
      <3>5. profTask[g] = <<>> => t = <<>>
        <4>. SUFFICES ASSUME profTask[g] = <<>> PROVE t = <<>>
          OBVIOUS
        <4>1. DOMAIN profTask[g] = {}
          BY EmptySeq
        <4>2. DOMAIN t = {} /\ t \in Seq(TaskStates)
          BY <3>1, <3>3, <4>1
        <4>3. Len(t) = 0
          BY <4>2, LenProperties
        <4>. QED BY <4>2, <4>3, EmptySeq
      <3>. QED BY <3>1, <3>2, <3>3, <3>4, <3>5
    <2>3. GroupsOK'
      BY <2>1, <2>2, SameOK DEF GroupsOK
    <2>4. \A j \in ProfGroups : profTask[j] = <<>> => profTask'[j] = <<>>
      BY <2>1, <2>2 DEF Same
    <2>5. UnusedOK'
      BY <1>2, <1>3, <2>4 DEF UnusedOK
    <2>6. profTask' \in [ProfGroups -> Seq(TaskStates)]
      BY <1>1, <1>3, <2>2 DEF ProfTypes
    <2>. QED BY <1>3, <2>3, <2>5, <2>6 DEF ProfTypes
  <1>4. CASE profGroup' = [profGroup EXCEPT ![g] = "none"] /\ UNCHANGED profTask
    <2>1. ASSUME NEW j \in ProfGroups, j # g PROVE Same(j)
      BY <1>2, <1>4, <2>1 DEF Same, CreatingGroup, ProfTypes
    <2>2. ASSUME g \in ProfGroups
          PROVE  profGroup'[g] = "none" /\ (GroupOK(g) => GroupOK(g)')
      <3>1. profGroup'[g] = "none"
        BY <1>4, <2>2 DEF ProfTypes
      <3>. QED BY <1>2, <1>4, <3>1, GroupDeleted DEF GroupOK, CreatingGroup
    <2>3. GroupsOK'
      BY <2>1, <2>2, SameOK DEF GroupsOK
    <2>4. \A j \in ProfGroups : profGroup[j] = "none" => profGroup'[j] = "none"
      BY <2>1, <2>2 DEF Same
    <2>5. UnusedOK'
      BY <1>2, <1>4, <2>4 DEF UnusedOK
    <2>6. profGroup' \in [ProfGroups -> GroupStates]
      BY <1>4 DEF ProfTypes, GroupStates
    <2>. QED BY <1>4, <2>3, <2>5, <2>6 DEF ProfTypes
  <1>. QED BY <1>3, <1>4

\* A cancellation or deletion waits until no task runs; a deletion takes away tasks, then the group.
LEMMA StatementKeeps ==
    ASSUME ProfIInv, NEW c \in ProfClients, Statement(c)
    PROVE  ProfIInv'
  <1>1. profClient' \in [ProfClients -> Client]
    <2>1. PICK at \in ClientStates : profClient' = [profClient EXCEPT ![c].at = at]
      BY DEF Statement, ClientGoes, ClientStates
    <2>. QED BY <2>1, ClientGoesTypes DEF ProfIInv
  <1>2. UNCHANGED <<profMemVars, profKinds, profLast, profLost, profCrashes>> /\ UNCHANGED profFailures
    BY DEF Statement, ProfWorks
  <1>3. CASE UNCHANGED profRowVars
    <2>1. UnusedOK' /\ GroupsOK'
      BY <1>2, <1>3, NothingChanges DEF ProfIInv, profMemVars
    <2>. QED BY <1>1, <1>2, <1>3, <2>1 DEF ProfIInv, ProfTypes, profRowVars, profMemVars
  <1>4. ASSUME ~UNCHANGED profRowVars PROVE ProfIInv'
    <2>1. PICK g : g = profClient[c].group
      OBVIOUS
    <2>2. \/ profTask' = [profTask EXCEPT ![g] = [k \in DOMAIN @ |-> "none"]] /\ UNCHANGED profGroup
          \/ profGroup' = [profGroup EXCEPT ![g] = "none"] /\ UNCHANGED profTask
      BY <1>4, <2>1 DEF Statement
    <2>3. /\ UnusedOK' /\ GroupsOK'
          /\ profTask' \in [ProfGroups -> Seq(TaskStates)]
          /\ profGroup' \in [ProfGroups -> GroupStates]
      BY <1>2, <2>2, DeletionKeeps DEF ProfIInv
    <2>. QED BY <1>1, <1>2, <2>3 DEF ProfIInv, ProfTypes, profMemVars
  <1>. QED BY <1>3, <1>4

\* After a crash the rows have to tell the truth by themselves.
LEMMA DiesKeeps ==
    ASSUME ProfIInv, Dies
    PROVE  ProfIInv'
  <1>1. profClient' \in [ProfClients -> Client]
    BY DEF Dies, ProfIInv, ProfTypes, Client, ClientStates
  <1>2. profRun' \in [ProfGroups -> Seq(RunStates)]
    BY EmptySeq DEF Dies
  <1>3. profLost' \subseteq ProfGroups /\ profCrashes' \in Nat /\ profQueue' = <<>>
        /\ profLoop' = Resting /\ profDc' = "none"
        /\ UNCHANGED <<profRowVars, profKinds, profLast, profFailures>>
    BY DEF Dies, ProfIInv, ProfTypes
  <1>4. ProfTypes'
    BY <1>1, <1>2, <1>3, RestTypes, EmptySeq DEF ProfIInv, ProfTypes, profRowVars
  <1>5. \A g \in ProfGroups : profRun'[g] = <<>>
    BY DEF Dies
  <1>6. profLoop'.at = "select"
    BY <1>3 DEF Resting
  <1>7. UnusedOK'
    BY <1>3, <1>5, <1>6 DEF ProfIInv, UnusedOK, profRowVars
  <1>8. ASSUME NEW g \in ProfGroups, g \notin profLost' PROVE GroupOK(g)'
    <2>1. g \notin profLost /\ profGroup[g] # "running"
      BY <1>8 DEF Dies
    <2>2. GroupOK(g)
      BY <2>1 DEF ProfIInv, GroupsOK
    <2>3. Told(profGroup[g], profTask[g])
      <3>1. CASE CreatingGroup(g)
        BY <2>2, <3>1 DEF GroupOK, Created, Told
      <3>2. CASE ~CreatingGroup(g) /\ profRun[g] # <<>>
        BY <2>2, <3>2, Values, LaunchedTold DEF GroupOK, ProfIInv
      <3>3. CASE ~CreatingGroup(g) /\ profRun[g] = <<>>
        BY <2>2, <3>3 DEF GroupOK
      <3>. QED BY <3>1, <3>2, <3>3
    <2>. QED BY <1>3, <1>5, <1>6, <2>1, <2>3 DEF GroupOK, CreatingGroup, profRowVars
  <1>9. GroupsOK'
    BY <1>8 DEF GroupsOK
  <1>. QED BY <1>4, <1>7, <1>9 DEF ProfIInv

-----------------------------------------------------------------------------
\* At first there is no group.
LEMMA InitOK ==
    ASSUME ProfInit
    PROVE  ProfIInv
  <1>1. ProfTypes
    BY RestTypes, EmptySeq, ProfAssumption
    DEF ProfInit, ProfTypes, GroupStates
  <1>2. UnusedOK
    BY DEF ProfInit, UnusedOK, Resting
  <1>3. GroupsOK
    BY DEF ProfInit, GroupsOK, GroupOK, CreatingGroup, Resting, Told, Final
  <1>. QED BY <1>1, <1>2, <1>3 DEF ProfIInv

\* Every step keeps the invariant.
LEMMA StepOK ==
    ASSUME ProfIInv, [ProfNext]_profVars
    PROVE  ProfIInv'
  <1>1. CASE HandleRequest
    BY <1>1, HandleRequestKeeps
  <1>2. CASE CreateTask
    BY <1>2, CreateTaskKeeps
  <1>3. CASE Launch
    BY <1>3, LaunchKeeps
  <1>4. CASE \E g \in ProfGroups : GroupRuns(g)
    BY <1>4, GroupRunsKeeps
  <1>5. CASE \E g \in ProfGroups : \E k \in 1 .. Len(profRun[g]) : TaskRuns(g, k)
    BY <1>5, TaskRunsKeeps
  <1>6. CASE \E c \in ProfClients : Statement(c)
    BY <1>6, StatementKeeps
  <1>7. CASE TimeCome
    BY <1>7, TimeComeKeeps
  <1>8. CASE Dies \/ HandleWithoutConfig
    BY <1>8, DiesKeeps DEF HandleWithoutConfig
  <1>9. CASE \E dc \in {"manual", "auto"} : Pushed(dc)
    BY <1>9, PushedKeeps
  <1>10. CASE \E c \in ProfClients : TimesOut(c)
    BY <1>10, TimesOutKeeps
  <1>11. CASE \E c \in ProfClients : StatementFails(c)
    BY <1>11, StatementFailsKeeps
  <1>12. CASE \E c \in ProfClients : \E req \in ProfRequests : Submit(c, req)
    BY <1>12, SubmitKeeps
  <1>13. CASE \E c \in ProfClients : \E g \in ProfGroups :
                AskToEnd(c, g, "cancel") \/ AskToEnd(c, g, "delete")
    BY <1>13, AskToEndKeeps
  <1>14. CASE UNCHANGED profVars
    <2>1. UnusedOK' /\ GroupsOK'
      BY <1>14, NothingChanges DEF ProfIInv, profVars, profHistory, profMemVars
    <2>. QED BY <1>14, <2>1 DEF ProfIInv, ProfTypes, profVars, profRowVars, profHistory, profMemVars
  <1>. QED BY <1>1, <1>2, <1>3, <1>4, <1>5, <1>6, <1>7, <1>8, <1>9, <1>10, <1>11, <1>12, <1>13, <1>14
       DEF ProfNext, ProfWork

-----------------------------------------------------------------------------
\* The inductive invariant of profiling: a group whose turn has not come has nothing; one
\* that is created has not ended; of one that was started, each task agrees with its row
\* and the goroutine with the row of the group; what a crash has left tells the truth.
THEOREM ProfilingInvariant == ProfSpec => []ProfIInv
  <1>1. ProfInit => ProfIInv
    BY InitOK
  <1>2. ProfIInv /\ [ProfNext]_profVars => ProfIInv'
    BY StepOK
  <1>. QED BY <1>1, <1>2, PTL DEF ProfSpec

\* A group says that it has ended only when all its tasks have, and then how, whoever
\* cancels or deletes, wherever the process dies; if no row was lost.
THEOREM GroupTellsAlways == ProfSpec => []GroupTells
  <1>1. ASSUME ProfIInv PROVE GroupTells
    <2>1. ASSUME NEW g \in ProfGroups, g \notin profLost PROVE Told(profGroup[g], profTask[g])
      <3>. GroupOK(g)
        BY <1>1, <2>1 DEF ProfIInv, GroupsOK
      <3>1. CASE CreatingGroup(g)
        BY <3>1 DEF GroupOK, Created, Told
      <3>2. CASE ~CreatingGroup(g) /\ profRun[g] # <<>>
        BY <1>1, <3>2, Values, LaunchedTold DEF GroupOK, ProfIInv
      <3>3. CASE ~CreatingGroup(g) /\ profRun[g] = <<>>
        BY <3>3 DEF GroupOK
      <3>. QED BY <3>1, <3>2, <3>3
    <2>. QED BY <2>1 DEF GroupTells, Told
  <1>. QED BY <1>1, ProfilingInvariant, PTL
=============================================================================
