---------------------------- MODULE ClusterConfig -----------------------------
(***************************************************************************)
(* Cluster configuration (pkg/apiserver/configuration): a request that     *)
(* collects the items of every component at the same time and tells which  *)
(* of them differ between instances, and requests that change an item, of  *)
(* TiKV instance after instance.                                           *)
(***************************************************************************)
EXTENDS Integers, Sequences, SequencesExt, FiniteSets, TLC

CONSTANTS
    Stores, TiDBs,  \* instances
    Editors,        \* handlers of /configuration/edit
    CfgItems,       \* the names of items
    EditableItems,  \* editable.go: those of each kind that can be changed
    CfgValues,
    MaxCfgEvents    \* bound: requests that fail, and stores that join

CfgKinds == {"tikv_config", "pd_config", "tidb_config", "tidb_variable"}
ASSUME EditableAssumption ==
    /\ EditableItems \in [{"tikv_config", "pd_config", "tidb_variable"} -> SUBSET CfgItems]

Sources == Stores \union TiDBs \union {"pd", "variables"}
ASSUME SourcesAssumption ==
    /\ IsFiniteSet(Stores) /\ IsFiniteSet(TiDBs)
    /\ Stores \intersect TiDBs = {} /\ {"pd", "variables"} \intersect (Stores \union TiDBs) = {}
KindOf(s) == CASE s = "pd" -> "pd_config" [] s = "variables" -> "tidb_variable"
               [] s \in Stores -> "tikv_config" [] OTHER -> "tidb_config"

VARIABLES
    cfgHeld,   \* what each source holds: item -> value; an item may be missing in some
    cfgStores, \* PD: the stores it lists
    cfgEdit,   \* each editor: where it is
    cfgView,   \* the collecting request
    cfgSettled,\* history: the edit of TiKV that ended well last, while nothing changed since
    cfgEvents
cfgVars == <<cfgHeld, cfgStores, cfgEdit, cfgView, cfgSettled, cfgEvents>>

NoEdit == [at |-> "idle"]
Unsettled == [stores |-> {}]
\* A TiKV of another version may lack an item.
CfgInit ==
    /\ \E held \in [Stores -> UNION {[I -> CfgValues] : I \in SUBSET CfgItems}] :
        cfgHeld = [s \in Sources |-> IF s \in Stores THEN held[s]
                                     ELSE [i \in CfgItems |-> CHOOSE v \in CfgValues : TRUE]]
    /\ cfgStores \in SUBSET Stores
    /\ cfgEdit = [e \in Editors |-> NoEdit]
    /\ cfgView = [at |-> "idle"] /\ cfgSettled = Unsettled /\ cfgEvents = 0

CfgEvent == cfgEvents < MaxCfgEvents /\ cfgEvents' = cfgEvents + 1
CfgWorks == UNCHANGED cfgEvents

\* A store joins the cluster.
StoreJoins ==
    /\ CfgEvent
    /\ \E s \in Stores \ cfgStores : cfgStores' = cfgStores \union {s}
    /\ UNCHANGED <<cfgHeld, cfgEdit, cfgView, cfgSettled>>

-----------------------------------------------------------------------------
isConfigItemEditable(kind, id) ==
    kind \in DOMAIN EditableItems /\ id \in EditableItems[kind]
Held(s, id, v) == cfgHeld' = [cfgHeld EXCEPT ![s] = [i \in DOMAIN @ \union {id} |-> IF i = id THEN v ELSE @[i]]]
\* A change that is sent arrives and is answered, or fails: before or after it arrived.
Sent(s, id, v) == Held(s, id, v) /\ CfgWorks
NotSent(s, id, v) == CfgEvent /\ (UNCHANGED cfgHeld \/ Held(s, id, v))

\* editConfig: what is not editable is refused, PD and the variables take one request.
Edit(e, kind, id, v) ==
    /\ cfgEdit[e].at \in {"idle", "clean", "warned", "failed"}
    /\ cfgEdit' = [cfgEdit EXCEPT ![e] =
            IF ~isConfigItemEditable(kind, id) THEN [at |-> "failed"]
            ELSE [at |-> IF kind = "tikv_config" THEN "list" ELSE kind, id |-> id, value |-> v]]
    /\ CfgWorks /\ UNCHANGED <<cfgHeld, cfgStores, cfgView, cfgSettled>>
EditOne(e) ==
    LET s == IF cfgEdit[e].at = "pd_config" THEN "pd" ELSE "variables" IN
    /\ cfgEdit[e].at \in {"pd_config", "tidb_variable"}
    /\ \/ Sent(s, cfgEdit[e].id, cfgEdit[e].value) /\ cfgEdit' = [cfgEdit EXCEPT ![e] = [at |-> "clean"]]
       \/ NotSent(s, cfgEdit[e].id, cfgEdit[e].value) /\ cfgEdit' = [cfgEdit EXCEPT ![e] = [at |-> "failed"]]
    /\ UNCHANGED <<cfgStores, cfgView, cfgSettled>>
Sending == {e \in Editors : cfgEdit[e].at = "send"}
\* TiKV: the stores are listed, by address, then sent the change one after the other.
ListStores(e) ==
    /\ cfgEdit[e].at = "list"
    /\ \/ /\ cfgEdit' = [cfgEdit EXCEPT ![e] = [at |-> "send", id |-> @.id, value |-> @.value,
                            stores |-> SetToSeq(cfgStores), next |-> 1, failures |-> {}, alone |-> Sending = {}]]
          /\ CfgWorks /\ cfgSettled' = Unsettled
       \/ /\ CfgEvent /\ cfgEdit' = [cfgEdit EXCEPT ![e] = [at |-> "failed"]]
          /\ UNCHANGED cfgSettled
    /\ UNCHANGED <<cfgHeld, cfgStores, cfgView>>
\* Mutant: the edit ends at the first store that fails, with a warning or without.
SendUntilOneFails(e) ==
    LET edit == cfgEdit[e]  s == edit.stores[edit.next] IN
    /\ edit.at = "send" /\ edit.next <= Len(edit.stores)
    /\ \/ /\ Sent(s, edit.id, edit.value)
          /\ cfgEdit' = [cfgEdit EXCEPT ![e].next = @ + 1]
       \/ /\ NotSent(s, edit.id, edit.value)
          /\ cfgEdit' = [cfgEdit EXCEPT ![e].next = Len(edit.stores) + 1]
    /\ UNCHANGED <<cfgStores, cfgView, cfgSettled>>
\* A store that fails is skipped.
SendToStore(e) ==
    LET edit == cfgEdit[e]  s == edit.stores[edit.next] IN
    /\ edit.at = "send" /\ edit.next <= Len(edit.stores)
    /\ \/ /\ Sent(s, edit.id, edit.value)
          /\ cfgEdit' = [cfgEdit EXCEPT ![e].next = @ + 1]
       \/ /\ NotSent(s, edit.id, edit.value)
          /\ cfgEdit' = [cfgEdit EXCEPT ![e].next = @ + 1, ![e].failures = @ \union {s}]
    /\ UNCHANGED <<cfgStores, cfgView, cfgSettled>>
\* When all of them failed the edit failed, with none listed it is clean; in between the
\* failures are warnings.
EditVerdict(listed, failures) ==
    IF listed # {} /\ failures = listed THEN "failed"
    ELSE IF failures = {} THEN "clean" ELSE "warned"
editConfig(e) ==
    LET edit == cfgEdit[e]
        verdict == EditVerdict(Range(edit.stores), edit.failures)
    IN
    /\ edit.at = "send" /\ edit.next > Len(edit.stores)
    /\ cfgEdit' = [d \in Editors |->
            IF d = e THEN [at |-> verdict]
            ELSE IF d \in Sending THEN [cfgEdit[d] EXCEPT !.alone = FALSE] ELSE cfgEdit[d]]
    /\ cfgSettled' = IF verdict = "failed" \/ ~edit.alone \/ Sending # {e} THEN Unsettled
                     ELSE [stores |-> Range(edit.stores) \ edit.failures, id |-> edit.id, value |-> edit.value]
    /\ CfgWorks /\ UNCHANGED <<cfgHeld, cfgStores, cfgView>>
EditRequest(e) == \E kind \in CfgKinds, id \in CfgItems, v \in CfgValues : Edit(e, kind, id, v)
EditStep == \E e \in Editors : EditOne(e) \/ ListStores(e) \/ SendToStore(e) \/ editConfig(e)

-----------------------------------------------------------------------------
\* getAllConfigItems: both lists, then a goroutine for each source; what they have read
\* arrives in any order.
GetAll ==
    /\ cfgView.at \in {"idle", "shown", "failed"}
    /\ \/ CfgEvent /\ cfgView' = [at |-> "failed"]
       \/ /\ CfgWorks
          /\ cfgView' = [at |-> "collect", wait |-> cfgStores \union TiDBs \union {"pd", "variables"},
                         seen |-> <<>>, errors |-> 0, got |-> [k \in CfgKinds |-> <<>>]]
    /\ UNCHANGED <<cfgHeld, cfgStores, cfgEdit, cfgSettled>>
GetItems(s) ==
    /\ cfgView.at = "collect" /\ s \in cfgView.wait \ DOMAIN cfgView.seen
    /\ \/ CfgEvent /\ cfgView' = [cfgView EXCEPT !.wait = @ \ {s}, !.errors = @ + 1]
       \/ CfgWorks /\ cfgView' = [cfgView EXCEPT !.seen =
              [t \in DOMAIN cfgView.seen \union {s} |-> IF t = s THEN cfgHeld[s] ELSE cfgView.seen[t]]]
    /\ UNCHANGED <<cfgHeld, cfgStores, cfgEdit, cfgSettled>>
Arrives(s) ==
    /\ cfgView.at = "collect" /\ s \in cfgView.wait \intersect DOMAIN cfgView.seen
    /\ cfgView' = [cfgView EXCEPT !.wait = @ \ {s}, !.got[KindOf(s)] = Append(@, cfgView.seen[s])]
    /\ UNCHANGED <<cfgHeld, cfgStores, cfgEdit, cfgSettled, cfgEvents>>

\* Mutant: the values are not compared.
OccurOnly(items, answer) ==
    [i \in DOMAIN items \union DOMAIN answer |->
        CASE i \notin DOMAIN items -> [value |-> answer[i], times |-> 1, identical |-> TRUE]
          [] i \in DOMAIN items \ DOMAIN answer -> items[i]
          [] OTHER -> [items[i] EXCEPT !.times = @ + 1]]
\* The items of one more answer: the value of each that came first, how often it occurred,
\* and whether all its values are that one.
Occur(items, answer) ==
    [i \in DOMAIN items \union DOMAIN answer |->
        CASE i \notin DOMAIN items -> [value |-> answer[i], times |-> 1, identical |-> TRUE]
          [] i \in DOMAIN items \ DOMAIN answer -> items[i]
          [] OTHER -> [items[i] EXCEPT !.times = @ + 1, !.identical = @ /\ answer[i] = items[i].value]]
\* All answers of a kind, one after the other.
Merged(answers) ==
    LET items[n \in 0 .. Len(answers)] == IF n = 0 THEN <<>> ELSE Occur(items[n - 1], answers[n])
    IN  items[Len(answers)]
\* An item has several values when they differ; one that is missing somewhere is not told.
ItemOf(item, expected) ==
    [value |-> item.value, multi |-> IF item.identical /\ item.times < expected THEN FALSE ELSE ~item.identical]
ItemsOf(answers) ==
    LET items == Merged(answers) IN [i \in DOMAIN items |-> ItemOf(items[i], Len(answers))]
Show ==
    /\ cfgView.at = "collect" /\ cfgView.wait = {}
    /\ cfgView' = [at |-> "shown", seen |-> cfgView.seen, errors |-> cfgView.errors,
                   items |-> [k \in CfgKinds |-> ItemsOf(cfgView.got[k])]]
    /\ UNCHANGED <<cfgHeld, cfgStores, cfgEdit, cfgSettled, cfgEvents>>
ViewStep == GetAll \/ Show \/ \E s \in Sources : GetItems(s) \/ Arrives(s)

CfgNext == (\E e \in Editors : EditRequest(e)) \/ EditStep \/ ViewStep \/ StoreJoins
CfgSpec == CfgInit /\ [][CfgNext]_cfgVars

-----------------------------------------------------------------------------
\* After a change of TiKV that was answered without an error, and that no other one
\* overlapped, every listed store but those it warns of holds the value, until the next
\* change begins: one store that fails keeps none of the others from it.
EditTakes ==
    \A s \in cfgSettled.stores :
        /\ cfgSettled.id \in DOMAIN cfgHeld[s]
        /\ cfgHeld[s][cfgSettled.id] = cfgSettled.value

\* In whatever order the answers come in, an item is shown with several values exactly
\* when two of the sources of its kind were read with different ones.
ViewExact ==
    cfgView.at = "shown" =>
        \A k \in CfgKinds :
            LET Seen(i) == {cfgView.seen[s][i] : s \in {t \in DOMAIN cfgView.seen :
                                                        KindOf(t) = k /\ i \in DOMAIN cfgView.seen[t]}}
            IN  \A i \in CfgItems :
                    /\ i \in DOMAIN cfgView.items[k] <=> Seen(i) # {}
                    /\ Seen(i) # {} => /\ cfgView.items[k][i].value \in Seen(i)
                                       /\ cfgView.items[k][i].multi <=> Cardinality(Seen(i)) > 1
=============================================================================
