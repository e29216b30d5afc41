----------------------------- MODULE ReportProofs ------------------------------
(***************************************************************************)
(* Proofs about diagnosis reports, CompareDiagnose, Report and DiagTables, *)
(* for any instances, values, numbers of tables, of workers, of failures   *)
(* and of crashes.                                                         *)
(***************************************************************************)
EXTENDS Report, CompareDiagnose, DiagTables, FiniteSetTheorems, SequenceTheorems, TLAPS

(***************************************************************************)
(* The diagnosis of a comparison                                           *)
(***************************************************************************)

InspPhases == {"refer", "current", "compare", "slow", "log", "done", "error"}
InspTypes ==
    /\ inspCheck \in 1 .. 7
    /\ inspPhase \in InspPhases
    /\ inspRefer \in [Instances -> Nat]
    /\ inspCurrent \in [Instances -> Nat]
    /\ inspDiffs \subseteq (1 .. 7) \X Instances

\* FindingsSurvive, and where the diagnosis stands: it looks for queries after the
\* last check only, and returns nothing before it is done.
InspInv ==
    /\ InspTypes
    /\ inspPhase \in {"slow", "log"} => inspCheck = 7
    /\ inspPhase \notin {"done", "error"} => inspDetails = {} /\ inspSQL = "none"
    /\ FindingsSurvive

\* The table of the checks.
LEMMA ChecksAre ==
    /\ Len(Checks) = 7 /\ Deciding = {1, 2} /\ Deciding \subseteq 1 .. 7
    /\ Checks[1].kind = "qps"
    /\ Checks[2].kind = "quantile" /\ Checks[2].worse = "more" /\ Checks[2].percent = 120
  BY DEF Checks, Deciding

\* What the second check tells of did get worse: a value that is read as it is and
\* is above 120 percent of what it was is above what it was.
LEMMA SlowerIsSlower ==
    ASSUME inspCheck = 2, NEW r \in Nat, NEW c \in Nat, Crosses(Read(r), Read(c))
    PROVE  c > r
  <1>1. C.kind = "quantile" /\ C.worse = "more" /\ C.percent = 120
    BY ChecksAre DEF C
  <1>2. Read(r) = r /\ Read(c) = c
    BY <1>1 DEF Read
  <1>3. 100 * c > 120 * (IF r = 0 THEN 4 ELSE r)
    BY <1>1, <1>2 DEF Crosses
  <1>. QED BY <1>3

\* Where the diagnosis goes after a check.
LEMMA AfterCheck ==
    ASSUME inspCheck \in 1 .. 7, NEW diffs, After(diffs)
    PROVE  \/ inspCheck = 2 /\ diffs = {} /\ inspPhase' = "done" /\ inspCheck' = inspCheck
           \/ inspCheck = 7 /\ inspPhase' = "slow" /\ inspCheck' = inspCheck
           \/ /\ inspCheck # 7 /\ (inspCheck = 2 => diffs # {})
              /\ inspPhase' = "refer" /\ inspCheck' = inspCheck + 1
  BY ChecksAre DEF After

\* A comparison adds what crossed, which of a deciding check is worse in truth.
LEMMA CompareKeeps ==
    ASSUME InspInv, Compare
    PROVE  InspInv'
  <1>. DEFINE crossed == {i \in {j \in Instances : inspCurrent[j] # 0} :
                             Crosses(Read(inspRefer[i]), Read(inspCurrent[i]))}
              diffs == inspDiffs \cup {<<inspCheck, i>> : i \in crossed}
              worse == {j \in Instances :
                          /\ inspCheck \in Deciding
                          /\ IF C.worse = "less" THEN inspCurrent[j] < inspRefer[j]
                             ELSE inspCurrent[j] > inspRefer[j]}
  <1>1. /\ inspPhase = "compare" /\ inspDiffs' = diffs /\ After(diffs)
        /\ inspWorse' = inspWorse \cup {<<inspCheck, i>> : i \in worse}
        /\ inspRefer' = NoValues /\ inspCurrent' = NoValues
        /\ inspSQL' = inspSQL /\ inspDetails' = inspDetails
    BY DEF Compare
  <1>2. /\ inspCheck \in 1 .. 7 /\ inspDetails = {} /\ inspSQL = "none"
        /\ inspRefer \in [Instances -> Nat] /\ inspCurrent \in [Instances -> Nat]
        /\ inspDiffs \subseteq (1 .. 7) \X Instances
        /\ inspDiffs # {} => \E d \in inspDiffs : d[1] \in Deciding
        /\ inspCheck > 2 => inspDiffs # {}
        /\ \A d \in inspDiffs : d[1] \in Deciding => d \in inspWorse \/ Checks[d[1]].kind = "qps"
    BY <1>1 DEF InspInv, InspTypes, FindingsSurvive
  <1>3. crossed \subseteq Instances
    OBVIOUS
  <1>4. ASSUME NEW i \in crossed, inspCheck = 2 PROVE i \in worse
    <2>1. inspRefer[i] \in Nat /\ inspCurrent[i] \in Nat /\ Crosses(Read(inspRefer[i]), Read(inspCurrent[i]))
      BY <1>2
    <2>2. inspCurrent[i] > inspRefer[i]
      BY <1>4, <2>1, SlowerIsSlower
    <2>3. C.worse = "more" /\ inspCheck \in Deciding
      BY <1>4, ChecksAre DEF C
    <2>. QED BY <1>3, <2>2, <2>3
  <1>5. \/ inspCheck = 2 /\ diffs = {} /\ inspPhase' = "done" /\ inspCheck' = inspCheck
        \/ inspCheck = 7 /\ inspPhase' = "slow" /\ inspCheck' = inspCheck
        \/ /\ inspCheck # 7 /\ (inspCheck = 2 => diffs # {})
           /\ inspPhase' = "refer" /\ inspCheck' = inspCheck + 1
    BY <1>1, <1>2, AfterCheck
  <1>. HIDE DEF crossed, worse
  <1>6. \A d : d \in diffs <=> d \in inspDiffs \/ \E i \in crossed : d = <<inspCheck, i>>
    OBVIOUS
  <1>7. \A d : d \in inspWorse' <=> d \in inspWorse \/ \E i \in worse : d = <<inspCheck, i>>
    BY <1>1
  <1>8. diffs \subseteq (1 .. 7) \X Instances
    BY <1>2, <1>3, <1>6
  <1>. HIDE DEF diffs
  <1>9. diffs # {} => \E d \in diffs : d[1] \in Deciding
    <2>1. CASE inspDiffs # {}
      BY <1>2, <1>6, <2>1
    <2>2. CASE inspDiffs = {}
      <3>1. inspCheck \in Deciding
        BY <1>2, <2>2, ChecksAre
      <3>2. ASSUME NEW d \in diffs PROVE d[1] \in Deciding
        <4>1. PICK i \in crossed : d = <<inspCheck, i>>
          BY <1>6, <2>2
        <4>. QED BY <3>1, <4>1
      <3>. QED BY <3>2
    <2>. QED BY <2>1, <2>2
  <1>10. inspCheck' > 2 => diffs # {}
    <2>1. inspDiffs # {} => diffs # {}
      BY <1>6
    <2>2. ASSUME inspCheck' > 2 PROVE inspCheck > 2 \/ (inspCheck = 2 /\ diffs # {})
      <3>1. CASE inspCheck' = inspCheck
        BY <2>2, <3>1
      <3>2. CASE inspCheck' = inspCheck + 1 /\ (inspCheck = 2 => diffs # {})
        <4>1. inspCheck \in Nat
          BY <1>2
        <4>2. inspCheck >= 2
          BY <2>2, <3>2, <4>1
        <4>. QED BY <3>2, <4>1, <4>2
      <3>. QED BY <1>5, <3>1, <3>2
    <2>. QED BY <1>2, <2>1, <2>2
  <1>11. ASSUME NEW d \in diffs, d[1] \in Deciding
         PROVE  d \in inspWorse' \/ Checks[d[1]].kind = "qps"
    <2>1. CASE d \in inspDiffs
      BY <1>2, <1>7, <1>11, <2>1
    <2>2. ASSUME NEW i \in crossed, d = <<inspCheck, i>>
          PROVE  d \in inspWorse' \/ Checks[d[1]].kind = "qps"
      <3>1. d[1] = inspCheck /\ (inspCheck = 1 \/ inspCheck = 2)
        BY <1>11, <2>2, ChecksAre
      <3>2. CASE inspCheck = 1
        BY <3>1, <3>2, ChecksAre
      <3>3. CASE inspCheck = 2
        BY <1>4, <1>7, <2>2, <3>3
      <3>. QED BY <3>1, <3>2, <3>3
    <2>. QED BY <1>6, <2>1, <2>2
  <1>12. NoValues \in [Instances -> Nat]
    BY DEF NoValues
  <1>13. InspTypes'
    BY <1>1, <1>2, <1>5, <1>8, <1>12 DEF InspTypes, InspPhases
  <1>14. FindingsSurvive'
    <2>1. inspPhase' = "done" => inspDetails' = inspDiffs'
      BY <1>1, <1>2, <1>5
    <2>2. inspCheck' > 2 \/ inspSQL' # "none" => inspDiffs' # {}
      BY <1>1, <1>2, <1>10
    <2>. QED BY <1>1, <1>9, <1>11, <2>1, <2>2 DEF FindingsSurvive
  <1>. QED BY <1>1, <1>2, <1>5, <1>13, <1>14 DEF InspInv

\* A metric that cannot be read leaves what was found as it is.
LEMMA MetricFailsKeeps ==
    ASSUME InspInv, MetricFails
    PROVE  InspInv'
  <1>1. /\ inspPhase \in {"refer", "current"} /\ ErrorEnds
        /\ inspRefer' = NoValues /\ inspCurrent' = inspCurrent /\ inspDiffs' = inspDiffs
        /\ inspSQL' = inspSQL /\ inspDetails' = inspDetails /\ inspWorse' = inspWorse
    BY DEF MetricFails
  <1>2. /\ InspTypes /\ FindingsSurvive /\ inspDetails = {} /\ inspSQL = "none"
        /\ inspCheck \in 1 .. 7
    BY <1>1 DEF InspInv, InspTypes
  <1>3. NoValues \in [Instances -> Nat]
    BY DEF NoValues
  <1>4. CASE inspCheck \in Deciding
    <2>1. inspPhase' = "error" /\ inspCheck' = inspCheck
      BY <1>1, <1>4 DEF ErrorEnds
    <2>. QED BY <1>1, <1>2, <1>3, <2>1 DEF InspInv, InspTypes, InspPhases, FindingsSurvive
  <1>5. CASE inspCheck \notin Deciding
    <2>1. inspCheck > 2 /\ After(inspDiffs)
      BY <1>1, <1>2, <1>5, ChecksAre DEF ErrorEnds
    <2>2. \/ inspCheck = 7 /\ inspPhase' = "slow" /\ inspCheck' = inspCheck
          \/ inspCheck # 7 /\ inspPhase' = "refer" /\ inspCheck' = inspCheck + 1
      BY <1>2, <2>1, AfterCheck
    <2>3. inspDiffs # {}
      BY <1>2, <2>1 DEF FindingsSurvive
    <2>. QED BY <1>1, <1>2, <1>3, <2>2, <2>3 DEF InspInv, InspTypes, InspPhases, FindingsSurvive
  <1>. QED BY <1>4, <1>5

\* The search for new queries ends with what was found, or with an error.
LEMMA LookKeeps ==
    ASSUME InspInv, LookForQueries
    PROVE  InspInv'
  <1>1. /\ inspPhase \in {"slow", "log"} /\ inspCheck = 7 /\ inspDetails = {}
        /\ inspCheck' = inspCheck /\ inspRefer' = inspRefer /\ inspCurrent' = inspCurrent
        /\ inspDiffs' = inspDiffs /\ inspWorse' = inspWorse
    BY DEF LookForQueries, InspInv
  <1>2. InspTypes /\ FindingsSurvive /\ inspDiffs # {} /\ inspSQL = "none"
    BY <1>1 DEF InspInv, FindingsSurvive
  <1>3. \/ inspPhase' = "error" /\ inspSQL' = inspSQL /\ inspDetails' = inspDetails
        \/ inspPhase' = "done" /\ inspDetails' = inspDiffs
        \/ inspPhase' = "log" /\ inspDetails' = {} /\ inspSQL' = "none"
    BY <1>1, <1>2 DEF LookForQueries
  <1>. QED BY <1>1, <1>2, <1>3 DEF InspInv, InspTypes, InspPhases, FindingsSurvive

\* CompareDiagnose (inspection.go): what got worse is told of whatever else fails,
\* what only goes with it never alone, and no query is pointed to without it.
THEOREM FindingsTold == InspSpec => []FindingsSurvive
  <1>1. InspInit => InspInv
    <2>. SUFFICES ASSUME InspInit PROVE InspInv
      OBVIOUS
    <2>. QED BY DEF InspInit, InspInv, InspTypes, InspPhases, FindingsSurvive, NoValues
  <1>2. InspInv /\ [InspNext]_inspVars => InspInv'
    <2>. SUFFICES ASSUME InspInv, [InspNext]_inspVars PROVE InspInv'
      OBVIOUS
    <2>1. CASE QueryRefer
      BY <2>1, InspValuesAssumption DEF QueryRefer, InspInv, InspTypes, InspPhases, FindingsSurvive
    <2>2. CASE QueryCurrent
      BY <2>2, InspValuesAssumption DEF QueryCurrent, InspInv, InspTypes, InspPhases, FindingsSurvive
    <2>3. CASE MetricFails
      BY <2>3, MetricFailsKeeps
    <2>4. CASE Compare
      BY <2>4, CompareKeeps
    <2>5. CASE LookForQueries
      BY <2>5, LookKeeps
    <2>6. CASE UNCHANGED inspVars
      BY <2>6 DEF inspVars, InspInv, InspTypes, FindingsSurvive
    <2>. QED BY <2>1, <2>2, <2>3, <2>4, <2>5, <2>6 DEF InspNext
  <1>3. InspInv => FindingsSurvive
    BY DEF InspInv
  <1>. QED BY <1>1, <1>2, <1>3, PTL DEF InspSpec

(***************************************************************************)
(* The building of a report                                                *)
(***************************************************************************)

Made == [task : Nat, out : {"rows", "norows", "error"}]
Workers == [at : {"take", "run", "write"}, task : Nat, pct : 0 .. 100]
RepTypes ==
    /\ reportKind \in {"plain", "compare"}
    /\ builder \in {"none", "check", "tables", "full", "save", "ended"}
    /\ repTasks \in [Groups -> Seq(Nat)]
    /\ repWorker \in [Groups -> [1 .. Conc -> Workers]]
    /\ repResults \in [Groups -> Seq(Made)]
    /\ lineAt \in [Lines -> {"off", "start", "run"}]
    /\ repFailures \in Nat

\* How many tables of a group were launched, while the report is built.
LineOf(g) == IF g \in {"t1", "t2"} THEN "ranges" ELSE g
Due(g) ==
    IF IF g = "all" THEN reportKind = "plain"
       ELSE reportKind = "compare" /\ lineAt[LineOf(g)] = "run"
    THEN TasksOf[g] ELSE 0

\* Of n tables, the last are still to be taken, and each of the others is with one
\* worker or has one result.
GroupOK(n, tasks, worker, results) ==
    /\ Len(tasks) <= n
    /\ \A i \in 1 .. Len(tasks) : tasks[i] = (n - Len(tasks)) + i
    /\ \A i \in 1 .. Conc : worker[i].at # "take" => worker[i].task \in 1 .. (n - Len(tasks))
    /\ \A i \in 1 .. Conc : worker[i].at = "run" =>
         /\ \A j \in 1 .. Len(results) : results[j].task # worker[i].task
         /\ \A j \in 1 .. Conc : j # i /\ worker[j].at = "run" => worker[j].task # worker[i].task
    /\ \A j \in 1 .. Len(results) :
         /\ results[j].task \in 1 .. (n - Len(tasks))
         /\ \A k \in 1 .. Len(results) : k # j => results[k].task # results[j].task
    /\ \A t \in 1 .. (n - Len(tasks)) :
         \/ \E j \in 1 .. Len(results) : results[j].task = t
         \/ \E i \in 1 .. Conc : worker[i].at = "run" /\ worker[i].task = t

Sum(all, header, t1, t2, refer, base, end) == all + header + t1 + t2 + refer + base + end
Results(g) == Len(repResults[g])
Building ==
    /\ reportKind = "plain" => lineAt = NoLines
    /\ \A g \in Groups : GroupOK(Due(g), repTasks[g], repWorker[g], repResults[g])
    /\ repProgress = Sum(Results("all"), Results("header"), Results("t1"), Results("t2"),
                         Results("refer"), Results("base"), Results("end"))
    /\ repTotal = Sum(Due("all"), Due("header"), Due("t1"), Due("t2"),
                      Due("refer"), Due("base"), Due("end"))

\* Nothing was launched; nothing is under way any more.
Untouched ==
    /\ repTasks = NoTasks /\ repWorker = NoWorkers /\ repResults = NoTasks
    /\ repProgress = 0 /\ repTotal = 0
    /\ lineAt = NoLines
Still ==
    /\ \A g \in Groups : Joined(g)
    /\ \A l \in Lines : lineAt[l] # "start"

Told(c) == CheckFailed \/ repRaced \/ ContentExact(c)
RowOK ==
    /\ builder = "none" <=> reportRow = NoReport
    /\ builder # "none" =>
         /\ reportRow = [progress |-> reportRow.progress, content |-> reportRow.content]
         /\ reportRow.progress \in 0 .. 100
    /\ builder \notin {"none", "ended"} => reportRow.content = Empty
    /\ builder = "save" /\ repFailures = 0 => reportRow.progress = 100
    /\ builder = "ended" /\ reportRow.content # Empty =>
         /\ repFailures = 0 => reportRow.progress = 100
         /\ Told(reportRow.content)

RepInv ==
    /\ RepTypes
    /\ RowOK
    /\ builder \in {"none", "check"} => Untouched
    /\ builder = "tables" => Building
    /\ builder \in {"full", "save", "ended"} => Still
    /\ builder \in {"full", "save"} => Told(Content)

\* No table has two results, so there are at most as many results as tables.
LEMMA FewResults ==
    ASSUME NEW n \in Nat, NEW tasks \in Seq(Nat), NEW worker, NEW results \in Seq(Made),
           GroupOK(n, tasks, worker, results)
    PROVE  Len(results) <= n
  <1>. DEFINE task == [j \in 1 .. Len(results) |-> results[j].task]
  <1>1. Len(results) \in Nat /\ Len(tasks) \in Nat /\ Len(tasks) <= n
    BY DEF GroupOK
  <1>2. ASSUME NEW j \in 1 .. Len(results) PROVE results[j].task \in 1 .. n
    <2>1. results[j].task \in 1 .. (n - Len(tasks))
      BY DEF GroupOK
    <2>. QED BY <1>1, <2>1
  <1>3. \A j, k \in 1 .. Len(results) : j # k => results[j].task # results[k].task
    BY DEF GroupOK
  <1>4. task \in [1 .. Len(results) -> 1 .. n]
    BY <1>2
  <1>5. IsInjective(task)
    BY <1>3 DEF IsInjective
  <1>6. task \in Injection(1 .. Len(results), 1 .. n)
    BY <1>4, <1>5 DEF Injection
  <1>7. IsFiniteSet(1 .. n) /\ Cardinality(1 .. n) = n
    BY FS_Interval
  <1>8. Cardinality(1 .. Len(results)) = Len(results)
    <2>1. PICK m \in Nat : m = Len(results)
      BY <1>1
    <2>2. Cardinality(1 .. m) = m
      BY FS_Interval
    <2>. QED BY <2>1, <2>2
  <1>9. Cardinality(1 .. Len(results)) <= Cardinality(1 .. n)
    <2>. HIDE DEF task
    <2>. QED BY <1>6, <1>7, FS_Injection
  <1>. QED BY <1>7, <1>8, <1>9

\* A sequence that holds every element of a set once.
Lists(s, set) ==
    /\ s \in Seq(set)
    /\ \A x \in set : \E i \in 1 .. Len(s) : s[i] = x
    /\ \A i, j \in 1 .. Len(s) : i # j => s[i] # s[j]

\* It is as long as the set has elements.
LEMMA ListsOnce ==
    ASSUME NEW s, NEW set, Lists(s, set)
    PROVE  EachOnce(s, set)
  <1>1. s \in Seq(set) /\ Len(s) \in Nat /\ DOMAIN s = 1 .. Len(s) /\ s \in [1 .. Len(s) -> set]
    BY DEF Lists
  <1>2. Range(s) = set
    BY <1>1 DEF Lists, Range
  <1>3. IsInjective(s)
    BY <1>1 DEF Lists, IsInjective
  <1>4. s \in Bijection(1 .. Len(s), set)
    BY <1>1, <1>3 DEF Lists, Bijection, Injection, Surjection
  <1>5. ExistsBijection(1 .. Len(s), set)
    BY <1>4 DEF ExistsBijection
  <1>6. Cardinality(set) = Len(s)
    BY <1>1, <1>5, FS_CountingElements
  <1>. QED BY <1>2, <1>6 DEF EachOnce

\* The sequences of sets that share nothing, one after the other.
LEMMA ListsConcat ==
    ASSUME NEW s, NEW set, Lists(s, set), NEW t, NEW more, Lists(t, more), set \cap more = {}
    PROVE  Lists(s \o t, set \cup more)
  <1>1. s \in Seq(set \cup more) /\ t \in Seq(set \cup more)
    BY DEF Lists
  <1>2. /\ s \o t \in Seq(set \cup more) /\ Len(s \o t) = Len(s) + Len(t)
        /\ \A i \in 1 .. Len(s) + Len(t) : (s \o t)[i] = IF i <= Len(s) THEN s[i] ELSE t[i - Len(s)]
    BY <1>1, ConcatProperties
  <1>3. Len(s) \in Nat /\ Len(t) \in Nat
    BY <1>1
  <1>4. ASSUME NEW x \in set \cup more PROVE \E i \in 1 .. Len(s \o t) : (s \o t)[i] = x
    <2>1. CASE x \in set
      <3>1. PICK i \in 1 .. Len(s) : s[i] = x
        BY <2>1 DEF Lists
      <3>2. i \in 1 .. Len(s) + Len(t) /\ (s \o t)[i] = x
        BY <1>2, <1>3, <3>1
      <3>. QED BY <1>2, <3>2
    <2>2. CASE x \in more
      <3>1. PICK i \in 1 .. Len(t) : t[i] = x
        BY <2>2 DEF Lists
      <3>2. Len(s) + i \in 1 .. Len(s) + Len(t) /\ ~(Len(s) + i <= Len(s)) /\ (Len(s) + i) - Len(s) = i
        BY <1>3
      <3>3. (s \o t)[Len(s) + i] = x
        BY <1>2, <3>1, <3>2
      <3>. QED BY <1>2, <3>2, <3>3
    <2>. QED BY <2>1, <2>2
  <1>5. ASSUME NEW i \in 1 .. Len(s \o t), NEW j \in 1 .. Len(s \o t), i < j
        PROVE  (s \o t)[i] # (s \o t)[j]
    <2>1. i \in 1 .. Len(s) + Len(t) /\ j \in 1 .. Len(s) + Len(t)
      BY <1>2
    <2>2. CASE j <= Len(s)
      <3>1. i \in 1 .. Len(s) /\ j \in 1 .. Len(s) /\ i <= Len(s) /\ i # j
        BY <1>3, <1>5, <2>1, <2>2
      <3>2. (s \o t)[i] = s[i] /\ (s \o t)[j] = s[j]
        BY <1>2, <2>1, <3>1
      <3>3. \A k, l \in 1 .. Len(s) : k # l => s[k] # s[l]
        BY DEF Lists
      <3>4. s[i] # s[j]
        BY <3>1, <3>3
      <3>. QED BY <3>2, <3>4
    <2>3. CASE i > Len(s)
      <3>1. i - Len(s) \in 1 .. Len(t) /\ j - Len(s) \in 1 .. Len(t)
            /\ ~(i <= Len(s)) /\ ~(j <= Len(s)) /\ i - Len(s) # j - Len(s)
        BY <1>3, <1>5, <2>1, <2>3
      <3>2. (s \o t)[i] = t[i - Len(s)] /\ (s \o t)[j] = t[j - Len(s)]
        BY <1>2, <2>1, <3>1
      <3>3. \A k, l \in 1 .. Len(t) : k # l => t[k] # t[l]
        BY DEF Lists
      <3>4. t[i - Len(s)] # t[j - Len(s)]
        BY <3>1, <3>3
      <3>. QED BY <3>2, <3>4
    <2>4. CASE i <= Len(s) /\ j > Len(s)
      <3>1. i \in 1 .. Len(s) /\ j - Len(s) \in 1 .. Len(t) /\ ~(j <= Len(s))
        BY <1>3, <2>1, <2>4
      <3>2. (s \o t)[i] = s[i] /\ (s \o t)[j] = t[j - Len(s)]
        BY <1>2, <2>1, <2>4, <3>1
      <3>3. s \in Seq(set) /\ t \in Seq(more)
        BY DEF Lists
      <3>4. s[i] \in set /\ t[j - Len(s)] \in more
        BY <3>1, <3>3
      <3>. QED BY <3>2, <3>4
    <2>. QED BY <1>3, <2>1, <2>2, <2>3, <2>4
  <1>6. \A i, j \in 1 .. Len(s \o t) : i # j => i < j \/ j < i
    BY <1>2, <1>3
  <1>7. \A i, j \in 1 .. Len(s \o t) : i # j => (s \o t)[i] # (s \o t)[j]
    BY <1>5, <1>6
  <1>. QED BY <1>2, <1>4, <1>7 DEF Lists

\* The end of a sequence holds what is not in front of it.
LEMMA ListsRest ==
    ASSUME NEW s, NEW set, Lists(s, set), NEW n \in 0 .. Len(s)
    PROVE  Lists(SubSeq(s, n + 1, Len(s)), {s[i] : i \in (n + 1) .. Len(s)})
  <1>. DEFINE rest == SubSeq(s, n + 1, Len(s))
              after == {s[i] : i \in (n + 1) .. Len(s)}
  <1>1. s \in Seq(set) /\ Len(s) \in Nat /\ n \in Nat /\ n <= Len(s)
    BY DEF Lists
  <1>2. PICK m \in Nat : m = Len(s) - n
    BY <1>1
  <1>3. rest = [i \in 1 .. m |-> s[i + n]]
    BY <1>1, <1>2
  <1>4. \A i \in 1 .. m : i + n \in (n + 1) .. Len(s) /\ i + n \in 1 .. Len(s)
    BY <1>1, <1>2
  <1>5. \A i \in 1 .. m : rest[i] = s[i + n] /\ rest[i] \in after
    BY <1>3, <1>4
  <1>6. rest \in Seq(after) /\ Len(rest) = m
    <2>1. rest \in [1 .. m -> after]
      BY <1>3, <1>4
    <2>. HIDE DEF rest, after
    <2>. QED BY <2>1
  <1>7. ASSUME NEW x \in after PROVE \E i \in 1 .. m : rest[i] = x
    <2>1. PICK k \in (n + 1) .. Len(s) : s[k] = x
      OBVIOUS
    <2>2. k - n \in 1 .. m /\ (k - n) + n = k
      BY <1>1, <1>2
    <2>. QED BY <1>5, <2>1, <2>2
  <1>8. ASSUME NEW i \in 1 .. m, NEW j \in 1 .. m, i # j PROVE rest[i] # rest[j]
    <2>1. i + n # j + n
      BY <1>1, <1>8
    <2>2. s[i + n] # s[j + n]
      BY <1>4, <2>1 DEF Lists
    <2>. QED BY <1>5, <2>2
  <1>. HIDE DEF rest, after
  <1>9. Lists(rest, after)
    BY <1>6, <1>7, <1>8 DEF Lists
  <1>. QED BY <1>9 DEF rest, after

\* Two sequences in turn, as far as both go.
Turns(s, t, n) == [i \in 1 .. 2 * n |-> IF i % 2 = 1 THEN s[(i + 1) \div 2] ELSE t[i \div 2]]
First(s, n) == {s[i] : i \in 1 .. n}

\* They hold the first elements of both.
LEMMA ListsTurns ==
    ASSUME NEW s, NEW set, Lists(s, set), NEW t, NEW more, Lists(t, more), set \cap more = {},
           NEW n \in Nat, n <= Len(s), n <= Len(t)
    PROVE  Lists(Turns(s, t, n), First(s, n) \cup First(t, n))
  <1>. DEFINE turns == Turns(s, t, n)
              both == First(s, n) \cup First(t, n)
  <1>1. s \in Seq(set) /\ t \in Seq(more) /\ Len(s) \in Nat /\ Len(t) \in Nat
    BY DEF Lists
  <1>2. ASSUME NEW k \in 1 .. n
        PROVE  /\ 2 * k - 1 \in 1 .. 2 * n /\ (2 * k - 1) % 2 = 1 /\ ((2 * k - 1) + 1) \div 2 = k
               /\ 2 * k \in 1 .. 2 * n /\ (2 * k) % 2 = 0 /\ (2 * k) \div 2 = k
    OBVIOUS
  <1>3. \A k \in 1 .. n : turns[2 * k - 1] = s[k] /\ turns[2 * k] = t[k]
    BY <1>2 DEF Turns
  <1>4. ASSUME NEW i \in 1 .. 2 * n
        PROVE  \E k \in 1 .. n : i = 2 * k - 1 \/ i = 2 * k
    <2>1. CASE i % 2 = 1
      <3>1. (i + 1) \div 2 \in 1 .. n /\ i = 2 * ((i + 1) \div 2) - 1
        BY <2>1
      <3>. QED BY <3>1
    <2>2. CASE i % 2 = 0
      <3>1. i \div 2 \in 1 .. n /\ i = 2 * (i \div 2)
        BY <2>2
      <3>. QED BY <3>1
    <2>3. i % 2 = 1 \/ i % 2 = 0
      OBVIOUS
    <2>. QED BY <2>1, <2>2, <2>3
  <1>5. \A k \in 1 .. n : s[k] \in First(s, n) /\ t[k] \in First(t, n)
    BY DEF First
  <1>6. \A k \in 1 .. n : k \in 1 .. Len(s) /\ k \in 1 .. Len(t)
    BY <1>1
  <1>7. \A k \in 1 .. n : s[k] \in set /\ t[k] \in more
    BY <1>1, <1>6
  <1>8. turns \in [1 .. 2 * n -> both]
    <2>1. \A i \in 1 .. 2 * n : turns[i] \in both
      BY <1>3, <1>4, <1>5
    <2>2. turns = [i \in 1 .. 2 * n |-> turns[i]]
      BY DEF Turns
    <2>. QED BY <2>1, <2>2
  <1>9. turns \in Seq(both) /\ Len(turns) = 2 * n
    <2>1. 2 * n \in Nat
      OBVIOUS
    <2>. HIDE DEF turns, both
    <2>. QED BY <1>8, <2>1
  <1>10. ASSUME NEW x \in both PROVE \E i \in 1 .. 2 * n : turns[i] = x
    <2>1. PICK k \in 1 .. n : s[k] = x \/ t[k] = x
      BY DEF First
    <2>. QED BY <1>2, <1>3, <2>1
  <1>11. ASSUME NEW i \in 1 .. 2 * n, NEW j \in 1 .. 2 * n, i # j PROVE turns[i] # turns[j]
    <2>1. PICK k \in 1 .. n : i = 2 * k - 1 \/ i = 2 * k
      BY <1>4
    <2>2. PICK m \in 1 .. n : j = 2 * m - 1 \/ j = 2 * m
      BY <1>4
    <2>3. k # m => s[k] # s[m] /\ t[k] # t[m]
      BY <1>6 DEF Lists
    <2>4. s[k] # t[m] /\ t[k] # s[m]
      BY <1>7
    <2>5. CASE i = 2 * k - 1 /\ j = 2 * m - 1
      <3>1. k # m
        BY <1>11, <2>5
      <3>. QED BY <1>3, <2>3, <2>5, <3>1
    <2>6. CASE i = 2 * k /\ j = 2 * m
      <3>1. k # m
        BY <1>11, <2>6
      <3>. QED BY <1>3, <2>3, <2>6, <3>1
    <2>7. CASE i = 2 * k - 1 /\ j = 2 * m
      BY <1>3, <2>4, <2>7
    <2>8. CASE i = 2 * k /\ j = 2 * m - 1
      BY <1>3, <2>4, <2>8
    <2>. QED BY <2>1, <2>2, <2>5, <2>6, <2>7, <2>8
  <1>. HIDE DEF turns, both
  <1>12. Lists(turns, both)
    BY <1>9, <1>10, <1>11 DEF Lists
  <1>. QED BY <1>12 DEF turns, both

\* Tables of two ranges in turn, with what one has more: all of both, once.
LEMMA ListsInTurns ==
    ASSUME NEW s, NEW set, Lists(s, set), NEW t, NEW more, Lists(t, more), set \cap more = {}
    PROVE  Lists(InTurns(s, t), set \cup more)
  <1>. DEFINE n == IF Len(s) < Len(t) THEN Len(s) ELSE Len(t)
              restS == {s[i] : i \in (n + 1) .. Len(s)}
              restT == {t[i] : i \in (n + 1) .. Len(t)}
  <1>1. /\ Len(s) \in Nat /\ Len(t) \in Nat
        /\ \A i \in 1 .. Len(s) : s[i] \in set
        /\ \A i \in 1 .. Len(t) : t[i] \in more
    BY DEF Lists
  <1>2. n \in Nat /\ n <= Len(s) /\ n <= Len(t) /\ n \in 0 .. Len(s) /\ n \in 0 .. Len(t)
    BY <1>1
  <1>. HIDE DEF n
  <1>3. Lists(Turns(s, t, n), First(s, n) \cup First(t, n))
    BY <1>2, ListsTurns
  <1>4. Lists(SubSeq(s, n + 1, Len(s)), restS) /\ Lists(SubSeq(t, n + 1, Len(t)), restT)
    BY <1>2, ListsRest
  <1>5. First(s, n) \cup restS = set
    <2>1. \A i \in 1 .. Len(s) : i \in 1 .. n \/ i \in (n + 1) .. Len(s)
      BY <1>1, <1>2
    <2>2. ASSUME NEW x \in First(s, n) \cup restS PROVE x \in set
      <3>1. PICK i : (i \in 1 .. n \/ i \in (n + 1) .. Len(s)) /\ s[i] = x
        BY DEF First
      <3>2. i \in 1 .. Len(s)
        BY <1>1, <1>2, <3>1
      <3>. QED BY <1>1, <3>1, <3>2
    <2>3. ASSUME NEW x \in set PROVE x \in First(s, n) \cup restS
      <3>1. PICK i \in 1 .. Len(s) : s[i] = x
        BY DEF Lists
      <3>. QED BY <2>1, <3>1 DEF First
    <2>. HIDE DEF restS
    <2>. QED BY <2>2, <2>3
  <1>6. First(t, n) \cup restT = more
    <2>1. \A i \in 1 .. Len(t) : i \in 1 .. n \/ i \in (n + 1) .. Len(t)
      BY <1>1, <1>2
    <2>2. ASSUME NEW x \in First(t, n) \cup restT PROVE x \in more
      <3>1. PICK i : (i \in 1 .. n \/ i \in (n + 1) .. Len(t)) /\ t[i] = x
        BY DEF First
      <3>2. i \in 1 .. Len(t)
        BY <1>1, <1>2, <3>1
      <3>. QED BY <1>1, <3>1, <3>2
    <2>3. ASSUME NEW x \in more PROVE x \in First(t, n) \cup restT
      <3>1. PICK i \in 1 .. Len(t) : t[i] = x
        BY DEF Lists
      <3>. QED BY <2>1, <3>1 DEF First
    <2>. HIDE DEF restT
    <2>. QED BY <2>2, <2>3
  <1>7. First(s, n) \cap restS = {}
    <2>1. ASSUME NEW i \in 1 .. n, NEW j \in (n + 1) .. Len(s) PROVE s[i] # s[j]
      <3>1. i \in 1 .. Len(s) /\ j \in 1 .. Len(s) /\ i # j
        BY <1>1, <1>2
      <3>. QED BY <3>1 DEF Lists
    <2>. QED BY <2>1 DEF First
  <1>8. First(t, n) \cap restT = {}
    <2>1. ASSUME NEW i \in 1 .. n, NEW j \in (n + 1) .. Len(t) PROVE t[i] # t[j]
      <3>1. i \in 1 .. Len(t) /\ j \in 1 .. Len(t) /\ i # j
        BY <1>1, <1>2
      <3>. QED BY <3>1 DEF Lists
    <2>. QED BY <2>1 DEF First
  <1>. HIDE DEF restS, restT
  <1>9. Lists(Turns(s, t, n) \o SubSeq(s, n + 1, Len(s)), (First(s, n) \cup First(t, n)) \cup restS)
    <2>1. (First(s, n) \cup First(t, n)) \cap restS = {}
      BY <1>5, <1>6, <1>7
    <2>. QED BY <1>3, <1>4, <2>1, ListsConcat
  <1>10. Lists(Turns(s, t, n) \o SubSeq(s, n + 1, Len(s)) \o SubSeq(t, n + 1, Len(t)),
               ((First(s, n) \cup First(t, n)) \cup restS) \cup restT)
    <2>1. ((First(s, n) \cup First(t, n)) \cup restS) \cap restT = {}
      BY <1>5, <1>6, <1>8
    <2>. QED BY <1>4, <1>9, <2>1, ListsConcat
  <1>11. ((First(s, n) \cup First(t, n)) \cup restS) \cup restT = set \cup more
    BY <1>5, <1>6
  <1>12. InTurns(s, t) = Turns(s, t, n) \o SubSeq(s, n + 1, Len(s)) \o SubSeq(t, n + 1, Len(t))
    BY DEF InTurns, Turns, n
  <1>. QED BY <1>10, <1>11, <1>12

\* A set of numbers that is not empty has a least one.
LEMMA Least ==
    ASSUME NEW S \in SUBSET Nat, S # {}
    PROVE  \E x \in S : \A y \in S : x <= y
  <1>. DEFINE R == OpToRel(<, Nat)
  <1>1. IsWellFoundedOn(R, Nat)
    BY NatLessThanWellFounded
  <1>2. \A x, y \in Nat : <<y, x>> \in R <=> y < x
    BY DEF OpToRel
  <1>. HIDE DEF R
  <1>3. PICK x \in S : \A y \in S : ~(<<y, x>> \in R)
    BY <1>1, WFMin
  <1>4. \A y \in S : ~(y < x)
    BY <1>2, <1>3
  <1>. QED BY <1>4

\* A finite set of numbers in order.
Ordered(s, set) ==
    /\ s \in [1 .. Cardinality(set) -> set]
    /\ \A i, j \in DOMAIN s : i < j => s[i] < s[j]
CanOrder(n) ==
    \A S \in SUBSET Nat : IsFiniteSet(S) /\ Cardinality(S) = n => \E s : Ordered(s, S)

\* A set can be put in order if what is left without its least number can.
LEMMA OrderMore ==
    ASSUME NEW n \in Nat, n # 0, CanOrder(n - 1)
    PROVE  CanOrder(n)
  <1>. SUFFICES ASSUME NEW S \in SUBSET Nat, IsFiniteSet(S), Cardinality(S) = n
                PROVE  \E s : Ordered(s, S)
    BY DEF CanOrder
  <1>1. S # {}
    BY FS_EmptySet
  <1>2. PICK x \in S : \A y \in S : x <= y
    BY <1>1, Least
  <1>3. IsFiniteSet(S \ {x}) /\ Cardinality(S \ {x}) = n - 1 /\ S \ {x} \in SUBSET Nat
    BY FS_RemoveElement
  <1>4. PICK r : Ordered(r, S \ {x})
    BY <1>3 DEF CanOrder
  <1>5. /\ r \in [1 .. (n - 1) -> S \ {x}]
        /\ \A i, j \in 1 .. (n - 1) : i < j => r[i] < r[j]
    BY <1>3, <1>4 DEF Ordered
  <1>. DEFINE s == [i \in 1 .. n |-> IF i = 1 THEN x ELSE r[i - 1]]
  <1>6. \A i \in 1 .. n : i # 1 => i - 1 \in 1 .. (n - 1) /\ s[i] = r[i - 1] /\ r[i - 1] \in S \ {x}
    BY <1>5
  <1>7. s[1] = x
    OBVIOUS
  <1>8. s \in [1 .. n -> S]
    BY <1>2, <1>6
  <1>9. ASSUME NEW i \in 1 .. n, NEW j \in 1 .. n, i < j PROVE s[i] < s[j]
    <2>1. j # 1 /\ j - 1 \in 1 .. (n - 1) /\ s[j] = r[j - 1] /\ r[j - 1] \in S \ {x}
      BY <1>6, <1>9
    <2>2. CASE i = 1
      <3>1. x <= r[j - 1] /\ r[j - 1] # x /\ r[j - 1] \in Nat /\ x \in Nat
        BY <1>2, <2>1
      <3>. QED BY <1>7, <2>1, <2>2, <3>1
    <2>3. CASE i # 1
      <3>1. i - 1 \in 1 .. (n - 1) /\ s[i] = r[i - 1] /\ i - 1 < j - 1
        BY <1>6, <1>9, <2>3
      <3>. QED BY <1>5, <2>1, <3>1
    <2>. QED BY <2>2, <2>3
  <1>. HIDE DEF s
  <1>10. Ordered(s, S)
    BY <1>8, <1>9 DEF Ordered
  <1>. QED BY <1>10

\* Every finite set of numbers can be put in order.
LEMMA AllInOrder ==
    ASSUME NEW S \in SUBSET Nat, IsFiniteSet(S)
    PROVE  Ordered(InOrder(S), S)
  <1>. DEFINE bad == {n \in Nat : ~CanOrder(n)}
  <1>1. bad = {}
    <2>1. SUFFICES ASSUME bad # {} PROVE FALSE
      OBVIOUS
    <2>2. PICK n \in bad : \A m \in bad : n <= m
      BY <2>1, Least
    <2>3. CASE n = 0
      <3>1. ASSUME NEW T \in SUBSET Nat, IsFiniteSet(T), Cardinality(T) = 0
            PROVE  \E s : Ordered(s, T)
        <4>1. T = {} /\ Cardinality(T) = 0
          BY <3>1, FS_EmptySet
        <4>2. Ordered([i \in 1 .. 0 |-> 0], T)
          BY <4>1 DEF Ordered
        <4>. QED BY <4>2
      <3>. QED BY <2>2, <2>3, <3>1 DEF CanOrder
    <2>4. CASE n # 0
      <3>1. n \in Nat /\ n - 1 \in Nat /\ ~(n <= n - 1)
        BY <2>4
      <3>2. CanOrder(n - 1)
        BY <2>2, <3>1
      <3>3. CanOrder(n)
        BY <2>4, <3>1, <3>2, OrderMore
      <3>. QED BY <2>2, <3>3
    <2>. QED BY <2>3, <2>4
  <1>2. Cardinality(S) \in Nat
    BY FS_CardinalityType
  <1>3. CanOrder(Cardinality(S))
    BY <1>1, <1>2
  <1>4. PICK s : Ordered(s, S)
    BY <1>3 DEF CanOrder
  <1>. QED BY <1>4 DEF Ordered, InOrder

\* The pairs of a group, or of a table that is alone, with some numbers.
Of(k, set) == {<<k, t>> : t \in set}

\* Pairs are told apart by both of their parts.
LEMMA Pairs ==
    ASSUME NEW k, NEW A, NEW B
    PROVE  /\ \A m : k # m => Of(k, A) \cap Of(m, B) = {}
           /\ A \cap B = {} => Of(k, A) \cap Of(k, B) = {}
           /\ Of(k, A \ B) = Of(k, A) \ Of(k, B)
           /\ A \subseteq B => Of(k, A) \subseteq Of(k, B)
           /\ Of(k, {}) = {}
  <1>1. \A x, S : x \in Of(k, S) <=> \E t \in S : x = <<k, t>>
    BY DEF Of
  <1>2. \A s, t : <<k, s>> = <<k, t>> => s = t
    OBVIOUS
  <1>3. \A m, s, t : <<k, s>> = <<m, t>> => k = m
    OBVIOUS
  <1>4. ASSUME NEW m, k # m PROVE Of(k, A) \cap Of(m, B) = {}
    BY <1>3, <1>4 DEF Of
  <1>5. ASSUME A \cap B = {} PROVE Of(k, A) \cap Of(k, B) = {}
    BY <1>1, <1>2, <1>5
  <1>6. Of(k, A \ B) = Of(k, A) \ Of(k, B)
    BY <1>1, <1>2
  <1>7. A \subseteq B => Of(k, A) \subseteq Of(k, B)
    BY <1>1
  <1>8. Of(k, {}) = {}
    BY DEF Of
  <1>. QED BY <1>4, <1>5, <1>6, <1>7, <1>8

\* Sets of pairs of two kinds have nothing in common.
LEMMA KindsApart ==
    ASSUME NEW k, NEW A, NEW m, NEW B, k # m
    PROVE  Of(k, A) \cap Of(m, B) = {}
  BY Pairs

\* Tables are named once, in the order of their tasks.
LEMMA NamedLists ==
    ASSUME NEW g, NEW S \in SUBSET Nat, IsFiniteSet(S)
    PROVE  /\ Lists(Named(g, S), Of(g, S))
           /\ \A i, j \in DOMAIN Named(g, S) : i < j => Named(g, S)[i][2] < Named(g, S)[j][2]
  <1>1. PICK n \in Nat : n = Cardinality(S)
    BY FS_CardinalityType
  <1>2. PICK s : s = InOrder(S)
    OBVIOUS
  <1>3. s \in [1 .. n -> S] /\ \A i, j \in 1 .. n : i < j => s[i] < s[j]
    BY <1>1, <1>2, AllInOrder DEF Ordered
  <1>4. \A i, j \in 1 .. n : i # j => s[i] # s[j]
    <2>1. ASSUME NEW i \in 1 .. n, NEW j \in 1 .. n, i < j PROVE s[i] # s[j]
      <3>1. s[i] < s[j] /\ s[i] \in Nat /\ s[j] \in Nat
        BY <1>3, <2>1
      <3>. QED BY <3>1
    <2>2. \A i, j \in 1 .. n : i # j => i < j \/ j < i
      OBVIOUS
    <2>. QED BY <2>1, <2>2
  <1>5. IsInjective(s)
    BY <1>3, <1>4 DEF IsInjective
  <1>6. s \in Injection(1 .. n, S)
    BY <1>3, <1>5 DEF Injection
  <1>7. Cardinality(1 .. n) = n
    BY FS_Interval
  <1>8. s \in Surjection(1 .. n, S)
    BY <1>1, <1>6, <1>7, FS_Injection
  <1>9. \A x \in S : \E i \in 1 .. n : s[i] = x
    BY <1>8 DEF Surjection
  <1>10. Named(g, S) = [i \in 1 .. n |-> <<g, s[i]>>]
    BY <1>1, <1>2 DEF Named
  <1>. DEFINE named == Named(g, S)
              pairs == Of(g, S)
  <1>11. \A i \in 1 .. n : named[i] = <<g, s[i]>> /\ named[i] \in pairs /\ named[i][2] = s[i]
    <2>1. \A i \in 1 .. n : named[i] = <<g, s[i]>>
      BY <1>10
    <2>2. \A i \in 1 .. n : <<g, s[i]>> \in pairs
      BY <1>3 DEF Of
    <2>. HIDE DEF named, pairs
    <2>. QED BY <2>1, <2>2
  <1>12. named \in Seq(pairs) /\ Len(named) = n /\ DOMAIN named = 1 .. n
    <2>1. named \in [1 .. n -> pairs]
      BY <1>10, <1>11
    <2>. HIDE DEF named, pairs
    <2>. QED BY <2>1
  <1>13. ASSUME NEW x \in pairs PROVE \E i \in 1 .. n : named[i] = x
    <2>1. PICK t \in S : x = <<g, t>>
      BY DEF Of
    <2>2. PICK i \in 1 .. n : s[i] = t
      BY <1>9
    <2>. QED BY <1>11, <2>1, <2>2
  <1>14. \A i, j \in 1 .. n : i # j => named[i] # named[j]
    BY <1>4, <1>11
  <1>. HIDE DEF named, pairs
  <1>15. Lists(named, pairs)
    BY <1>12, <1>13, <1>14 DEF Lists
  <1>16. \A i, j \in DOMAIN named : i < j => named[i][2] < named[j][2]
    BY <1>3, <1>11, <1>12
  <1>. QED BY <1>15, <1>16 DEF named, pairs

\* What a group of tables came to, once its workers have left.
LEMMA GroupDone ==
    ASSUME RepTypes, Building, NEW g \in Groups, Joined(g)
    PROVE  /\ \A out : TasksThat(g, out) \in SUBSET Nat /\ IsFiniteSet(TasksThat(g, out))
           /\ \A out : Ran(g, {out}) = Of(g, TasksThat(g, out))
           /\ TasksThat(g, "rows") \cap TasksThat(g, "error") = {}
           /\ Ran(g, Outcomes) = Of(g, 1 .. Due(g))
           /\ ErrorsOf(g) = Of(g, TasksThat(g, "error"))
  <1>. DEFINE results == repResults[g]
              worker == repWorker[g]
  <1>1. Due(g) \in Nat
    <2>1. TasksOf[g] \in Nat
      BY ReportAssumption
    <2>. QED BY <2>1 DEF Due
  <1>2. PICK n \in Nat : n = Due(g)
    BY <1>1
  <1>3. GroupOK(n, <<>>, worker, results)
    BY <1>2 DEF Building, Joined
  <1>4. results \in Seq(Made)
    BY DEF RepTypes
  <1>5. Len(<<>>) = 0 /\ n - 0 = n
    OBVIOUS
  <1>6. \A i \in 1 .. Conc : worker[i].at # "run"
    BY DEF Joined
  <1>7. /\ \A j \in 1 .. Len(results) : results[j].task \in 1 .. n
        /\ \A j, k \in 1 .. Len(results) : j # k => results[j].task # results[k].task
        /\ \A t \in 1 .. n : \E j \in 1 .. Len(results) : results[j].task = t
    BY <1>3, <1>5, <1>6 DEF GroupOK
  <1>8. Range(results) = {results[j] : j \in 1 .. Len(results)}
    BY <1>4, RangeEquality
  <1>9. \A r \in Range(results) : r \in Made /\ r.task \in 1 .. n
    BY <1>4, <1>7, <1>8
  <1>10. ASSUME NEW r \in Range(results), NEW s \in Range(results), r.task = s.task PROVE r = s
    <2>1. PICK j \in 1 .. Len(results) : r = results[j]
      BY <1>8
    <2>2. PICK k \in 1 .. Len(results) : s = results[k]
      BY <1>8
    <2>. HIDE DEF results
    <2>. QED BY <1>7, <1>10, <2>1, <2>2
  <1>11. \A t \in 1 .. n : \E r \in Range(results) : r.task = t
    BY <1>7, <1>8
  <1>. HIDE DEF results
  <1>12. \A out, t : t \in TasksThat(g, out) <=> \E r \in Range(results) : r.out = out /\ r.task = t
    BY DEF TasksThat, results
  <1>13. \A outs, x : x \in Ran(g, outs) <=>
           \E r \in Range(results) : r.out \in outs /\ x = <<g, r.task>>
    BY DEF Ran, results
  <1>14. ASSUME NEW out
         PROVE  TasksThat(g, out) \in SUBSET Nat /\ IsFiniteSet(TasksThat(g, out))
    <2>1. TasksThat(g, out) \subseteq 1 .. n
      BY <1>9, <1>12
    <2>2. IsFiniteSet(1 .. n)
      BY FS_Interval
    <2>3. IsFiniteSet(TasksThat(g, out))
      BY <2>1, <2>2, FS_Subset
    <2>. QED BY <2>1, <2>3
  <1>15. ASSUME NEW out PROVE Ran(g, {out}) = Of(g, TasksThat(g, out))
    <2>1. \A x : x \in Of(g, TasksThat(g, out)) <=> \E t \in TasksThat(g, out) : x = <<g, t>>
      BY DEF Of
    <2>2. ASSUME NEW x \in Ran(g, {out}) PROVE x \in Of(g, TasksThat(g, out))
      <3>1. PICK r \in Range(results) : r.out \in {out} /\ x = <<g, r.task>>
        BY <1>13
      <3>2. r.task \in TasksThat(g, out)
        BY <1>12, <3>1
      <3>. QED BY <2>1, <3>1, <3>2
    <2>3. ASSUME NEW x \in Of(g, TasksThat(g, out)) PROVE x \in Ran(g, {out})
      <3>1. PICK t \in TasksThat(g, out) : x = <<g, t>>
        BY <2>1
      <3>2. PICK r \in Range(results) : r.out = out /\ r.task = t
        BY <1>12
      <3>. QED BY <1>13, <3>1, <3>2
    <2>. QED BY <2>2, <2>3
  <1>16. TasksThat(g, "rows") \cap TasksThat(g, "error") = {}
    BY <1>10, <1>12
  <1>17. Ran(g, Outcomes) = Of(g, 1 .. n)
    <2>1. \A r \in Range(results) : r.out \in Outcomes
      BY <1>9 DEF Made, Outcomes
    <2>2. \A x : x \in Of(g, 1 .. n) <=> \E t \in 1 .. n : x = <<g, t>>
      BY DEF Of
    <2>3. ASSUME NEW x \in Ran(g, Outcomes) PROVE x \in Of(g, 1 .. n)
      <3>1. PICK r \in Range(results) : x = <<g, r.task>>
        BY <1>13
      <3>. QED BY <1>9, <2>2, <3>1
    <2>4. ASSUME NEW x \in Of(g, 1 .. n) PROVE x \in Ran(g, Outcomes)
      <3>1. PICK t \in 1 .. n : x = <<g, t>>
        BY <2>2
      <3>2. PICK r \in Range(results) : r.task = t
        BY <1>11
      <3>. QED BY <1>13, <2>1, <3>1, <3>2
    <2>. QED BY <2>3, <2>4
  <1>18. ErrorsOf(g) = Of(g, TasksThat(g, "error"))
    BY DEF ErrorsOf, Of
  <1>. QED BY <1>2, <1>14, <1>15, <1>16, <1>17, <1>18

\* The tables of a comparison in their order, and its errors.
One(k, singles) == IF k \in singles THEN <<<<k, 0>>>> ELSE <<>>
Merged(singles, compared) ==
    TablesOf("header") \o One("slow", singles) \o InTurns(TablesOf("t1"), TablesOf("t2"))
    \o One("diagnose", singles) \o compared \o TablesOf("end")
Errs == UNION {ErrorsOf(g) : g \in Groups}
AllErrors(failed, incomparable) ==
    Of("refer", incomparable) \cup (UNION {Of(k, {0}) : k \in failed}) \cup Errs

\* The table of a single goroutine, if there is one.
LEMMA OneLists ==
    ASSUME NEW k, NEW singles, NEW zero, zero = (IF k \in singles THEN {0} ELSE {})
    PROVE  Lists(One(k, singles), Of(k, zero))
  <1>1. CASE k \in singles
    <2>1. One(k, singles) = <<<<k, 0>>>> /\ Of(k, zero) = {<<k, 0>>}
      BY <1>1 DEF One, Of
    <2>2. Len(<<<<k, 0>>>>) = 1 /\ <<<<k, 0>>>>[1] = <<k, 0>> /\ <<<<k, 0>>>> \in Seq({<<k, 0>>})
      OBVIOUS
    <2>. QED BY <2>1, <2>2 DEF Lists
  <1>2. CASE k \notin singles
    <2>1. One(k, singles) = <<>> /\ Of(k, zero) = {}
      BY <1>2 DEF One, Of
    <2>. QED BY <2>1 DEF Lists
  <1>. QED BY <1>1, <1>2

\* The tables of a comparison are all there, once.
LEMMA MergedLists ==
    ASSUME NEW singles, NEW compared, NEW both, Lists(compared, Of("refer", both)),
           NEW H, Lists(TablesOf("header"), Of("header", H)),
           NEW A, Lists(TablesOf("t1"), Of("t1", A)),
           NEW B, Lists(TablesOf("t2"), Of("t2", B)),
           NEW E, Lists(TablesOf("end"), Of("end", E)),
           NEW S, S = (IF "slow" \in singles THEN {0} ELSE {}),
           NEW D, D = (IF "diagnose" \in singles THEN {0} ELSE {})
    PROVE  Lists(Merged(singles, compared),
                 ((((Of("header", H) \cup Of("slow", S)) \cup (Of("t1", A) \cup Of("t2", B)))
                   \cup Of("diagnose", D)) \cup Of("refer", both)) \cup Of("end", E))
  <1>1. /\ Of("header", H) \cap Of("slow", S) = {}
        /\ Of("header", H) \cap Of("t1", A) = {}
        /\ Of("header", H) \cap Of("t2", B) = {}
        /\ Of("header", H) \cap Of("diagnose", D) = {}
        /\ Of("header", H) \cap Of("refer", both) = {}
        /\ Of("header", H) \cap Of("end", E) = {}
    <2>1. Of("header", H) \cap Of("slow", S) = {}
      BY KindsApart
    <2>2. Of("header", H) \cap Of("t1", A) = {}
      BY KindsApart
    <2>3. Of("header", H) \cap Of("t2", B) = {}
      BY KindsApart
    <2>4. Of("header", H) \cap Of("diagnose", D) = {}
      BY KindsApart
    <2>5. Of("header", H) \cap Of("refer", both) = {}
      BY KindsApart
    <2>6. Of("header", H) \cap Of("end", E) = {}
      BY KindsApart
    <2>. QED BY <2>1, <2>2, <2>3, <2>4, <2>5, <2>6
  <1>2. /\ Of("slow", S) \cap Of("t1", A) = {}
        /\ Of("slow", S) \cap Of("t2", B) = {}
        /\ Of("slow", S) \cap Of("diagnose", D) = {}
        /\ Of("slow", S) \cap Of("refer", both) = {}
        /\ Of("slow", S) \cap Of("end", E) = {}
    <2>1. Of("slow", S) \cap Of("t1", A) = {}
      BY KindsApart
    <2>2. Of("slow", S) \cap Of("t2", B) = {}
      BY KindsApart
    <2>3. Of("slow", S) \cap Of("diagnose", D) = {}
      BY KindsApart
    <2>4. Of("slow", S) \cap Of("refer", both) = {}
      BY KindsApart
    <2>5. Of("slow", S) \cap Of("end", E) = {}
      BY KindsApart
    <2>. QED BY <2>1, <2>2, <2>3, <2>4, <2>5
  <1>3. /\ Of("t1", A) \cap Of("t2", B) = {}
        /\ Of("t1", A) \cap Of("diagnose", D) = {}
        /\ Of("t1", A) \cap Of("refer", both) = {}
        /\ Of("t1", A) \cap Of("end", E) = {}
    <2>1. Of("t1", A) \cap Of("t2", B) = {}
      BY KindsApart
    <2>2. Of("t1", A) \cap Of("diagnose", D) = {}
      BY KindsApart
    <2>3. Of("t1", A) \cap Of("refer", both) = {}
      BY KindsApart
    <2>4. Of("t1", A) \cap Of("end", E) = {}
      BY KindsApart
    <2>. QED BY <2>1, <2>2, <2>3, <2>4
  <1>4. /\ Of("t2", B) \cap Of("diagnose", D) = {}
        /\ Of("t2", B) \cap Of("refer", both) = {}
        /\ Of("t2", B) \cap Of("end", E) = {}
    <2>1. Of("t2", B) \cap Of("diagnose", D) = {}
      BY KindsApart
    <2>2. Of("t2", B) \cap Of("refer", both) = {}
      BY KindsApart
    <2>3. Of("t2", B) \cap Of("end", E) = {}
      BY KindsApart
    <2>. QED BY <2>1, <2>2, <2>3
  <1>5. /\ Of("diagnose", D) \cap Of("refer", both) = {}
        /\ Of("diagnose", D) \cap Of("end", E) = {}
        /\ Of("refer", both) \cap Of("end", E) = {}
    <2>1. Of("diagnose", D) \cap Of("refer", both) = {}
      BY KindsApart
    <2>2. Of("diagnose", D) \cap Of("end", E) = {}
      BY KindsApart
    <2>3. Of("refer", both) \cap Of("end", E) = {}
      BY KindsApart
    <2>. QED BY <2>1, <2>2, <2>3
  <1>6. Lists(One("slow", singles), Of("slow", S)) /\ Lists(One("diagnose", singles), Of("diagnose", D))
    BY OneLists
  <1>7. Lists(TablesOf("header") \o One("slow", singles), Of("header", H) \cup Of("slow", S))
    BY <1>1, <1>6, ListsConcat
  <1>8. Lists(InTurns(TablesOf("t1"), TablesOf("t2")), Of("t1", A) \cup Of("t2", B))
    BY <1>3, ListsInTurns
  <1>9. Lists(TablesOf("header") \o One("slow", singles) \o InTurns(TablesOf("t1"), TablesOf("t2")),
              (Of("header", H) \cup Of("slow", S)) \cup (Of("t1", A) \cup Of("t2", B)))
    <2>1. (Of("header", H) \cup Of("slow", S)) \cap (Of("t1", A) \cup Of("t2", B)) = {}
      BY <1>1, <1>2
    <2>. QED BY <1>7, <1>8, <2>1, ListsConcat
  <1>10. Lists(TablesOf("header") \o One("slow", singles) \o InTurns(TablesOf("t1"), TablesOf("t2"))
                 \o One("diagnose", singles),
               ((Of("header", H) \cup Of("slow", S)) \cup (Of("t1", A) \cup Of("t2", B)))
                 \cup Of("diagnose", D))
    <2>1. ((Of("header", H) \cup Of("slow", S)) \cup (Of("t1", A) \cup Of("t2", B)))
          \cap Of("diagnose", D) = {}
      BY <1>1, <1>2, <1>3, <1>4
    <2>. QED BY <1>6, <1>9, <2>1, ListsConcat
  <1>11. Lists(TablesOf("header") \o One("slow", singles) \o InTurns(TablesOf("t1"), TablesOf("t2"))
                 \o One("diagnose", singles) \o compared,
               (((Of("header", H) \cup Of("slow", S)) \cup (Of("t1", A) \cup Of("t2", B)))
                 \cup Of("diagnose", D)) \cup Of("refer", both))
    <2>1. (((Of("header", H) \cup Of("slow", S)) \cup (Of("t1", A) \cup Of("t2", B)))
           \cup Of("diagnose", D)) \cap Of("refer", both) = {}
      BY <1>1, <1>2, <1>3, <1>4, <1>5
    <2>. QED BY <1>10, <2>1, ListsConcat
  <1>12. ((((Of("header", H) \cup Of("slow", S)) \cup (Of("t1", A) \cup Of("t2", B)))
           \cup Of("diagnose", D)) \cup Of("refer", both)) \cap Of("end", E) = {}
    BY <1>1, <1>2, <1>3, <1>4, <1>5
  <1>. QED BY <1>11, <1>12, ListsConcat DEF Merged

\* No other table is taken for one that failed.
LEMMA ErrsApart ==
    ASSUME NEW k, NEW A, k \in Groups => A \cap TasksThat(k, "error") = {}
    PROVE  Of(k, A) \cap Errs = {}
  <1>1. ASSUME NEW g \in Groups PROVE Of(k, A) \cap ErrorsOf(g) = {}
    <2>1. ErrorsOf(g) = Of(g, TasksThat(g, "error"))
      BY DEF ErrorsOf, Of
    <2>2. CASE k = g
      BY <2>1, <2>2, Pairs
    <2>3. CASE k # g
      BY <2>1, <2>3, Pairs
    <2>. QED BY <2>2, <2>3
  <1>. QED BY <1>1 DEF Errs

\* What the goroutines of a comparison gather is exact, unless two of them met.
LEMMA ComparisonExact ==
    ASSUME RepTypes, Building, reportKind = "compare", \A l \in Lines : lineAt[l] = "run",
           \A g \in Groups : Joined(g),
           NEW failed \in SUBSET Singles, NEW incomparable \in SUBSET InBoth
    PROVE  ContentExact([tables |-> Merged(Singles \ failed, Named("refer", InBoth \ incomparable)),
                         errors |-> AllErrors(failed, incomparable)])
  <1>. DEFINE singles == Singles \ failed
              rows(g) == TasksThat(g, "rows")
              S == IF "slow" \in singles THEN {0} ELSE {}
              D == IF "diagnose" \in singles THEN {0} ELSE {}
              both == InBoth \ incomparable
              errors == AllErrors(failed, incomparable)
              tables == Merged(singles, Named("refer", both))
              listed == ((((Of("header", rows("header")) \cup Of("slow", S))
                           \cup (Of("t1", rows("t1")) \cup Of("t2", rows("t2"))))
                          \cup Of("diagnose", D)) \cup Of("refer", both)) \cup Of("end", rows("end"))
  <1>1. ASSUME NEW g \in Groups
        PROVE  /\ \A out : TasksThat(g, out) \in SUBSET Nat /\ IsFiniteSet(TasksThat(g, out))
               /\ \A out : Ran(g, {out}) = Of(g, TasksThat(g, out))
               /\ rows(g) \cap TasksThat(g, "error") = {}
               /\ Ran(g, Outcomes) = Of(g, 1 .. Due(g))
               /\ ErrorsOf(g) = Of(g, TasksThat(g, "error"))
    BY GroupDone
  <1>2. \A g \in Groups : Lists(TablesOf(g), Of(g, rows(g)))
    BY <1>1, NamedLists DEF TablesOf
  <1>3. {"header", "t1", "t2", "refer", "base", "end"} \subseteq Groups
    BY DEF Groups
  <1>4. both \in SUBSET Nat /\ IsFiniteSet(both) /\ InBoth \subseteq rows("refer")
    <2>1. both \subseteq rows("refer") /\ InBoth \subseteq rows("refer")
      BY DEF InBoth
    <2>2. rows("refer") \in SUBSET Nat /\ IsFiniteSet(rows("refer"))
      BY <1>1, <1>3
    <2>3. IsFiniteSet(both)
      BY <2>1, <2>2, FS_Subset
    <2>. QED BY <2>1, <2>2, <2>3
  <1>5. Lists(Named("refer", both), Of("refer", both))
    BY <1>4, NamedLists
  <1>6. Lists(tables, listed)
    <2>1. /\ Lists(TablesOf("header"), Of("header", rows("header")))
          /\ Lists(TablesOf("t1"), Of("t1", rows("t1")))
          /\ Lists(TablesOf("t2"), Of("t2", rows("t2")))
          /\ Lists(TablesOf("end"), Of("end", rows("end")))
      BY <1>2, <1>3
    <2>. HIDE DEF rows, both, singles
    <2>. QED BY <1>5, <2>1, MergedLists
  <1>7. EachOnce(tables, listed)
    <2>. HIDE DEF tables, listed
    <2>. QED BY <1>6, ListsOnce
  <1>. DEFINE gone == Of("slow", {0} \ S) \cup Of("diagnose", {0} \ D)
              own == Of("slow", {0}) \cup Of("diagnose", {0})
              single == (Of("header", rows("header")) \cup Of("t1", rows("t1")))
                        \cup (Of("t2", rows("t2")) \cup Of("end", rows("end")))
  <1>8. errors = (Of("refer", incomparable) \cup gone) \cup Errs
    <2>1. UNION {Of(k, {0}) : k \in failed} = gone
      <3>1. failed \subseteq {"slow", "diagnose"}
        BY DEF Singles
      <3>2. \A k \in {"slow", "diagnose"} : k \in failed <=> k \notin singles
        BY DEF Singles
      <3>3. Of("slow", {0} \ S) = (IF "slow" \in failed THEN Of("slow", {0}) ELSE {})
        BY <3>2 DEF Of
      <3>4. Of("diagnose", {0} \ D) = (IF "diagnose" \in failed THEN Of("diagnose", {0}) ELSE {})
        BY <3>2 DEF Of
      <3>. HIDE DEF S, D, singles
      <3>. QED BY <3>1, <3>3, <3>4
    <2>2. errors = (Of("refer", incomparable) \cup (UNION {Of(k, {0}) : k \in failed})) \cup Errs
      BY DEF AllErrors
    <2>. HIDE DEF gone, errors
    <2>. QED BY <2>1, <2>2
  <1>9. \A g \in Groups : Of(g, rows(g)) \cap Errs = {}
    BY <1>1, ErrsApart
  <1>10. Of("refer", InBoth) \cap Errs = {} /\ own \cap Errs = {}
    <2>1. InBoth \cap TasksThat("refer", "error") = {}
      BY <1>1, <1>3, <1>4
    <2>2. "slow" \notin Groups /\ "diagnose" \notin Groups
      BY DEF Groups
    <2>3. Of("slow", {0}) \cap Errs = {} /\ Of("diagnose", {0}) \cap Errs = {}
      BY <2>2, ErrsApart
    <2>4. Of("refer", InBoth) \cap Errs = {}
      BY <2>1, ErrsApart
    <2>. QED BY <2>3, <2>4
  <1>11. /\ Of("refer", both) = Of("refer", InBoth) \ Of("refer", incomparable)
         /\ Of("refer", incomparable) \subseteq Of("refer", InBoth)
    BY Pairs
  <1>12. /\ Of("slow", {0} \ S) = Of("slow", {0}) \ Of("slow", S) /\ Of("slow", S) \subseteq Of("slow", {0})
         /\ Of("diagnose", {0} \ D) = Of("diagnose", {0}) \ Of("diagnose", D)
         /\ Of("diagnose", D) \subseteq Of("diagnose", {0})
    BY Pairs
  <1>13. ASSUME NEW g \in {"header", "t1", "t2", "end"}, NEW A
         PROVE  Of(g, A) \cap ((Of("refer", InBoth) \cup Of("slow", {0})) \cup Of("diagnose", {0})) = {}
    <2>1. g # "refer" /\ g # "slow" /\ g # "diagnose"
      OBVIOUS
    <2>2. /\ Of(g, A) \cap Of("refer", InBoth) = {} /\ Of(g, A) \cap Of("slow", {0}) = {}
          /\ Of(g, A) \cap Of("diagnose", {0}) = {}
      BY <2>1, Pairs
    <2>. QED BY <2>2
  <1>14. /\ Of("refer", InBoth) \cap Of("slow", {0}) = {} /\ Of("refer", InBoth) \cap Of("diagnose", {0}) = {}
         /\ Of("slow", {0}) \cap Of("diagnose", {0}) = {}
    BY Pairs
  <1>. HIDE DEF rows, both, S, D
  <1>15. gone \subseteq own /\ errors \cap Of("refer", InBoth) = Of("refer", incomparable)
         /\ errors \cap own = gone
    BY <1>8, <1>10, <1>11, <1>12, <1>14
  <1>16. single \cap errors = {}
    <2>1. single \cap Errs = {}
      BY <1>3, <1>9
    <2>2. single \cap ((Of("refer", InBoth) \cup Of("slow", {0})) \cup Of("diagnose", {0})) = {}
      BY <1>13
    <2>. HIDE DEF single
    <2>. QED BY <1>8, <1>11, <1>12, <2>1, <2>2
  <1>17. listed = ((single \cup Of("refer", InBoth)) \cup own) \ errors
    <2>1. Of("slow", S) = Of("slow", {0}) \ errors
      BY <1>12, <1>14, <1>15
    <2>2. Of("diagnose", D) = Of("diagnose", {0}) \ errors
      BY <1>12, <1>14, <1>15
    <2>3. Of("refer", both) = Of("refer", InBoth) \ errors
      BY <1>11, <1>15
    <2>. HIDE DEF errors
    <2>. QED BY <1>16, <2>1, <2>2, <2>3
  <1>18. errors \ (Of("refer", InBoth) \cup own) = Errs
    BY <1>8, <1>10, <1>11, <1>15
  <1>. HIDE DEF errors, tables, listed, single
  <1>19. RanOf({"header", "t1", "t2", "end"}, {"rows"}) = single
    <2>1. \A g \in {"header", "t1", "t2", "end"} : Ran(g, {"rows"}) = Of(g, rows(g))
      BY <1>1, <1>3 DEF rows
    <2>. QED BY <2>1 DEF RanOf, single
  <1>20. {t \in Ran("refer", {"rows"}) : <<"base", t[2]>> \in Ran("base", {"rows"})} = Of("refer", InBoth)
    <2>1. Ran("refer", {"rows"}) = Of("refer", rows("refer")) /\ Ran("base", {"rows"}) = Of("base", rows("base"))
      BY <1>1, <1>3 DEF rows
    <2>2. InBoth = rows("refer") \cap rows("base")
      BY DEF InBoth, rows
    <2>3. \A u, A : <<"base", u>> \in Of("base", A) <=> u \in A
      BY DEF Of
    <2>4. ASSUME NEW x \in Of("refer", rows("refer"))
          PROVE  <<"base", x[2]>> \in Of("base", rows("base")) <=> x \in Of("refer", InBoth)
      <3>1. PICK u \in rows("refer") : x = <<"refer", u>>
        BY DEF Of
      <3>2. x[2] = u /\ (x \in Of("refer", InBoth) <=> u \in InBoth)
        BY <3>1 DEF Of
      <3>. QED BY <2>2, <2>3, <3>2
    <2>5. Of("refer", InBoth) \subseteq Of("refer", rows("refer"))
      BY <2>2 DEF Of
    <2>. QED BY <2>1, <2>4, <2>5
  <1>21. {<<k, 0>> : k \in Singles} = own
    BY DEF Of, Singles
  <1>22. RanOf(Groups, {"error"}) = Errs
    <2>1. \A g \in Groups : Ran(g, {"error"}) = ErrorsOf(g)
      BY <1>1
    <2>. QED BY <2>1 DEF RanOf, Errs
  <1>23. AllRan(Groups \ {"all"})
    <2>1. ASSUME NEW g \in Groups \ {"all"} PROVE Due(g) = TasksOf[g]
      <3>1. LineOf(g) \in Lines
        BY DEF LineOf, Lines, Groups
      <3>. QED BY <3>1 DEF Due
    <2>. QED BY <1>1, <2>1 DEF AllRan, Of
  <1>. HIDE DEF own
  <1>. DEFINE c == [tables |-> tables, errors |-> errors]
              pairs == {t \in Ran("refer", {"rows"}) : <<"base", t[2]>> \in Ran("base", {"rows"})}
              alone == {<<k, 0>> : k \in Singles}
              ran == RanOf({"header", "t1", "t2", "end"}, {"rows"})
  <1>24. c.tables = tables /\ c.errors = errors
    OBVIOUS
  <1>25. EachOnce(c.tables, (ran \cup pairs \cup alone) \ c.errors)
    BY <1>7, <1>17, <1>19, <1>20, <1>21, <1>24
  <1>26. c.errors \ (pairs \cup alone) = RanOf(Groups, {"error"})
    BY <1>18, <1>20, <1>21, <1>22, <1>24
  <1>27. ContentExact(c)
    <2>. HIDE DEF c
    <2>. QED BY <1>23, <1>25, <1>26 DEF ContentExact
  <1>. QED BY <1>27 DEF tables, errors, both

\* Of a total that is not exceeded, the percentage is one.
LEMMA IsPercentage ==
    ASSUME NEW p \in Nat, NEW t \in Nat, t > 0, p <= t
    PROVE  (p * 100) \div t \in 0 .. 100
  <1>1. PICK a \in Nat : a = p * 100
    OBVIOUS
  <1>2. a <= 100 * t
    BY <1>1
  <1>3. a \div t \in Int /\ t * (a \div t) <= a /\ a < t * (a \div t) + t
    BY <1>1
  <1>4. PICK q \in Int : q = a \div t
    BY <1>3
  <1>5. t * q <= 100 * t /\ 0 < t * (q + 1)
    BY <1>2, <1>3, <1>4
  <1>6. q >= 0
    <2>1. SUFFICES ASSUME q + 1 <= 0 PROVE FALSE
      OBVIOUS
    <2>2. t * (q + 1) <= 0
      BY <2>1
    <2>. QED BY <1>5, <2>2
  <1>7. q <= 100
    <2>1. SUFFICES ASSUME q >= 101 PROVE FALSE
      OBVIOUS
    <2>2. t * q >= t * 101
      BY <2>1
    <2>. QED BY <1>5, <2>2
  <1>. QED BY <1>1, <1>4, <1>6, <1>7

\* A worker takes the next table of its group.
LEMMA TakeOK ==
    ASSUME NEW n \in Nat, NEW tasks \in Seq(Nat), tasks # <<>>,
           NEW worker \in [1 .. Conc -> Workers], NEW results \in Seq(Made),
           GroupOK(n, tasks, worker, results),
           NEW i \in 1 .. Conc, worker[i].at = "take",
           NEW w, w.at = "run", w.task = Head(tasks)
    PROVE  GroupOK(n, Tail(tasks), [worker EXCEPT ![i] = w], results)
  <1>. DEFINE rest == Tail(tasks)
              new == [worker EXCEPT ![i] = w]
  <1>1. PICK k \in Nat : k = Len(tasks)
    OBVIOUS
  <1>2. k # 0 /\ k <= n /\ n - k \in Nat
    <2>1. k # 0
      BY <1>1
    <2>2. k <= n
      BY <1>1 DEF GroupOK
    <2>. QED BY <2>1, <2>2
  <1>3. /\ Len(rest) = k - 1
        /\ \A j \in 1 .. (k - 1) : rest[j] = tasks[j + 1]
        /\ Head(tasks) = tasks[1]
    BY <1>1, HeadTailProperties
  <1>4. \A j \in 1 .. k : tasks[j] = (n - k) + j
    BY <1>1 DEF GroupOK
  <1>5. w.task = (n - k) + 1
    BY <1>2, <1>3, <1>4
  <1>6. n - Len(rest) = (n - k) + 1
    BY <1>2, <1>3
  <1>7. \A j \in 1 .. (k - 1) : rest[j] = (n - Len(rest)) + j
    <2>1. ASSUME NEW j \in 1 .. (k - 1) PROVE rest[j] = (n - Len(rest)) + j
      <3>1. j + 1 \in 1 .. k
        BY <1>2
      <3>2. tasks[j + 1] = (n - k) + (j + 1)
        BY <1>4, <3>1
      <3>. QED BY <1>3, <1>6, <3>2
    <2>. QED BY <2>1
  <1>8. new[i] = w /\ \A j \in 1 .. Conc : j # i => new[j] = worker[j]
    OBVIOUS
  <1>9. /\ \A j \in 1 .. Conc : worker[j].at # "take" => worker[j].task \in 1 .. (n - k)
        /\ \A j \in 1 .. Len(results) : results[j].task \in 1 .. (n - k)
    BY <1>1 DEF GroupOK
  <1>10. \A t : t \in 1 .. (n - k) => t \in 1 .. ((n - k) + 1) /\ t # (n - k) + 1
    BY <1>2
  <1>11. \A t \in 1 .. ((n - k) + 1) : t = (n - k) + 1 \/ t \in 1 .. (n - k)
    BY <1>2
  <1>12. (n - k) + 1 \in 1 .. ((n - k) + 1)
    BY <1>2
  <1>13. \A j \in 1 .. Conc : new[j].at # "take" => new[j].task \in 1 .. ((n - k) + 1)
    BY <1>5, <1>8, <1>9, <1>10, <1>12
  <1>14. \A j \in 1 .. Len(results) : results[j].task \in 1 .. ((n - k) + 1) /\ results[j].task # w.task
    BY <1>5, <1>9, <1>10
  <1>15. \A j \in 1 .. Conc : worker[j].at = "run" => worker[j].task # w.task
    BY <1>5, <1>9, <1>10
  <1>16. ASSUME NEW j \in 1 .. Conc, new[j].at = "run"
         PROVE  /\ \A m \in 1 .. Len(results) : results[m].task # new[j].task
                /\ \A m \in 1 .. Conc : m # j /\ new[m].at = "run" => new[m].task # new[j].task
    <2>1. CASE j = i
      BY <1>8, <1>14, <1>15, <2>1
    <2>2. CASE j # i
      <3>1. new[j] = worker[j] /\ worker[j].at = "run"
        BY <1>8, <1>16, <2>2
      <3>2. /\ \A m \in 1 .. Len(results) : results[m].task # worker[j].task
            /\ \A m \in 1 .. Conc : m # j /\ worker[m].at = "run" => worker[m].task # worker[j].task
        BY <3>1 DEF GroupOK
      <3>. QED BY <1>8, <1>15, <3>1, <3>2
    <2>. QED BY <2>1, <2>2
  <1>17. ASSUME NEW t \in 1 .. ((n - k) + 1)
         PROVE  \/ \E j \in 1 .. Len(results) : results[j].task = t
                \/ \E j \in 1 .. Conc : new[j].at = "run" /\ new[j].task = t
    <2>1. CASE t = (n - k) + 1
      BY <1>5, <1>8, <2>1
    <2>2. CASE t \in 1 .. (n - k)
      <3>1. \/ \E j \in 1 .. Len(results) : results[j].task = t
            \/ \E j \in 1 .. Conc : worker[j].at = "run" /\ worker[j].task = t
        BY <1>1, <2>2 DEF GroupOK
      <3>2. ASSUME NEW j \in 1 .. Conc, worker[j].at = "run" PROVE new[j] = worker[j]
        BY <1>8, <3>2
      <3>. QED BY <3>1, <3>2
    <2>. QED BY <1>11, <2>1, <2>2
  <1>18. \A j, m \in 1 .. Len(results) : m # j => results[m].task # results[j].task
    BY DEF GroupOK
  <1>19. Len(rest) <= n
    BY <1>2, <1>3
  <1>. HIDE DEF rest, new
  <1>20. GroupOK(n, rest, new, results)
    BY <1>3, <1>6, <1>7, <1>13, <1>14, <1>16, <1>17, <1>18, <1>19 DEF GroupOK
  <1>. QED BY <1>20 DEF rest, new

\* What it made becomes a result of the group.
LEMMA FinishOK ==
    ASSUME NEW n \in Nat, NEW tasks \in Seq(Nat),
           NEW worker \in [1 .. Conc -> Workers], NEW results \in Seq(Made),
           GroupOK(n, tasks, worker, results),
           NEW i \in 1 .. Conc, worker[i].at = "run",
           NEW w, w.at = "write", w.task = worker[i].task,
           NEW r \in Made, r.task = worker[i].task
    PROVE  GroupOK(n, tasks, [worker EXCEPT ![i] = w], Append(results, r))
  <1>. DEFINE new == [worker EXCEPT ![i] = w]
              more == Append(results, r)
  <1>1. PICK k \in Nat : k = n - Len(tasks)
    <2>1. Len(tasks) \in Nat /\ Len(tasks) <= n
      BY DEF GroupOK
    <2>2. n - Len(tasks) \in Nat
      BY <2>1
    <2>. QED BY <2>2
  <1>2. PICK m \in Nat : m = Len(results)
    OBVIOUS
  <1>3. /\ Len(more) = m + 1 /\ more[m + 1] = r
        /\ \A j \in 1 .. m : more[j] = results[j]
    BY <1>2, AppendProperties
  <1>4. \A j \in 1 .. (m + 1) : j = m + 1 \/ j \in 1 .. m
    OBVIOUS
  <1>5. m + 1 \in 1 .. (m + 1) /\ \A j \in 1 .. m : j \in 1 .. (m + 1) /\ j # m + 1
    OBVIOUS
  <1>6. new[i] = w /\ \A j \in 1 .. Conc : j # i => new[j] = worker[j]
    OBVIOUS
  <1>7. /\ \A j \in 1 .. Conc : worker[j].at # "take" => worker[j].task \in 1 .. k
        /\ \A j \in 1 .. m : results[j].task \in 1 .. k
        /\ \A j \in 1 .. Conc : worker[j].at = "run" =>
             /\ \A l \in 1 .. m : results[l].task # worker[j].task
             /\ \A l \in 1 .. Conc : l # j /\ worker[l].at = "run" => worker[l].task # worker[j].task
        /\ \A j, l \in 1 .. m : j # l => results[l].task # results[j].task
        /\ \A t \in 1 .. k :
             \/ \E j \in 1 .. m : results[j].task = t
             \/ \E j \in 1 .. Conc : worker[j].at = "run" /\ worker[j].task = t
    BY <1>1, <1>2 DEF GroupOK
  <1>. HIDE DEF new, more
  <1>8. \A j \in 1 .. Conc : new[j].at # "take" => new[j].task \in 1 .. k
    BY <1>6, <1>7
  <1>9. ASSUME NEW j \in 1 .. Conc, new[j].at = "run"
        PROVE  /\ \A l \in 1 .. (m + 1) : more[l].task # new[j].task
               /\ \A l \in 1 .. Conc : l # j /\ new[l].at = "run" => new[l].task # new[j].task
    <2>1. j # i /\ new[j] = worker[j] /\ worker[j].at = "run"
      BY <1>6, <1>9
    <2>2. worker[i].task # worker[j].task
      BY <1>7, <2>1
    <2>3. ASSUME NEW l \in 1 .. (m + 1) PROVE more[l].task # new[j].task
      <3>1. CASE l = m + 1
        BY <1>3, <2>1, <2>2, <3>1
      <3>2. CASE l \in 1 .. m
        BY <1>3, <1>7, <2>1, <3>2
      <3>. QED BY <1>4, <3>1, <3>2
    <2>4. ASSUME NEW l \in 1 .. Conc, l # j, new[l].at = "run" PROVE new[l].task # new[j].task
      <3>1. l # i /\ new[l] = worker[l]
        BY <1>6, <2>4
      <3>. QED BY <1>7, <2>1, <2>4, <3>1
    <2>. QED BY <2>3, <2>4
  <1>10. \A j \in 1 .. (m + 1) : more[j].task \in 1 .. k
    BY <1>3, <1>4, <1>7
  <1>11. \A j, l \in 1 .. (m + 1) : l # j => more[l].task # more[j].task
    <2>1. \A j \in 1 .. m : more[j].task # r.task
      BY <1>3, <1>7
    <2>2. ASSUME NEW j \in 1 .. m, NEW l \in 1 .. m, j # l PROVE more[l].task # more[j].task
      <3>1. more[j] = results[j] /\ more[l] = results[l]
        BY <1>3
      <3>2. results[l].task # results[j].task
        BY <1>7, <2>2
      <3>. QED BY <3>1, <3>2
    <2>. QED BY <1>3, <1>4, <2>1, <2>2
  <1>12. ASSUME NEW t \in 1 .. k
         PROVE  \/ \E j \in 1 .. (m + 1) : more[j].task = t
                \/ \E j \in 1 .. Conc : new[j].at = "run" /\ new[j].task = t
    <2>1. CASE \E j \in 1 .. m : results[j].task = t
      BY <1>3, <1>5, <2>1
    <2>2. ASSUME NEW j \in 1 .. Conc, worker[j].at = "run", worker[j].task = t
          PROVE  \/ more[m + 1].task = t
                 \/ new[j].at = "run" /\ new[j].task = t
      BY <1>3, <1>6, <2>2
    <2>. QED BY <1>5, <1>7, <2>1, <2>2
  <1>13. Len(tasks) <= n /\ \A j \in 1 .. Len(tasks) : tasks[j] = (n - Len(tasks)) + j
    BY DEF GroupOK
  <1>14. \A j \in 1 .. Conc : new[j].at # "take" => new[j].task \in 1 .. (n - Len(tasks))
    BY <1>1, <1>8
  <1>15. \A j \in 1 .. Conc : new[j].at = "run" =>
           /\ \A l \in 1 .. Len(more) : more[l].task # new[j].task
           /\ \A l \in 1 .. Conc : l # j /\ new[l].at = "run" => new[l].task # new[j].task
    BY <1>3, <1>9
  <1>16. \A j \in 1 .. Len(more) :
           /\ more[j].task \in 1 .. (n - Len(tasks))
           /\ \A l \in 1 .. Len(more) : l # j => more[l].task # more[j].task
    BY <1>1, <1>3, <1>10, <1>11
  <1>17. \A t \in 1 .. (n - Len(tasks)) :
           \/ \E j \in 1 .. Len(more) : more[j].task = t
           \/ \E j \in 1 .. Conc : new[j].at = "run" /\ new[j].task = t
    BY <1>1, <1>3, <1>12
  <1>18. GroupOK(n, tasks, new, more)
    BY <1>13, <1>14, <1>15, <1>16, <1>17 DEF GroupOK
  <1>. QED BY <1>18 DEF new, more

\* It has written its percentage and is free.
LEMMA WriteOK ==
    ASSUME NEW n \in Nat, NEW tasks \in Seq(Nat),
           NEW worker \in [1 .. Conc -> Workers], NEW results \in Seq(Made),
           GroupOK(n, tasks, worker, results),
           NEW i \in 1 .. Conc, worker[i].at = "write", NEW w, w.at = "take"
    PROVE  GroupOK(n, tasks, [worker EXCEPT ![i] = w], results)
  <1>. DEFINE new == [worker EXCEPT ![i] = w]
  <1>1. new[i] = w /\ \A j \in 1 .. Conc : j # i => new[j] = worker[j]
    OBVIOUS
  <1>. HIDE DEF new
  <1>2. \A j \in 1 .. Conc : new[j].at = "run" <=> worker[j].at = "run"
    BY <1>1
  <1>3. \A j \in 1 .. Conc : new[j].at = "run" => new[j] = worker[j]
    BY <1>1
  <1>4. \A j \in 1 .. Conc : new[j].at # "take" => worker[j].at # "take" /\ new[j] = worker[j]
    BY <1>1
  <1>5. GroupOK(n, tasks, new, results)
    <2>1. \A j \in 1 .. Conc : new[j].at # "take" => new[j].task \in 1 .. (n - Len(tasks))
      BY <1>4 DEF GroupOK
    <2>2. \A t \in 1 .. (n - Len(tasks)) :
            \/ \E j \in 1 .. Len(results) : results[j].task = t
            \/ \E j \in 1 .. Conc : new[j].at = "run" /\ new[j].task = t
      <3>1. \A t \in 1 .. (n - Len(tasks)) :
              \/ \E j \in 1 .. Len(results) : results[j].task = t
              \/ \E j \in 1 .. Conc : worker[j].at = "run" /\ worker[j].task = t
        BY DEF GroupOK
      <3>2. ASSUME NEW j \in 1 .. Conc, worker[j].at = "run" PROVE new[j].at = "run" /\ new[j] = worker[j]
        BY <1>2, <1>3, <3>2
      <3>. SUFFICES ASSUME NEW t \in 1 .. (n - Len(tasks))
           PROVE  \/ \E j \in 1 .. Len(results) : results[j].task = t
                  \/ \E j \in 1 .. Conc : new[j].at = "run" /\ new[j].task = t
        OBVIOUS
      <3>3. CASE \E j \in 1 .. Len(results) : results[j].task = t
        BY <3>3
      <3>4. CASE \E j \in 1 .. Conc : worker[j].at = "run" /\ worker[j].task = t
        <4>1. PICK j \in 1 .. Conc : worker[j].at = "run" /\ worker[j].task = t
          BY <3>4
        <4>2. new[j].at = "run" /\ new[j].task = t
          BY <3>2, <4>1
        <4>. QED BY <4>2
      <3>. QED BY <3>1, <3>3, <3>4
    <2>3. \A j \in 1 .. Conc : new[j].at = "run" =>
            /\ \A l \in 1 .. Len(results) : results[l].task # new[j].task
            /\ \A l \in 1 .. Conc : l # j /\ new[l].at = "run" => new[l].task # new[j].task
      <3>1. \A j \in 1 .. Conc : worker[j].at = "run" =>
            /\ \A l \in 1 .. Len(results) : results[l].task # worker[j].task
            /\ \A l \in 1 .. Conc : l # j /\ worker[l].at = "run" => worker[l].task # worker[j].task
        BY DEF GroupOK
      <3>. QED BY <1>2, <1>3, <3>1
    <2>. QED BY <2>1, <2>2, <2>3 DEF GroupOK
  <1>. QED BY <1>5 DEF new

\* A group that was not launched is empty, and has all its tables before it then.
LEMMA LaunchOK ==
    ASSUME NEW n \in Nat, NEW tasks \in Seq(Nat),
           NEW worker \in [1 .. Conc -> Workers], NEW results \in Seq(Made),
           GroupOK(0, tasks, worker, results)
    PROVE  /\ tasks = <<>> /\ results = <<>> /\ \A i \in 1 .. Conc : worker[i].at = "take"
           /\ GroupOK(n, [i \in 1 .. n |-> i], worker, results)
  <1>1. Len(tasks) = 0 /\ tasks = <<>>
    BY DEF GroupOK
  <1>2. Len(results) = 0 /\ results = <<>>
    <2>1. Len(results) <= 0
      BY FewResults
    <2>. QED BY <2>1
  <1>3. \A i \in 1 .. Conc : worker[i].at = "take"
    <2>1. \A i \in 1 .. Conc : worker[i].at # "take" => worker[i].task \in 1 .. (0 - 0)
      BY <1>1 DEF GroupOK
    <2>. QED BY <2>1
  <1>. DEFINE all == [i \in 1 .. n |-> i]
  <1>4. Len(all) = n /\ \A i \in 1 .. n : all[i] = i
    OBVIOUS
  <1>5. n - n = 0
    OBVIOUS
  <1>. HIDE DEF all
  <1>6. GroupOK(n, all, worker, results)
    BY <1>2, <1>3, <1>4, <1>5 DEF GroupOK
  <1>. QED BY <1>1, <1>2, <1>3, <1>6 DEF all

\* A group is fine in the next state if what is known of it then is.
LEMMA GroupThen ==
    ASSUME NEW h \in Groups, NEW n, Due(h)' = n,
           GroupOK(n, repTasks'[h], repWorker'[h], repResults'[h])
    PROVE  GroupOK(Due(h), repTasks[h], repWorker[h], repResults[h])'
  <1>1. GroupOK(Due(h)', repTasks'[h], repWorker'[h], repResults'[h])
    OBVIOUS
  <1>. QED BY <1>1 DEF GroupOK

\* How many tables are due.
LEMMA DueNat ==
    ASSUME NEW g \in Groups
    PROVE  Due(g) \in Nat
  <1>1. TasksOf[g] \in Nat
    BY ReportAssumption
  <1>. QED BY <1>1 DEF Due

\* A worker has something to do only while the tables are made.
LEMMA AtWork ==
    ASSUME RepInv, NEW g \in Groups, NEW i \in 1 .. Conc,
           repTasks[g] # <<>> \/ repWorker[g][i].at # "take"
    PROVE  /\ builder = "tables" /\ RepTypes /\ RowOK /\ Building
           /\ GroupOK(Due(g), repTasks[g], repWorker[g], repResults[g])
  <1>1. ~Untouched
    <2>1. NoTasks[g] = <<>>
      BY DEF NoTasks
    <2>2. NoWorkers[g][i].at = "take"
      BY DEF NoWorkers, Idle
    <2>. QED BY <2>1, <2>2 DEF Untouched
  <1>2. ~Still
    BY DEF Still, Joined
  <1>. QED BY <1>1, <1>2 DEF RepInv, RepTypes, Building

\* A step of one worker.
LEMMA StepIs ==
    ASSUME RepTypes, NEW g \in Groups, NEW i \in 1 .. Conc, NEW w \in Workers, Step(g, i, w)
    PROVE  /\ repWorker' \in [Groups -> [1 .. Conc -> Workers]]
           /\ repWorker'[g] = [repWorker[g] EXCEPT ![i] = w]
           /\ \A h \in Groups : h # g => repWorker'[h] = repWorker[h]
  <1>1. repWorker' = [repWorker EXCEPT ![g] = [repWorker[g] EXCEPT ![i] = w]]
    BY DEF Step
  <1>2. repWorker \in [Groups -> [1 .. Conc -> Workers]]
    BY DEF RepTypes
  <1>3. [repWorker[g] EXCEPT ![i] = w] \in [1 .. Conc -> Workers]
    BY <1>2
  <1>. QED BY <1>1, <1>2, <1>3

\* The row stays true as long as it and the builder stay as they are.
LEMMA RowStays ==
    ASSUME RowOK, builder = "tables", UNCHANGED <<builder, reportRow, repFailures>>
    PROVE  RowOK'
  BY DEF RowOK, Empty

\* Take keeps the invariant.
LEMMA TakeKeeps ==
    ASSUME RepInv, NEW g \in Groups, NEW i \in 1 .. Conc, Take(g, i)
    PROVE  RepInv'
  <1>. DEFINE w == [at |-> "run", task |-> Head(repTasks[g]), pct |-> 0]
  <1>1. /\ repWorker[g][i].at = "take" /\ repTasks[g] # <<>> /\ Step(g, i, w)
        /\ repTasks' = [repTasks EXCEPT ![g] = Tail(repTasks[g])]
        /\ UNCHANGED <<reportKind, reportRow, repFailures, lineAt, repResults, repProgress,
                       builder, repTotal>>
    BY DEF Take, requestVars, lineVars
  <1>2. /\ builder = "tables" /\ RepTypes /\ RowOK /\ Building
        /\ GroupOK(Due(g), repTasks[g], repWorker[g], repResults[g])
    BY <1>1, AtWork
  <1>3. /\ repTasks \in [Groups -> Seq(Nat)] /\ repWorker[g] \in [1 .. Conc -> Workers]
        /\ repResults[g] \in Seq(Made)
    BY <1>2 DEF RepTypes
  <1>4. Head(repTasks[g]) \in Nat /\ Tail(repTasks[g]) \in Seq(Nat)
    BY <1>1, <1>3, HeadTailProperties
  <1>5. w \in Workers /\ w.at = "run" /\ w.task = Head(repTasks[g])
    <2>1. 0 \in 0 .. 100
      OBVIOUS
    <2>. QED BY <1>4, <2>1 DEF Workers
  <1>6. /\ repWorker' \in [Groups -> [1 .. Conc -> Workers]]
        /\ repWorker'[g] = [repWorker[g] EXCEPT ![i] = w]
        /\ \A h \in Groups : h # g => repWorker'[h] = repWorker[h]
    <2>. HIDE DEF w
    <2>. QED BY <1>1, <1>2, <1>5, StepIs
  <1>7. RepTypes'
    BY <1>1, <1>2, <1>4, <1>6 DEF RepTypes
  <1>8. GroupOK(Due(g), Tail(repTasks[g]), [repWorker[g] EXCEPT ![i] = w], repResults[g])
    <2>. HIDE DEF w
    <2>. QED BY <1>1, <1>2, <1>3, <1>5, DueNat, TakeOK
  <1>9. \A h \in Groups : Due(h)' = Due(h) /\ Results(h)' = Results(h)
    BY <1>1 DEF Due, Results
  <1>10. \A h \in Groups : GroupOK(Due(h), repTasks[h], repWorker[h], repResults[h])'
    <2>1. ASSUME NEW h \in Groups
          PROVE  GroupOK(Due(h), repTasks'[h], repWorker'[h], repResults[h])
      <3>1. CASE h = g
        BY <1>1, <1>3, <1>6, <1>8, <3>1
      <3>2. CASE h # g
        <4>1. repTasks'[h] = repTasks[h] /\ repWorker'[h] = repWorker[h]
          BY <1>1, <1>3, <1>6, <3>2
        <4>. QED BY <1>2, <4>1 DEF Building
      <3>. QED BY <3>1, <3>2
    <2>. QED BY <1>1, <1>9, <2>1 DEF GroupOK
  <1>11. Building'
    <2>1. {"all", "header", "t1", "t2", "refer", "base", "end"} \subseteq Groups
      BY DEF Groups
    <2>. QED BY <1>1, <1>2, <1>9, <1>10, <2>1 DEF Building, Sum
  <1>12. RowOK'
    BY <1>1, <1>2, RowStays
  <1>. QED BY <1>1, <1>2, <1>7, <1>11, <1>12 DEF RepInv

\* What a number of results becomes when g has one more.
More(g, h, before, after) == before \in Nat /\ after = before + (IF h = g THEN 1 ELSE 0)

\* One group has one result more: so have all together.
LEMMA SumMore ==
    ASSUME NEW g \in Groups, NEW a, NEW b, NEW c, NEW d, NEW e, NEW f, NEW h,
           NEW a1, NEW b1, NEW c1, NEW d1, NEW e1, NEW f1, NEW h1,
           More(g, "all", a, a1), More(g, "header", b, b1), More(g, "t1", c, c1),
           More(g, "t2", d, d1), More(g, "refer", e, e1), More(g, "base", f, f1),
           More(g, "end", h, h1)
    PROVE  Sum(a1, b1, c1, d1, e1, f1, h1) = Sum(a, b, c, d, e, f, h) + 1
  BY DEF More, Sum, Groups

\* Finish keeps the invariant, and the percentage it works out is one.
LEMMA FinishKeeps ==
    ASSUME RepInv, NEW g \in Groups, NEW i \in 1 .. Conc, NEW out \in OutcomesOf[g], Finish(g, i, out)
    PROVE  RepInv'
  <1>. DEFINE old == repWorker[g][i]
              w == [old EXCEPT !.at = "write", !.pct = (repProgress' * 100) \div repTotal]
              r == [task |-> old.task, out |-> IF out = "panic" THEN "error" ELSE out]
  <1>1. /\ old.at = "run" /\ Step(g, i, w)
        /\ repResults' = [repResults EXCEPT ![g] = Append(repResults[g], r)]
        /\ repProgress' = repProgress + 1
        /\ UNCHANGED <<reportKind, reportRow, repFailures, lineAt, repTasks, builder, repTotal>>
    BY DEF Finish, requestVars, lineVars
  <1>2. /\ builder = "tables" /\ RepTypes /\ RowOK /\ Building
        /\ GroupOK(Due(g), repTasks[g], repWorker[g], repResults[g])
    BY <1>1, AtWork
  <1>3. /\ repTasks \in [Groups -> Seq(Nat)] /\ repWorker[g] \in [1 .. Conc -> Workers]
        /\ repResults \in [Groups -> Seq(Made)] /\ old \in Workers
    BY <1>2 DEF RepTypes
  <1>4. out \in Outcomes
    BY ReportAssumption
  <1>5. r \in Made /\ r.task = old.task
    <2>1. old.task \in Nat
      BY <1>3 DEF Workers
    <2>. QED BY <1>4, <2>1 DEF Made, Outcomes
  <1>6. w.at = "write" /\ w.task = old.task /\ w.pct = (repProgress' * 100) \div repTotal
    <2>1. DOMAIN old = {"at", "task", "pct"}
      BY <1>3 DEF Workers
    <2>. QED BY <2>1
  <1>7. GroupOK(Due(g), repTasks[g], [repWorker[g] EXCEPT ![i] = w], Append(repResults[g], r))
    <2>. HIDE DEF w, r
    <2>. QED BY <1>1, <1>2, <1>3, <1>5, <1>6, DueNat, FinishOK
  <1>8. /\ Append(repResults[g], r) \in Seq(Made)
        /\ Len(Append(repResults[g], r)) = Len(repResults[g]) + 1
    <2>. HIDE DEF r
    <2>. QED BY <1>3, <1>5, AppendProperties
  <1>. HIDE DEF r
  <1>9. /\ repResults' \in [Groups -> Seq(Made)] /\ repResults'[g] = Append(repResults[g], r)
        /\ \A h \in Groups : h # g => repResults'[h] = repResults[h]
    BY <1>1, <1>3, <1>8
  <1>10. /\ \A h \in Groups : Due(h)' = Due(h) /\ Due(h) \in Nat
         /\ \A h \in Groups : Results(h) \in Nat /\ Results(h)' = Results(h) + (IF h = g THEN 1 ELSE 0)
    <2>1. \A h \in Groups : Due(h)' = Due(h) /\ Due(h) \in Nat
      BY <1>1, DueNat DEF Due
    <2>2. \A h \in Groups : Results(h) \in Nat
      BY <1>3 DEF Results
    <2>3. Results(g)' = Results(g) + 1
      BY <1>8, <1>9 DEF Results
    <2>4. \A h \in Groups : h # g => Results(h)' = Results(h)
      BY <1>9 DEF Results
    <2>. QED BY <2>1, <2>2, <2>3, <2>4
  <1>11. \A h \in Groups : Results(h)' <= Due(h)
    <2>1. Len(repResults'[g]) <= Due(g)
      <3>. HIDE DEF w
      <3>. QED BY <1>3, <1>7, <1>8, <1>9, DueNat, FewResults
    <2>2. ASSUME NEW h \in Groups, h # g PROVE Len(repResults[h]) <= Due(h)
      <3>1. GroupOK(Due(h), repTasks[h], repWorker[h], repResults[h])
        BY <1>2 DEF Building
      <3>. QED BY <1>3, <3>1, DueNat, FewResults
    <2>. QED BY <1>9, <2>1, <2>2 DEF Results
  <1>12. {"all", "header", "t1", "t2", "refer", "base", "end"} = Groups
    BY DEF Groups
  <1>13. /\ repProgress = Sum(Results("all"), Results("header"), Results("t1"), Results("t2"),
                             Results("refer"), Results("base"), Results("end"))
         /\ repTotal = Sum(Due("all"), Due("header"), Due("t1"), Due("t2"),
                          Due("refer"), Due("base"), Due("end"))
    BY <1>2 DEF Building
  <1>14. repProgress' = Sum(Results("all"), Results("header"), Results("t1"), Results("t2"),
                            Results("refer"), Results("base"), Results("end"))'
    <2>1. /\ g \in Groups /\ repProgress' = repProgress + 1
          /\ \A h \in Groups : Results(h)' = Results(h) + (IF h = g THEN 1 ELSE 0) /\ Results(h) \in Nat
      BY <1>1, <1>10
    <2>2. /\ More(g, "all", Results("all"), Results("all")')
          /\ More(g, "header", Results("header"), Results("header")')
          /\ More(g, "t1", Results("t1"), Results("t1")')
          /\ More(g, "t2", Results("t2"), Results("t2")')
          /\ More(g, "refer", Results("refer"), Results("refer")')
          /\ More(g, "base", Results("base"), Results("base")')
          /\ More(g, "end", Results("end"), Results("end")')
      BY <1>12, <2>1 DEF More
    <2>3. repProgress' = Sum(Results("all")', Results("header")', Results("t1")', Results("t2")',
                            Results("refer")', Results("base")', Results("end")')
      BY <1>13, <2>1, <2>2, SumMore
    <2>. QED BY <2>3 DEF Sum
  <1>15. repProgress' \in Nat /\ repTotal \in Nat /\ repTotal > 0 /\ repProgress' <= repTotal
    <2>1. \A h \in Groups : Results(h)' \in Nat
      BY <1>10
    <2>2. Results(g)' > 0
      BY <1>10
    <2>3. repProgress' = Sum(Results("all")', Results("header")', Results("t1")', Results("t2")',
                            Results("refer")', Results("base")', Results("end")')
      BY <1>14 DEF Sum
    <2>4. repProgress' \in Nat /\ repTotal \in Nat /\ repProgress' <= repTotal
      BY <1>10, <1>11, <1>12, <1>13, <2>1, <2>3 DEF Sum
    <2>5. repProgress' > 0
      BY <1>12, <2>1, <2>2, <2>3 DEF Sum
    <2>. QED BY <2>4, <2>5
  <1>16. w.pct \in 0 .. 100
    <2>. HIDE DEF w
    <2>. QED BY <1>6, <1>15, IsPercentage
  <1>17. w \in Workers
    <2>1. (repProgress' * 100) \div repTotal \in 0 .. 100
      BY <1>6, <1>16
    <2>. HIDE DEF old
    <2>. QED BY <1>3, <2>1 DEF Workers
  <1>. HIDE DEF w
  <1>18. /\ repWorker' \in [Groups -> [1 .. Conc -> Workers]]
         /\ repWorker'[g] = [repWorker[g] EXCEPT ![i] = w]
         /\ \A h \in Groups : h # g => repWorker'[h] = repWorker[h]
    BY <1>1, <1>2, <1>17, StepIs
  <1>19. RepTypes'
    BY <1>1, <1>2, <1>9, <1>18 DEF RepTypes
  <1>20. \A h \in Groups : GroupOK(Due(h), repTasks[h], repWorker[h], repResults[h])'
    <2>1. ASSUME NEW h \in Groups
          PROVE  GroupOK(Due(h), repTasks[h], repWorker'[h], repResults'[h])
      <3>1. CASE h = g
        BY <1>7, <1>9, <1>18, <3>1
      <3>2. CASE h # g
        <4>1. repResults'[h] = repResults[h] /\ repWorker'[h] = repWorker[h]
          BY <1>9, <1>18, <3>2
        <4>. QED BY <1>2, <4>1 DEF Building
      <3>. QED BY <3>1, <3>2
    <2>. QED BY <1>1, <1>10, <2>1, GroupThen
  <1>21. repTotal' = Sum(Due("all"), Due("header"), Due("t1"), Due("t2"),
                         Due("refer"), Due("base"), Due("end"))'
    BY <1>1, <1>10, <1>12, <1>13 DEF Sum
  <1>22. Building'
    BY <1>1, <1>2, <1>14, <1>20, <1>21 DEF Building
  <1>23. RowOK'
    BY <1>1, <1>2, RowStays
  <1>. QED BY <1>1, <1>2, <1>19, <1>22, <1>23 DEF RepInv

\* WriteProgress keeps the invariant.
LEMMA WriteKeeps ==
    ASSUME RepInv, NEW g \in Groups, NEW i \in 1 .. Conc, WriteProgress(g, i)
    PROVE  RepInv'
  <1>. DEFINE pct == repWorker[g][i].pct
  <1>1. /\ repWorker[g][i].at = "write" /\ Step(g, i, Idle) /\ UpdateReportProgress(pct)
        /\ UNCHANGED <<lineAt, repTasks, repResults, repProgress, builder, repTotal>>
    BY DEF WriteProgress, lineVars
  <1>2. /\ builder = "tables" /\ RepTypes /\ RowOK /\ Building
        /\ GroupOK(Due(g), repTasks[g], repWorker[g], repResults[g])
    BY <1>1, AtWork
  <1>3. /\ repTasks \in [Groups -> Seq(Nat)] /\ repWorker[g] \in [1 .. Conc -> Workers]
        /\ repResults[g] \in Seq(Made) /\ repFailures \in Nat
    BY <1>2 DEF RepTypes
  <1>4. pct \in 0 .. 100
    <2>1. repWorker[g][i] \in Workers
      BY <1>3
    <2>. QED BY <2>1 DEF Workers
  <1>5. Idle \in Workers /\ Idle.at = "take"
    <2>1. 0 \in 0 .. 100
      OBVIOUS
    <2>. QED BY <2>1 DEF Workers, Idle
  <1>6. /\ repWorker' \in [Groups -> [1 .. Conc -> Workers]]
        /\ repWorker'[g] = [repWorker[g] EXCEPT ![i] = Idle]
        /\ \A h \in Groups : h # g => repWorker'[h] = repWorker[h]
    BY <1>1, <1>2, <1>5, StepIs
  <1>. HIDE DEF pct
  <1>7. /\ UNCHANGED reportKind /\ repFailures' \in Nat
        /\ reportRow' = [reportRow EXCEPT !.progress = pct] \/ reportRow' = reportRow
    BY <1>1, <1>3 DEF UpdateReportProgress, UpdateRow
  <1>8. RepTypes'
    BY <1>1, <1>2, <1>6, <1>7 DEF RepTypes
  <1>9. GroupOK(Due(g), repTasks[g], [repWorker[g] EXCEPT ![i] = Idle], repResults[g])
    BY <1>1, <1>2, <1>3, <1>5, DueNat, WriteOK
  <1>10. \A h \in Groups : Due(h)' = Due(h) /\ Results(h)' = Results(h)
    BY <1>1, <1>7 DEF Due, Results
  <1>11. \A h \in Groups : GroupOK(Due(h), repTasks[h], repWorker[h], repResults[h])'
    <2>1. ASSUME NEW h \in Groups
          PROVE  GroupOK(Due(h), repTasks[h], repWorker'[h], repResults[h])
      <3>1. CASE h = g
        BY <1>6, <1>9, <3>1
      <3>2. CASE h # g
        <4>1. repWorker'[h] = repWorker[h]
          BY <1>6, <3>2
        <4>. QED BY <1>2, <4>1 DEF Building
      <3>. QED BY <3>1, <3>2
    <2>. QED BY <1>1, <1>10, <2>1 DEF GroupOK
  <1>12. Building'
    <2>1. {"all", "header", "t1", "t2", "refer", "base", "end"} \subseteq Groups
      BY DEF Groups
    <2>. QED BY <1>1, <1>2, <1>7, <1>10, <1>11, <2>1 DEF Building, Sum
  <1>13. RowOK'
    <2>1. /\ reportRow # NoReport
          /\ reportRow = [progress |-> reportRow.progress, content |-> reportRow.content]
          /\ reportRow.progress \in 0 .. 100 /\ reportRow.content = Empty
      BY <1>2 DEF RowOK
    <2>2. /\ reportRow' = [progress |-> reportRow'.progress, content |-> reportRow'.content]
          /\ reportRow'.progress \in 0 .. 100 /\ reportRow'.content = Empty
      <3>1. CASE reportRow' = [reportRow EXCEPT !.progress = pct]
        <4>1. reportRow' = [progress |-> pct, content |-> reportRow.content]
          BY <2>1, <3>1
        <4>. QED BY <1>4, <2>1, <4>1
      <3>2. CASE reportRow' = reportRow
        BY <2>1, <3>2
      <3>. QED BY <1>7, <3>1, <3>2
    <2>3. reportRow' # NoReport
      <3>1. NoReport.progress = -1
        BY DEF NoReport
      <3>2. -1 \notin 0 .. 100
        OBVIOUS
      <3>. QED BY <2>2, <3>1, <3>2
    <2>4. Empty' = Empty /\ NoReport' = NoReport
      BY DEF Empty, NoReport
    <2>. QED BY <1>1, <1>2, <2>2, <2>3, <2>4 DEF RowOK
  <1>. QED BY <1>1, <1>2, <1>8, <1>12, <1>13 DEF RepInv

\* A report begins with nothing launched.
LEMMA RepInvInit ==
    ASSUME ReportInit
    PROVE  RepInv
  <1>1. RepTypes
    <2>1. NoTasks \in [Groups -> Seq(Nat)] /\ NoTasks \in [Groups -> Seq(Made)]
      BY DEF NoTasks
    <2>2. NoWorkers \in [Groups -> [1 .. Conc -> Workers]]
      <3>1. 0 \in 0 .. 100
        OBVIOUS
      <3>. QED BY <3>1 DEF NoWorkers, Idle, Workers
    <2>3. NoLines \in [Lines -> {"off", "start", "run"}]
      BY DEF NoLines
    <2>. QED BY <2>1, <2>2, <2>3 DEF ReportInit, RepTypes
  <1>2. RowOK
    BY DEF ReportInit, RowOK
  <1>3. Untouched
    BY DEF ReportInit, Untouched
  <1>. QED BY <1>1, <1>2, <1>3 DEF RepInv, ReportInit

\* A group that nobody launched has no tables, no results and no worker at work.
LEMMA NotLaunched ==
    ASSUME Untouched, NEW g \in Groups
    PROVE  GroupOK(0, repTasks[g], repWorker[g], repResults[g]) /\ repResults[g] = <<>>
  <1>1. repTasks[g] = <<>> /\ repResults[g] = <<>> /\ \A i \in 1 .. Conc : repWorker[g][i].at = "take"
    BY DEF Untouched, NoTasks, NoWorkers, Idle
  <1>2. Len(<<>>) = 0
    OBVIOUS
  <1>. QED BY <1>1, <1>2 DEF GroupOK

\* Request keeps the invariant.
LEMMA RequestKeeps ==
    ASSUME RepInv, Request
    PROVE  RepInv'
  <1>1. /\ reportRow = NoReport /\ builder' = "check"
        /\ reportRow' = [progress |-> 0, content |-> Empty]
        /\ UNCHANGED <<reportKind, repFailures, repTasks, repWorker, repResults, repProgress, lineAt,
                       repTotal>>
    BY DEF Request, workerVars, lineVars
  <1>2. RepTypes /\ builder = "none" /\ Untouched
    BY <1>1 DEF RepInv, RowOK
  <1>3. RepTypes'
    BY <1>1, <1>2 DEF RepTypes
  <1>4. Untouched'
    BY <1>1, <1>2 DEF Untouched, NoTasks, NoWorkers, NoLines, Idle
  <1>5. RowOK'
    <2>1. reportRow'.progress = 0 /\ reportRow'.content = Empty /\ 0 \in 0 .. 100
      BY <1>1
    <2>2. reportRow' # NoReport
      BY <2>1 DEF NoReport
    <2>3. Empty' = Empty /\ NoReport' = NoReport
      BY DEF Empty, NoReport
    <2>4. reportRow' = [progress |-> reportRow'.progress, content |-> reportRow'.content]
      BY <1>1
    <2>. QED BY <1>1, <2>1, <2>2, <2>3, <2>4 DEF RowOK
  <1>. QED BY <1>1, <1>3, <1>4, <1>5 DEF RepInv

\* Nothing is under way where nothing was launched.
LEMMA UntouchedStill ==
    ASSUME Untouched
    PROVE  Still
  <1>1. \A l \in Lines : lineAt[l] # "start"
    BY DEF Untouched, NoLines
  <1>2. \A g \in Groups : Joined(g)
    BY DEF Untouched, NoTasks, NoWorkers, Idle, Joined
  <1>. QED BY <1>1, <1>2 DEF Still

\* CheckFails keeps the invariant.
LEMMA CheckFailsKeeps ==
    ASSUME RepInv, CheckFails
    PROVE  RepInv'
  <1>1. /\ builder = "check" /\ errRows' = {<<"check", 0>>} /\ builder' = "full"
        /\ UNCHANGED <<reportKind, reportRow, repFailures, repTasks, repWorker, repResults, repProgress,
                       lineAt, repTotal>>
    BY DEF CheckFails, workerVars, requestVars
  <1>2. RepTypes /\ RowOK /\ Untouched
    BY <1>1 DEF RepInv
  <1>3. RepTypes'
    BY <1>1, <1>2 DEF RepTypes
  <1>4. Still'
    <2>1. Still
      BY <1>2, UntouchedStill
    <2>. QED BY <1>1, <2>1 DEF Still, Joined
  <1>5. RowOK'
    BY <1>1, <1>2 DEF RowOK, Empty, NoReport
  <1>6. Told(Content)'
    BY <1>1 DEF Told, CheckFailed
  <1>. QED BY <1>1, <1>3, <1>4, <1>5, <1>6 DEF RepInv

\* StartPlain keeps the invariant.
LEMMA StartPlainKeeps ==
    ASSUME RepInv, StartPlain
    PROVE  RepInv'
  <1>1. /\ builder = "check" /\ reportKind = "plain" /\ builder' = "tables"
        /\ repTotal' = TasksOf["all"]
        /\ repTasks' = [g \in Groups |-> IF g \in {"all"} THEN [i \in 1 .. TasksOf[g] |-> i]
                                         ELSE repTasks[g]]
        /\ UNCHANGED <<reportKind, reportRow, repFailures, repWorker, repResults, repProgress, lineAt>>
    BY DEF StartPlain, Launch, lineVars, requestVars
  <1>2. RepTypes /\ RowOK /\ Untouched
    BY <1>1 DEF RepInv
  <1>3. TasksOf \in [Groups -> Nat]
    BY ReportAssumption
  <1>4. \A n \in Nat : [i \in 1 .. n |-> i] \in Seq(Nat)
    OBVIOUS
  <1>5. RepTypes'
    <2>1. repTasks' \in [Groups -> Seq(Nat)]
      BY <1>1, <1>2, <1>3, <1>4 DEF RepTypes
    <2>. QED BY <1>1, <1>2, <2>1 DEF RepTypes
  <1>6. \A g \in Groups : Due(g)' = (IF g = "all" THEN TasksOf[g] ELSE 0)
    BY <1>1 DEF Due
  <1>7. ASSUME NEW g \in Groups
        PROVE  GroupOK(Due(g), repTasks[g], repWorker[g], repResults[g])'
    <2>1. /\ repTasks[g] \in Seq(Nat) /\ repWorker[g] \in [1 .. Conc -> Workers]
          /\ repResults[g] \in Seq(Made) /\ TasksOf[g] \in Nat
      BY <1>2, <1>3 DEF RepTypes
    <2>2. GroupOK(0, repTasks[g], repWorker[g], repResults[g])
      BY <1>2, NotLaunched
    <2>3. CASE g = "all"
      <3>1. repTasks'[g] = [i \in 1 .. TasksOf[g] |-> i]
        BY <1>1, <2>3
      <3>2. GroupOK(TasksOf[g], repTasks'[g], repWorker'[g], repResults'[g])
        BY <1>1, <2>1, <2>2, <3>1, LaunchOK
      <3>3. Due(g)' = TasksOf[g]
        BY <1>6, <2>3
      <3>. QED BY <3>2, <3>3, GroupThen
    <2>4. CASE g # "all"
      <3>1. repTasks'[g] = repTasks[g]
        BY <1>1, <2>4
      <3>2. GroupOK(0, repTasks'[g], repWorker'[g], repResults'[g])
        BY <1>1, <2>2, <3>1
      <3>3. Due(g)' = 0
        BY <1>6, <2>4
      <3>. QED BY <3>2, <3>3, GroupThen
    <2>. QED BY <2>3, <2>4
  <1>8. {"all", "header", "t1", "t2", "refer", "base", "end"} = Groups
    BY DEF Groups
  <1>9. repProgress' = Sum(Results("all"), Results("header"), Results("t1"), Results("t2"),
                           Results("refer"), Results("base"), Results("end"))'
    <2>1. \A g \in Groups : Results(g)' = 0
      BY <1>1, <1>2, NotLaunched DEF Results
    <2>2. repProgress' = 0
      BY <1>1, <1>2 DEF Untouched
    <2>. QED BY <1>8, <2>1, <2>2 DEF Sum
  <1>10. repTotal' = Sum(Due("all"), Due("header"), Due("t1"), Due("t2"),
                         Due("refer"), Due("base"), Due("end"))'
    <2>1. TasksOf["all"] \in Nat
      BY <1>3, <1>8
    <2>. QED BY <1>1, <1>6, <1>8, <2>1 DEF Sum
  <1>11. lineAt' = NoLines'
    BY <1>1, <1>2 DEF Untouched, NoLines
  <1>12. Building'
    BY <1>7, <1>9, <1>10, <1>11 DEF Building
  <1>13. RowOK'
    BY <1>1, <1>2 DEF RowOK, Empty, NoReport
  <1>. QED BY <1>1, <1>5, <1>12, <1>13 DEF RepInv

\* StartCompare keeps the invariant.
LEMMA StartCompareKeeps ==
    ASSUME RepInv, StartCompare
    PROVE  RepInv'
  <1>1. /\ builder = "check" /\ reportKind = "compare" /\ builder' = "tables"
        /\ lineAt' = [l \in Lines |-> IF TaskCount(l) = 0 THEN "run" ELSE "start"]
        /\ UNCHANGED <<reportKind, reportRow, repFailures, repTasks, repWorker, repResults,
                       repProgress, repTotal>>
    BY DEF StartCompare, workerVars, requestVars
  <1>2. RepTypes /\ RowOK /\ Untouched
    BY <1>1 DEF RepInv
  <1>3. RepTypes'
    BY <1>1, <1>2 DEF RepTypes
  <1>4. ASSUME NEW g \in Groups PROVE Due(g)' = 0
    <2>1. CASE g = "all"
      BY <1>1, <2>1 DEF Due
    <2>2. CASE g # "all"
      <3>1. LineOf(g) \in Lines
        BY <2>2 DEF LineOf, Groups, Lines
      <3>2. \A h \in Groups : TasksOf[h] \in Nat
        BY ReportAssumption
      <3>3. TaskCount(LineOf(g)) = 0 => TasksOf[g] = 0
        <4>1. CASE g = "t1" \/ g = "t2"
          <5>1. TaskCount(LineOf(g)) = TasksOf["t1"] + TasksOf["t2"]
            BY <4>1 DEF LineOf, TaskCount
          <5>2. TasksOf["t1"] \in Nat /\ TasksOf["t2"] \in Nat
            BY <3>2 DEF Groups
          <5>. QED BY <4>1, <5>1, <5>2
        <4>2. CASE g # "t1" /\ g # "t2"
          <5>1. g # "ranges"
            BY DEF Groups
          <5>2. LineOf(g) = g /\ TaskCount(LineOf(g)) = TasksOf[g]
            BY <4>2, <5>1 DEF LineOf, TaskCount
          <5>. QED BY <5>2
        <4>. QED BY <4>1, <4>2
      <3>4. lineAt'[LineOf(g)] = "run" => TaskCount(LineOf(g)) = 0
        BY <1>1, <3>1
      <3>. QED BY <1>1, <2>2, <3>3, <3>4 DEF Due
    <2>. QED BY <2>1, <2>2
  <1>5. ASSUME NEW g \in Groups
        PROVE  GroupOK(Due(g), repTasks[g], repWorker[g], repResults[g])'
    <2>1. GroupOK(0, repTasks'[g], repWorker'[g], repResults'[g])
      BY <1>1, <1>2, NotLaunched
    <2>. QED BY <1>4, <2>1, GroupThen
  <1>6. {"all", "header", "t1", "t2", "refer", "base", "end"} = Groups
    BY DEF Groups
  <1>7. repProgress' = Sum(Results("all"), Results("header"), Results("t1"), Results("t2"),
                           Results("refer"), Results("base"), Results("end"))'
    <2>1. \A g \in Groups : Results(g)' = 0
      BY <1>1, <1>2, NotLaunched DEF Results
    <2>2. repProgress' = 0
      BY <1>1, <1>2 DEF Untouched
    <2>. QED BY <1>6, <2>1, <2>2 DEF Sum
  <1>8. repTotal' = Sum(Due("all"), Due("header"), Due("t1"), Due("t2"),
                        Due("refer"), Due("base"), Due("end"))'
    <2>1. repTotal' = 0
      BY <1>1, <1>2 DEF Untouched
    <2>. QED BY <1>4, <1>6, <2>1 DEF Sum
  <1>9. Building'
    BY <1>1, <1>5, <1>7, <1>8 DEF Building
  <1>10. RowOK'
    BY <1>1, <1>2 DEF RowOK, Empty, NoReport
  <1>. QED BY <1>1, <1>3, <1>9, <1>10 DEF RepInv

\* StartLine keeps the invariant.
LEMMA StartLineKeeps ==
    ASSUME RepInv, NEW l \in Lines, StartLine(l)
    PROVE  RepInv'
  <1>1. /\ lineAt[l] = "start" /\ lineAt' = [lineAt EXCEPT ![l] = "run"]
        /\ repTotal' = repTotal + TaskCount(l)
        /\ repTasks' = [g \in Groups |-> IF g \in GroupsOf(l) THEN [i \in 1 .. TasksOf[g] |-> i]
                                         ELSE repTasks[g]]
        /\ UNCHANGED <<builder, reportKind, reportRow, repFailures, repWorker, repResults, repProgress>>
    BY DEF StartLine, Launch, requestVars, Counted
  <1>2. RepTypes /\ RowOK
    BY DEF RepInv
  <1>3. builder = "tables" /\ Building
    <2>1. ~Untouched
      BY <1>1 DEF Untouched, NoLines
    <2>2. ~Still
      BY <1>1 DEF Still
    <2>. QED BY <1>2, <2>1, <2>2 DEF RepInv, RepTypes
  <1>4. reportKind = "compare" /\ lineAt \in [Lines -> {"off", "start", "run"}]
    BY <1>1, <1>2, <1>3 DEF Building, NoLines, RepTypes
  <1>5. TasksOf \in [Groups -> Nat]
    BY ReportAssumption
  <1>6. RepTypes'
    <2>1. \A n \in Nat : [i \in 1 .. n |-> i] \in Seq(Nat)
      OBVIOUS
    <2>2. repTasks' \in [Groups -> Seq(Nat)]
      BY <1>1, <1>2, <1>5, <2>1 DEF RepTypes
    <2>. QED BY <1>1, <1>2, <1>4, <2>2 DEF RepTypes
  <1>7. /\ lineAt'[l] = "run" /\ \A k \in Lines : k # l => lineAt'[k] = lineAt[k]
        /\ lineAt[l] # "run"
    BY <1>1, <1>4
  <1>8. Due("all") = 0 /\ Due("all")' = 0
    BY <1>1, <1>4 DEF Due
  <1>9. ASSUME NEW g \in Groups \ {"all"}
        PROVE  /\ LineOf(g) \in Lines
               /\ LineOf(g) = l <=> g \in GroupsOf(l)
               /\ Due(g) = (IF lineAt[LineOf(g)] = "run" THEN TasksOf[g] ELSE 0)
               /\ Due(g)' = (IF lineAt'[LineOf(g)] = "run" THEN TasksOf[g] ELSE 0)
    <2>1. LineOf(g) \in Lines
      BY DEF LineOf, Groups, Lines
    <2>2. LineOf(g) = l <=> g \in GroupsOf(l)
      BY DEF LineOf, Groups, Lines, GroupsOf
    <2>. QED BY <1>1, <1>4, <2>1, <2>2 DEF Due
  <1>10. ASSUME NEW g \in Groups, g \in GroupsOf(l)
         PROVE  g # "all" /\ Due(g) = 0 /\ Due(g)' = TasksOf[g]
    <2>1. g # "all"
      BY <1>10 DEF GroupsOf, Lines
    <2>. QED BY <1>7, <1>9, <1>10, <2>1
  <1>11. ASSUME NEW g \in Groups, g \notin GroupsOf(l)
         PROVE  Due(g)' = Due(g)
    <2>1. CASE g = "all"
      BY <1>8, <2>1
    <2>2. CASE g # "all"
      BY <1>7, <1>9, <1>11, <2>2
    <2>. QED BY <2>1, <2>2
  <1>12. ASSUME NEW g \in Groups
         PROVE  GroupOK(Due(g), repTasks[g], repWorker[g], repResults[g])'
    <2>1. /\ repTasks[g] \in Seq(Nat) /\ repWorker[g] \in [1 .. Conc -> Workers]
          /\ repResults[g] \in Seq(Made) /\ TasksOf[g] \in Nat
      BY <1>2, <1>5 DEF RepTypes
    <2>2. GroupOK(Due(g), repTasks[g], repWorker[g], repResults[g])
      BY <1>3 DEF Building
    <2>3. CASE g \in GroupsOf(l)
      <3>1. repTasks'[g] = [i \in 1 .. TasksOf[g] |-> i]
        BY <1>1, <2>3
      <3>2. GroupOK(TasksOf[g], repTasks'[g], repWorker'[g], repResults'[g])
        <4>1. GroupOK(0, repTasks[g], repWorker[g], repResults[g])
          BY <1>10, <2>2, <2>3
        <4>2. GroupOK(TasksOf[g], [i \in 1 .. TasksOf[g] |-> i], repWorker[g], repResults[g])
          BY <2>1, <4>1, LaunchOK
        <4>. QED BY <1>1, <3>1, <4>2
      <3>. QED BY <1>10, <2>3, <3>2, GroupThen
    <2>4. CASE g \notin GroupsOf(l)
      <3>1. repTasks'[g] = repTasks[g]
        BY <1>1, <2>4
      <3>2. GroupOK(Due(g), repTasks'[g], repWorker'[g], repResults'[g])
        BY <1>1, <2>2, <3>1
      <3>. QED BY <1>11, <2>4, <3>2, GroupThen
    <2>. QED BY <2>3, <2>4
  <1>13. {"all", "header", "t1", "t2", "refer", "base", "end"} = Groups
    BY DEF Groups
  <1>14. repProgress' = Sum(Results("all"), Results("header"), Results("t1"), Results("t2"),
                            Results("refer"), Results("base"), Results("end"))'
    <2>1. \A g \in Groups : Results(g)' = Results(g)
      BY <1>1 DEF Results
    <2>. QED BY <1>1, <1>3, <1>13, <2>1 DEF Building, Sum
  <1>15. repTotal' = Sum(Due("all"), Due("header"), Due("t1"), Due("t2"),
                         Due("refer"), Due("base"), Due("end"))'
    <2>1. repTotal = Sum(Due("all"), Due("header"), Due("t1"), Due("t2"),
                         Due("refer"), Due("base"), Due("end"))
      BY <1>3 DEF Building
    <2>2. /\ Due("all") \in Nat /\ Due("header") \in Nat /\ Due("t1") \in Nat /\ Due("t2") \in Nat
          /\ Due("refer") \in Nat /\ Due("base") \in Nat /\ Due("end") \in Nat
          /\ TasksOf["t1"] \in Nat /\ TasksOf["t2"] \in Nat
          /\ \A g \in Groups : TasksOf[g] \in Nat
      BY <1>5, <1>13, DueNat
    <2>3. repTotal' = Sum(Due("all")', Due("header")', Due("t1")', Due("t2")',
                         Due("refer")', Due("base")', Due("end")')
      <3>1. CASE l = "ranges"
        <4>1. GroupsOf(l) = {"t1", "t2"} /\ TaskCount(l) = TasksOf["t1"] + TasksOf["t2"]
          BY <3>1 DEF GroupsOf, TaskCount
        <4>2. /\ Due("t1") = 0 /\ Due("t1")' = TasksOf["t1"] /\ Due("t2") = 0 /\ Due("t2")' = TasksOf["t2"]
              /\ Due("all")' = Due("all") /\ Due("header")' = Due("header")
              /\ Due("refer")' = Due("refer") /\ Due("base")' = Due("base") /\ Due("end")' = Due("end")
          BY <1>10, <1>11, <1>13, <4>1
        <4>3. repTotal' = repTotal + (TasksOf["t1"] + TasksOf["t2"])
          BY <1>1, <4>1
        <4>. QED BY <2>1, <2>2, <4>2, <4>3 DEF Sum
      <3>2. CASE l # "ranges"
        <4>1. GroupsOf(l) = {l} /\ TaskCount(l) = TasksOf[l] /\ l \in {"header", "refer", "base", "end"}
          BY <3>2 DEF GroupsOf, TaskCount, Lines
        <4>2. Due(l) = 0 /\ Due(l)' = TasksOf[l] /\ \A g \in Groups : g # l => Due(g)' = Due(g)
          BY <1>10, <1>11, <1>13, <4>1
        <4>3. repTotal' = repTotal + TasksOf[l] /\ TasksOf[l] \in Nat
          BY <1>1, <1>13, <2>2, <4>1
        <4>4. /\ Due("all")' = Due("all") /\ Due("t1")' = Due("t1") /\ Due("t2")' = Due("t2")
              /\ Due("header")' = Due("header") + (IF l = "header" THEN TasksOf[l] ELSE 0)
              /\ Due("refer")' = Due("refer") + (IF l = "refer" THEN TasksOf[l] ELSE 0)
              /\ Due("base")' = Due("base") + (IF l = "base" THEN TasksOf[l] ELSE 0)
              /\ Due("end")' = Due("end") + (IF l = "end" THEN TasksOf[l] ELSE 0)
          BY <1>13, <2>2, <4>1, <4>2, <4>3
        <4>. QED BY <2>1, <2>2, <4>1, <4>3, <4>4 DEF Sum
      <3>. QED BY <3>1, <3>2
    <2>. QED BY <2>3 DEF Sum
  <1>16. Building'
    BY <1>1, <1>4, <1>12, <1>14, <1>15 DEF Building
  <1>17. RowOK'
    BY <1>1, <1>2, <1>3, RowStays
  <1>. QED BY <1>1, <1>3, <1>6, <1>16, <1>17 DEF RepInv

\* What was exact is so as long as the results stay.
LEMMA ExactStays ==
    ASSUME NEW c, ContentExact(c), UNCHANGED <<reportKind, repResults>>
    PROVE  ContentExact(c)'
  <1>1. \A g, outs : Ran(g, outs)' = Ran(g, outs)
    BY DEF Ran
  <1>2. \A gs, outs : RanOf(gs, outs)' = RanOf(gs, outs)
    BY <1>1 DEF RanOf
  <1>3. \A gs : AllRan(gs)' <=> AllRan(gs)
    BY <1>1 DEF AllRan
  <1>4. \A s, set : EachOnce(s, set)' <=> EachOnce(s, set)
    BY DEF EachOnce
  <1>. QED BY <1>1, <1>2, <1>3 DEF ContentExact, EachOnce

\* And so is the content if it is what was exact.
LEMMA ContentThen ==
    ASSUME NEW c, ContentExact(c), UNCHANGED <<reportKind, repResults>>, Content' = c
    PROVE  ContentExact(Content)'
  <1>1. ContentExact(c)'
    BY ExactStays
  <1>. QED BY <1>1 DEF ContentExact

\* The same for what the row holds.
LEMMA RowThen ==
    ASSUME NEW c, ContentExact(c), UNCHANGED <<reportKind, repResults>>, reportRow'.content = c
    PROVE  ContentExact(reportRow.content)'
  <1>1. ContentExact(c)'
    BY ExactStays
  <1>. QED BY <1>1 DEF ContentExact

\* A group of which nothing is due has nothing under way.
LEMMA NothingDue ==
    ASSUME RepTypes, Building, NEW g \in Groups, Due(g) = 0
    PROVE  Joined(g)
  <1>1. GroupOK(0, repTasks[g], repWorker[g], repResults[g])
    BY DEF Building
  <1>2. /\ repTasks[g] \in Seq(Nat) /\ repWorker[g] \in [1 .. Conc -> Workers]
        /\ repResults[g] \in Seq(Made)
    BY DEF RepTypes
  <1>3. repTasks[g] = <<>> /\ \A i \in 1 .. Conc : repWorker[g][i].at = "take"
    <2>1. 0 \in Nat
      OBVIOUS
    <2>. QED BY <1>1, <1>2, <2>1, LaunchOK
  <1>. QED BY <1>3 DEF Joined

\* GatherPlain keeps the invariant: what it gathers is exact.
LEMMA GatherPlainKeeps ==
    ASSUME RepInv, GatherPlain
    PROVE  RepInv'
  <1>1. /\ builder = "tables" /\ reportKind = "plain" /\ Joined("all")
        /\ errRows' = ErrorsOf("all") /\ builder' = "full"
        /\ UNCHANGED <<reportKind, reportRow, repFailures, repTasks, repWorker, repResults, repProgress,
                       lineAt, repTotal>>
    BY DEF GatherPlain, workerVars, requestVars
  <1>2. RepTypes /\ RowOK /\ Building
    BY <1>1 DEF RepInv
  <1>3. RepTypes'
    BY <1>1, <1>2 DEF RepTypes
  <1>4. Still'
    <2>1. ASSUME NEW g \in Groups PROVE Joined(g)
      <3>1. CASE g = "all"
        BY <1>1, <3>1
      <3>2. CASE g # "all"
        <4>1. Due(g) = 0
          BY <1>1, <3>2 DEF Due
        <4>. QED BY <1>2, <4>1, NothingDue
      <3>. QED BY <3>1, <3>2
    <2>2. \A l \in Lines : lineAt[l] # "start"
      BY <1>1, <1>2 DEF Building, NoLines
    <2>. QED BY <1>1, <2>1, <2>2 DEF Still, Joined
  <1>5. RowOK'
    BY <1>1, <1>2 DEF RowOK, Empty, NoReport
  <1>6. Told(Content)'
    <2>. DEFINE c == [tables |-> TablesOf("all"), errors |-> ErrorsOf("all")]
                rows == TasksThat("all", "rows")
    <2>1. "all" \in Groups
      BY DEF Groups
    <2>2. /\ rows \in SUBSET Nat /\ IsFiniteSet(rows) /\ Ran("all", {"rows"}) = Of("all", rows)
          /\ Ran("all", {"error"}) = Of("all", TasksThat("all", "error"))
          /\ Ran("all", Outcomes) = Of("all", 1 .. Due("all"))
          /\ ErrorsOf("all") = Of("all", TasksThat("all", "error"))
      BY <1>1, <1>2, <2>1, GroupDone
    <2>3. Lists(TablesOf("all"), Of("all", rows))
          /\ \A i, j \in DOMAIN TablesOf("all") : i < j => TablesOf("all")[i][2] < TablesOf("all")[j][2]
      BY <2>2, NamedLists DEF TablesOf
    <2>4. EachOnce(TablesOf("all"), Ran("all", {"rows"}))
      BY <2>2, <2>3, ListsOnce
    <2>5. AllRan({"all"})
      BY <1>1, <2>2 DEF AllRan, Due, Of
    <2>6. c.tables = TablesOf("all") /\ c.errors = ErrorsOf("all")
      OBVIOUS
    <2>. HIDE DEF c, rows
    <2>7. ContentExact(c)
      BY <1>1, <2>2, <2>3, <2>4, <2>5, <2>6 DEF ContentExact
    <2>8. CASE CheckFailed'
      BY <2>8 DEF Told
    <2>9. CASE ~CheckFailed'
      <3>1. TablesOf("all")' = TablesOf("all")
        BY <1>1 DEF TablesOf, TasksThat
      <3>2. Content' = c
        BY <1>1, <2>9, <3>1 DEF Content, c
      <3>3. ContentExact(Content)'
        <4>1. PICK d : d = c
          OBVIOUS
        <4>. QED BY <1>1, <2>7, <3>2, <4>1, ContentThen
      <3>. QED BY <3>3 DEF Told
    <2>. QED BY <2>8, <2>9
  <1>. QED BY <1>1, <1>3, <1>4, <1>5, <1>6 DEF RepInv

\* GatherCompare keeps the invariant: what it gathers is exact unless appends met.
LEMMA GatherCompareKeeps ==
    ASSUME RepInv, GatherCompare
    PROVE  RepInv'
  <1>1. /\ builder = "tables" /\ reportKind = "compare" /\ builder' = "full"
        /\ \A l \in Lines : lineAt[l] = "run" /\ \A g \in GroupsOf(l) : Joined(g)
        /\ UNCHANGED <<reportKind, reportRow, repFailures, repTasks, repWorker, repResults, repProgress,
                       lineAt, repTotal>>
    BY DEF GatherCompare, workerVars, requestVars
  <1>2. RepTypes /\ RowOK /\ Building
    BY <1>1 DEF RepInv
  <1>3. RepTypes'
    BY <1>1, <1>2 DEF RepTypes
  <1>4. \A g \in Groups : Joined(g)
    <2>1. ASSUME NEW g \in Groups PROVE Joined(g)
      <3>1. CASE g = "all"
        <4>1. Due(g) = 0
          BY <1>1, <3>1 DEF Due
        <4>. QED BY <1>2, <4>1, NothingDue
      <3>2. CASE g # "all"
        <4>1. LineOf(g) \in Lines /\ g \in GroupsOf(LineOf(g))
          BY <3>2 DEF LineOf, Groups, Lines, GroupsOf
        <4>. QED BY <1>1, <4>1
      <3>. QED BY <3>1, <3>2
    <2>. QED BY <2>1
  <1>5. Still'
    <2>1. \A l \in Lines : lineAt[l] # "start"
      BY <1>1
    <2>. QED BY <1>1, <1>4, <2>1 DEF Still, Joined
  <1>6. RowOK'
    BY <1>1, <1>2 DEF RowOK, Empty, NoReport
  <1>7. Told(Content)'
    <2>0. PICK failed \in SUBSET Singles, incomparable \in SUBSET InBoth :
            \E lost \in SUBSET {k \in DOMAIN Appended(failed) : Appended(failed)[k] # {}} :
              /\ repRaced' = (lost # {})
              /\ repSingles' = Singles \ failed
              /\ repCompared' = Named("refer", InBoth \ incomparable)
              /\ errRows' = {<<"refer", t>> : t \in incomparable}
                            \cup UNION {Appended(failed)[k] : k \in DOMAIN Appended(failed) \ lost}
      BY DEF GatherCompare
    <2>1. PICK lost \in SUBSET {k \in DOMAIN Appended(failed) : Appended(failed)[k] # {}} :
              /\ repRaced' = (lost # {})
              /\ repSingles' = Singles \ failed
              /\ repCompared' = Named("refer", InBoth \ incomparable)
              /\ errRows' = {<<"refer", t>> : t \in incomparable}
                            \cup UNION {Appended(failed)[k] : k \in DOMAIN Appended(failed) \ lost}
      BY <2>0
    <2>2. CASE lost # {}
      BY <2>1, <2>2 DEF Told
    <2>3. CASE lost = {}
      <3>. DEFINE c == [tables |-> Merged(Singles \ failed, Named("refer", InBoth \ incomparable)),
                        errors |-> AllErrors(failed, incomparable)]
      <3>1. ContentExact(c)
        BY <1>1, <1>2, <1>4, ComparisonExact
      <3>2. errRows' = AllErrors(failed, incomparable)
        <4>. DEFINE appended == Appended(failed)
        <4>1. DOMAIN appended = Groups \cup failed
          BY DEF Appended
        <4>2. \A k \in failed : appended[k] = Of(k, {0})
          BY DEF Appended, Of
        <4>3. \A g \in Groups : appended[g] = ErrorsOf(g)
          BY DEF Appended, Groups, Singles
        <4>4. {<<"refer", t>> : t \in incomparable} = Of("refer", incomparable)
          BY DEF Of
        <4>5. errRows' = Of("refer", incomparable) \cup (UNION {appended[k] : k \in DOMAIN appended})
          BY <2>1, <2>3, <4>4
        <4>. HIDE DEF appended
        <4>6. UNION {appended[k] : k \in DOMAIN appended} = (UNION {Of(k, {0}) : k \in failed}) \cup Errs
          <5>1. UNION {appended[k] : k \in Groups \cup failed}
                  = (UNION {appended[k] : k \in failed}) \cup (UNION {appended[k] : k \in Groups})
            OBVIOUS
          <5>2. UNION {appended[k] : k \in failed} = UNION {Of(k, {0}) : k \in failed}
            BY <4>2
          <5>3. UNION {appended[k] : k \in Groups} = UNION {ErrorsOf(k) : k \in Groups}
            BY <4>3
          <5>. QED BY <4>1, <5>1, <5>2, <5>3 DEF Errs
        <4>. QED BY <4>5, <4>6 DEF AllErrors
      <3>3. CASE CheckFailed'
        BY <3>3 DEF Told
      <3>4. CASE ~CheckFailed'
        <4>1. \A g : TablesOf(g)' = TablesOf(g)
          BY <1>1 DEF TablesOf, TasksThat
        <4>2. \A k : SingleTable(k)' = One(k, Singles \ failed)
          BY <2>1 DEF SingleTable, One
        <4>3. Content' = [tables |-> TablesOf("header") \o One("slow", Singles \ failed)
                                     \o InTurns(TablesOf("t1"), TablesOf("t2"))
                                     \o One("diagnose", Singles \ failed)
                                     \o Named("refer", InBoth \ incomparable) \o TablesOf("end"),
                          errors |-> AllErrors(failed, incomparable)]
          BY <1>1, <2>1, <3>2, <3>4, <4>1, <4>2 DEF Content
        <4>4. Content' = c
          BY <4>3 DEF Merged
        <4>. HIDE DEF c
        <4>5. ContentExact(Content)'
          BY <1>1, <3>1, <4>4, ContentThen
        <4>. QED BY <4>5 DEF Told
      <3>. QED BY <3>3, <3>4
    <2>. QED BY <2>2, <2>3
  <1>. QED BY <1>1, <1>3, <1>5, <1>6, <1>7 DEF RepInv

\* What is true of the content stays so while nothing of it changes.
LEMMA ContentStays ==
    ASSUME Told(Content),
           UNCHANGED <<reportKind, repResults, errRows, repRaced, repCompared, repSingles>>
    PROVE  Told(Content)' /\ Content' = Content
  <1>1. CheckFailed' <=> CheckFailed
    BY DEF CheckFailed
  <1>2. \A g : TablesOf(g)' = TablesOf(g)
    BY DEF TablesOf, TasksThat
  <1>3. \A k : SingleTable(k)' = SingleTable(k)
    BY DEF SingleTable
  <1>4. Content' = Content
    BY <1>1, <1>2, <1>3 DEF Content
  <1>5. ASSUME ContentExact(Content) PROVE ContentExact(Content)'
    <2>1. PICK c : c = Content
      OBVIOUS
    <2>. QED BY <1>4, <1>5, <2>1, ContentThen
  <1>. QED BY <1>1, <1>4, <1>5 DEF Told

\* FullProgress keeps the invariant.
LEMMA FullProgressKeeps ==
    ASSUME RepInv, FullProgress
    PROVE  RepInv'
  <1>1. /\ builder = "full" /\ builder' = "save"
        /\ UNCHANGED <<reportKind, repTasks, repWorker, repResults, repProgress, lineAt, repTotal,
                       errRows, repRaced, repCompared, repSingles>>
        /\ \/ reportRow' = [reportRow EXCEPT !.progress = 100] /\ UNCHANGED repFailures
           \/ repFailures' = repFailures + 1 /\ UNCHANGED reportRow
    BY DEF FullProgress, UpdateReportProgress, UpdateRow, workerVars, lineVars, repGathered
  <1>2. RepTypes /\ RowOK /\ Still /\ Told(Content)
    BY <1>1 DEF RepInv
  <1>3. RepTypes'
    BY <1>1, <1>2 DEF RepTypes
  <1>4. Still'
    BY <1>1, <1>2 DEF Still, Joined
  <1>5. Told(Content)'
    BY <1>1, <1>2, ContentStays
  <1>6. RowOK'
    <2>1. /\ reportRow = [progress |-> reportRow.progress, content |-> reportRow.content]
          /\ reportRow.progress \in 0 .. 100 /\ reportRow.content = Empty /\ repFailures \in Nat
      BY <1>1, <1>2 DEF RowOK, RepTypes
    <2>2. /\ reportRow' = [progress |-> reportRow'.progress, content |-> reportRow'.content]
          /\ reportRow'.progress \in 0 .. 100 /\ reportRow'.content = Empty
          /\ repFailures' = 0 => reportRow'.progress = 100
      <3>1. CASE reportRow' = [reportRow EXCEPT !.progress = 100]
        <4>1. reportRow' = [progress |-> 100, content |-> reportRow.content]
          BY <2>1, <3>1
        <4>. QED BY <2>1, <4>1
      <3>2. CASE repFailures' = repFailures + 1 /\ reportRow' = reportRow
        BY <2>1, <3>2
      <3>. QED BY <1>1, <3>1, <3>2
    <2>3. reportRow' # NoReport
      <3>1. NoReport.progress = -1
        BY DEF NoReport
      <3>2. -1 \notin 0 .. 100
        OBVIOUS
      <3>. QED BY <2>2, <3>1, <3>2
    <2>4. Empty' = Empty /\ NoReport' = NoReport
      BY DEF Empty, NoReport
    <2>. QED BY <1>1, <2>2, <2>3, <2>4 DEF RowOK
  <1>. QED BY <1>1, <1>3, <1>4, <1>5, <1>6 DEF RepInv

\* SaveReportContent keeps the invariant.
LEMMA SaveKeeps ==
    ASSUME RepInv, SaveReportContent
    PROVE  RepInv'
  <1>1. /\ builder = "save" /\ builder' = "ended"
        /\ UNCHANGED <<reportKind, repTasks, repWorker, repResults, repProgress, lineAt, repTotal,
                       errRows, repRaced, repCompared, repSingles>>
        /\ \/ reportRow' = [reportRow EXCEPT !.content = Content] /\ UNCHANGED repFailures
           \/ repFailures' = repFailures + 1 /\ UNCHANGED reportRow
    BY DEF SaveReportContent, UpdateRow, workerVars, lineVars, repGathered
  <1>2. RepTypes /\ RowOK /\ Still /\ Told(Content)
    BY <1>1 DEF RepInv
  <1>3. RepTypes'
    BY <1>1, <1>2 DEF RepTypes
  <1>4. Still'
    BY <1>1, <1>2 DEF Still, Joined
  <1>5. RowOK'
    <2>1. /\ reportRow = [progress |-> reportRow.progress, content |-> reportRow.content]
          /\ reportRow.progress \in 0 .. 100 /\ reportRow.content = Empty /\ repFailures \in Nat
          /\ repFailures = 0 => reportRow.progress = 100
      BY <1>1, <1>2 DEF RowOK, RepTypes
    <2>2. Empty' = Empty /\ NoReport' = NoReport
      BY DEF Empty, NoReport
    <2>3. /\ reportRow' = [progress |-> reportRow'.progress, content |-> reportRow'.content]
          /\ reportRow'.progress = reportRow.progress
          /\ \/ reportRow'.content = Content /\ repFailures' = repFailures
             \/ reportRow'.content = Empty /\ repFailures' = repFailures + 1
      <3>1. CASE reportRow' = [reportRow EXCEPT !.content = Content] /\ repFailures' = repFailures
        <4>1. reportRow' = [progress |-> reportRow.progress, content |-> Content]
          BY <2>1, <3>1
        <4>. QED BY <3>1, <4>1
      <3>2. CASE repFailures' = repFailures + 1 /\ reportRow' = reportRow
        BY <2>1, <3>2
      <3>. QED BY <1>1, <3>1, <3>2
    <2>4. reportRow' # NoReport
      <3>1. NoReport.progress = -1
        BY DEF NoReport
      <3>2. -1 \notin 0 .. 100
        OBVIOUS
      <3>. QED BY <2>1, <2>3, <3>1, <3>2
    <2>5. ASSUME reportRow'.content # Empty
          PROVE  (repFailures' = 0 => reportRow'.progress = 100) /\ Told(reportRow.content)'
      <3>1. reportRow'.content = Content /\ repFailures' = repFailures
        BY <2>3, <2>5
      <3>2. CASE CheckFailed \/ repRaced
        <4>1. CheckFailed' \/ repRaced'
          BY <1>1, <3>2 DEF CheckFailed
        <4>. QED BY <2>1, <2>3, <3>1, <4>1 DEF Told
      <3>3. CASE ContentExact(Content)
        <4>1. PICK c : c = Content
          OBVIOUS
        <4>2. ContentExact(reportRow.content)'
          BY <1>1, <3>1, <3>3, <4>1, RowThen
        <4>. QED BY <2>1, <2>3, <3>1, <4>2 DEF Told
      <3>. QED BY <1>2, <3>2, <3>3 DEF Told
    <2>6. reportRow'.progress \in 0 .. 100
      BY <2>1, <2>3
    <2>. QED BY <1>1, <2>2, <2>3, <2>4, <2>5, <2>6 DEF RowOK
  <1>. QED BY <1>1, <1>3, <1>4, <1>5 DEF RepInv

\* A crash leaves nothing under way, and no content in the row.
LEMMA ReportCrashKeeps ==
    ASSUME RepInv, ReportCrash
    PROVE  RepInv'
  <1>1. /\ builder \notin {"none", "ended"} /\ builder' = "ended"
        /\ repTasks' = NoTasks /\ repWorker' = NoWorkers /\ repResults' = NoTasks
        /\ lineAt' = NoLines
        /\ UNCHANGED <<reportKind, reportRow, repFailures>>
    BY DEF ReportCrash, requestVars
  <1>2. RepTypes /\ RowOK
    BY DEF RepInv
  <1>3. RepTypes'
    <2>1. NoTasks \in [Groups -> Seq(Nat)] /\ NoTasks \in [Groups -> Seq(Made)]
      BY DEF NoTasks
    <2>2. NoWorkers \in [Groups -> [1 .. Conc -> Workers]]
      <3>1. 0 \in 0 .. 100
        OBVIOUS
      <3>. QED BY <3>1 DEF NoWorkers, Idle, Workers
    <2>3. NoLines \in [Lines -> {"off", "start", "run"}]
      BY DEF NoLines
    <2>. QED BY <1>1, <1>2, <2>1, <2>2, <2>3 DEF RepTypes
  <1>4. Still'
    BY <1>1 DEF Still, Joined, NoTasks, NoWorkers, NoLines, Idle
  <1>5. RowOK'
    BY <1>1, <1>2 DEF RowOK, Empty, NoReport
  <1>. QED BY <1>1, <1>3, <1>4, <1>5 DEF RepInv

\* Where nothing changes the invariant is kept.
LEMMA ReportStutters ==
    ASSUME RepInv, UNCHANGED reportVars
    PROVE  RepInv'
  <1>1. UNCHANGED <<reportKind, reportRow, repFailures, repTasks, repWorker, repResults, repProgress,
                    lineAt, errRows, repRaced, builder, repTotal, repCompared, repSingles, repCrashes>>
    BY DEF reportVars, requestVars, workerVars, lineVars, repGathered
  <1>2. RepTypes'
    BY <1>1 DEF RepInv, RepTypes
  <1>3. Untouched => Untouched'
    BY <1>1 DEF Untouched, NoTasks, NoWorkers, NoLines, Idle
  <1>4. Still => Still'
    BY <1>1 DEF Still, Joined
  <1>5. Told(Content) => Told(Content)'
    BY <1>1, ContentStays
  <1>6. Building => Building'
    BY <1>1 DEF Building, GroupOK, Due, Results, Sum, NoLines
  <1>7. Told(reportRow.content) => Told(reportRow.content)'
    <2>1. ASSUME ContentExact(reportRow.content) PROVE ContentExact(reportRow.content)'
      <3>1. PICK c : c = reportRow.content
        OBVIOUS
      <3>. QED BY <1>1, <2>1, <3>1, RowThen
    <2>2. CheckFailed' <=> CheckFailed
      BY <1>1 DEF CheckFailed
    <2>. QED BY <1>1, <2>1, <2>2 DEF Told
  <1>8. RowOK => RowOK'
    BY <1>1, <1>7 DEF RowOK, Empty, NoReport
  <1>. QED BY <1>1, <1>2, <1>3, <1>4, <1>5, <1>6, <1>8 DEF RepInv

\* The inductive invariant of the building of a report: each table of a group that
\* was launched waits, is with one worker, or has one result, no more tables are
\* counted as done than are due, and what was gathered is exact.
THEOREM ReportInvariant == ReportSpec => []RepInv
  <1>1. ReportInit => RepInv
    BY RepInvInit
  <1>2. RepInv /\ [ReportNext]_reportVars => RepInv'
    <2>. SUFFICES ASSUME RepInv, [ReportNext]_reportVars PROVE RepInv'
      OBVIOUS
    <2>1. CASE Request
      BY <2>1, RequestKeeps
    <2>2. CASE WorkerStep
      <3>1. PICK g \in Groups, i \in 1 .. Conc : WorkerOf(g, i)
        BY <2>2 DEF WorkerStep
      <3>2. CASE Take(g, i)
        BY <3>2, TakeKeeps
      <3>3. CASE WriteProgress(g, i)
        BY <3>3, WriteKeeps
      <3>4. CASE \E out \in OutcomesOf[g] : Finish(g, i, out)
        BY <3>4, FinishKeeps
      <3>. QED BY <3>1, <3>2, <3>3, <3>4 DEF WorkerOf
    <2>3. CASE LineStep
      BY <2>3, StartLineKeeps DEF LineStep
    <2>4. CASE BuilderStep
      BY <2>4, CheckFailsKeeps, StartPlainKeeps, StartCompareKeeps, GatherPlainKeeps,
         GatherCompareKeeps, FullProgressKeeps, SaveKeeps DEF BuilderStep
    <2>5. CASE ReportCrash
      BY <2>5, ReportCrashKeeps
    <2>6. CASE UNCHANGED reportVars
      BY <2>6, ReportStutters
    <2>. QED BY <2>1, <2>2, <2>3, <2>4, <2>5, <2>6 DEF ReportNext
  <1>. QED BY <1>1, <1>2, PTL DEF ReportSpec

\* The row of a report is honest (ReportHonest): for any numbers of tables and of
\* workers, outcomes of tables, failing statements and crashes, its percentage is
\* one, and content is there only when every table has been made, whole and once.
THEOREM HonestAlways == ReportSpec => []ReportHonest
  <1>1. RepInv => ReportHonest
    <2>. SUFFICES ASSUME RepInv, reportRow # NoReport
                  PROVE  /\ reportRow.progress \in 0 .. 100
                         /\ reportRow.content # Empty =>
                              /\ repFailures = 0 => reportRow.progress = 100
                              /\ CheckFailed \/ repRaced \/ ContentExact(reportRow.content)
      BY DEF ReportHonest
    <2>. QED BY DEF RepInv, RowOK, Told
  <1>. QED BY <1>1, ReportInvariant, PTL

(***************************************************************************)
(* The tables of a report                                                  *)
(***************************************************************************)

MetricKinds == SkippedForms \cup {"thread", "rocks", "node"}
RowKinds == {"rows", "subrows", "fixed", "config"}
HardwareKinds == {"cpu", "memory", "disk", "uptime"}
Forms == [kind : MetricKinds \cup RowKinds \cup HardwareKinds \cup {"lookup"}, values : Nat]

\* The steps whose rows have as many values as the table has columns: those of a
\* metric as they are, or brought to that by specialHandle (width).
FormFits(columns, width, form) ==
    /\ form \in Forms
    /\ form.kind \in MetricKinds => width = {columns} \/ 2 + form.values = columns
    /\ form.kind \in RowKinds => form.values = columns
    /\ form.kind \in HardwareKinds => columns = 6
FittingSteps(columns, width) ==
    {s \in [form : Forms, labels : Nat] : FormFits(columns, width, s.form)}
StepsFit(columns, width, steps) ==
    steps \in Seq(FittingSteps(columns, width)) /\ Len(steps) >= 1
TableFits(t) ==
    /\ t.columns \in Nat
    /\ t.join \cup t.compare \subseteq 0 .. t.columns - 1
    /\ t.join \cap t.compare = {}
    /\ t.toWidth = {} \/ t.toWidth = {t.columns}
    /\ \/ StepsFit(t.columns, t.toWidth, t.steps)
       \/ t.toWidth = {} /\ t.steps = <<[form |-> Form("star", t.columns), labels |-> 0]>>

\* Steps beside steps that fit, fit.
LEMMA ConcatFits ==
    ASSUME NEW columns, NEW width, NEW a, NEW b,
           StepsFit(columns, width, a), StepsFit(columns, width, b)
    PROVE  StepsFit(columns, width, a \o b)
  <1>1. /\ a \in Seq(FittingSteps(columns, width)) /\ b \in Seq(FittingSteps(columns, width))
        /\ Len(a) >= 1 /\ Len(b) >= 1
    BY DEF StepsFit
  <1>2. a \o b \in Seq(FittingSteps(columns, width)) /\ Len(a \o b) = Len(a) + Len(b)
    BY <1>1, ConcatProperties
  <1>3. Len(a) \in Nat /\ Len(b) \in Nat
    BY <1>1, LenProperties
  <1>. QED BY <1>1, <1>2, <1>3 DEF StepsFit

\* A metric of a form that fits, with whatever labels.
LEMMA MetricsFit ==
    ASSUME NEW columns, NEW width, NEW form, FormFits(columns, width, form),
           NEW labels \in Seq(Nat), Len(labels) >= 1
    PROVE  StepsFit(columns, width, Metrics(form, labels))
  <1>. DEFINE step == [i \in 1 .. Len(labels) |-> [form |-> form, labels |-> labels[i]]]
  <1>1. Len(labels) \in Nat /\ DOMAIN labels = 1 .. Len(labels)
    BY LenProperties
  <1>2. Metrics(form, labels) = step
    BY <1>1 DEF Metrics
  <1>3. ASSUME NEW i \in 1 .. Len(labels)
        PROVE  [form |-> form, labels |-> labels[i]] \in FittingSteps(columns, width)
    <2>1. labels[i] \in Nat
      BY <1>3, ElementOfSeq
    <2>2. form \in Forms
      BY DEF FormFits
    <2>. QED BY <2>1, <2>2 DEF FittingSteps
  <1>4. step \in [1 .. Len(labels) -> FittingSteps(columns, width)]
    BY <1>3
  <1>5. step \in Seq(FittingSteps(columns, width)) /\ DOMAIN step = 1 .. Len(labels)
    BY <1>1, <1>4
  <1>6. Len(step) = Len(labels)
    BY <1>1, <1>5, LenProperties
  <1>. QED BY <1>2, <1>5, <1>6 DEF StepsFit

LEMMA Metric1Fits ==
    ASSUME NEW columns, NEW width, NEW form, FormFits(columns, width, form),
           NEW n \in Nat \ {0}
    PROVE  StepsFit(columns, width, Metric1(form, n))
  <1>. DEFINE ones == [i \in 1 .. n |-> 1]
  <1>1. ones \in Seq(Nat)
    OBVIOUS
  <1>2. Len(ones) = n
    BY <1>1, LenProperties
  <1>. HIDE DEF ones
  <1>3. StepsFit(columns, width, Metrics(form, ones))
    BY <1>1, <1>2, MetricsFit
  <1>. QED BY <1>3 DEF Metric1, ones

\* The forms of metrics, in the tables that they are used in.
LEMMA MetricForms ==
    /\ \A width : FormFits(5, width, AvgMaxMinTableDef)
    /\ \A width : FormFits(3, width, sumValueQuery)
    /\ \A width : FormFits(9, width, totalTimeByLabelsTableDef)
    /\ \A width : FormFits(7, width, ThreadRow)
    /\ \A width : FormFits(6, width, RocksRow)
    /\ \A width : FormFits(5, width, NodeRow)
    /\ \A columns : /\ FormFits(columns, {columns}, totalValueAndTotalCountTableDef)
                    /\ FormFits(columns, {columns}, sumValueQuery)
  BY DEF FormFits, Forms, Form, MetricKinds, SkippedForms, RowKinds, HardwareKinds, Quantiles,
         AvgMaxMinTableDef, sumValueQuery, totalTimeByLabelsTableDef, ThreadRow, RocksRow, NodeRow,
         totalValueAndTotalCountTableDef

\* The one step of a table of rows.
LEMMA OneStepFits ==
    ASSUME NEW columns, NEW kind, NEW values, NEW width,
           FormFits(columns, width, Form(kind, values))
    PROVE  StepsFit(columns, width, <<[form |-> Form(kind, values), labels |-> 0]>>)
  <1>1. [form |-> Form(kind, values), labels |-> 0] \in FittingSteps(columns, width)
    BY DEF FittingSteps, FormFits
  <1>. QED BY <1>1 DEF StepsFit

LEMMA RowsFitIn ==
    ASSUME NEW columns \in Nat
    PROVE  /\ StepsFit(columns, {}, Rows(columns)) /\ StepsFit(columns, {}, SubRows(columns))
           /\ StepsFit(columns, {}, Fixed(columns)) /\ StepsFit(columns, {}, ByInstance(columns))
  <1>1. /\ FormFits(columns, {}, Form("rows", columns))
        /\ FormFits(columns, {}, Form("subrows", columns))
        /\ FormFits(columns, {}, Form("fixed", columns))
        /\ FormFits(columns, {}, Form("config", columns))
    BY DEF FormFits, Forms, Form, MetricKinds, SkippedForms, RowKinds, HardwareKinds
  <1>. QED BY <1>1, OneStepFits DEF Rows, SubRows, Fixed, ByInstance

\* A table whose steps fit and whose keys and values are columns.
LEMMA TableIs ==
    ASSUME NEW category, NEW title, NEW columns \in Nat, NEW join, NEW compare, NEW steps,
           join \cup compare \subseteq 0 .. columns - 1, join \cap compare = {},
           StepsFit(columns, {}, steps)
    PROVE  TableFits(Table(category, title, columns, join, compare, steps))
  BY DEF TableFits, Table

LEMMA WideTableIs ==
    ASSUME NEW category, NEW title, NEW columns \in Nat, NEW join, NEW compare, NEW steps,
           join \cup compare \subseteq 0 .. columns - 1, join \cap compare = {},
           StepsFit(columns, {columns}, steps)
    PROVE  TableFits([Table(category, title, columns, join, compare, steps)
                        EXCEPT !.toWidth = {columns}])
  BY DEF TableFits, Table

LEMMA OwnTableIs ==
    ASSUME NEW category, NEW title, NEW columns \in Nat, NEW join, NEW compare, NEW steps,
           join \cup compare \subseteq 0 .. columns - 1, join \cap compare = {},
           StepsFit(columns, {}, steps)
    PROVE  TableFits([Table(category, title, columns, join, compare, steps)
                        EXCEPT !.ownBase = TRUE])
  BY DEF TableFits, Table

\* What the threads are configured to is asked for first; hardware is gathered in
\* four steps.
LEMMA LookupFits == StepsFit(7, {}, <<[form |-> Form("lookup", 0), labels |-> 0]>>)
  <1>1. FormFits(7, {}, Form("lookup", 0))
    BY DEF FormFits, Forms, Form, MetricKinds, SkippedForms, RowKinds, HardwareKinds
  <1>. QED BY <1>1, OneStepFits

LEMMA HardwareFits ==
    StepsFit(6, {}, [i \in 1 .. 4 |->
        [form |-> Form(<<"cpu", "memory", "disk", "uptime">>[i], 6), labels |-> 0]])
  <1>. DEFINE kind == <<"cpu", "memory", "disk", "uptime">>
              step == [i \in 1 .. 4 |-> [form |-> Form(kind[i], 6), labels |-> 0]]
  <1>1. \A i \in 1 .. 4 : kind[i] \in HardwareKinds
    BY DEF HardwareKinds
  <1>. HIDE DEF kind
  <1>2. ASSUME NEW i \in 1 .. 4 PROVE [form |-> Form(kind[i], 6), labels |-> 0] \in FittingSteps(6, {})
    <2>1. kind[i] \in HardwareKinds /\ kind[i] \notin MetricKinds /\ kind[i] \notin RowKinds
      BY <1>1 DEF HardwareKinds, MetricKinds, SkippedForms, RowKinds
    <2>. QED BY <2>1 DEF FittingSteps, FormFits, Forms, Form
  <1>3. step \in Seq(FittingSteps(6, {}))
    BY <1>2
  <1>4. Len(step) = 4
    BY <1>3, LenProperties
  <1>. HIDE DEF step
  <1>5. StepsFit(6, {}, step)
    BY <1>3, <1>4 DEF StepsFit
  <1>. QED BY <1>5 DEF step, kind

\* The function of every table makes rows that fit it (the tables of report.go and
\* compare.go, one by one).
LEMMA TablesFit ==
    /\ TableFits(GetHeaderTimeTable)
    /\ TableFits(GetCompareHeaderTimeTable)
    /\ TableFits(GetClusterHardwareInfoTable)
    /\ TableFits(GetClusterInfoTable)
    /\ TableFits(GetAllDiagnoseReport)
    /\ TableFits(GetLoadTable)
    /\ TableFits(GetCPUUsageTable)
    /\ TableFits(GetProcessMemUsageTable)
    /\ TableFits(GetGoroutinesCountTable)
    /\ TableFits(GetTiKVThreadCPUTable)
    /\ TableFits(GetTotalTimeConsumeTable)
    /\ TableFits(GetTotalErrorTable)
    /\ TableFits(GetTiDBTimeConsumeTable)
    /\ TableFits(GetTiDBConnectionCountTable)
    /\ TableFits(GetTiDBTxnTableData)
    /\ TableFits(GetTiDBStatisticsInfo)
    /\ TableFits(GetTiDBDDLOwner)
    /\ TableFits(GetTiDBTopNSlowQuery)
    /\ TableFits(GetTiDBTopNSlowQueryGroupByDigest)
    /\ TableFits(GetTiDBSlowQueryWithDiffPlan)
    /\ TableFits(getTiDBAbnormalSlowQueryOnly)
    /\ TableFits(GetPDTimeConsumeTable)
    /\ TableFits(GetPDSchedulerInfo)
    /\ TableFits(GetPDClusterStatusTable)
    /\ TableFits(GetStoreStatusTable)
    /\ TableFits(GetPDEtcdStatusTable)
    /\ TableFits(GetTiKVTotalTimeConsumeTable)
    /\ TableFits(GetTiKVRocksDBTimeConsumeTable)
    /\ TableFits(GetTiKVErrorTable)
    /\ TableFits(GetTiKVStoreInfo)
    /\ TableFits(GetTiKVRegionSizeInfo)
    /\ TableFits(GetTiKVCopInfo)
    /\ TableFits(GetTiKVSchedulerInfo)
    /\ TableFits(GetTiKVRaftInfo)
    /\ TableFits(GetTiKVSnapshotInfo)
    /\ TableFits(GetTiKVGCInfo)
    /\ TableFits(GetTiKVTaskInfo)
    /\ TableFits(GetTiKVCacheHitTable)
    /\ TableFits(GetPDConfigInfo)
    /\ TableFits(GetPDConfigChangeInfo)
    /\ TableFits(GetTiDBGCConfigInfo)
    /\ TableFits(GetTiDBGCConfigChangeInfo)
    /\ TableFits(GetTiKVRocksDBConfigInfo)
    /\ TableFits(GetTiKVRocksDBConfigChangeInfo)
    /\ TableFits(GetTiKVRaftStoreConfigInfo)
    /\ TableFits(GetTiKVRaftStoreConfigChangeInfo)
    /\ TableFits(GetTiDBCurrentConfig)
    /\ TableFits(GetPDCurrentConfig)
    /\ TableFits(GetTiKVCurrentConfig)
  <1>1. TableFits(GetHeaderTimeTable)
    BY TableIs, RowsFitIn DEF GetHeaderTimeTable
  <1>2. TableFits(GetCompareHeaderTimeTable)
    BY TableIs, RowsFitIn DEF GetCompareHeaderTimeTable
  <1>3. TableFits(GetClusterHardwareInfoTable)
    BY HardwareFits, TableIs DEF GetClusterHardwareInfoTable
  <1>4. TableFits(GetClusterInfoTable)
    BY DEF TableFits, Table, GetClusterInfoTable
  <1>5. TableFits(GetAllDiagnoseReport)
    BY TableIs, RowsFitIn DEF GetAllDiagnoseReport
  <1>6. TableFits(GetLoadTable)
    <2>1. StepsFit(5, {}, Metric1(NodeRow, 2))
      BY Metric1Fits, MetricForms
    <2>2. <<2, 2, 2, 2, 2, 2, 2, 1, 1>> \in Seq(Nat) /\ Len(<<2, 2, 2, 2, 2, 2, 2, 1, 1>>) >= 1
      OBVIOUS
    <2>3. StepsFit(5, {}, Metrics(AvgMaxMinTableDef, <<2, 2, 2, 2, 2, 2, 2, 1, 1>>))
      BY <2>2, MetricsFit, MetricForms
    <2>4. StepsFit(5, {}, Metric1(NodeRow, 2) \o Metrics(AvgMaxMinTableDef, <<2, 2, 2, 2, 2,
              2, 2, 1, 1>>))
      BY <2>1, <2>3, ConcatFits
    <2>. QED BY <2>4, TableIs DEF GetLoadTable
  <1>7. TableFits(GetCPUUsageTable)
    BY TableIs, RowsFitIn DEF GetCPUUsageTable
  <1>8. TableFits(GetProcessMemUsageTable)
    BY TableIs, RowsFitIn DEF GetProcessMemUsageTable
  <1>9. TableFits(GetGoroutinesCountTable)
    BY TableIs, RowsFitIn DEF GetGoroutinesCountTable
  <1>10. TableFits(GetTiKVThreadCPUTable)
    <2>1. StepsFit(7, {}, Metric1(ThreadRow, 17))
      BY Metric1Fits, MetricForms
    <2>2. StepsFit(7, {}, <<[form |-> Form("lookup", 0), labels |-> 0]>> \o
              Metric1(ThreadRow, 17))
      BY <2>1, ConcatFits, LookupFits
    <2>. QED BY <2>2, TableIs DEF GetTiKVThreadCPUTable
  <1>11. TableFits(GetTotalTimeConsumeTable)
    <2>1. StepsFit(9, {}, Metric1(totalTimeByLabelsTableDef, 66))
      BY Metric1Fits, MetricForms
    <2>. QED BY <2>1, TableIs DEF GetTotalTimeConsumeTable
  <1>12. TableFits(GetTotalErrorTable)
    <2>1. StepsFit(3, {}, Metric1(sumValueQuery, 17))
      BY Metric1Fits, MetricForms
    <2>. QED BY <2>1, TableIs DEF GetTotalErrorTable
  <1>13. TableFits(GetTiDBTimeConsumeTable)
    <2>1. <<2, 1, 2, 2, 2, 2, 1, 3, 1, 2, 3, 1, 1, 1, 2, 4, 2, 3, 2, 3, 1, 3, 2, 1, 1, 2, 1,
            1, 1, 1, 1>> \in Seq(Nat) /\ Len(<<2, 1, 2, 2, 2, 2, 1, 3, 1, 2, 3, 1, 1, 1, 2,
            4, 2, 3, 2, 3, 1, 3, 2, 1, 1, 2, 1, 1, 1, 1, 1>>) >= 1
      OBVIOUS
    <2>2. StepsFit(9, {}, Metrics(totalTimeByLabelsTableDef, <<2, 1, 2, 2, 2, 2, 1, 3, 1, 2,
              3, 1, 1, 1, 2, 4, 2, 3, 2, 3, 1, 3, 2, 1, 1, 2, 1, 1, 1, 1, 1>>))
      BY <2>1, MetricsFit, MetricForms
    <2>. QED BY <2>2, TableIs DEF GetTiDBTimeConsumeTable
  <1>14. TableFits(GetTiDBConnectionCountTable)
    BY TableIs, RowsFitIn DEF GetTiDBConnectionCountTable
  <1>15. TableFits(GetTiDBTxnTableData)
    <2>1. StepsFit(8, {8}, Metric1(totalValueAndTotalCountTableDef, 5))
      BY Metric1Fits, MetricForms
    <2>2. StepsFit(8, {8}, Metric1(sumValueQuery, 2))
      BY Metric1Fits, MetricForms
    <2>3. StepsFit(8, {8}, Metric1(totalValueAndTotalCountTableDef, 5) \o
              Metric1(sumValueQuery, 2))
      BY <2>1, <2>2, ConcatFits
    <2>. QED BY <2>3, WideTableIs DEF GetTiDBTxnTableData
  <1>16. TableFits(GetTiDBStatisticsInfo)
    <2>1. <<1, 2, 2, 2>> \in Seq(Nat) /\ Len(<<1, 2, 2, 2>>) >= 1
      OBVIOUS
    <2>2. StepsFit(3, {}, Metrics(sumValueQuery, <<1, 2, 2, 2>>))
      BY <2>1, MetricsFit, MetricForms
    <2>. QED BY <2>2, TableIs DEF GetTiDBStatisticsInfo
  <1>17. TableFits(GetTiDBDDLOwner)
    BY TableIs, RowsFitIn DEF GetTiDBDDLOwner
  <1>18. TableFits(GetTiDBTopNSlowQuery)
    BY TableIs, RowsFitIn DEF GetTiDBTopNSlowQuery
  <1>19. TableFits(GetTiDBTopNSlowQueryGroupByDigest)
    BY TableIs, RowsFitIn DEF GetTiDBTopNSlowQueryGroupByDigest
  <1>20. TableFits(GetTiDBSlowQueryWithDiffPlan)
    BY TableIs, RowsFitIn DEF GetTiDBSlowQueryWithDiffPlan
  <1>21. TableFits(getTiDBAbnormalSlowQueryOnly)
    BY TableIs, RowsFitIn DEF getTiDBAbnormalSlowQueryOnly
  <1>22. TableFits(GetPDTimeConsumeTable)
    <2>1. <<2, 2, 2, 1, 1, 2, 2, 1, 2>> \in Seq(Nat) /\ Len(<<2, 2, 2, 1, 1, 2, 2, 1, 2>>) >= 1
      OBVIOUS
    <2>2. StepsFit(9, {}, Metrics(totalTimeByLabelsTableDef, <<2, 2, 2, 1, 1, 2, 2, 1, 2>>))
      BY <2>1, MetricsFit, MetricForms
    <2>. QED BY <2>2, OwnTableIs DEF GetPDTimeConsumeTable
  <1>23. TableFits(GetPDSchedulerInfo)
    <2>1. StepsFit(3, {}, Metric1(sumValueQuery, 4))
      BY Metric1Fits, MetricForms
    <2>. QED BY <2>1, TableIs DEF GetPDSchedulerInfo
  <1>24. TableFits(GetPDClusterStatusTable)
    BY TableIs, RowsFitIn DEF GetPDClusterStatusTable
  <1>25. TableFits(GetStoreStatusTable)
    <2>1. StepsFit(5, {}, Metric1(AvgMaxMinTableDef, 6))
      BY Metric1Fits, MetricForms
    <2>. QED BY <2>1, TableIs DEF GetStoreStatusTable
  <1>26. TableFits(GetPDEtcdStatusTable)
    BY TableIs, RowsFitIn DEF GetPDEtcdStatusTable
  <1>27. TableFits(GetTiKVTotalTimeConsumeTable)
    <2>1. <<2, 2, 2, 2, 2, 2, 2, 1, 1, 2, 1, 1, 1, 1, 2, 2, 1, 1, 1, 2, 2, 1, 1, 2, 1>> \in
            Seq(Nat) /\ Len(<<2, 2, 2, 2, 2, 2, 2, 1, 1, 2, 1, 1, 1, 1, 2, 2, 1, 1, 1, 2, 2,
            1, 1, 2, 1>>) >= 1
      OBVIOUS
    <2>2. StepsFit(9, {}, Metrics(totalTimeByLabelsTableDef, <<2, 2, 2, 2, 2, 2, 2, 1, 1, 2,
              1, 1, 1, 1, 2, 2, 1, 1, 1, 2, 2, 1, 1, 2, 1>>))
      BY <2>1, MetricsFit, MetricForms
    <2>. QED BY <2>2, TableIs DEF GetTiKVTotalTimeConsumeTable
  <1>28. TableFits(GetTiKVRocksDBTimeConsumeTable)
    <2>1. StepsFit(6, {}, Metric1(RocksRow, 7))
      BY Metric1Fits, MetricForms
    <2>. QED BY <2>1, TableIs DEF GetTiKVRocksDBTimeConsumeTable
  <1>29. TableFits(GetTiKVErrorTable)
    <2>1. <<2, 2, 4, 3, 2, 2, 1, 3, 2, 2>> \in Seq(Nat) /\ Len(<<2, 2, 4, 3, 2, 2, 1, 3, 2,
            2>>) >= 1
      OBVIOUS
    <2>2. StepsFit(3, {}, Metrics(sumValueQuery, <<2, 2, 4, 3, 2, 2, 1, 3, 2, 2>>))
      BY <2>1, MetricsFit, MetricForms
    <2>. QED BY <2>2, TableIs DEF GetTiKVErrorTable
  <1>30. TableFits(GetTiKVStoreInfo)
    <2>1. <<2>> \in Seq(Nat) /\ Len(<<2>>) >= 1
      OBVIOUS
    <2>2. StepsFit(3, {}, Metrics(sumValueQuery, <<2>>))
      BY <2>1, MetricsFit, MetricForms
    <2>. QED BY <2>2, TableIs DEF GetTiKVStoreInfo
  <1>31. TableFits(GetTiKVRegionSizeInfo)
    <2>1. StepsFit(6, {6}, Metric1(totalValueAndTotalCountTableDef, 1))
      BY Metric1Fits, MetricForms
    <2>. QED BY <2>1, WideTableIs DEF GetTiKVRegionSizeInfo
  <1>32. TableFits(GetTiKVCopInfo)
    <2>1. <<2, 1, 4>> \in Seq(Nat) /\ Len(<<2, 1, 4>>) >= 1
      OBVIOUS
    <2>2. StepsFit(3, {}, Metrics(sumValueQuery, <<2, 1, 4>>))
      BY <2>1, MetricsFit, MetricForms
    <2>. QED BY <2>2, TableIs DEF GetTiKVCopInfo
  <1>33. TableFits(GetTiKVSchedulerInfo)
    <2>1. <<2, 2>> \in Seq(Nat) /\ Len(<<2, 2>>) >= 1
      OBVIOUS
    <2>2. StepsFit(8, {8}, Metrics(totalValueAndTotalCountTableDef, <<2, 2>>))
      BY <2>1, MetricsFit, MetricForms
    <2>3. <<3, 3>> \in Seq(Nat) /\ Len(<<3, 3>>) >= 1
      OBVIOUS
    <2>4. StepsFit(8, {8}, Metrics(sumValueQuery, <<3, 3>>))
      BY <2>3, MetricsFit, MetricForms
    <2>5. StepsFit(8, {8}, Metrics(totalValueAndTotalCountTableDef, <<2, 2>>) \o
              Metrics(sumValueQuery, <<3, 3>>))
      BY <2>2, <2>4, ConcatFits
    <2>. QED BY <2>5, WideTableIs DEF GetTiKVSchedulerInfo
  <1>34. TableFits(GetTiKVRaftInfo)
    <2>1. <<2, 1, 1, 2, 2>> \in Seq(Nat) /\ Len(<<2, 1, 1, 2, 2>>) >= 1
      OBVIOUS
    <2>2. StepsFit(3, {}, Metrics(sumValueQuery, <<2, 1, 1, 2, 2>>))
      BY <2>1, MetricsFit, MetricForms
    <2>. QED BY <2>2, TableIs DEF GetTiKVRaftInfo
  <1>35. TableFits(GetTiKVSnapshotInfo)
    <2>1. StepsFit(8, {8}, Metric1(totalValueAndTotalCountTableDef, 2))
      BY Metric1Fits, MetricForms
    <2>2. <<2>> \in Seq(Nat) /\ Len(<<2>>) >= 1
      OBVIOUS
    <2>3. StepsFit(8, {8}, Metrics(sumValueQuery, <<2>>))
      BY <2>2, MetricsFit, MetricForms
    <2>4. StepsFit(8, {8}, Metric1(totalValueAndTotalCountTableDef, 2) \o
              Metrics(sumValueQuery, <<2>>))
      BY <2>1, <2>3, ConcatFits
    <2>. QED BY <2>4, WideTableIs DEF GetTiKVSnapshotInfo
  <1>36. TableFits(GetTiKVGCInfo)
    <2>1. <<3, 2>> \in Seq(Nat) /\ Len(<<3, 2>>) >= 1
      OBVIOUS
    <2>2. StepsFit(3, {}, Metrics(sumValueQuery, <<3, 2>>))
      BY <2>1, MetricsFit, MetricForms
    <2>. QED BY <2>2, TableIs DEF GetTiKVGCInfo
  <1>37. TableFits(GetTiKVTaskInfo)
    <2>1. <<2, 2, 2, 2>> \in Seq(Nat) /\ Len(<<2, 2, 2, 2>>) >= 1
      OBVIOUS
    <2>2. StepsFit(3, {}, Metrics(sumValueQuery, <<2, 2, 2, 2>>))
      BY <2>1, MetricsFit, MetricForms
    <2>. QED BY <2>2, TableIs DEF GetTiKVTaskInfo
  <1>38. TableFits(GetTiKVCacheHitTable)
    <2>1. StepsFit(5, {}, Metric1(AvgMaxMinTableDef, 6))
      BY Metric1Fits, MetricForms
    <2>. QED BY <2>1, TableIs DEF GetTiKVCacheHitTable
  <1>39. TableFits(GetPDConfigInfo)
    BY TableIs, RowsFitIn DEF GetPDConfigInfo
  <1>40. TableFits(GetPDConfigChangeInfo)
    BY TableIs, RowsFitIn DEF GetPDConfigChangeInfo
  <1>41. TableFits(GetTiDBGCConfigInfo)
    BY TableIs, RowsFitIn DEF GetTiDBGCConfigInfo
  <1>42. TableFits(GetTiDBGCConfigChangeInfo)
    BY TableIs, RowsFitIn DEF GetTiDBGCConfigChangeInfo
  <1>43. TableFits(GetTiKVRocksDBConfigInfo)
    BY TableIs, RowsFitIn DEF GetTiKVRocksDBConfigInfo
  <1>44. TableFits(GetTiKVRocksDBConfigChangeInfo)
    BY TableIs, RowsFitIn DEF GetTiKVRocksDBConfigChangeInfo
  <1>45. TableFits(GetTiKVRaftStoreConfigInfo)
    BY TableIs, RowsFitIn DEF GetTiKVRaftStoreConfigInfo
  <1>46. TableFits(GetTiKVRaftStoreConfigChangeInfo)
    BY TableIs, RowsFitIn DEF GetTiKVRaftStoreConfigChangeInfo
  <1>47. TableFits(GetTiDBCurrentConfig)
    BY TableIs, RowsFitIn DEF GetTiDBCurrentConfig
  <1>48. TableFits(GetPDCurrentConfig)
    BY TableIs, RowsFitIn DEF GetPDCurrentConfig
  <1>49. TableFits(GetTiKVCurrentConfig)
    BY TableIs, RowsFitIn DEF GetTiKVCurrentConfig
  <1>. QED BY <1>1, <1>2, <1>3, <1>4, <1>5, <1>6, <1>7, <1>8, <1>9, <1>10, <1>11, <1>12, <1>13, 
          <1>14, <1>15, <1>16, <1>17, <1>18, <1>19, <1>20, <1>21, <1>22, <1>23, <1>24, <1>25, 
          <1>26, <1>27, <1>28, <1>29, <1>30, <1>31, <1>32, <1>33, <1>34, <1>35, <1>36, <1>37, 
          <1>38, <1>39, <1>40, <1>41, <1>42, <1>43, <1>44, <1>45, <1>46, <1>47, <1>48, <1>49

\* The tables of a comparison, and all tables.
ComparedTables ==
    {GetLoadTable, GetCPUUsageTable, GetTiKVThreadCPUTable, GetGoroutinesCountTable,
     GetProcessMemUsageTable, GetTotalTimeConsumeTable, GetTotalErrorTable,
     GetTiDBTimeConsumeTable, GetTiDBConnectionCountTable, GetTiDBTxnTableData,
     GetTiDBStatisticsInfo, GetTiDBDDLOwner, GetPDTimeConsumeTable, GetPDSchedulerInfo,
     GetPDClusterStatusTable, GetStoreStatusTable, GetPDEtcdStatusTable,
     GetTiKVTotalTimeConsumeTable, GetTiKVRocksDBTimeConsumeTable, GetTiKVErrorTable,
     GetTiKVStoreInfo, GetTiKVRegionSizeInfo, GetTiKVCopInfo, GetTiKVSchedulerInfo,
     GetTiKVRaftInfo, GetTiKVSnapshotInfo, GetTiKVGCInfo, GetTiKVTaskInfo,
     GetTiKVCacheHitTable, GetPDConfigInfo, GetPDConfigChangeInfo, GetTiDBGCConfigInfo,
     GetTiDBGCConfigChangeInfo, GetTiKVRocksDBConfigInfo, GetTiKVRocksDBConfigChangeInfo,
     GetTiKVRaftStoreConfigInfo, GetTiKVRaftStoreConfigChangeInfo}
OtherTables ==
    {GetHeaderTimeTable, GetCompareHeaderTimeTable, GetClusterHardwareInfoTable,
     GetClusterInfoTable, GetAllDiagnoseReport, GetTiDBTopNSlowQuery,
     GetTiDBTopNSlowQueryGroupByDigest, GetTiDBSlowQueryWithDiffPlan,
     getTiDBAbnormalSlowQueryOnly, GetTiDBCurrentConfig, GetPDCurrentConfig,
     GetTiKVCurrentConfig}

LEMMA ComparedAre == Range(getCompareTables) \subseteq ComparedTables
  <1>. DEFINE first == <<GetLoadTable, GetCPUUsageTable, GetTiKVThreadCPUTable,
                         GetGoroutinesCountTable, GetProcessMemUsageTable>>
  <1>1. first \in Seq(ComparedTables)
    BY DEF ComparedTables
  <1>2. CommonTables \in Seq(ComparedTables)
    BY DEF ComparedTables, CommonTables
  <1>3. StorageTables \in Seq(ComparedTables)
    BY DEF ComparedTables, StorageTables
  <1>4. getCompareTables = first \o CommonTables \o StorageTables
    BY DEF getCompareTables
  <1>. HIDE DEF first
  <1>5. getCompareTables \in Seq(ComparedTables)
    BY <1>1, <1>2, <1>3, <1>4, ConcatProperties
  <1>. QED BY <1>5 DEF Range

LEMMA TablesAre ==
    ASSUME NEW i \in DOMAIN DiagTableDefs
    PROVE  DiagTableDefs[i] \in ComparedTables \cup OtherTables
  <1>. DEFINE All == ComparedTables \cup OtherTables
              first == <<GetHeaderTimeTable, GetClusterHardwareInfoTable, GetClusterInfoTable,
                         GetAllDiagnoseReport, GetLoadTable, GetCPUUsageTable,
                         GetProcessMemUsageTable, GetTiKVThreadCPUTable, GetGoroutinesCountTable>>
              slow == <<GetTiDBTopNSlowQuery, GetTiDBTopNSlowQueryGroupByDigest,
                        GetTiDBSlowQueryWithDiffPlan>>
              last == <<GetCompareHeaderTimeTable, getTiDBAbnormalSlowQueryOnly>>
  <1>1. first \in Seq(All) /\ slow \in Seq(All) /\ last \in Seq(All)
    BY DEF ComparedTables, OtherTables
  <1>2. CommonTables \in Seq(All)
    BY DEF ComparedTables, CommonTables
  <1>3. StorageTables \in Seq(All)
    BY DEF ComparedTables, StorageTables
  <1>4. GetReportEndTables \in Seq(All)
    BY DEF OtherTables, GetReportEndTables
  <1>5. DiagTableDefs = (first \o CommonTables \o slow \o StorageTables \o GetReportEndTables) \o last
    BY DEF DiagTableDefs, GetReportTables
  <1>. HIDE DEF first, slow, last, All
  <1>6. first \o CommonTables \o slow \in Seq(All)
    BY <1>1, <1>2, ConcatProperties
  <1>7. first \o CommonTables \o slow \o StorageTables \o GetReportEndTables \in Seq(All)
    BY <1>3, <1>4, <1>6, ConcatProperties
  <1>8. DiagTableDefs \in Seq(All)
    BY <1>1, <1>5, <1>7, ConcatProperties
  <1>. QED BY <1>8, ElementOfSeq, LenProperties DEF All

LEMMA DefsFit ==
    ASSUME NEW i \in DOMAIN DiagTableDefs
    PROVE  TableFits(DiagTableDefs[i])
  BY TablesAre, TablesFit DEF ComparedTables, OtherTables

\* Two ranges are compared by tables that have keys and titles of their own.
LEMMA ComparedHaveKeys ==
    ASSUME NEW t \in ComparedTables
    PROVE  t.join # {}
  <1>1. GetLoadTable.join # {}
    BY DEF Table, GetLoadTable
  <1>2. GetCPUUsageTable.join # {}
    BY DEF Table, GetCPUUsageTable
  <1>3. GetTiKVThreadCPUTable.join # {}
    BY DEF Table, GetTiKVThreadCPUTable
  <1>4. GetGoroutinesCountTable.join # {}
    BY DEF Table, GetGoroutinesCountTable
  <1>5. GetProcessMemUsageTable.join # {}
    BY DEF Table, GetProcessMemUsageTable
  <1>6. GetTotalTimeConsumeTable.join # {}
    BY DEF Table, GetTotalTimeConsumeTable
  <1>7. GetTotalErrorTable.join # {}
    BY DEF Table, GetTotalErrorTable
  <1>8. GetTiDBTimeConsumeTable.join # {}
    BY DEF Table, GetTiDBTimeConsumeTable
  <1>9. GetTiDBConnectionCountTable.join # {}
    BY DEF Table, GetTiDBConnectionCountTable
  <1>10. GetTiDBTxnTableData.join # {}
    BY DEF Table, GetTiDBTxnTableData
  <1>11. GetTiDBStatisticsInfo.join # {}
    BY DEF Table, GetTiDBStatisticsInfo
  <1>12. GetTiDBDDLOwner.join # {}
    BY DEF Table, GetTiDBDDLOwner
  <1>13. GetPDTimeConsumeTable.join # {}
    BY DEF Table, GetPDTimeConsumeTable
  <1>14. GetPDSchedulerInfo.join # {}
    BY DEF Table, GetPDSchedulerInfo
  <1>15. GetPDClusterStatusTable.join # {}
    BY DEF Table, GetPDClusterStatusTable
  <1>16. GetStoreStatusTable.join # {}
    BY DEF Table, GetStoreStatusTable
  <1>17. GetPDEtcdStatusTable.join # {}
    BY DEF Table, GetPDEtcdStatusTable
  <1>18. GetTiKVTotalTimeConsumeTable.join # {}
    BY DEF Table, GetTiKVTotalTimeConsumeTable
  <1>19. GetTiKVRocksDBTimeConsumeTable.join # {}
    BY DEF Table, GetTiKVRocksDBTimeConsumeTable
  <1>20. GetTiKVErrorTable.join # {}
    BY DEF Table, GetTiKVErrorTable
  <1>21. GetTiKVStoreInfo.join # {}
    BY DEF Table, GetTiKVStoreInfo
  <1>22. GetTiKVRegionSizeInfo.join # {}
    BY DEF Table, GetTiKVRegionSizeInfo
  <1>23. GetTiKVCopInfo.join # {}
    BY DEF Table, GetTiKVCopInfo
  <1>24. GetTiKVSchedulerInfo.join # {}
    BY DEF Table, GetTiKVSchedulerInfo
  <1>25. GetTiKVRaftInfo.join # {}
    BY DEF Table, GetTiKVRaftInfo
  <1>26. GetTiKVSnapshotInfo.join # {}
    BY DEF Table, GetTiKVSnapshotInfo
  <1>27. GetTiKVGCInfo.join # {}
    BY DEF Table, GetTiKVGCInfo
  <1>28. GetTiKVTaskInfo.join # {}
    BY DEF Table, GetTiKVTaskInfo
  <1>29. GetTiKVCacheHitTable.join # {}
    BY DEF Table, GetTiKVCacheHitTable
  <1>30. GetPDConfigInfo.join # {}
    BY DEF Table, GetPDConfigInfo
  <1>31. GetPDConfigChangeInfo.join # {}
    BY DEF Table, GetPDConfigChangeInfo
  <1>32. GetTiDBGCConfigInfo.join # {}
    BY DEF Table, GetTiDBGCConfigInfo
  <1>33. GetTiDBGCConfigChangeInfo.join # {}
    BY DEF Table, GetTiDBGCConfigChangeInfo
  <1>34. GetTiKVRocksDBConfigInfo.join # {}
    BY DEF Table, GetTiKVRocksDBConfigInfo
  <1>35. GetTiKVRocksDBConfigChangeInfo.join # {}
    BY DEF Table, GetTiKVRocksDBConfigChangeInfo
  <1>36. GetTiKVRaftStoreConfigInfo.join # {}
    BY DEF Table, GetTiKVRaftStoreConfigInfo
  <1>37. GetTiKVRaftStoreConfigChangeInfo.join # {}
    BY DEF Table, GetTiKVRaftStoreConfigChangeInfo
  <1>. QED BY <1>1, <1>2, <1>3, <1>4, <1>5, <1>6, <1>7, <1>8, <1>9, <1>10, <1>11, <1>12, <1>13,
          <1>14, <1>15, <1>16, <1>17, <1>18, <1>19, <1>20, <1>21, <1>22, <1>23, <1>24, <1>25,
          <1>26, <1>27, <1>28, <1>29, <1>30, <1>31, <1>32, <1>33, <1>34, <1>35, <1>36,
          <1>37 DEF ComparedTables

LEMMA ComparedHaveTitles ==
    ASSUME NEW t \in ComparedTables, NEW u \in ComparedTables, u.title = t.title
    PROVE  u = t
  <1>1. GetLoadTable.title = "node_load_info"
    BY DEF Table, GetLoadTable
  <1>2. GetCPUUsageTable.title = "process_cpu_usage"
    BY DEF Table, GetCPUUsageTable
  <1>3. GetTiKVThreadCPUTable.title = "tikv_thread_cpu_usage"
    BY DEF Table, GetTiKVThreadCPUTable
  <1>4. GetGoroutinesCountTable.title = "tidb/pd_goroutines_count"
    BY DEF Table, GetGoroutinesCountTable
  <1>5. GetProcessMemUsageTable.title = "process_memory_usage"
    BY DEF Table, GetProcessMemUsageTable
  <1>6. GetTotalTimeConsumeTable.title = "total_time_consume"
    BY DEF Table, GetTotalTimeConsumeTable
  <1>7. GetTotalErrorTable.title = "total_error"
    BY DEF Table, GetTotalErrorTable
  <1>8. GetTiDBTimeConsumeTable.title = "tidb_time_consume"
    BY DEF Table, GetTiDBTimeConsumeTable
  <1>9. GetTiDBConnectionCountTable.title = "tidb_connection_count"
    BY DEF Table, GetTiDBConnectionCountTable
  <1>10. GetTiDBTxnTableData.title = "transaction"
    BY DEF Table, GetTiDBTxnTableData
  <1>11. GetTiDBStatisticsInfo.title = "statistics_info"
    BY DEF Table, GetTiDBStatisticsInfo
  <1>12. GetTiDBDDLOwner.title = "ddl_owner"
    BY DEF Table, GetTiDBDDLOwner
  <1>13. GetPDTimeConsumeTable.title = "pd_time_consume"
    BY DEF Table, GetPDTimeConsumeTable
  <1>14. GetPDSchedulerInfo.title = "balance_leader_region"
    BY DEF Table, GetPDSchedulerInfo
  <1>15. GetPDClusterStatusTable.title = "cluster_status"
    BY DEF Table, GetPDClusterStatusTable
  <1>16. GetStoreStatusTable.title = "store_status"
    BY DEF Table, GetStoreStatusTable
  <1>17. GetPDEtcdStatusTable.title = "etcd_status"
    BY DEF Table, GetPDEtcdStatusTable
  <1>18. GetTiKVTotalTimeConsumeTable.title = "tikv_time_consume"
    BY DEF Table, GetTiKVTotalTimeConsumeTable
  <1>19. GetTiKVRocksDBTimeConsumeTable.title = "rocksdb_time_consume"
    BY DEF Table, GetTiKVRocksDBTimeConsumeTable
  <1>20. GetTiKVErrorTable.title = "tikv_error"
    BY DEF Table, GetTiKVErrorTable
  <1>21. GetTiKVStoreInfo.title = "tikv_engine_size"
    BY DEF Table, GetTiKVStoreInfo
  <1>22. GetTiKVRegionSizeInfo.title = "approximate_region_size"
    BY DEF Table, GetTiKVRegionSizeInfo
  <1>23. GetTiKVCopInfo.title = "coprocessor_info"
    BY DEF Table, GetTiKVCopInfo
  <1>24. GetTiKVSchedulerInfo.title = "scheduler_info"
    BY DEF Table, GetTiKVSchedulerInfo
  <1>25. GetTiKVRaftInfo.title = "raft_info"
    BY DEF Table, GetTiKVRaftInfo
  <1>26. GetTiKVSnapshotInfo.title = "snapshot_info"
    BY DEF Table, GetTiKVSnapshotInfo
  <1>27. GetTiKVGCInfo.title = "gc_info"
    BY DEF Table, GetTiKVGCInfo
  <1>28. GetTiKVTaskInfo.title = "task_info"
    BY DEF Table, GetTiKVTaskInfo
  <1>29. GetTiKVCacheHitTable.title = "cache_hit"
    BY DEF Table, GetTiKVCacheHitTable
  <1>30. GetPDConfigInfo.title = "scheduler_initial_config"
    BY DEF Table, GetPDConfigInfo
  <1>31. GetPDConfigChangeInfo.title = "scheduler_change_config"
    BY DEF Table, GetPDConfigChangeInfo
  <1>32. GetTiDBGCConfigInfo.title = "tidb_gc_initial_config"
    BY DEF Table, GetTiDBGCConfigInfo
  <1>33. GetTiDBGCConfigChangeInfo.title = "tidb_gc_change_config"
    BY DEF Table, GetTiDBGCConfigChangeInfo
  <1>34. GetTiKVRocksDBConfigInfo.title = "tikv_rocksdb_initial_config"
    BY DEF Table, GetTiKVRocksDBConfigInfo
  <1>35. GetTiKVRocksDBConfigChangeInfo.title = "tikv_rocksdb_change_config"
    BY DEF Table, GetTiKVRocksDBConfigChangeInfo
  <1>36. GetTiKVRaftStoreConfigInfo.title = "tikv_raftstore_initial_config"
    BY DEF Table, GetTiKVRaftStoreConfigInfo
  <1>37. GetTiKVRaftStoreConfigChangeInfo.title = "tikv_raftstore_change_config"
    BY DEF Table, GetTiKVRaftStoreConfigChangeInfo
  <1>38. ASSUME t \in {GetLoadTable, GetCPUUsageTable, GetTiKVThreadCPUTable,
                         GetGoroutinesCountTable, GetProcessMemUsageTable,
                         GetTotalTimeConsumeTable, GetTotalErrorTable, GetTiDBTimeConsumeTable}
         PROVE  u = t
    BY <1>38, <1>1, <1>2, <1>3, <1>4, <1>5, <1>6, <1>7, <1>8, <1>9, <1>10, <1>11, <1>12, <1>13,
       <1>14, <1>15, <1>16, <1>17, <1>18, <1>19, <1>20, <1>21, <1>22, <1>23, <1>24, <1>25,
       <1>26, <1>27, <1>28, <1>29, <1>30, <1>31, <1>32, <1>33, <1>34, <1>35, <1>36,
       <1>37 DEF ComparedTables
  <1>39. ASSUME t \in {GetTiDBConnectionCountTable, GetTiDBTxnTableData, GetTiDBStatisticsInfo,
                         GetTiDBDDLOwner, GetPDTimeConsumeTable, GetPDSchedulerInfo,
                         GetPDClusterStatusTable, GetStoreStatusTable}
         PROVE  u = t
    BY <1>39, <1>1, <1>2, <1>3, <1>4, <1>5, <1>6, <1>7, <1>8, <1>9, <1>10, <1>11, <1>12, <1>13,
       <1>14, <1>15, <1>16, <1>17, <1>18, <1>19, <1>20, <1>21, <1>22, <1>23, <1>24, <1>25,
       <1>26, <1>27, <1>28, <1>29, <1>30, <1>31, <1>32, <1>33, <1>34, <1>35, <1>36,
       <1>37 DEF ComparedTables
  <1>40. ASSUME t \in {GetPDEtcdStatusTable, GetTiKVTotalTimeConsumeTable,
                         GetTiKVRocksDBTimeConsumeTable, GetTiKVErrorTable, GetTiKVStoreInfo,
                         GetTiKVRegionSizeInfo, GetTiKVCopInfo, GetTiKVSchedulerInfo}
         PROVE  u = t
    BY <1>40, <1>1, <1>2, <1>3, <1>4, <1>5, <1>6, <1>7, <1>8, <1>9, <1>10, <1>11, <1>12, <1>13,
       <1>14, <1>15, <1>16, <1>17, <1>18, <1>19, <1>20, <1>21, <1>22, <1>23, <1>24, <1>25,
       <1>26, <1>27, <1>28, <1>29, <1>30, <1>31, <1>32, <1>33, <1>34, <1>35, <1>36,
       <1>37 DEF ComparedTables
  <1>41. ASSUME t \in {GetTiKVRaftInfo, GetTiKVSnapshotInfo, GetTiKVGCInfo, GetTiKVTaskInfo,
                         GetTiKVCacheHitTable, GetPDConfigInfo, GetPDConfigChangeInfo,
                         GetTiDBGCConfigInfo}
         PROVE  u = t
    BY <1>41, <1>1, <1>2, <1>3, <1>4, <1>5, <1>6, <1>7, <1>8, <1>9, <1>10, <1>11, <1>12, <1>13,
       <1>14, <1>15, <1>16, <1>17, <1>18, <1>19, <1>20, <1>21, <1>22, <1>23, <1>24, <1>25,
       <1>26, <1>27, <1>28, <1>29, <1>30, <1>31, <1>32, <1>33, <1>34, <1>35, <1>36,
       <1>37 DEF ComparedTables
  <1>42. ASSUME t \in {GetTiDBGCConfigChangeInfo, GetTiKVRocksDBConfigInfo,
                         GetTiKVRocksDBConfigChangeInfo, GetTiKVRaftStoreConfigInfo,
                         GetTiKVRaftStoreConfigChangeInfo}
         PROVE  u = t
    BY <1>42, <1>1, <1>2, <1>3, <1>4, <1>5, <1>6, <1>7, <1>8, <1>9, <1>10, <1>11, <1>12, <1>13,
       <1>14, <1>15, <1>16, <1>17, <1>18, <1>19, <1>20, <1>21, <1>22, <1>23, <1>24, <1>25,
       <1>26, <1>27, <1>28, <1>29, <1>30, <1>31, <1>32, <1>33, <1>34, <1>35, <1>36,
       <1>37 DEF ComparedTables
  <1>. QED BY <1>38, <1>39, <1>40, <1>41, <1>42 DEF ComparedTables

DiagPhases == {"summary", "detail", "done", "error", "panic"}
DiagTypes ==
    /\ diagTable \in DOMAIN DiagTableDefs
    /\ diagStep \in 1 .. Len(Tab.steps)
    /\ diagPhase \in DiagPhases
    /\ diagPhase = "detail" => Now.form.kind \in MetricKinds \cup {"config"}
    /\ diagBase \in {"none", "own", "earlier"}
    /\ diagTimed \in BOOLEAN
    /\ diagBaseShown \in BOOLEAN /\ diagBaseLost \in BOOLEAN

\* The last row has the columns of the table (the first part of RowsAligned).
RowFits ==
    diagRow # NoRow =>
         /\ \/ diagRow.width = Tab.columns
            \/ Now.form.kind = "star" /\ diagRow.width = Tab.columns + 1
         /\ diagRow.sub \in {0, Tab.columns}

\* Whose total the base is: between two metrics never that of the one at hand; the
\* details of a metric with a total have one; that of an earlier metric has a row in
\* the table, or lost it with its details.
BaseKnown ==
    /\ diagPhase = "summary" \/ (diagPhase = "detail" /\ Now.form.kind = "config") => diagBase # "own"
    /\ diagPhase = "detail" /\ Now.form.kind # "config" /\ diagTimed => diagBase # "none"
    /\ diagBase = "earlier" => diagBaseLost \/ (~Tab.ownBase /\ diagBaseShown)
DiagInv == DiagTypes /\ RowFits /\ BaseKnown /\ RatiosTrue

\* The step at hand, and how wide the rows of a metric are.
LEMMA StepOf ==
    ASSUME DiagTypes
    PROVE  /\ TableFits(Tab) /\ Len(Tab.steps) \in Nat
           /\ \/ Now \in FittingSteps(Tab.columns, Tab.toWidth)
              \/ /\ Len(Tab.steps) = 1 /\ Tab.toWidth = {}
                 /\ Now = [form |-> Form("star", Tab.columns), labels |-> 0]
  <1>1. TableFits(Tab) /\ diagStep \in 1 .. Len(Tab.steps)
    BY DefsFit DEF DiagTypes, Tab
  <1>2. CASE StepsFit(Tab.columns, Tab.toWidth, Tab.steps)
    <2>1. Tab.steps \in Seq(FittingSteps(Tab.columns, Tab.toWidth))
      BY <1>2 DEF StepsFit
    <2>2. Now \in FittingSteps(Tab.columns, Tab.toWidth)
      BY <1>1, <2>1, ElementOfSeq DEF Now
    <2>3. Len(Tab.steps) \in Nat
      BY <2>1, LenProperties
    <2>. QED BY <1>1, <2>2, <2>3
  <1>3. CASE Tab.toWidth = {} /\ Tab.steps = <<[form |-> Form("star", Tab.columns), labels |-> 0]>>
    <2>1. Len(Tab.steps) = 1
      BY <1>3
    <2>2. diagStep = 1
      BY <1>1, <2>1
    <2>. QED BY <1>1, <1>3, <2>1, <2>2 DEF Now
  <1>. QED BY <1>1, <1>2, <1>3 DEF TableFits

LEMMA MetricWidths ==
    ASSUME DiagTypes, Now.form.kind \notin RowKinds \cup HardwareKinds \cup {"lookup", "star"}
    PROVE  Special(SummaryWidth(Now)) = Tab.columns /\ Special(DetailWidth(Now)) = Tab.columns
  <1>1. Now \in FittingSteps(Tab.columns, Tab.toWidth) /\ TableFits(Tab)
    BY StepOf DEF Form
  <1>2. /\ Now.form \in Forms /\ Now.labels \in Nat /\ Now.form.values \in Nat
        /\ Now.form.kind \in MetricKinds
        /\ Tab.toWidth = {Tab.columns} \/ 2 + Now.form.values = Tab.columns
    BY <1>1 DEF FittingSteps, FormFits, Forms
  <1>3. SummaryWidth(Now) = 2 + Now.form.values
    BY DEF SummaryWidth
  <1>4. DetailWidth(Now) = 2 + Now.form.values
    BY <1>2 DEF DetailWidth, JoinedLabels
  <1>5. Tab.toWidth = {} \/ Tab.toWidth = {Tab.columns}
    BY <1>1 DEF TableFits
  <1>6. CASE Tab.toWidth = {}
    BY <1>2, <1>3, <1>4, <1>6 DEF Special
  <1>7. CASE Tab.toWidth = {Tab.columns}
    <2>1. (CHOOSE w \in {Tab.columns} : TRUE) = Tab.columns
      OBVIOUS
    <2>2. \A width : Special(width) = Tab.columns
      BY <1>7, <2>1 DEF Special
    <2>. QED BY <2>2
  <1>. QED BY <1>5, <1>6, <1>7

\* All steps leave the table alone and go on to its next step or end.
LEMMA Moves ==
    ASSUME DiagTypes, diagTable' = diagTable,
           Advance \/ \E phase \in {"done", "error", "panic"} : End(phase)
    PROVE  /\ Tab' = Tab /\ diagStep' \in 1 .. Len(Tab.steps) /\ diagPhase' \in DiagPhases \ {"detail"}
           /\ Now.form.kind = "star" => Now' = Now
  <1>1. Tab' = Tab
    BY DEF Tab
  <1>2. diagStep \in 1 .. Len(Tab.steps) /\ Len(Tab.steps) \in Nat
    BY StepOf DEF DiagTypes
  <1>3. Now.form.kind = "star" => Len(Tab.steps) = 1
    <2>1. Now \in FittingSteps(Tab.columns, Tab.toWidth) => Now.form.kind # "star"
      BY DEF FittingSteps, Forms, MetricKinds, SkippedForms, RowKinds, HardwareKinds
    <2>. QED BY <2>1, StepOf
  <1>4. CASE Advance
    <2>1. /\ diagStep' = diagStep \/ (diagStep < Len(Tab.steps) /\ diagStep' = diagStep + 1)
          /\ diagPhase' \in {"summary", "done"}
      BY <1>4 DEF Advance
    <2>2. ASSUME Now.form.kind = "star" PROVE diagStep' = diagStep
      <3>1. Len(Tab.steps) = 1
        BY <1>3, <2>2
      <3>2. ~(diagStep < Len(Tab.steps))
        BY <1>2, <3>1
      <3>. QED BY <2>1, <3>2
    <2>. QED BY <1>1, <1>2, <2>1, <2>2 DEF Now, DiagPhases
  <1>5. ASSUME NEW phase \in {"done", "error", "panic"}, End(phase)
        PROVE  diagStep' = diagStep /\ diagPhase' \in DiagPhases \ {"detail"}
    BY <1>5 DEF End, DiagPhases
  <1>6. CASE \E phase \in {"done", "error", "panic"} : End(phase)
    BY <1>1, <1>2, <1>5, <1>6 DEF Now
  <1>. QED BY <1>4, <1>6

\* The first part of RowsAligned, of a row that is as wide as the table.
LEMMA TableRowStays ==
    ASSUME DiagTypes, RowFits, Tab' = Tab, Now.form.kind = "star" => Now' = Now, diagRow' = diagRow
    PROVE  RowFits'
  BY DEF RowFits, NoRow

LEMMA RowIsNew ==
    ASSUME Tab' = Tab, Now.form.kind = "star" => Now' = Now,
           \/ diagRow'.width = Tab.columns
           \/ Now.form.kind = "star" /\ diagRow'.width = Tab.columns + 1,
           diagRow'.sub \in {0, Tab.columns}
    PROVE  RowFits'
  BY DEF RowFits

LEMMA DiagInitInv ==
    ASSUME DiagInit
    PROVE  DiagInv
  <1>1. TableFits(Tab)
    BY DefsFit DEF DiagInit, Tab
  <1>2. Len(Tab.steps) >= 1 /\ Len(Tab.steps) \in Nat
    <2>1. CASE StepsFit(Tab.columns, Tab.toWidth, Tab.steps)
      BY <2>1, LenProperties DEF StepsFit
    <2>2. CASE Tab.steps = <<[form |-> Form("star", Tab.columns), labels |-> 0]>>
      BY <2>2
    <2>. QED BY <1>1, <2>1, <2>2 DEF TableFits
  <1>3. 1 \in 1 .. Len(Tab.steps)
    BY <1>2
  <1>4. DiagTypes
    BY <1>3 DEF DiagInit, DiagTypes, DiagPhases
  <1>5. diagRow = NoRow /\ diagRow.timed = FALSE
    BY DEF DiagInit, NoRow
  <1>. QED BY <1>4, <1>5 DEF DiagInit, DiagInv, RowFits, BaseKnown, RatiosTrue

LEMMA QueryFailsKeeps ==
    ASSUME DiagInv, QueryFails
    PROVE  DiagInv'
  <1>1. /\ diagTable' = diagTable /\ diagRow' = diagRow /\ diagTimed' = diagTimed
        /\ diagBaseShown' = diagBaseShown /\ diagBaseLost' = (diagBaseLost \/ diagBase = "own")
        /\ diagBase' = Passed
        /\ Advance \/ \E phase \in {"done", "error", "panic"} : End(phase)
    BY DEF QueryFails
  <1>2. DiagTypes /\ RowFits /\ BaseKnown /\ RatiosTrue
    BY DEF DiagInv
  <1>3. /\ Tab' = Tab /\ diagStep' \in 1 .. Len(Tab.steps) /\ diagPhase' \in DiagPhases \ {"detail"}
        /\ Now.form.kind = "star" => Now' = Now
    BY <1>1, <1>2, Moves
  <1>4. diagBase' \in {"none", "earlier"} /\ (diagBase' = "earlier" => diagBase \in {"own", "earlier"})
    BY <1>1, <1>2 DEF Passed, DiagTypes
  <1>5. DiagTypes'
    BY <1>1, <1>2, <1>3, <1>4 DEF DiagTypes
  <1>6. BaseKnown'
    BY <1>1, <1>2, <1>3, <1>4 DEF BaseKnown
  <1>7. RatiosTrue'
    BY <1>1, <1>2, <1>3 DEF RatiosTrue
  <1>8. RowFits'
    BY <1>1, <1>2, <1>3, TableRowStays
  <1>. QED BY <1>5, <1>6, <1>7, <1>8 DEF DiagInv

LEMMA NoSummaryKeeps ==
    ASSUME DiagInv, NoSummary
    PROVE  DiagInv'
  <1>1. /\ diagTable' = diagTable /\ diagRow' = diagRow /\ diagTimed' = diagTimed
        /\ diagBaseShown' = diagBaseShown /\ diagBaseLost' = diagBaseLost
        /\ diagBase' = diagBase /\ diagPhase = "summary"
        /\ Advance \/ \E phase \in {"done", "error", "panic"} : End(phase)
    BY DEF NoSummary
  <1>2. DiagTypes /\ RowFits /\ BaseKnown /\ RatiosTrue
    BY DEF DiagInv
  <1>3. /\ Tab' = Tab /\ diagStep' \in 1 .. Len(Tab.steps) /\ diagPhase' \in DiagPhases \ {"detail"}
        /\ Now.form.kind = "star" => Now' = Now
    BY <1>1, <1>2, Moves
  <1>4. DiagTypes'
    BY <1>1, <1>2, <1>3 DEF DiagTypes
  <1>5. BaseKnown'
    BY <1>1, <1>2, <1>3 DEF BaseKnown
  <1>6. RatiosTrue'
    BY <1>1, <1>2, <1>3 DEF RatiosTrue
  <1>7. RowFits'
    BY <1>1, <1>2, <1>3, TableRowStays
  <1>. QED BY <1>4, <1>5, <1>6, <1>7 DEF DiagInv

LEMMA SummaryKeeps ==
    ASSUME DiagInv, NEW timed \in BOOLEAN, Summary(timed)
    PROVE  DiagInv'
  <1>1. /\ diagTable' = diagTable /\ diagStep' = diagStep /\ diagRow' = diagRow
        /\ diagTimed' = timed /\ diagPhase = "summary" /\ diagPhase' = "detail"
        /\ Now.form.kind \in MetricKinds
        /\ diagBaseShown' = diagBaseShown /\ diagBaseLost' = diagBaseLost
        /\ diagBase' = IF timed /\ diagBase = "none" THEN "own" ELSE diagBase
    BY DEF Summary, MetricKinds
  <1>2. DiagTypes /\ RowFits /\ BaseKnown /\ RatiosTrue
    BY DEF DiagInv
  <1>3. Tab' = Tab /\ Now' = Now
    BY <1>1 DEF Tab, Now
  <1>4. DiagTypes'
    BY <1>1, <1>2, <1>3 DEF DiagTypes, DiagPhases
  <1>5. BaseKnown'
    BY <1>1, <1>2, <1>3 DEF BaseKnown, MetricKinds, SkippedForms
  <1>6. RatiosTrue'
    BY <1>1, <1>2, <1>3 DEF RatiosTrue
  <1>7. RowFits'
    BY <1>1, <1>2, <1>3, TableRowStays
  <1>. QED BY <1>4, <1>5, <1>6, <1>7 DEF DiagInv

\* The details of a metric: its row is as wide as the table, its ratio to the base.
LEMMA DetailsKeeps ==
    ASSUME DiagInv, NEW n \in {0, 1}, Details(n)
    PROVE  DiagInv'
  <1>. DEFINE row == [step |-> diagStep, width |-> Special(SummaryWidth(Now)),
                      sub |-> n * Special(DetailWidth(Now)), base |-> diagBase, timed |-> diagTimed]
  <1>1. /\ diagTable' = diagTable /\ diagRow' = row /\ diagTimed' = diagTimed
        /\ diagBaseShown' = (diagBaseShown \/ diagBase = "own") /\ diagBaseLost' = diagBaseLost
        /\ diagBase' = BaseAfter /\ diagPhase = "detail" /\ Now.form.kind # "config" /\ Advance
    BY DEF Details
  <1>2. DiagTypes /\ RowFits /\ BaseKnown /\ RatiosTrue
    BY DEF DiagInv
  <1>3. /\ Tab' = Tab /\ diagStep' \in 1 .. Len(Tab.steps) /\ diagPhase' \in DiagPhases \ {"detail"}
        /\ Now.form.kind = "star" => Now' = Now
    BY <1>1, <1>2, Moves
  <1>4. /\ diagBase' \in {"none", "earlier"}
        /\ diagBase' = "earlier" => ~Tab.ownBase /\ diagBase \in {"own", "earlier"}
    BY <1>1, <1>2 DEF BaseAfter, Passed, DiagTypes
  <1>5. DiagTypes'
    BY <1>1, <1>2, <1>3, <1>4 DEF DiagTypes
  <1>6. BaseKnown'
    BY <1>1, <1>2, <1>3, <1>4 DEF BaseKnown
  <1>7. RatiosTrue'
    <2>1. diagRow'.timed = diagTimed /\ diagRow'.base = diagBase
      BY <1>1
    <2>2. diagTimed => diagBase \in {"own", "earlier"}
      BY <1>1, <1>2 DEF BaseKnown, DiagTypes
    <2>3. diagBase = "earlier" => diagBaseLost \/ (~Tab.ownBase /\ diagBaseShown)
      BY <1>2 DEF BaseKnown
    <2>. QED BY <1>1, <1>3, <2>1, <2>2, <2>3 DEF RatiosTrue
  <1>8. RowFits'
    <2>1. Now.form.kind \notin RowKinds \cup HardwareKinds \cup {"lookup", "star"}
      BY <1>1, <1>2 DEF DiagTypes, MetricKinds, SkippedForms, RowKinds, HardwareKinds
    <2>2. Special(SummaryWidth(Now)) = Tab.columns /\ Special(DetailWidth(Now)) = Tab.columns
      BY <1>2, <2>1, MetricWidths
    <2>3. Tab.columns \in Nat
      BY <1>2, StepOf DEF TableFits
    <2>4. diagRow'.width = Tab.columns /\ diagRow'.sub = n * Tab.columns
      BY <1>1, <2>2
    <2>5. n * Tab.columns \in {0, Tab.columns}
      BY <2>3
    <2>. QED BY <1>3, <2>4, <2>5, RowIsNew
  <1>. QED BY <1>5, <1>6, <1>7, <1>8 DEF DiagInv

\* The rows of one query: as wide as the table.
LEMMA QueryRowsKeeps ==
    ASSUME DiagInv, QueryRows
    PROVE  DiagInv'
  <1>. DEFINE Fitting(row) ==
                /\ row.timed = FALSE /\ row.sub \in {0, Tab.columns}
                /\ \/ row.width = Tab.columns
                   \/ Now.form.kind = "star" /\ row.width = Tab.columns + 1
  <1>1. /\ diagTable' = diagTable /\ diagTimed' = diagTimed /\ diagPhase = "summary"
        /\ diagBaseShown' = diagBaseShown /\ diagBaseLost' = diagBaseLost
        /\ diagBase' = diagBase
        /\ Now.form.kind \in {"rows", "subrows", "fixed", "star", "config", "lookup"}
    BY DEF QueryRows
  <1>2. DiagTypes /\ RowFits /\ BaseKnown /\ RatiosTrue
    BY DEF DiagInv
  <1>3. Now.form.kind # "lookup" => Now.form.values = Tab.columns
    <2>1. Now \in FittingSteps(Tab.columns, Tab.toWidth) => Now.form.kind \in RowKinds \cup {"lookup"}
      BY <1>1 DEF FittingSteps, FormFits, Forms, MetricKinds, SkippedForms, RowKinds, HardwareKinds
    <2>2. Now \in FittingSteps(Tab.columns, Tab.toWidth) /\ Now.form.kind \in RowKinds
            => Now.form.values = Tab.columns
      BY DEF FittingSteps, FormFits
    <2>3. Now = [form |-> Form("star", Tab.columns), labels |-> 0] => Now.form.values = Tab.columns
      BY DEF Form
    <2>. QED BY <1>2, <2>1, <2>2, <2>3, StepOf
  <1>4. diagRow' = diagRow \/ (Fitting(diagRow'))
    <2>1. ASSUME Now.form.kind # "lookup",
                 NEW width \in {Now.form.values}
                               \cup (IF Now.form.kind = "star" THEN {Now.form.values + 1} ELSE {}),
                 NEW sub \in {0} \cup (IF Now.form.kind = "subrows" THEN {Now.form.values} ELSE {}),
                 diagRow' = PlainRow(width, sub)
          PROVE  Fitting(diagRow')
      <3>1. /\ width = Tab.columns \/ (Now.form.kind = "star" /\ width = Tab.columns + 1)
            /\ sub \in {0, Tab.columns}
        BY <1>3, <2>1
      <3>. QED BY <2>1, <3>1 DEF PlainRow
    <2>. QED BY <2>1 DEF QueryRows
  <1>5. /\ Tab' = Tab /\ diagStep' \in 1 .. Len(Tab.steps) /\ diagPhase' \in DiagPhases
        /\ Now.form.kind = "star" => Now' = Now
        /\ diagPhase' = "detail" => Now.form.kind = "config" /\ Now' = Now
    <2>1. CASE Advance
      BY <1>1, <1>2, <2>1, Moves
    <2>2. CASE Now.form.kind = "config" /\ diagPhase' \in {"detail", "done"} /\ diagStep' = diagStep
      BY <1>1, <1>2, <2>2 DEF DiagTypes, DiagPhases, Tab, Now
    <2>. QED BY <2>1, <2>2 DEF QueryRows
  <1>. HIDE DEF Fitting
  <1>6. DiagTypes'
    BY <1>1, <1>2, <1>5 DEF DiagTypes
  <1>7. BaseKnown'
    BY <1>1, <1>2, <1>5 DEF BaseKnown
  <1>8. RatiosTrue'
    BY <1>1, <1>2, <1>4, <1>5 DEF RatiosTrue, Fitting
  <1>9. RowFits'
    <2>1. CASE diagRow' = diagRow
      BY <1>2, <1>5, <2>1, TableRowStays
    <2>2. CASE Fitting(diagRow')
      BY <1>5, <2>2, RowIsNew DEF Fitting
    <2>. QED BY <1>4, <2>1, <2>2
  <1>. QED BY <1>6, <1>7, <1>8, <1>9 DEF DiagInv

LEMMA ConfigKeeps ==
    ASSUME DiagInv, ConfigDetails
    PROVE  DiagInv'
  <1>1. /\ diagTable' = diagTable /\ diagTimed' = diagTimed
        /\ diagBaseShown' = diagBaseShown /\ diagBaseLost' = diagBaseLost
        /\ diagBase' = diagBase /\ diagPhase = "detail" /\ Now.form.kind = "config" /\ Advance
    BY DEF ConfigDetails
  <1>2. DiagTypes /\ RowFits /\ BaseKnown /\ RatiosTrue
    BY DEF DiagInv
  <1>3. PICK n \in {0, 1} : diagRow' = PlainRow(Now.form.values, n * Now.form.values)
    BY DEF ConfigDetails
  <1>4. Now.form.values = Tab.columns /\ Tab.columns \in Nat
    <2>1. Now.form.kind # "star"
      BY <1>1
    <2>2. Now \in FittingSteps(Tab.columns, Tab.toWidth)
      BY <1>2, <2>1, StepOf DEF Form
    <2>. QED BY <1>1, <1>2, <2>2, StepOf DEF FittingSteps, FormFits, RowKinds, TableFits
  <1>5. /\ diagRow'.width = Tab.columns /\ diagRow'.sub = n * Tab.columns /\ diagRow'.timed = FALSE
    BY <1>3, <1>4 DEF PlainRow
  <1>6. n * Tab.columns \in {0, Tab.columns}
    BY <1>4
  <1>7. /\ Tab' = Tab /\ diagStep' \in 1 .. Len(Tab.steps) /\ diagPhase' \in DiagPhases \ {"detail"}
        /\ Now.form.kind = "star" => Now' = Now
    BY <1>1, <1>2, Moves
  <1>8. DiagTypes'
    BY <1>1, <1>2, <1>7 DEF DiagTypes
  <1>9. BaseKnown'
    BY <1>1, <1>2, <1>7 DEF BaseKnown
  <1>10. RatiosTrue'
    BY <1>5 DEF RatiosTrue
  <1>11. RowFits'
    BY <1>5, <1>6, <1>7, RowIsNew
  <1>. QED BY <1>8, <1>9, <1>10, <1>11 DEF DiagInv

\* Hardware is one row for all hosts, six columns wide.
LEMMA HardwareKeeps ==
    ASSUME DiagInv, NEW hosts \in SUBSET DiagHosts, Hardware(hosts)
    PROVE  DiagInv'
  <1>1. /\ diagTable' = diagTable /\ diagTimed' = diagTimed /\ diagPhase = "summary"
        /\ diagBaseShown' = diagBaseShown /\ diagBaseLost' = diagBaseLost
        /\ diagBase' = diagBase /\ Now.form.kind \in HardwareKinds
        /\ diagRow' = diagRow \/ diagRow' = PlainRow(6, 0)
        /\ Advance \/ \E phase \in {"done", "error", "panic"} : End(phase)
    BY DEF Hardware, HardwareKinds
  <1>2. DiagTypes /\ RowFits /\ BaseKnown /\ RatiosTrue
    BY DEF DiagInv
  <1>3. Tab.columns = 6
    <2>1. Now.form.kind # "star"
      BY <1>1 DEF HardwareKinds
    <2>2. Now \in FittingSteps(Tab.columns, Tab.toWidth)
      BY <1>2, <2>1, StepOf DEF Form
    <2>. QED BY <1>1, <2>2 DEF FittingSteps, FormFits
  <1>4. /\ Tab' = Tab /\ diagStep' \in 1 .. Len(Tab.steps) /\ diagPhase' \in DiagPhases \ {"detail"}
        /\ Now.form.kind = "star" => Now' = Now
    BY <1>1, <1>2, Moves
  <1>5. DiagTypes'
    BY <1>1, <1>2, <1>4 DEF DiagTypes
  <1>6. BaseKnown'
    BY <1>1, <1>2, <1>4 DEF BaseKnown
  <1>7. RatiosTrue'
    BY <1>1, <1>2, <1>4 DEF RatiosTrue, PlainRow
  <1>8. RowFits'
    <2>1. CASE diagRow' = diagRow
      BY <1>2, <1>4, <2>1, TableRowStays
    <2>2. CASE diagRow' = PlainRow(6, 0)
      BY <1>3, <1>4, <2>2, RowIsNew DEF PlainRow
    <2>. QED BY <1>1, <2>1, <2>2
  <1>. QED BY <1>5, <1>6, <1>7, <1>8 DEF DiagInv

LEMMA DiagStepKeeps ==
    ASSUME DiagInv, [DiagNext]_diagVars
    PROVE  DiagInv'
  <1>1. CASE UNCHANGED diagVars
    <2>1. Tab' = Tab /\ Now' = Now
      BY <1>1 DEF diagVars, Tab, Now
    <2>. QED BY <1>1, <2>1 DEF diagVars, DiagInv, DiagTypes, RowFits, BaseKnown, RatiosTrue, NoRow
  <1>2. ASSUME NEW timed \in BOOLEAN, Summary(timed) PROVE DiagInv'
    BY <1>2, SummaryKeeps
  <1>3. ASSUME NEW n \in {0, 1}, Details(n) PROVE DiagInv'
    BY <1>3, DetailsKeeps
  <1>4. ASSUME NEW hosts \in SUBSET DiagHosts, Hardware(hosts) PROVE DiagInv'
    BY <1>4, HardwareKeeps
  <1>. QED BY <1>1, <1>2, <1>3, <1>4, QueryFailsKeeps, NoSummaryKeeps, QueryRowsKeeps, ConfigKeeps
          DEF DiagNext

\* The table at hand is one of the report, as wide as it says and with keys.
LEMMA DiagAligned ==
    ASSUME DiagInv
    PROVE  RowsAligned
  <1>1. TableFits(Tab) /\ RowFits
    BY StepOf DEF DiagInv
  <1>2. ASSUME Tab \in Range(getCompareTables)
        PROVE  Tab.join # {} /\ \A u \in Range(getCompareTables) : u.title = Tab.title => u = Tab
    BY <1>2, ComparedAre, ComparedHaveKeys, ComparedHaveTitles
  <1>. QED BY <1>1, <1>2 DEF RowsAligned, RowFits, TableFits

\* The tables of a report (report.go, query.go): every row a function makes, and every
\* row below it, has the columns of its table, and the tables of a comparison can be
\* told apart and joined.
THEOREM TablesAligned == DiagSpec => []RowsAligned
  BY DiagInitInv, DiagStepKeeps, DiagAligned, PTL DEF DiagSpec

\* Whatever queries fail or find nothing: a time ratio is one to a total that has a
\* row in the table, unless the details of that total were lost.
THEOREM RatiosKnown == DiagSpec => []RatiosTrue
  <1>1. DiagInv => RatiosTrue
    BY DEF DiagInv
  <1>. QED BY <1>1, DiagInitInv, DiagStepKeeps, PTL DEF DiagSpec

=============================================================================
