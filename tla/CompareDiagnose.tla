--------------------------- MODULE CompareDiagnose ---------------------------
(***************************************************************************)
(* The diagnosis of a compare report (pkg/apiserver/diagnose/inspection.go)*)
(* : whether queries got fewer or slower since the time range that is      *)
(* referred to, and if so, what else grew and which slow queries are new.  *)
(*                                                                         *)
(* A metric is read as a value for each instance that has one, in quarters *)
(* of its unit; 0 stands for an instance without one.                      *)
(***************************************************************************)
EXTENDS Integers, Sequences, FiniteSets

CONSTANTS Instances, InspValues

ASSUME InspValuesAssumption == InspValues \subseteq Nat

\* The metrics, how they are read and when they are told of, in percent.  The first
\* two decide, the others are only told of beside them.
Checks == <<[kind |-> "qps", worse |-> "less", percent |-> 95],
            [kind |-> "quantile", worse |-> "more", percent |-> 120],
            [kind |-> "quantile", worse |-> "more", percent |-> 200],
            [kind |-> "quantile", worse |-> "more", percent |-> 200],
            [kind |-> "total", worse |-> "more", percent |-> 200],
            [kind |-> "quantile", worse |-> "more", percent |-> 200],
            [kind |-> "total", worse |-> "more", percent |-> 100]>>
Deciding == {1, 2}

VARIABLES
    inspCheck,   \* the check that runs, Len(Checks) + 1 after the last
    inspPhase,   \* "refer", "current", "compare"; "slow", "log"; "done", "error"
    inspRefer, inspCurrent, \* what the metric was in either range
    inspDiffs,   \* totalDiffs: the checks and instances that crossed the threshold
    inspSQL,     \* detailSQL: "none", "slow" or "log"
    inspDetails, \* what the function returns
    inspWorse    \* history: the deciding metrics that got worse, in truth
inspVars == <<inspCheck, inspPhase, inspRefer, inspCurrent, inspDiffs, inspSQL, inspDetails, inspWorse>>

NoValues == [i \in Instances |-> 0]
InspInit ==
    /\ inspCheck = 1 /\ inspPhase = "refer"
    /\ inspRefer = NoValues /\ inspCurrent = NoValues
    /\ inspDiffs = {} /\ inspSQL = "none" /\ inspDetails = {} /\ inspWorse = {}

C == Checks[inspCheck]
\* appendRow: queries are counted in whole numbers (math.Round), others as they are.
Read(raw) == IF C.kind = "qps" THEN 4 * ((raw + 2) \div 4) ELSE raw
\* calculateDiff and checkDiffs: without a value to refer to, the ratio is the value.
Crosses(refer, check) ==
    LET least == C.percent * (IF refer = 0 THEN 4 ELSE refer)
    IN  IF C.worse = "less" THEN 100 * check < least ELSE 100 * check > least

-----------------------------------------------------------------------------
\* compareMetric: both ranges, one after the other.
QueryRefer ==
    /\ inspPhase = "refer"
    /\ inspRefer' \in [Instances -> InspValues]
    /\ inspPhase' = "current"
    /\ UNCHANGED <<inspCheck, inspCurrent, inspDiffs, inspSQL, inspDetails, inspWorse>>
QueryCurrent ==
    /\ inspPhase = "current"
    /\ inspCurrent' \in [Instances -> InspValues]
    /\ inspPhase' = "compare"
    /\ UNCHANGED <<inspCheck, inspRefer, inspDiffs, inspSQL, inspDetails, inspWorse>>

\* After the deciding checks the function returns if nothing got worse; after the
\* last one it looks for the queries.
After(diffs) ==
    CASE inspCheck = 2 /\ diffs = {} -> inspPhase' = "done" /\ UNCHANGED inspCheck
      [] inspCheck = Len(Checks) -> inspPhase' = "slow" /\ UNCHANGED inspCheck
      [] OTHER -> inspPhase' = "refer" /\ inspCheck' = inspCheck + 1

\* Mutant: a metric that is only told of beside the others ends the diagnosis.
AnyErrorEnds == /\ inspPhase' = "done"
                /\ UNCHANGED inspCheck
\* What cannot be read ends the diagnosis if it decides, and is left out if not.
ErrorEnds ==
    IF inspCheck \in Deciding THEN inspPhase' = "error" /\ UNCHANGED inspCheck
    ELSE After(inspDiffs)
MetricFails ==
    /\ inspPhase \in {"refer", "current"}
    /\ ErrorEnds
    /\ inspRefer' = NoValues
    /\ UNCHANGED <<inspCurrent, inspDiffs, inspSQL, inspDetails, inspWorse>>

\* compare and checkDiffs: only of instances that have a value now.
Compare ==
    /\ inspPhase = "compare"
    /\ LET seen == {i \in Instances : inspCurrent[i] # 0}
           crossed == {i \in seen : Crosses(Read(inspRefer[i]), Read(inspCurrent[i]))}
           diffs == inspDiffs \cup {<<inspCheck, i>> : i \in crossed}
       IN  /\ inspDiffs' = diffs
           /\ After(diffs)
    /\ inspWorse' = inspWorse \cup
         {<<inspCheck, i>> : i \in {j \in Instances :
             /\ inspCheck \in Deciding
             /\ IF C.worse = "less" THEN inspCurrent[j] < inspRefer[j]
                ELSE inspCurrent[j] > inspRefer[j]}}
    /\ inspRefer' = NoValues /\ inspCurrent' = NoValues
    /\ UNCHANGED <<inspSQL, inspDetails>>

\* queryBigQueryInSlowLog, and if it finds none queryExpensiveQueryInTiDBLog.
LookForQueries ==
    /\ inspPhase \in {"slow", "log"}
    /\ \/ inspPhase' = "error" /\ UNCHANGED <<inspSQL, inspDetails>>
       \/ /\ inspSQL' = inspPhase
          /\ inspPhase' = "done" /\ inspDetails' = inspDiffs
       \/ /\ inspPhase' = IF inspPhase = "slow" THEN "log" ELSE "done"
          /\ inspDetails' = IF inspPhase = "slow" THEN inspDetails ELSE inspDiffs
          /\ UNCHANGED inspSQL
    /\ UNCHANGED <<inspCheck, inspRefer, inspCurrent, inspDiffs, inspWorse>>

InspNext == QueryRefer \/ QueryCurrent \/ MetricFails \/ Compare \/ LookForQueries
InspSpec == InspInit /\ [][InspNext]_inspVars

-----------------------------------------------------------------------------
\* What the deciding metrics found is told whatever else goes wrong: unless the
\* diagnosis ends with an error (one of them, or of the queries, could not be read),
\* it tells of each of them, it tells of the others only beside them, and it points
\* to new queries only when something got worse.  (Queries are compared in whole
\* numbers, so that a rate below a half looks like none, and one that did not get
\* less can be told of as less.)
FindingsSurvive ==
    /\ inspPhase = "done" => inspDetails = inspDiffs
    /\ inspDiffs # {} => \E d \in inspDiffs : d[1] \in Deciding
    /\ inspCheck > 2 \/ inspSQL # "none" => inspDiffs # {}
    /\ \A d \in inspDiffs : d[1] \in Deciding =>
          d \in inspWorse \/ Checks[d[1]].kind = "qps"
=============================================================================
