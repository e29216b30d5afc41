------------------------------ MODULE DiagTables ------------------------------
(***************************************************************************)
(* The tables of a diagnosis report (pkg/apiserver/diagnose: report.go,    *)
(* query.go): which queries the function of each table makes, what it does *)
(* when one of them fails or finds nothing, and how wide its rows are.     *)
(*                                                                         *)
(* A table is made of steps.  Most steps are the row of one metric: a      *)
(* summary, then the details by label.  Of the values only the count is    *)
(* kept; columns are counted from 0, as in the code.                       *)
(***************************************************************************)
EXTENDS Integers, Sequences, SequencesExt, FiniteSets

CONSTANT DiagHosts  \* the hosts that queries about hardware may name

Quantiles == 4

\* The forms of a step: how many values follow the metric and its label, what a
\* failing query does to the table (the row is left out, or the table is), and
\* whether no summary is a nil pointer.
Form(kind, values) == [kind |-> kind, values |-> values]
AvgMaxMinTableDef == Form("avg", 3)
sumValueQuery == Form("sum", 1)
totalTimeByLabelsTableDef == Form("time", 3 + Quantiles)
totalValueAndTotalCountTableDef == Form("count", 2 + Quantiles)
ThreadRow == Form("thread", 5)
RocksRow == Form("rocks", 4)
NodeRow == Form("node", 3)
SkippedForms == {"avg", "sum", "time", "count"}

Metrics(form, labels) == [i \in DOMAIN labels |-> [form |-> form, labels |-> labels[i]]]
Metric1(form, n) == Metrics(form, [i \in 1 .. n |-> 1])
\* All rows of one query; some of these tables have further rows below a row.
Rows(width) == <<[form |-> Form("rows", width), labels |-> 0]>>
SubRows(width) == <<[form |-> Form("subrows", width), labels |-> 0]>>
\* The start and the end of the time range, which need no query.
Fixed(width) == <<[form |-> Form("fixed", width), labels |-> 0]>>

Table(category, title, columns, join, compare, steps) ==
    [category |-> category, title |-> title, columns |-> columns, join |-> join,
     compare |-> compare, steps |-> steps, ownBase |-> FALSE, toWidth |-> {}]

-----------------------------------------------------------------------------
\* Header
GetHeaderTimeTable == Table("header", "report_time_range", 2, {}, {}, Fixed(2))
GetCompareHeaderTimeTable == Table("header", "compare_report_time_range", 4, {}, {}, Fixed(4))
GetClusterHardwareInfoTable ==
    Table("header", "cluster_hardware", 6, {}, {},
          [i \in 1 .. 4 |-> [form |-> Form(<<"cpu", "memory", "disk", "uptime">>[i], 6), labels |-> 0]])
\* select *: a column more in newer versions of TiDB.
GetClusterInfoTable ==
    Table("header", "cluster_info", 7, 0 .. 4, {}, <<[form |-> Form("star", 7), labels |-> 0]>>)

\* Diagnose: rows of the same rule and item go below the first.
GetAllDiagnoseReport == Table("diagnose", "diagnose", 9, {}, {}, SubRows(9))

\* Load
GetLoadTable ==
    Table("load", "node_load_info", 5, {0, 1}, {2, 3, 4},
          Metric1(NodeRow, 2) \o Metrics(AvgMaxMinTableDef, <<2, 2, 2, 2, 2, 2, 2, 1, 1>>))
GetCPUUsageTable == Table("load", "process_cpu_usage", 5, {0, 1}, {2, 3, 4}, Rows(5))
GetProcessMemUsageTable == Table("load", "process_memory_usage", 5, {0, 1}, {2, 3, 4}, Rows(5))
GetGoroutinesCountTable == Table("load", "tidb/pd_goroutines_count", 5, {0, 1}, {2, 3, 4}, Rows(5))
\* What the threads are configured to comes first, from a query of its own.
GetTiKVThreadCPUTable ==
    Table("load", "tikv_thread_cpu_usage", 7, {0, 1}, {2, 3, 4},
          <<[form |-> Form("lookup", 0), labels |-> 0]>> \o Metric1(ThreadRow, 17))

\* Overview
GetTotalTimeConsumeTable ==
    Table("overview", "total_time_consume", 9, {0, 1}, {3, 4, 5},
          Metric1(totalTimeByLabelsTableDef, 66))
GetTotalErrorTable ==
    Table("overview", "total_error", 3, {0, 1}, {2}, Metric1(sumValueQuery, 17))

\* TiDB
GetTiDBTimeConsumeTable ==
    Table("TiDB", "tidb_time_consume", 9, {0, 1}, {3, 4, 5},
          Metrics(totalTimeByLabelsTableDef,
                  <<2, 1, 2, 2, 2, 2, 1, 3, 1, 2, 3, 1, 1, 1, 2, 4, 2, 3, 2, 3, 1, 3, 2, 1, 1,
                    2, 1, 1, 1, 1, 1>>))
GetTiDBConnectionCountTable == Table("TiDB", "tidb_connection_count", 4, {0}, {1, 2, 3}, Rows(4))
GetTiDBTxnTableData ==
    [Table("TiDB", "transaction", 8, {0, 1}, 2 .. 5,
           Metric1(totalValueAndTotalCountTableDef, 5) \o Metric1(sumValueQuery, 2))
     EXCEPT !.toWidth = {8}]
GetTiDBStatisticsInfo ==
    Table("TiDB", "statistics_info", 3, {0, 1}, {2}, Metrics(sumValueQuery, <<1, 2, 2, 2>>))
GetTiDBDDLOwner == Table("TiDB", "ddl_owner", 2, {1}, {}, Rows(2))
GetTiDBTopNSlowQuery == Table("TiDB", "top_10_slow_query", 11, {}, {}, SubRows(11))
GetTiDBTopNSlowQueryGroupByDigest ==
    Table("TiDB", "top_10_slow_query_group_by_digest", 12, {}, {}, SubRows(12))
GetTiDBSlowQueryWithDiffPlan == Table("TiDB", "slow_query_with_diff_plan", 2, {}, {}, SubRows(2))
getTiDBAbnormalSlowQueryOnly == Table("TiDB", "slow_query_t2", 13, {}, {}, SubRows(13))

\* PD: a time ratio is that of a label to its own metric.
GetPDTimeConsumeTable ==
    [Table("PD", "pd_time_consume", 9, {0, 1}, {3, 4, 5},
           Metrics(totalTimeByLabelsTableDef, <<2, 2, 2, 1, 1, 2, 2, 1, 2>>)) EXCEPT !.ownBase = TRUE]
GetPDSchedulerInfo ==
    Table("PD", "balance_leader_region", 3, {0, 1}, {2}, Metric1(sumValueQuery, 4))
GetPDClusterStatusTable == Table("PD", "cluster_status", 3, {0}, {1, 2}, Rows(3))
GetStoreStatusTable ==
    Table("PD", "store_status", 5, {0, 1}, {2, 3, 4}, Metric1(AvgMaxMinTableDef, 6))
GetPDEtcdStatusTable == Table("PD", "etcd_status", 3, {0}, {1, 2}, Rows(3))

\* TiKV
GetTiKVTotalTimeConsumeTable ==
    Table("TiKV", "tikv_time_consume", 9, {0, 1}, {3, 4, 5},
          Metrics(totalTimeByLabelsTableDef,
                  <<2, 2, 2, 2, 2, 2, 2, 1, 1, 2, 1, 1, 1, 1, 2, 2, 1, 1, 1, 2, 2, 1, 1, 2, 1>>))
GetTiKVRocksDBTimeConsumeTable ==
    Table("TiKV", "rocksdb_time_consume", 6, {0, 1}, 2 .. 5, Metric1(RocksRow, 7))
GetTiKVErrorTable ==
    Table("TiKV", "tikv_error", 3, {0, 1}, {2},
          Metrics(sumValueQuery, <<2, 2, 4, 3, 2, 2, 1, 3, 2, 2>>))
GetTiKVStoreInfo ==
    Table("TiKV", "tikv_engine_size", 3, {0, 1}, {2}, Metrics(sumValueQuery, <<2>>))
GetTiKVRegionSizeInfo ==
    [Table("TiKV", "approximate_region_size", 6, {0, 1}, 2 .. 5,
           Metric1(totalValueAndTotalCountTableDef, 1)) EXCEPT !.toWidth = {6}]
GetTiKVCopInfo ==
    Table("TiKV", "coprocessor_info", 3, {0, 1}, {2}, Metrics(sumValueQuery, <<2, 1, 4>>))
GetTiKVSchedulerInfo ==
    [Table("TiKV", "scheduler_info", 8, {0, 1}, 2 .. 5,
           Metrics(totalValueAndTotalCountTableDef, <<2, 2>>) \o Metrics(sumValueQuery, <<3, 3>>))
     EXCEPT !.toWidth = {8}]
GetTiKVRaftInfo ==
    Table("TiKV", "raft_info", 3, {0, 1}, {2}, Metrics(sumValueQuery, <<2, 1, 1, 2, 2>>))
GetTiKVSnapshotInfo ==
    [Table("TiKV", "snapshot_info", 8, {0, 1}, 2 .. 5,
           Metric1(totalValueAndTotalCountTableDef, 2) \o Metrics(sumValueQuery, <<2>>))
     EXCEPT !.toWidth = {8}]
GetTiKVGCInfo == Table("TiKV", "gc_info", 3, {0, 1}, {2}, Metrics(sumValueQuery, <<3, 2>>))
GetTiKVTaskInfo == Table("TiKV", "task_info", 3, {0, 1}, {2}, Metrics(sumValueQuery, <<2, 2, 2, 2>>))
GetTiKVCacheHitTable ==
    Table("TiKV", "cache_hit", 5, {0, 1}, {2, 3, 4}, Metric1(AvgMaxMinTableDef, 6))

\* Config: items that differ between instances have rows for these below.
ByInstance(width) == <<[form |-> Form("config", width), labels |-> 0]>>
GetPDConfigInfo == Table("config", "scheduler_initial_config", 4, {0, 2}, {1}, Rows(4))
GetPDConfigChangeInfo == Table("config", "scheduler_change_config", 3, {1}, {2}, Rows(3))
GetTiDBGCConfigInfo == Table("config", "tidb_gc_initial_config", 4, {0, 2}, {1}, Rows(4))
GetTiDBGCConfigChangeInfo == Table("config", "tidb_gc_change_config", 3, {1}, {2}, Rows(3))
GetTiKVRocksDBConfigInfo ==
    Table("config", "tikv_rocksdb_initial_config", 6, {0, 1, 3}, {2}, ByInstance(6))
GetTiKVRocksDBConfigChangeInfo ==
    Table("config", "tikv_rocksdb_change_config", 4, {1, 2}, {3}, Rows(4))
GetTiKVRaftStoreConfigInfo ==
    Table("config", "tikv_raftstore_initial_config", 6, {0, 1, 3}, {2}, ByInstance(6))
GetTiKVRaftStoreConfigChangeInfo ==
    Table("config", "tikv_raftstore_change_config", 4, {1, 2}, {3}, Rows(4))
GetTiDBCurrentConfig == Table("config", "tidb_current_config", 2, {}, {}, Rows(2))
GetPDCurrentConfig == Table("config", "pd_current_config", 2, {}, {}, Rows(2))
GetTiKVCurrentConfig == Table("config", "tikv_current_config", 2, {}, {}, Rows(2))

-----------------------------------------------------------------------------
\* Which tables a report is made of.  The part that both kinds of report have:
CommonTables ==
    <<GetTotalTimeConsumeTable, GetTotalErrorTable,
      GetTiDBTimeConsumeTable, GetTiDBConnectionCountTable, GetTiDBTxnTableData,
      GetTiDBStatisticsInfo, GetTiDBDDLOwner>>
StorageTables ==
    <<GetPDTimeConsumeTable, GetPDSchedulerInfo, GetPDClusterStatusTable, GetStoreStatusTable,
      GetPDEtcdStatusTable, GetTiKVTotalTimeConsumeTable, GetTiKVRocksDBTimeConsumeTable,
      GetTiKVErrorTable, GetTiKVStoreInfo, GetTiKVRegionSizeInfo, GetTiKVCopInfo,
      GetTiKVSchedulerInfo, GetTiKVRaftInfo, GetTiKVSnapshotInfo, GetTiKVGCInfo,
      GetTiKVTaskInfo, GetTiKVCacheHitTable, GetPDConfigInfo, GetPDConfigChangeInfo,
      GetTiDBGCConfigInfo, GetTiDBGCConfigChangeInfo, GetTiKVRocksDBConfigInfo,
      GetTiKVRocksDBConfigChangeInfo, GetTiKVRaftStoreConfigInfo, GetTiKVRaftStoreConfigChangeInfo>>
GetReportEndTables == <<GetTiDBCurrentConfig, GetPDCurrentConfig, GetTiKVCurrentConfig>>
GetReportTables ==
    <<GetHeaderTimeTable, GetClusterHardwareInfoTable, GetClusterInfoTable, GetAllDiagnoseReport,
      GetLoadTable, GetCPUUsageTable, GetProcessMemUsageTable, GetTiKVThreadCPUTable,
      GetGoroutinesCountTable>>
    \o CommonTables
    \o <<GetTiDBTopNSlowQuery, GetTiDBTopNSlowQueryGroupByDigest, GetTiDBSlowQueryWithDiffPlan>>
    \o StorageTables \o GetReportEndTables
getCompareTables ==
    <<GetLoadTable, GetCPUUsageTable, GetTiKVThreadCPUTable, GetGoroutinesCountTable,
      GetProcessMemUsageTable>> \o CommonTables \o StorageTables
DiagTableDefs == GetReportTables \o <<GetCompareHeaderTimeTable, getTiDBAbnormalSlowQueryOnly>>

-----------------------------------------------------------------------------
VARIABLES
    diagTable,  \* the table being made: its index in DiagTableDefs
    diagStep,   \* the step of it
    diagPhase,  \* "summary", "detail", or how the function ended: "done", "error", "panic"
    diagBase,   \* whose total arg.totalTime is: "none", "own" (of this step), "earlier"
    diagRow,    \* the last row of the table, or NoRow
    diagHosts,  \* the keys of the map of hardware
    diagTimed,  \* the running step has a total
    diagBaseShown, diagBaseLost \* history: the base has a row; its details failed
diagVars == <<diagTable, diagStep, diagPhase, diagBase, diagRow, diagHosts, diagTimed,
              diagBaseShown, diagBaseLost>>

\* The table and the step at hand.
Tab == DiagTableDefs[diagTable]
Now == Tab.steps[diagStep]
NoRow == [step |-> 0, width |-> 0, sub |-> 0, base |-> "none", timed |-> FALSE]

DiagInit ==
    /\ diagTable \in DOMAIN DiagTableDefs
    /\ diagStep = 1 /\ diagPhase = "summary"
    /\ diagBase = "none" /\ diagRow = NoRow
    /\ diagHosts = {}
    /\ diagTimed = FALSE /\ diagBaseShown = FALSE /\ diagBaseLost = FALSE

\* A summary has the metric, an empty label and the values.
SummaryWidth(s) == 2 + s.form.values
\* Mutant: the labels are joined, the columns after them stay where they were.
JoinedInPlace(width, labels) == width
\* row[1] becomes all the labels, what follows them moves up.
JoinedLabels(width, labels) == width - labels + 1
DetailWidth(s) == JoinedLabels(1 + s.labels + s.form.values, s.labels)
\* specialHandle of the table: rows of other metrics are filled up, those of the
\* size of Regions lose the total and the count.
Special(width) == IF Tab.toWidth = {} THEN width ELSE CHOOSE w \in Tab.toWidth : TRUE

\* The next step, or the end of the table.
Advance ==
    IF diagStep < Len(Tab.steps)
    THEN diagStep' = diagStep + 1 /\ diagPhase' = "summary"
    ELSE diagPhase' = "done" /\ UNCHANGED diagStep
End(phase) == diagPhase' = phase /\ UNCHANGED diagStep
\* The base, seen from the step after this one.
Passed == IF diagBase = "own" THEN "earlier" ELSE diagBase

\* An error of a query: getTableRows goes on with the next metric, other functions end.
QueryFails ==
    /\ diagPhase \in {"summary", "detail"}
    /\ Now.form.kind # "fixed"
    /\ IF Now.form.kind \in SkippedForms THEN Advance ELSE End("error")
    /\ diagBaseLost' = (diagBaseLost \/ diagBase = "own")
    /\ diagBase' = Passed
    /\ UNCHANGED <<diagTable, diagRow, diagHosts, diagTimed, diagBaseShown>>

\* No summary (or one that cannot be read, which querySQL does not report).
NoSummary ==
    /\ diagPhase = "summary"
    /\ Now.form.kind \in SkippedForms \cup {"thread", "rocks", "node"}
    /\ IF Now.form.kind = "node" THEN End("panic") ELSE Advance
    /\ UNCHANGED <<diagTable, diagBase, diagRow, diagHosts, diagTimed, diagBaseShown, diagBaseLost>>

\* A summary with a total, or with none: the first total is the base of all ratios.
Summary(timed) ==
    /\ diagPhase = "summary"
    /\ Now.form.kind \in SkippedForms \cup {"thread", "rocks", "node"}
    /\ timed => Now.form.kind = "time"
    /\ diagTimed' = timed
    /\ diagBase' = IF timed /\ diagBase = "none" THEN "own" ELSE diagBase
    /\ diagPhase' = "detail"
    /\ UNCHANGED <<diagTable, diagStep, diagRow, diagHosts, diagBaseShown, diagBaseLost>>

\* Mutant: the base stays what it is.
KeptBase == Passed
\* appendRows of the table of PD forgets the base.
BaseAfter == IF Tab.ownBase THEN "none" ELSE Passed

\* The details are there, one or none: the row is appended.
Details(n) ==
    /\ diagPhase = "detail"
    /\ Now.form.kind # "config"
    /\ diagRow' = [step |-> diagStep, width |-> Special(SummaryWidth(Now)),
                   sub |-> n * Special(DetailWidth(Now)), base |-> diagBase, timed |-> diagTimed]
    /\ diagBase' = BaseAfter
    /\ diagBaseShown' = (diagBaseShown \/ diagBase = "own")
    /\ Advance
    /\ UNCHANGED <<diagTable, diagHosts, diagTimed, diagBaseLost>>

\* All the rows of one query, or of none.
PlainRow(width, sub) ==
    [step |-> diagStep, width |-> width, sub |-> sub, base |-> "none", timed |-> FALSE]
QueryRows ==
    /\ diagPhase = "summary"
    /\ Now.form.kind \in {"rows", "subrows", "fixed", "star", "config", "lookup"}
    /\ \/ Now.form.kind # "fixed" /\ UNCHANGED diagRow /\ Advance
       \/ /\ Now.form.kind # "lookup"
          /\ \E width \in {Now.form.values}
                             \cup (IF Now.form.kind = "star" THEN {Now.form.values + 1} ELSE {}),
                sub \in {0} \cup (IF Now.form.kind = "subrows" THEN {Now.form.values} ELSE {}) :
               diagRow' = PlainRow(width, sub)
          /\ IF Now.form.kind = "config" THEN diagPhase' \in {"detail", "done"} /\ UNCHANGED diagStep
             ELSE Advance
    /\ UNCHANGED <<diagTable, diagBase, diagHosts, diagTimed, diagBaseShown, diagBaseLost>>

\* Some items are not the same on all instances: one more query, for all of them.
ConfigDetails ==
    /\ diagPhase = "detail" /\ Now.form.kind = "config"
    /\ \E n \in {0, 1} : diagRow' = PlainRow(Now.form.values, n * Now.form.values)
    /\ Advance
    /\ UNCHANGED <<diagTable, diagBase, diagHosts, diagTimed, diagBaseShown, diagBaseLost>>

\* Hardware is gathered by host: cores first.  Memory or a disk of a host without
\* cores is written to a nil pointer; an uptime gives such a host an empty row.
Hardware(hosts) ==
    /\ diagPhase = "summary"
    /\ Now.form.kind \in {"cpu", "memory", "disk", "uptime"}
    /\ IF Now.form.kind \in {"memory", "disk"} /\ ~ hosts \subseteq diagHosts
       THEN End("panic") /\ UNCHANGED <<diagHosts, diagRow>>
       ELSE /\ diagHosts' = diagHosts \cup hosts
            /\ diagRow' = IF Now.form.kind = "uptime" /\ diagHosts' # {} THEN PlainRow(6, 0) ELSE diagRow
            /\ Advance
    /\ UNCHANGED <<diagTable, diagBase, diagTimed, diagBaseShown, diagBaseLost>>

DiagNext ==
    \/ QueryFails \/ NoSummary \/ QueryRows \/ ConfigDetails
    \/ \E timed \in BOOLEAN : Summary(timed)
    \/ \E n \in {0, 1} : Details(n)
    \/ \E hosts \in SUBSET DiagHosts : Hardware(hosts)
DiagSpec == DiagInit /\ [][DiagNext]_diagVars

-----------------------------------------------------------------------------
\* Every row that a table gets, of whatever metric and with whatever labels, and
\* every row below it, has a value for each of its columns (cluster_info has one
\* more when TiDB has); and the tables that two ranges are compared by can be
\* joined: they have keys, and their keys and values are columns of them.
RowsAligned ==
    /\ diagRow # NoRow =>
         /\ \/ diagRow.width = Tab.columns
            \/ Now.form.kind = "star" /\ diagRow.width = Tab.columns + 1
         /\ diagRow.sub \in {0, Tab.columns}
    /\ Tab.join \cup Tab.compare \subseteq 0 .. Tab.columns - 1
    /\ Tab.join \cap Tab.compare = {}
    /\ Tab \in Range(getCompareTables) =>
         /\ Tab.join # {}
         /\ \A u \in Range(getCompareTables) : u.title = Tab.title => u = Tab

\* A time ratio is one to a total that the reader finds in the same table: that of
\* the first metric that has one, in the table of PD that of the metric itself;
\* but not if the details of that metric could not be had (then its total stays
\* the base though it has no row, and in the table of PD it is the base of others).
RatiosTrue ==
    diagRow.timed =>
        \/ diagRow.base = "own"
        \/ diagBaseLost
        \/ ~Tab.ownBase /\ diagBaseShown
=============================================================================
