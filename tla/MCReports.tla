------------------------------ MODULE MCReports ------------------------------
(***************************************************************************)
(* Instances for TLC of the modules about diagnosis reports.  The parts    *)
(* meet in what a table may come to (rows, none, an error, a panic), which *)
(* Report leaves open, so a behaviour is one of one part: focus tells which*)
(***************************************************************************)
EXTENDS Report, DiagTables, ReportCompare, CompareDiagnose

MCTasksOf == [g \in Groups |-> IF g = "all" THEN 3
                               ELSE IF g \in {"refer", "base", "t1", "t2"} THEN 1 ELSE 0]
MCOutcomesOf == [g \in Groups |->
    CASE g = "t1" -> {"rows"}
      [] g = "t2" -> {"norows", "panic"}
      [] g = "refer" -> {"rows", "error"}
      [] OTHER -> Outcomes]

\* Two join columns, so that commas in one can make labels meet, and two to compare.
MCJoin == <<1, 2>>
MCComp == <<3, 4>>
Row(l1, l2, x, y) == <<l1, l2, <<x>>, <<y>>>>
RowA(x, y) == Row(<<"m">>, <<"x", "y">>, x, y)
RowB(x, y) == Row(<<"m", "x">>, <<"y">>, x, y)
RowC(x, y) == Row(<<"m">>, <<"x">>, x, y)
Alone(cells) == [values |-> cells, sub |-> <<>>]
Over(cells, sub) == [values |-> cells, sub |-> sub]
MCCmpTables == BoundedSeq(
    {Alone(RowA(1, 2)), Alone(RowA(4, 0)), Alone(RowB(1, 2)), Alone(RowC(2, 1)),
     Alone(RowC(0, 4)), Alone(RowC(NotANumber, 1)), Alone(Row(<<"">>, <<"x">>, 1, 0)),
     Over(RowA(2, 2), <<RowC(1, 2), RowA(2, 0)>>), Over(RowA(1, 4), <<RowC(0, 1), RowC(1, 1)>>),
     Over(RowA(0, 4), <<RowC(4, 1), RowB(1, 4)>>),
     Over(RowC(1, 1), <<RowB(2, 1), RowC(NotANumber, 1)>>)}, 2)

VARIABLE focus
vars == <<focus, reportVars, diagVars, cmpVars, inspVars>>

Rest(part) ==
    /\ part # "report" => reportKind = "plain"
    /\ part # "tables" => diagTable = 1
    /\ part # "compare" => cmpT1 = <<>> /\ cmpT2 = <<>> /\ ~cmpConfig
Init ==
    /\ focus \in {"report", "tables", "compare", "diagnose"}
    /\ ReportInit /\ DiagInit /\ CmpInit /\ InspInit
    /\ Rest(focus)

ReportStep == focus = "report" /\ ReportNext /\ UNCHANGED <<focus, diagVars, cmpVars, inspVars>>
TablesStep == focus = "tables" /\ DiagNext /\ UNCHANGED <<focus, reportVars, cmpVars, inspVars>>
CompareStep == focus = "compare" /\ CmpNext /\ UNCHANGED <<focus, reportVars, diagVars, inspVars>>
DiagnoseStep == focus = "diagnose" /\ InspNext /\ UNCHANGED <<focus, reportVars, diagVars, cmpVars>>
Next == ReportStep \/ TablesStep \/ CompareStep \/ DiagnoseStep

\* Go runs every goroutine that can run.
Spec == Init /\ [][Next]_vars /\ WF_reportVars(WorkerStep \/ LineStep \/ BuilderStep)
=============================================================================
