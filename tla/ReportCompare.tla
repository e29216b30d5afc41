---------------------------- MODULE ReportCompare ----------------------------
(***************************************************************************)
(* How a compare report joins a table of one time range with the same      *)
(* table of the other (pkg/apiserver/diagnose/compare.go, compareTable and *)
(* what it calls), and how the largest differences of all tables become    *)
(* its first table, max_diff_item.                                         *)
(*                                                                         *)
(* A cell is a sequence: the parts of a label between commas, one number,  *)
(* or nothing.  Numbers are such that one of two that are compared divides *)
(* the other, so that ratios are whole.                                    *)
(***************************************************************************)
EXTENDS Integers, Sequences, SequencesExt, FiniteSets

CONSTANTS CmpColumns,        \* how many columns the tables have
          CmpJoin, CmpComp,  \* joinColumns and compareColumns, from 1
          CmpTables,         \* the contents that a table may have: sequences of rows
          CmpMaxDiffs        \* how many differences diffRows keeps (500)

ASSUME CmpColumnsAssumption ==
    Range(CmpJoin) \cup Range(CmpComp) \subseteq 1 .. CmpColumns

\* A row has Values and SubValues; the row of a table that lacks it has neither.
NoCells == <<>>
EmptyRow == [values |-> NoCells, sub |-> <<>>]

VARIABLES
    cmpT1, cmpT2,  \* the rows of the table in either range
    cmpConfig,     \* its title has "config": its keys need not be unique
    cmpPhase,      \* "start", "left", "right", "done" or "error"
    cmpNext,       \* the row of the first table that is next
    cmpRest,       \* the rows of the second that have not been joined
    cmpResult,     \* resultRows
    cmpDiffs,      \* diffRows, the heap of all tables
    cmpOffered,    \* history: everything that was pushed
    cmpTop         \* max_diff_item
cmpVars == <<cmpT1, cmpT2, cmpConfig, cmpPhase, cmpNext, cmpRest, cmpResult, cmpDiffs,
             cmpOffered, cmpTop>>

CmpInit ==
    /\ cmpT1 \in CmpTables /\ cmpT2 \in CmpTables
    /\ cmpConfig \in BOOLEAN
    /\ cmpPhase = "start"
    /\ cmpNext = 1 /\ cmpRest = cmpT2
    /\ cmpResult = <<>> /\ cmpDiffs = <<>> /\ cmpOffered = <<>> /\ cmpTop = <<>>

-----------------------------------------------------------------------------
\* The cells that rows are joined by, one text with commas between.
genRowLabel(cells) == FlattenSeq([i \in DOMAIN CmpJoin |-> cells[CmpJoin[i]]])
HasLabel(rows, label) == \E i \in DOMAIN rows : genRowLabel(rows[i].values) = label
UniqueLabels(cellss) ==
    \A i, j \in DOMAIN cellss : genRowLabel(cellss[i]) = genRowLabel(cellss[j]) => i = j

Abs(n) == IF n < 0 THEN -n ELSE n
NotANumber == -1
parseFloat(cell) == IF cell = <<>> THEN 0 ELSE cell[1]
NumberAt(cells, column) == IF column > Len(cells) THEN 0 ELSE parseFloat(cells[column])
Readable(cells) == \A c \in Range(CmpComp) : NumberAt(cells, c) # NotANumber

\* How much of the smaller value the change is; the value itself if that is zero.
RatioOf(f1, f2) ==
    CASE f1 = f2 -> 0
      [] f1 # f2 /\ f1 = 0 -> f2
      [] f1 # f2 /\ f2 = 0 -> -f1
      [] f2 > f1 /\ f1 # 0 -> (f2 - f1) \div f1
      [] f1 > f2 /\ f2 # 0 -> -((f1 - f2) \div f2)

\* Mutant: a value that was zero counts like any other.
LargestWins(acc, f1, f2, ratio) == ratio # 0 /\ Abs(ratio) > Abs(acc.max)
\* Whether a column's ratio replaces the largest so far (maxRatio, needBetter).
Replaces(acc, f1, f2, ratio) ==
    /\ ratio # 0
    /\ ~((f1 = 0 \/ f2 = 0) /\ acc.max # 0 /\ ~acc.needBetter)
    /\ Abs(ratio) > Abs(acc.max) \/ (acc.needBetter /\ f1 # 0 /\ f2 # 0)

calculateDiffRatio(cells1, cells2) ==
    FoldLeft(LAMBDA acc, c :
                LET f1 == NumberAt(cells1, c)
                    f2 == NumberAt(cells2, c)
                    ratio == RatioOf(f1, f2)
                    ratios == Append(acc.ratios, ratio)
                IN  IF Replaces(acc, f1, f2, ratio)
                    THEN [max |-> ratio, needBetter |-> f1 = 0 \/ f2 = 0, idx |-> c,
                          ratios |-> ratios]
                    ELSE [acc EXCEPT !.ratios = ratios],
             [max |-> 0, needBetter |-> FALSE, idx |-> 0, ratios |-> <<>>], CmpComp)

IsJoin(column) == column \in Range(CmpJoin)
NotJoin(cells) == LET at == SetToSortSeq({c \in DOMAIN cells : ~IsJoin(c)}, <)
                  IN  [i \in DOMAIN at |-> cells[at[i]]]
\* Mutant: the row of the second range only keeps the place of the first.
MisplacedRow(cells1, cells2, found) ==
    (IF cells1 = NoCells THEN cells2 ELSE cells1) \o NotJoin(cells2)
    \o [i \in DOMAIN CmpComp |-> <<found.max>>]
\* Both rows beside each other, the join columns once, then the ratios.
genNewRow(cells1, cells2, found) ==
    (IF cells1 = NoCells
     THEN [c \in DOMAIN cells2 |-> IF IsJoin(c) THEN cells2[c] ELSE <<>>] \o NotJoin(cells2)
     ELSE cells1 \o (IF cells2 = NoCells
                     THEN [i \in 1 .. Len(cells1) - Len(CmpJoin) |-> <<>>]
                     ELSE NotJoin(cells2)))
    \o [i \in DOMAIN CmpComp |-> <<IF Len(found.ratios) >= i THEN found.ratios[i] ELSE found.max>>]

-----------------------------------------------------------------------------
\* What joining two rows offers to the differences.
Difference(label, cells1, cells2, found) ==
    [label |-> label, ratio |-> found.max, idx |-> found.idx,
     v1 |-> IF found.idx \in DOMAIN cells1 THEN cells1[found.idx] ELSE <<>>,
     v2 |-> IF found.idx \in DOMAIN cells2 THEN cells2[found.idx] ELSE <<>>]

\* The rows below: those of the first range with what matches, then the others.
SubPairs(row1, row2) ==
    LET match(cells, others) ==
            SelectSeq(others, LAMBDA o : genRowLabel(o) = genRowLabel(cells))
        partner(cells, others) ==
            IF match(cells, others) = <<>> THEN NoCells ELSE match(cells, others)[1]
        only2 == SelectSeq(row2.sub, LAMBDA c : match(c, row1.sub) = <<>>)
    IN  [i \in DOMAIN row1.sub |-> <<row1.sub[i], partner(row1.sub[i], row2.sub)>>]
        \o [i \in DOMAIN only2 |-> <<NoCells, only2[i]>>]
Labelled(cells1, cells2) == genRowLabel(IF cells1 # NoCells THEN cells1 ELSE cells2)

\* An unreadable number fails the table, with the differences before it offered.
\* The values of a row that the other range lacks are not read.
joinRow(row1, row2) ==
    LET subs == SubPairs(row1, row2)
        both == Len(row1.values) = Len(row2.values)
        readable(p) == Readable(p[1]) /\ Readable(p[2])
        bad == SelectInSeq(subs, LAMBDA p : ~readable(p))
        read == IF bad = 0 THEN subs ELSE SubSeq(subs, 1, bad - 1)
        joined == [i \in DOMAIN read |-> calculateDiffRatio(read[i][1], read[i][2])]
        subRows == [i \in DOMAIN read |-> [ratio |-> joined[i].max,
                        values |-> genNewRow(read[i][1], read[i][2], joined[i])]]
        total == IF ~both THEN [max |-> 1, idx |-> 0, ratios |-> <<>>]
                 ELSE calculateDiffRatio(row1.values, row2.values)
        offer(p, found) == Difference(Labelled(p[1], p[2]), p[1], p[2], found)
        unique == UniqueLabels(row1.sub) /\ UniqueLabels(row2.sub)
        fails == ~unique \/ bad # 0 \/ (both /\ ~readable(<<row1.values, row2.values>>))
        offers == CASE ~unique -> <<>>
                    [] unique /\ subs # <<>> -> [i \in DOMAIN read |-> offer(read[i], joined[i])]
                    [] unique /\ subs = <<>> ->
                         IF fails THEN <<>> ELSE <<offer(<<row1.values, row2.values>>, total)>>
    IN  [fails |-> fails,
         row |-> [values |-> genNewRow(row1.values, row2.values, total), ratio |-> total.max,
                  sub |-> SortSeq(subRows, LAMBDA x, y : Abs(x.ratio) > Abs(y.ratio))],
         offers |-> SelectSeq(offers, LAMBDA d : d.ratio # 0)]

\* Mutant: the heap gives up its largest.
PopLargest(diffs) ==
    {RemoveAt(diffs, i) : i \in {j \in DOMAIN diffs :
                                    \A k \in DOMAIN diffs : Abs(diffs[k].ratio) <= Abs(diffs[j].ratio)}}
\* The heap gives up one of its smallest.
Popped(diffs) ==
    {RemoveAt(diffs, i) : i \in {j \in DOMAIN diffs :
                                    \A k \in DOMAIN diffs : Abs(diffs[k].ratio) >= Abs(diffs[j].ratio)}}
appendRow(diffs, d) ==
    IF Len(diffs) < CmpMaxDiffs THEN {Append(diffs, d)} ELSE Popped(Append(diffs, d))
AppendAll(diffs, offers) ==
    FoldLeft(LAMBDA heaps, d : UNION {appendRow(h, d) : h \in heaps}, {diffs}, offers)

-----------------------------------------------------------------------------
\* Both tables are indexed by label: a label twice is an error, but not in a
\* configuration.
Index ==
    /\ cmpPhase = "start"
    /\ cmpPhase' = IF /\ ~cmpConfig
                      /\ \E t \in {cmpT1, cmpT2} : ~UniqueLabels([i \in DOMAIN t |-> t[i].values])
                   THEN "error" ELSE "left"
    /\ UNCHANGED <<cmpT1, cmpT2, cmpConfig, cmpNext, cmpRest, cmpResult, cmpDiffs, cmpOffered, cmpTop>>

\* A pair of rows becomes a row of the result; what differs goes to diffRows,
\* that of a configuration to one that is thrown away.
Add(row1, row2, next, rest) ==
    LET joined == joinRow(row1, row2) IN
    /\ IF cmpConfig THEN UNCHANGED <<cmpDiffs, cmpOffered>>
       ELSE /\ cmpDiffs' \in AppendAll(cmpDiffs, joined.offers)
            /\ cmpOffered' = cmpOffered \o joined.offers
    /\ IF joined.fails
       THEN cmpPhase' = "error" /\ UNCHANGED <<cmpNext, cmpRest, cmpResult>>
       ELSE /\ cmpResult' = Append(cmpResult, joined.row)
            /\ cmpNext' = next /\ cmpRest' = rest
            /\ UNCHANGED cmpPhase
    /\ UNCHANGED <<cmpT1, cmpT2, cmpConfig, cmpTop>>

FirstWith(rows, label) ==
    CHOOSE i \in DOMAIN rows : /\ genRowLabel(rows[i].values) = label
                               /\ \A j \in 1 .. i - 1 : genRowLabel(rows[j].values) # label

JoinLeft ==
    /\ cmpPhase = "left" /\ cmpNext <= Len(cmpT1)
    /\ LET row1 == cmpT1[cmpNext]
           label == genRowLabel(row1.values)
       IN  IF HasLabel(cmpRest, label)
           THEN LET i == FirstWith(cmpRest, label)
                IN  Add(row1, cmpRest[i], cmpNext + 1, RemoveAt(cmpRest, i))
           ELSE Add(row1, EmptyRow, cmpNext + 1, cmpRest)

\* Rows that only the second range has: in order, or as a map is ranged over.
JoinRight ==
    /\ cmpPhase = "left" /\ cmpNext > Len(cmpT1)
    /\ \E i \in DOMAIN cmpRest :
          /\ i = IF cmpConfig THEN FirstWith(cmpRest, genRowLabel(cmpRest[i].values)) ELSE 1
          /\ Add(EmptyRow, cmpRest[i], cmpNext, RemoveAt(cmpRest, i))

\* Mutant: a group keeps no more than its first difference.
FirstOfGroup(groups, d) == groups
\* A difference goes below the first of its metric and column, unless the last one
\* there says the same.
InGroup(groups, d) ==
    LET at == SelectInSeq(groups, LAMBDA g : g[1].label[1] = d.label[1] /\ g[1].idx = d.idx)
        last == groups[at][Len(groups[at])]
        said(e) == <<e.ratio, e.v1, e.v2>>
    IN  IF said(last) = said(d) THEN groups
        ELSE [groups EXCEPT ![at] = Append(@, d)]
GenerateDiffTable(diffs) ==
    FoldLeft(LAMBDA groups, d :
                CASE d.label[1] = "" -> groups
                  [] d.label[1] # "" /\ \E i \in DOMAIN groups :
                        groups[i][1].label[1] = d.label[1] /\ groups[i][1].idx = d.idx ->
                       InGroup(groups, d)
                  [] OTHER -> Append(groups, <<d>>),
             <<>>, diffs)
Before(d, e) ==
    LET change(x) == Abs(parseFloat(x.v2) - parseFloat(x.v1)) IN
    \/ Abs(d.ratio) > Abs(e.ratio)
    \/ Abs(d.ratio) = Abs(e.ratio) /\ change(d) > change(e)

\* All rows are joined; max_diff_item is made when all tables are.  The rows of a
\* configuration are a bag here: they are sorted by the text of a join column.
FinishTable ==
    /\ \/ cmpPhase = "left" /\ cmpNext > Len(cmpT1) /\ cmpRest = <<>>
       \/ cmpPhase = "error" /\ cmpTop = <<>> /\ cmpDiffs # <<>>
    /\ cmpPhase' = IF cmpPhase = "left" THEN "done" ELSE "error"
    /\ cmpResult' = IF cmpConfig THEN cmpResult
                    ELSE SortSeq(cmpResult, LAMBDA x, y : Abs(x.ratio) > Abs(y.ratio))
    /\ cmpTop' = GenerateDiffTable(SortSeq(cmpDiffs, Before))
    /\ UNCHANGED <<cmpT1, cmpT2, cmpConfig, cmpNext, cmpRest, cmpDiffs, cmpOffered>>

CmpNext == Index \/ JoinLeft \/ JoinRight \/ FinishTable

-----------------------------------------------------------------------------
\* The reference: the rows of one label, in order, and what each pair of them is to
\* be in the result, column by column.
RowsOf(rows, label) == SelectSeq(rows, LAMBDA r : genRowLabel(r.values) = label)
Cell(cells, column) == IF cells = NoCells THEN <<>> ELSE cells[column]
Cells(cells1, cells2) ==
    LET at == SetToSortSeq({c \in 1 .. CmpColumns : ~IsJoin(c)}, <)
    IN  [c \in 1 .. CmpColumns |->
            IF IsJoin(c) /\ cells1 = NoCells THEN cells2[c] ELSE Cell(cells1, c)]
        \o [i \in DOMAIN at |-> Cell(cells2, at[i])]
        \o [i \in DOMAIN CmpComp |->
              LET c == CmpComp[i] IN <<RatioOf(NumberAt(cells1, c), NumberAt(cells2, c))>>]
ExpectedPairs ==
    UNION {LET a == RowsOf(cmpT1, label)
               b == RowsOf(cmpT2, label)
               at(rows, i) == IF i <= Len(rows) THEN rows[i] ELSE EmptyRow
               longer == IF Len(a) > Len(b) THEN Len(a) ELSE Len(b)
           IN  {<<i, at(a, i), at(b, i)>> : i \in 1 .. longer} :
           label \in {genRowLabel(r.values) : r \in Range(cmpT1) \cup Range(cmpT2)}}
ExpectedSubs(p) ==
    {<<c, d>> \in (Range(p[2].sub) \cup {NoCells}) \X (Range(p[3].sub) \cup {NoCells}) :
        CASE c # NoCells /\ d # NoCells -> genRowLabel(c) = genRowLabel(d)
          [] c = NoCells /\ d # NoCells -> \A e \in Range(p[2].sub) : genRowLabel(e) # genRowLabel(d)
          [] c # NoCells /\ d = NoCells -> \A e \in Range(p[3].sub) : genRowLabel(e) # genRowLabel(c)
          [] OTHER -> FALSE}

\* The joined table is the full outer join of both: every row of either range is in
\* it exactly once, beside the row of the other range that has its label (the n-th
\* of them, where a label is not unique) or beside nothing, with a value for each
\* column; so are the rows below a row; and the largest changes come first.  The
\* ratio of a row that one range lacks is 1.
CompareExact ==
    cmpPhase = "done" =>
        LET shown(r) == <<r.values, {x.values : x \in Range(r.sub)}>>
            both(p) == p[2] # EmptyRow /\ p[3] # EmptyRow
            due(p) ==
              LET cells == Cells(p[2].values, p[3].values)
                  ones == [c \in DOMAIN cells |->
                              IF c > Len(cells) - Len(CmpComp) THEN <<1>> ELSE cells[c]]
              IN  <<IF both(p) THEN cells ELSE ones, {Cells(c[1], c[2]) : c \in ExpectedSubs(p)}>>
        IN  /\ BagOfAll(shown, ToBag(cmpResult)) = BagOfAll(due, SetToBag(ExpectedPairs))
            /\ ~cmpConfig => \A i, j \in DOMAIN cmpResult :
                  i < j => Abs(cmpResult[i].ratio) >= Abs(cmpResult[j].ratio)

\* The ratio that stands for a row: the largest change of a column that has a value
\* in both ranges; only if there is none, of one that is zero in one of them.
TrueRatio(cells1, cells2) ==
    LET f(c) == <<NumberAt(cells1, c), NumberAt(cells2, c)>>
        changed == {c \in Range(CmpComp) : f(c)[1] # f(c)[2]}
        solid == {c \in changed : f(c)[1] # 0 /\ f(c)[2] # 0}
        size(c) == Abs(RatioOf(f(c)[1], f(c)[2]))
        from == IF \E c \in solid : size(c) # 0 THEN solid ELSE changed
    IN  {RatioOf(f(c)[1], f(c)[2]) : c \in {d \in from : \A e \in from : size(e) <= size(d)}}

\* max_diff_item tells the largest differences of the report: each is a change that
\* a row, or a row below one, really has, none that was given up is larger than one
\* that was kept, and each that was kept is in the table, or one of the same
\* metric and column there says the same.
DiffsTrue ==
    /\ cmpPhase = "done" /\ ~cmpConfig =>
         \A d \in Range(cmpOffered) :
            \E p \in ExpectedPairs :
               \/ \E c \in ExpectedSubs(p) :
                     /\ d.label = Labelled(c[1], c[2])
                     /\ d.ratio \in TrueRatio(c[1], c[2])
               \/ /\ p[2].sub = <<>> /\ p[3].sub = <<>>
                  /\ d.label = Labelled(p[2].values, p[3].values)
                  /\ IF EmptyRow \in {p[2], p[3]} THEN d.ratio = 1
                     ELSE d.ratio \in TrueRatio(p[2].values, p[3].values)
    /\ LET kept == ToBag(cmpDiffs)
           given == ToBag(cmpOffered) (-) kept
       IN  /\ kept \sqsubseteq ToBag(cmpOffered)
           /\ \A d \in BagToSet(kept), e \in BagToSet(given) : Abs(e.ratio) <= Abs(d.ratio)
           /\ given # EmptyBag => Len(cmpDiffs) = CmpMaxDiffs
    /\ cmpPhase = "done" =>
         \A d \in Range(cmpDiffs) :
            d.label[1] # "" =>
               \E g \in Range(cmpTop) : \E e \in Range(g) :
                  <<e.label[1], e.idx, e.ratio, e.v1, e.v2>> = <<d.label[1], d.idx, d.ratio, d.v1, d.v2>>
=============================================================================
