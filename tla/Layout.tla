------------------------------- MODULE Layout -------------------------------
(***************************************************************************)
(* The layout of layout/layout.go: Layout turns the rows of a definition,  *)
(* as ParseLayout returns them, into rows of the grid.  Each call of       *)
(* processRow takes as many rows as its tallest widget spans, opens one    *)
(* column for each widget of the first of them, and puts the widgets of    *)
(* all of them into the columns, top down; when a widget fits no column,   *)
(* its row and the rows after it are handed back.                          *)
(*                                                                         *)
(* A widget is <<row, index>> in the definition; the definition gives the  *)
(* height of each, which the parser has made at least 1.  A column's       *)
(* weight is that of the widget of the first row which has its index.      *)
(***************************************************************************)
EXTENDS Naturals, Sequences, Functions

CONSTANTS MaxRows, MaxWidgets, MaxSpan     \* bounds on the definitions

ASSUME LayoutAssumption == MaxRows \in Nat /\ MaxWidgets \in Nat /\ MaxSpan \in Nat

Rules == UNION {[1 .. n -> 1 .. MaxSpan] : n \in 1 .. MaxWidgets}
Definitions == UNION {[1 .. n -> Rules] : n \in 0 .. MaxRows}

VARIABLES
    rows,         \* the definition: of each row, the heights of its widgets
    rowDefs,      \* the rows not consumed yet, by their number
    processing,   \* the rows processRow works on
    maxHeight,    \* the height of the row of the grid it makes
    colHeights,   \* how far each column is filled
    columns,      \* the widgets in each column
    i, w,         \* the widget that is placed next: the w-th of processing[i]
    uiRows,       \* the rows of the grid made so far
    pc

vars == <<rows, rowDefs, processing, maxHeight, colHeights, columns, i, w, uiRows, pc>>

LayoutTypeOK ==
    /\ rows \in Seq(Seq(Nat \ {0}))
    /\ rowDefs \in Seq(DOMAIN rows) /\ processing \in Seq(DOMAIN rows)
    /\ maxHeight \in Nat
    /\ colHeights \in Seq(Nat)
    /\ columns \in Seq(Seq(Nat \X Nat)) /\ DOMAIN columns = DOMAIN colHeights
    /\ i \in Nat /\ w \in Nat
    /\ uiRows \in Seq([height : Nat, columns : Seq(Seq(Nat \X Nat))])
    /\ pc \in {"layout", "place", "made", "done"}

Init ==
    /\ rows \in Definitions
    /\ rowDefs = [r \in DOMAIN rows |-> r]
    /\ processing = << >>
    /\ maxHeight = 0
    /\ colHeights = << >> /\ columns = << >>
    /\ i = 1 /\ w = 1
    /\ uiRows = << >>
    /\ pc = "layout"

Height(widget) == rows[widget[1]][widget[2]]

(* The height of the tallest widget of a row, as a set of one. *)
Tallest(r) == {h \in {rows[r][k] : k \in DOMAIN rows[r]} : \A k \in DOMAIN rows[r] : rows[r][k] <= h}
-----------------------------------------------------------------------------
(* Mutant: as many rows are taken as the tallest widget spans, also when   *)
(* there are fewer.                                                        *)
ProcessRowUnclamped ==
    /\ pc = "layout" /\ rowDefs # << >>
    /\ \E h \in Tallest(Head(rowDefs)) :
           /\ maxHeight' = h
           /\ processing' = [r \in 1 .. h |-> Head(rowDefs) + r - 1]
           /\ rowDefs' = SubSeq(rowDefs, h + 1, Len(rowDefs))
    /\ colHeights' = [k \in DOMAIN rows[Head(rowDefs)] |-> 0]
    /\ columns' = [k \in DOMAIN rows[Head(rowDefs)] |-> << >>]
    /\ i' = 1 /\ w' = 1
    /\ pc' = "place"
    /\ UNCHANGED <<rows, uiRows>>

ProcessRow ==
    /\ pc = "layout" /\ rowDefs # << >>
    /\ \E h \in Tallest(Head(rowDefs)) :
           /\ maxHeight' = h
           /\ IF h < Len(rowDefs)
              THEN processing' = SubSeq(rowDefs, 1, h) /\ rowDefs' = SubSeq(rowDefs, h + 1, Len(rowDefs))
              ELSE processing' = rowDefs /\ rowDefs' = << >>
    /\ colHeights' = [k \in DOMAIN rows[Head(rowDefs)] |-> 0]
    /\ columns' = [k \in DOMAIN rows[Head(rowDefs)] |-> << >>]
    /\ i' = 1 /\ w' = 1
    /\ pc' = "place"
    /\ UNCHANGED <<rows, uiRows>>

Row == rows[processing[i]]

(* Looked at before each row. *)
Full == w = 1 /\ \A k \in DOMAIN colHeights : colHeights[k] > maxHeight

(* Mutant: a column is open until it is full.                              *)
FittingUntilFull == {k \in w .. Len(colHeights) : colHeights[k] < maxHeight}

(* The columns that have room for the next widget.  The search begins with *)
(* the widget's own index.                                                 *)
Fitting == {k \in w .. Len(colHeights) : colHeights[k] + Row[w] <= maxHeight}

PlaceWidget ==
    /\ pc = "place" /\ i <= Len(processing)
    /\ ~Full
    /\ \E k \in Fitting :
           /\ \A l \in Fitting : k <= l
           /\ columns' = [columns EXCEPT ![k] = Append(@, <<processing[i], w>>)]
           /\ colHeights' = [colHeights EXCEPT ![k] = @ + Row[w]]
    /\ IF w < Len(Row) THEN w' = w + 1 /\ i' = i
                       ELSE w' = 1 /\ i' = i + 1
    /\ UNCHANGED <<rows, rowDefs, processing, maxHeight, uiRows, pc>>

(* Mutants: the row that did not fit is not handed back with the others;   *)
(* every row is handed back; the rows are put behind the others.           *)
HandBackTheOthers ==
    /\ pc = "place" /\ i <= Len(processing)
    /\ Full \/ Fitting = {}
    /\ rowDefs' = SubSeq(processing, i + 1, Len(processing)) \o rowDefs
    /\ pc' = "made"
    /\ UNCHANGED <<rows, processing, maxHeight, colHeights, columns, i, w, uiRows>>

HandBackAll ==
    /\ pc = "place" /\ i <= Len(processing)
    /\ Full \/ Fitting = {}
    /\ rowDefs' = processing \o rowDefs
    /\ pc' = "made"
    /\ UNCHANGED <<rows, processing, maxHeight, colHeights, columns, i, w, uiRows>>

HandBackBehind ==
    /\ pc = "place" /\ i <= Len(processing)
    /\ Full \/ Fitting = {}
    /\ rowDefs' = rowDefs \o SubSeq(processing, i, Len(processing))
    /\ pc' = "made"
    /\ UNCHANGED <<rows, processing, maxHeight, colHeights, columns, i, w, uiRows>>

HandBack ==
    /\ pc = "place" /\ i <= Len(processing)
    /\ Full \/ Fitting = {}
    /\ rowDefs' = SubSeq(processing, i, Len(processing)) \o rowDefs
    /\ pc' = "made"
    /\ UNCHANGED <<rows, processing, maxHeight, colHeights, columns, i, w, uiRows>>

(* processRow returns: Layout has one more row of the grid. *)
RowMade ==
    /\ \/ pc = "made"
       \/ pc = "place" /\ i > Len(processing)
    /\ uiRows' = Append(uiRows, [height |-> maxHeight, columns |-> columns])
    /\ pc' = "layout"
    /\ UNCHANGED <<rows, rowDefs, processing, maxHeight, colHeights, columns, i, w>>

LayoutMade ==
    /\ pc = "layout" /\ rowDefs = << >>
    /\ pc' = "done"
    /\ UNCHANGED <<rows, rowDefs, processing, maxHeight, colHeights, columns, i, w, uiRows>>

Next == ProcessRow \/ PlaceWidget \/ HandBack \/ RowMade \/ LayoutMade

Spec == Init /\ [][Next]_vars
-----------------------------------------------------------------------------
Widgets == UNION {{r} \X DOMAIN rows[r] : r \in DOMAIN rows}
InColumn(c) == {c[p] : p \in DOMAIN c}

(* The widgets of a column are together no taller than the row of the grid *)
(* they are in, so that the fractions processRow gives them fit.           *)
Filled(c) == SumFunctionOnSet([p \in DOMAIN c |-> Height(c[p])], DOMAIN c)
ColumnsFit ==
    \A u \in DOMAIN uiRows : \A k \in DOMAIN uiRows[u].columns :
        Filled(uiRows[u].columns[k]) <= uiRows[u].height

(* Rule 13 of the layout language: widgets are filled in top down.  In a   *)
(* column, later rows are below earlier ones, and a row of the grid shows  *)
(* no widget of a row that comes before one shown above it, also after     *)
(* rows were handed back.                                                  *)
RowsShown(u) == {a[1] : a \in UNION {InColumn(uiRows[u].columns[k]) : k \in DOMAIN uiRows[u].columns}}
TopDown ==
    /\ \A u \in DOMAIN uiRows : \A k \in DOMAIN uiRows[u].columns :
          LET c == uiRows[u].columns[k]
          IN  \A p, q \in DOMAIN c : p < q => c[p][1] <= c[q][1]
    /\ \A u, v \in DOMAIN uiRows : u < v =>
          \A a \in RowsShown(u), b \in RowsShown(v) : a <= b

(* A row that is handed back starts again in the next row of the grid, so  *)
(* that the widgets placed before one of them did not fit are shown there  *)
(* once more.  The row is the first of the next call then, and fits it as  *)
(* a whole: a row of the grid shows no widget twice, and a row of the      *)
(* definition is in no other rows of the grid than two neighbours, so no   *)
(* widget is shown more than twice.                                        *)
OnceIn(cols) ==
    \A k, l \in DOMAIN cols : \A p \in DOMAIN cols[k], q \in DOMAIN cols[l] :
        cols[k][p] = cols[l][q] => k = l /\ p = q
AtMostTwice ==
    /\ \A u \in DOMAIN uiRows : OnceIn(uiRows[u].columns)
    /\ \A u, v \in DOMAIN uiRows : u + 1 < v => RowsShown(u) \cap RowsShown(v) = {}

(* Every widget of the definition gets a place, also those of rows that    *)
(* were handed back.                                                       *)
Placed == UNION {UNION {InColumn(uiRows[u].columns[k]) : k \in DOMAIN uiRows[u].columns} : u \in DOMAIN uiRows}
EveryWidgetIsPlaced == pc = "done" => Widgets \subseteq Placed

(* Layout ends, although rows are put back in front of the others: every   *)
(* call of processRow has consumed one row at least, so the grid never has *)
(* more rows than the definition.                                          *)
EachCallConsumes ==
    pc \in {"layout", "done"} => Len(rowDefs) + Len(uiRows) <= Len(rows)
=============================================================================
