------------------------------- MODULE Table -------------------------------
(***************************************************************************)
(* The scrolling table of termui/table.go: a list of rows, of which a      *)
(* window of Inner.Dy()-1 rows starting at TopRow is on the screen, and a  *)
(* cursor, which is kept twice: as a row number (SelectedRow) and as the   *)
(* contents of the unique column of that row (SelectedItem).  The cursor   *)
(* operations work on the number and forget the item; Draw turns a number  *)
(* into an item, and afterwards follows the item.                          *)
(*                                                                         *)
(* Rows are numbered from 0, as in the code: row r is Rows[r+1] here.      *)
(* The table modelled shows its cursor (ShowCursor), as the one of         *)
(* ProcWidget does; Draw leaves the state of a table without cursor alone. *)
(* What the embedding widget and the terminal do to the exported fields is *)
(* the environment of the table: SetRows, SetUniqueCol, ForgetItem, Resize.*)
(***************************************************************************)
EXTENDS Integers, Sequences

CONSTANTS
    Cell,       \* the texts a cell of the unique column can hold
    NoItem,     \* the empty string
    RowLists,   \* the values the owner assigns to Rows
    Heights     \* the values of Inner.Dy(): a rectangle's, so never negative

Cols == {0, 1}                   \* the columns UniqueCol ranges over
NilRow == << >>                  \* a row that was allocated but never filled
Row == [Cols -> Cell] \cup {NilRow}

ASSUME TableAssumption ==
    /\ RowLists \subseteq Seq(Row)
    /\ Heights \subseteq Nat

VARIABLES
    Rows, UniqueCol,             \* written by the owner
    Dy,                          \* Inner.Dy(), written by SetRect
    SelectedItem, SelectedRow, TopRow

cursor == <<SelectedItem, SelectedRow, TopRow>>
tableVars == <<Rows, UniqueCol, Dy, SelectedItem, SelectedRow, TopRow>>

TableTypeOK ==
    /\ Rows \in Seq(Row)
    /\ UniqueCol \in Cols
    /\ Dy \in Nat
    /\ SelectedItem \in Cell \cup {NoItem}
    /\ SelectedRow \in Nat \cup {-1}
    /\ TopRow \in Int

(* NewTable; Rows is nil and the rectangle empty until the owner sets them. *)
TableInit ==
    /\ Rows = << >>
    /\ UniqueCol \in Cols
    /\ Dy = 0
    /\ SelectedItem = NoItem
    /\ SelectedRow = 0
    /\ TopRow = 0
-----------------------------------------------------------------------------
(* Go's integer division truncates toward zero. *)
Half(n) == IF n >= 0 THEN n \div 2 ELSE -((-n) \div 2)

(* Mutants of calcPos, for the checks of the properties: one that does not *)
(* lift a negative row, one that does not stop at the last row, one that   *)
(* takes the window for a row taller than it is, and one that never moves  *)
(* the window up.                                                          *)
CalcPosNoFloor(row) ==
    LET top == IF row < TopRow THEN row ELSE TopRow
        sel == IF row > Len(Rows) - 1 THEN Len(Rows) - 1 ELSE row
    IN  /\ SelectedItem' = NoItem
        /\ SelectedRow' = sel
        /\ TopRow' = IF sel > top + (Dy - 2) THEN sel - (Dy - 2) ELSE top

CalcPosNoCeiling(row) ==
    LET sel == IF row < 0 THEN 0 ELSE row
        top == IF sel < TopRow THEN sel ELSE TopRow
    IN  /\ SelectedItem' = NoItem
        /\ SelectedRow' = sel
        /\ TopRow' = IF sel > top + (Dy - 2) THEN sel - (Dy - 2) ELSE top

CalcPosTallWindow(row) ==
    LET wanted == IF row < 0 THEN 0 ELSE row
        top == IF wanted < TopRow THEN wanted ELSE TopRow
        sel == IF wanted > Len(Rows) - 1 THEN Len(Rows) - 1 ELSE wanted
    IN  /\ SelectedItem' = NoItem
        /\ SelectedRow' = sel
        /\ TopRow' = IF sel > top + (Dy - 1) THEN sel - (Dy - 1) ELSE top

CalcPosStickyTop(row) ==
    LET wanted == IF row < 0 THEN 0 ELSE row
        sel == IF wanted > Len(Rows) - 1 THEN Len(Rows) - 1 ELSE wanted
    IN  /\ SelectedItem' = NoItem
        /\ SelectedRow' = sel
        /\ TopRow' = IF sel > TopRow + (Dy - 2) THEN sel - (Dy - 2) ELSE TopRow

(* calcPos, entered with SelectedRow = row. *)
CalcPos(row) ==
    LET wanted == IF row < 0 THEN 0 ELSE row
        top    == IF wanted < TopRow THEN wanted ELSE TopRow
        last   == Len(Rows) - 1
        sel    == IF wanted > last THEN last ELSE wanted
    IN  /\ SelectedItem' = NoItem
        /\ SelectedRow' = sel
        /\ TopRow' = IF sel > top + (Dy - 2) THEN sel - (Dy - 2) ELSE top

ScrollUp           == CalcPos(SelectedRow - 1)
ScrollDown         == CalcPos(SelectedRow + 1)
ScrollTop          == CalcPos(0)
ScrollBottom       == CalcPos(Len(Rows) - 1)
ScrollHalfPageUp   == CalcPos(SelectedRow - Half(Dy - 2))
ScrollHalfPageDown == CalcPos(SelectedRow + Half(Dy - 2))
ScrollPageUp       == CalcPos(SelectedRow - (Dy - 2))
ScrollPageDown     == CalcPos(SelectedRow + (Dy - 2))

(* A click in row y of the widget; y = 1 is the header line.  One outside  *)
(* the inner rectangle does nothing.                                       *)
HandleClick(y) == y \in 1..Dy /\ CalcPos((TopRow + y) - 2)

Scroll ==
    \/ ScrollUp \/ ScrollDown
    \/ ScrollTop \/ ScrollBottom
    \/ ScrollHalfPageUp \/ ScrollHalfPageDown
    \/ ScrollPageUp \/ ScrollPageDown
    \/ \E y \in 1..Dy : HandleClick(y)
-----------------------------------------------------------------------------
(* The rows Draw prints, and the text in the unique column of one of them. *)
View == {r \in TopRow .. (TopRow + Dy - 2) : r < Len(Rows)}
Key(r) == Rows[r + 1][UniqueCol]

(* Draw indexes every row it prints; a nil row among them panics. *)
Drawable == \A r \in View : Rows[r + 1] # NilRow

(* The item Draw looks for: the remembered one or, when none is, the text  *)
(* of the selected row if that row is printed.                             *)
Wanted ==
    IF SelectedItem = NoItem /\ SelectedRow \in View
    THEN Key(SelectedRow) ELSE SelectedItem

(* The rows Draw prints in the cursor colour. *)
Marked ==
    {r \in View :
        \/ SelectedItem = NoItem /\ r = SelectedRow
        \/ /\ Wanted # NoItem /\ Key(r) = Wanted
           /\ SelectedItem = NoItem => r > SelectedRow}

(* Mutant: a draw that remembers the item but not the row it is on. *)
DrawCursorKeepsRow ==
    /\ TopRow >= 0
    /\ SelectedItem' = Wanted
    /\ UNCHANGED <<SelectedRow, TopRow>>

(* Mutant: a draw that takes the item from the selected row, remembered or  *)
(* not.                                                                    *)
DrawCursorForgetsItem ==
    /\ TopRow >= 0 /\ SelectedRow \in View
    /\ SelectedItem' = Key(SelectedRow)
    /\ UNCHANGED <<SelectedRow, TopRow>>

DrawCursor ==
    \/ (TopRow < 0 \/ Marked = {}) /\ UNCHANGED cursor
    \/ /\ TopRow >= 0
       /\ \E last \in Marked :
            /\ \A r \in Marked : r <= last
            /\ SelectedRow' = last
       /\ SelectedItem' = Wanted
       /\ UNCHANGED TopRow

Draw == Drawable /\ DrawCursor
-----------------------------------------------------------------------------
SetRows      == Rows' \in RowLists
SetUniqueCol == UniqueCol' \in Cols
ForgetItem   == SelectedItem' = NoItem
Resize       == Dy' \in Heights

(* What the table does itself leaves the owner's fields alone. *)
Own(Op) == Op /\ UNCHANGED <<Rows, UniqueCol, Dy>>

TableNext ==
    \/ Own(Scroll)
    \/ Own(Draw)
    \/ SetRows /\ UNCHANGED <<UniqueCol, Dy, cursor>>
    \/ SetUniqueCol /\ UNCHANGED <<Rows, Dy, cursor>>
    \/ ForgetItem /\ UNCHANGED <<Rows, UniqueCol, Dy, SelectedRow, TopRow>>
    \/ Resize /\ UNCHANGED <<Rows, UniqueCol, cursor>>

TableSpec == TableInit /\ [][TableNext]_tableVars
-----------------------------------------------------------------------------
(* The top of the window is never above the first row: the check that Draw *)
(* makes for it (table.go:85) never finds anything to report, whatever     *)
(* rows and sizes the owner gives the table between two operations.        *)
TopRowNotNegative == TopRow >= 0

(* Every cursor operation ends with the cursor on a row of the table, or   *)
(* on row -1 of a table that has become empty: calcPos clamps a cursor     *)
(* that refreshes have left beyond the end, wherever it was.               *)
CursorOnARow ==
    [][ Own(Scroll) => SelectedRow' \in (IF Rows = << >> THEN {-1} ELSE 0 .. (Len(Rows) - 1)) ]_tableVars

(* A cursor operation ends with the cursor inside the window when the      *)
(* window still shows some row as it begins, however the rows and the size *)
(* have changed since the last one.  (A window that a refresh has left     *)
(* beyond the last row is not brought back by every operation.)            *)
InView == TopRow <= SelectedRow /\ SelectedRow <= TopRow + (Dy - 2)
CursorInView ==
    [][ Own(Scroll) /\ Dy >= 2 /\ TopRow < Len(Rows) => InView' ]_tableVars

(* Jumping to the first or to the last row brings the cursor back into the *)
(* window from everywhere, a window beyond the last row included.          *)
JumpsRecover ==
    [][ Own(ScrollTop \/ ScrollBottom) /\ Dy >= 2 /\ Rows # << >> => InView' ]_tableVars

(* A draw never changes a remembered item, and when a printed row shows    *)
(* the item, the selected row becomes such a row: the two forms of the     *)
(* cursor agree again, although a refresh has moved the item.              *)
DrawFollowsItem ==
    [][ Own(Draw) /\ SelectedItem' # NoItem =>
        /\ SelectedItem # NoItem => SelectedItem' = SelectedItem
        /\ (\E r \in View : Key(r) = SelectedItem')
           => SelectedRow' \in View /\ Key(SelectedRow') = SelectedItem' ]_tableVars
=============================================================================
