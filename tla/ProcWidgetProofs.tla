-------------------------- MODULE ProcWidgetProofs --------------------------
(***************************************************************************)
(* What Table.tla promises of the scrolling table and ProcWidget.tla of    *)
(* the process widget, proved for every set of readings, every filter and  *)
(* every number of events: the types of its variables, that it uses its    *)
(* table as Table.tla allows, that a drawn cursor is on the row a kill     *)
(* takes, and that without an overlap of the two goroutines the table is a *)
(* reading of the processes.                                               *)
(***************************************************************************)
EXTENDS ProcWidget, FoldProofs

-----------------------------------------------------------------------------
(* Part 1: Table, for every set of row lists, every set of heights and     *)
(* every order of operations.                                              *)

(* The arithmetic of calcPos, on which every cursor operation rests: the   *)
(* row is clamped to the rows there are, the window's top only ever leaves *)
(* its old value for a row that is not negative.                           *)
LEMMA CalcPosResult ==
    ASSUME TableTypeOK, TopRowNotNegative, NEW row \in Int, CalcPos(row)
    PROVE  /\ SelectedItem' = NoItem
           /\ SelectedRow' \in Nat \cup {-1}
           /\ TopRow' \in Int
           /\ TopRow' >= 0
           /\ SelectedRow' \in (IF Len(Rows) = 0 THEN {-1} ELSE 0 .. (Len(Rows) - 1))
           /\ SelectedRow' <= TopRow' + (Dy - 2)
           /\ (Dy >= 2 /\ TopRow < Len(Rows)) => TopRow' <= SelectedRow'
           /\ (Dy >= 2 /\ Len(Rows) > 0 /\ row < Len(Rows)) => TopRow' <= SelectedRow'
  <1>1. /\ Len(Rows) \in Nat
        /\ TopRow \in Nat
        /\ Dy \in Nat
    BY DEF TableTypeOK, TopRowNotNegative
  <1>. QED
    BY <1>1 DEF CalcPos

(* Every scrolling operation and every click is calcPos at some row. *)
LEMMA ScrollIsCalcPos ==
    ASSUME TableTypeOK, Scroll
    PROVE  \E row \in Int : CalcPos(row)
  <1>1. /\ Len(Rows) \in Nat
        /\ TopRow \in Int
        /\ SelectedRow \in Int
        /\ Dy \in Nat
    BY DEF TableTypeOK
  <1>2. Half(Dy - 2) \in Int
    BY <1>1 DEF Half
  <1>3. CASE ScrollUp \/ ScrollDown \/ ScrollTop \/ ScrollBottom
    BY <1>1, <1>3 DEF ScrollUp, ScrollDown, ScrollTop, ScrollBottom
  <1>4. CASE ScrollHalfPageUp \/ ScrollHalfPageDown
    BY <1>1, <1>2, <1>4 DEF ScrollHalfPageUp, ScrollHalfPageDown
  <1>5. CASE ScrollPageUp \/ ScrollPageDown
    BY <1>1, <1>5 DEF ScrollPageUp, ScrollPageDown
  <1>6. CASE \E y \in 1..Dy : HandleClick(y)
    BY <1>1, <1>6 DEF HandleClick
  <1>. QED
    BY <1>3, <1>4, <1>5, <1>6 DEF Scroll

(* The text in the unique column of a row that Draw prints. *)
LEMMA KeyInCell ==
    ASSUME TableTypeOK, TopRowNotNegative, Drawable, NEW r \in View
    PROVE  Key(r) \in Cell
  <1>1. r + 1 \in 1 .. Len(Rows)
    BY DEF View, TableTypeOK, TopRowNotNegative
  <1>2. Rows[r + 1] \in [Cols -> Cell]
    BY <1>1 DEF Drawable, Row, TableTypeOK
  <1>. QED
    BY <1>2 DEF Key, TableTypeOK

(* What a draw does to the cursor. *)
LEMMA DrawResult ==
    ASSUME TableTypeOK, TopRowNotNegative, Draw
    PROVE  /\ SelectedItem' \in Cell \cup {NoItem}
           /\ SelectedRow' \in Nat \cup {-1}
           /\ TopRow' = TopRow
  <1>1. CASE UNCHANGED cursor
    BY <1>1 DEF cursor, TableTypeOK
  <1>2. CASE /\ \E last \in Marked : SelectedRow' = last
             /\ SelectedItem' = Wanted
             /\ UNCHANGED TopRow
    <2>1. SelectedRow' \in Nat
      BY <1>2 DEF Marked, View, TableTypeOK, TopRowNotNegative
    <2>2. Wanted \in Cell \cup {NoItem}
      BY KeyInCell DEF Wanted, Draw, TableTypeOK
    <2>. QED
      BY <1>2, <2>1, <2>2
  <1>. QED
    BY <1>1, <1>2 DEF Draw, DrawCursor
-----------------------------------------------------------------------------
(* The inductive invariant: the types and the top of the window.  They are *)
(* proved together because a cursor operation may leave SelectedRow at -1  *)
(* and calcPos reads it again at the next one.                             *)
TableInv == TableTypeOK /\ TopRowNotNegative

LEMMA TableInvInit == TableInit => TableInv
  BY DEF TableInit, TableInv, TableTypeOK, TopRowNotNegative

LEMMA TableInvStep == TableInv /\ [TableNext]_tableVars => TableInv'
  <1> SUFFICES ASSUME TableInv, [TableNext]_tableVars
               PROVE  TableInv'
    OBVIOUS
  <1> USE DEF TableInv
  <1>1. CASE Own(Scroll)
    <2>1. PICK row \in Int : CalcPos(row)
      BY <1>1, ScrollIsCalcPos DEF Own
    <2>2. SelectedItem' = NoItem /\ SelectedRow' \in Nat \cup {-1} /\ TopRow' \in Int /\ TopRow' >= 0
      BY <2>1, CalcPosResult
    <2>. QED
      BY <1>1, <2>2 DEF Own, TableTypeOK, TopRowNotNegative
  <1>2. CASE Own(Draw)
    BY <1>2, DrawResult DEF Own, TableTypeOK, TopRowNotNegative
  <1>3. CASE SetRows /\ UNCHANGED <<UniqueCol, Dy, cursor>>
    BY <1>3, TableAssumption DEF SetRows, cursor, TableTypeOK, TopRowNotNegative
  <1>4. CASE SetUniqueCol /\ UNCHANGED <<Rows, Dy, cursor>>
    BY <1>4 DEF SetUniqueCol, cursor, TableTypeOK, TopRowNotNegative
  <1>5. CASE ForgetItem /\ UNCHANGED <<Rows, UniqueCol, Dy, SelectedRow, TopRow>>
    BY <1>5 DEF ForgetItem, TableTypeOK, TopRowNotNegative
  <1>6. CASE Resize /\ UNCHANGED <<Rows, UniqueCol, cursor>>
    BY <1>6, TableAssumption DEF Resize, cursor, TableTypeOK, TopRowNotNegative
  <1>7. CASE UNCHANGED tableVars
    BY <1>7 DEF tableVars, TableTypeOK, TopRowNotNegative
  <1>. QED
    BY <1>1, <1>2, <1>3, <1>4, <1>5, <1>6, <1>7 DEF TableNext

LEMMA TableInvariant == TableSpec => []TableInv
  BY TableInvInit, TableInvStep, PTL DEF TableSpec

(* Type correctness of the table. *)
THEOREM TableTypeCorrect == TableSpec => []TableTypeOK
  BY TableInvariant, PTL DEF TableInv

(* The window never starts above the first row: the guard in Draw and the  *)
(* message it logs (table.go:85-89) are dead code.                         *)
THEOREM TopRowStaysNotNegative == TableSpec => []TopRowNotNegative
  BY TableInvariant, PTL DEF TableInv
-----------------------------------------------------------------------------
(* Every cursor operation ends on a row of the table, or on -1 when it is  *)
(* empty.                                                                  *)
THEOREM CursorEndsOnARow == TableSpec => CursorOnARow
  <1>1. TableInv /\ [TableNext]_tableVars
        => [Own(Scroll) => SelectedRow' \in (IF Rows = << >> THEN {-1} ELSE 0 .. (Len(Rows) - 1))]_tableVars
    <2> SUFFICES ASSUME TableInv, Own(Scroll)
                 PROVE  SelectedRow' \in (IF Rows = << >> THEN {-1} ELSE 0 .. (Len(Rows) - 1))
      OBVIOUS
    <2>1. PICK row \in Int : CalcPos(row)
      BY ScrollIsCalcPos DEF Own, TableInv
    <2>2. SelectedRow' \in (IF Len(Rows) = 0 THEN {-1} ELSE 0 .. (Len(Rows) - 1))
      BY <2>1, CalcPosResult DEF TableInv
    <2>3. Rows = << >> <=> Len(Rows) = 0
      BY DEF TableInv, TableTypeOK
    <2>. QED
      BY <2>2, <2>3
  <1>. QED
    BY <1>1, TableInvariant, PTL DEF TableSpec, CursorOnARow

(* A cursor operation ends with the cursor in the window whenever the      *)
(* window still shows a row as the operation begins.                       *)
THEOREM CursorEndsInView == TableSpec => CursorInView
  <1>1. TableInv /\ [TableNext]_tableVars
        => [Own(Scroll) /\ Dy >= 2 /\ TopRow < Len(Rows) => InView']_tableVars
    <2> SUFFICES ASSUME TableInv, Own(Scroll), Dy >= 2, TopRow < Len(Rows)
                 PROVE  InView'
      OBVIOUS
    <2>1. PICK row \in Int : CalcPos(row)
      BY ScrollIsCalcPos DEF Own, TableInv
    <2>2. TopRow' <= SelectedRow' /\ SelectedRow' <= TopRow' + (Dy - 2)
      BY <2>1, CalcPosResult DEF TableInv
    <2>. QED
      BY <2>2 DEF InView, Own
  <1>. QED
    BY <1>1, TableInvariant, PTL DEF TableSpec, CursorInView

(* Jumping to the first or the last row brings the cursor into the window  *)
(* even when a refresh left the window beyond the last row.                *)
THEOREM JumpsEndInView == TableSpec => JumpsRecover
  <1>1. TableInv /\ [TableNext]_tableVars
        => [Own(ScrollTop \/ ScrollBottom) /\ Dy >= 2 /\ Rows # << >> => InView']_tableVars
    <2> SUFFICES ASSUME TableInv, Own(ScrollTop \/ ScrollBottom), Dy >= 2, Rows # << >>
                 PROVE  InView'
      OBVIOUS
    <2>1. Len(Rows) \in Nat /\ Len(Rows) > 0
      BY DEF TableInv, TableTypeOK
    <2>2. PICK row \in Int : CalcPos(row) /\ row < Len(Rows)
      BY <2>1 DEF Own, ScrollTop, ScrollBottom
    <2>3. TopRow' <= SelectedRow' /\ SelectedRow' <= TopRow' + (Dy - 2)
      BY <2>1, <2>2, CalcPosResult DEF TableInv
    <2>. QED
      BY <2>3 DEF InView, Own
  <1>. QED
    BY <1>1, TableInvariant, PTL DEF TableSpec, JumpsRecover

(* A draw keeps a remembered item, and puts the selected row on a printed  *)
(* row that shows it if there is one.                                      *)
THEOREM DrawFollowsTheItem == TableSpec => DrawFollowsItem
  <1>1. TableInv /\ [TableNext]_tableVars
        => [Own(Draw) /\ SelectedItem' # NoItem =>
              /\ SelectedItem # NoItem => SelectedItem' = SelectedItem
              /\ (\E r \in View : Key(r) = SelectedItem')
                 => SelectedRow' \in View /\ Key(SelectedRow') = SelectedItem']_tableVars
    <2> SUFFICES ASSUME TableInv, Own(Draw), SelectedItem' # NoItem
                 PROVE  /\ SelectedItem # NoItem => SelectedItem' = SelectedItem
                        /\ (\E r \in View : Key(r) = SelectedItem')
                           => SelectedRow' \in View /\ Key(SelectedRow') = SelectedItem'
      OBVIOUS
    <2>1. CASE Marked = {} /\ UNCHANGED cursor
      <3>1. SelectedItem' = SelectedItem
        BY <2>1 DEF cursor
      <3>2. ~ \E r \in View : Key(r) = SelectedItem
        BY <2>1, <3>1 DEF Marked, Wanted
      <3>. QED
        BY <3>1, <3>2
    <2>2. CASE /\ \E last \in Marked : SelectedRow' = last
               /\ SelectedItem' = Wanted
      <3>1. SelectedItem # NoItem => Wanted = SelectedItem
        BY DEF Wanted
      <3>2. SelectedRow' \in View /\ Key(SelectedRow') = Wanted
        BY <2>2 DEF Marked, Wanted
      <3>. QED
        BY <2>2, <3>1, <3>2
    <2>3. TopRow >= 0
      BY DEF TableInv, TopRowNotNegative
    <2>. QED
      BY <2>1, <2>2, <2>3 DEF Own, Draw, DrawCursor, TableInv, TableTypeOK
  <1>. QED
    BY <1>1, TableInvariant, PTL DEF TableSpec, DrawFollowsItem

-----------------------------------------------------------------------------
(* Part 2: ProcWidget.                                                     *)

(* There are two goroutines, and each is the other's other.                *)
LEMMA Others == Other("ui") = "ticker" /\ Other("ticker") = "ui"
  BY DEF Other, Threads

(* The lengths that lists have are numbers, and a list shorter than one of *)
(* a length that occurs has a length that occurs: filtering and grouping   *)
(* only shorten.                                                           *)
LEMMA LengthsAreNats ==
    /\ Lengths \subseteq Nat
    /\ \A n \in Lengths : \A m \in 0 .. n : m \in Lengths
<1>1. ASSUME NEW n \in Lengths, n # 0
      PROVE  /\ n \in Nat
             /\ \A m \in 0 .. n : m \in Lengths
  <2>1. PICK reading \in Readings : n \in 1 .. Len(reading)
    BY <1>1 DEF Lengths
  <2>2. Len(reading) \in Nat
    BY ProcAssumption
  <2>3. ASSUME NEW m \in 0 .. n PROVE m \in Lengths
    <3>1. m = 0 \/ m \in 1 .. Len(reading)
      BY <2>1, <2>2
    <3>. QED
      BY <3>1 DEF Lengths
  <2>. QED
    BY <2>1, <2>2, <2>3
<1>2. 0 \in Lengths
  BY DEF Lengths
<1>. QED
  BY <1>1, <1>2

(* The enumeration of a finite set of numbers in increasing order exists   *)
(* and has one entry for each of them.                                     *)
LEMMA IncreasingIs ==
  ASSUME NEW S, IsFiniteSet(S), S \subseteq Nat
  PROVE  Increasing(S) \in [1 .. Cardinality(S) -> S] /\ Ascending(Increasing(S))
  BY AscendingExists DEF Increasing, Ascending

(* filterProcs keeps elements of the list it is given, no more than there  *)
(* are.                                                                    *)
LEMMA FilterKeepsProcesses ==
  ASSUME NEW S, NEW l \in Seq(S), NEW f
  PROVE  /\ filterProcs(l, f) \in Seq(S)
         /\ Len(filterProcs(l, f)) \in 0 .. Len(l)
<1> DEFINE kept == {i \in DOMAIN l : Matches(l[i], f)}
           s == Increasing(kept)
<1>1. IsFiniteSet(DOMAIN l) /\ Cardinality(DOMAIN l) = Len(l)
  <2>1. DOMAIN l = 1 .. Len(l) /\ Len(l) \in Nat
    OBVIOUS
  <2>. QED
    BY <2>1, FS_Interval
<1>2. /\ IsFiniteSet(kept) /\ kept \subseteq Nat
      /\ Cardinality(kept) \in Nat /\ Cardinality(kept) <= Len(l)
  BY <1>1, FS_Subset, FS_CardinalityType
<1>3. s \in [1 .. Cardinality(kept) -> kept]
  BY <1>2, IncreasingIs
<1>4. CASE f = << >>
  BY <1>4 DEF filterProcs
<1>5. CASE f # << >>
  <2>1. filterProcs(l, f) = [i \in DOMAIN s |-> l[s[i]]]
    BY <1>5 DEF filterProcs
  <2> HIDE DEF s
  <2>2. \A i \in DOMAIN s : l[s[i]] \in S
    BY <1>3
  <2>3. filterProcs(l, f) \in [1 .. Cardinality(kept) -> S]
    BY <1>3, <2>1, <2>2
  <2> HIDE DEF kept
  <2>. QED
    BY <1>2, <2>3
<1>. QED
  BY <1>4, <1>5

(* A sequence of n entries has at most n different ones.                   *)
LEMMA ImageIsSmaller ==
  ASSUME NEW n \in Nat, NEW S, NEW f \in [1 .. n -> S], NEW T, T = {f[i] : i \in 1 .. n}
  PROVE  /\ IsFiniteSet(T) /\ Cardinality(T) \in 0 .. n
<1>1. IsFiniteSet(1 .. n) /\ Cardinality(1 .. n) = n
  BY FS_Interval
<1>2. f \in Surjection(1 .. n, T)
  BY DEF Surjection
<1>3. IsFiniteSet(T) /\ Cardinality(T) <= n
  BY <1>1, <1>2, FS_Surjection
<1>4. Cardinality(T) \in Nat
  BY <1>3, FS_CardinalityType
<1>. QED
  BY <1>3, <1>4

(* groupProcs makes groups, no more than there are processes; the pid      *)
(* column of each counts its members, of which there is at least one.      *)
LEMMA GroupsAreGroups ==
  ASSUME NEW l \in Seq(Process), Short(l), NEW g \in groupProcs(l)
  PROVE  g \in Seq(Group) /\ Short(g)
<1> DEFINE n == Len(l)
           members(c) == {i \in DOMAIN l : l[i].CommandName = c}
           group(c) == [ Pid |-> Cardinality(members(c)),
                         CommandName |-> c,
                         FullCommand |-> NoItem,
                         CPU |-> SumFunctionOnSet([i \in DOMAIN l |-> l[i].CPU], members(c)),
                         Mem |-> SumFunctionOnSet([i \in DOMAIN l |-> l[i].Mem], members(c)) ]
           names == {p.CommandName : p \in Elements(l)}
<1>1. n \in Nat /\ DOMAIN l = 1 .. n /\ n \in Lengths /\ l \in [1 .. n -> Process]
  BY DEF Short
<1>2. g \in [1 .. Cardinality(names) -> {group(c) : c \in names}]
  BY DEF groupProcs
<1>3. Cardinality(names) \in 0 .. n
  <2> DEFINE f == [i \in 1 .. n |-> l[i].CommandName]
  <2>1. f \in [1 .. n -> names]
    BY <1>1 DEF Elements
  <2>2. names = {f[i] : i \in 1 .. n}
    BY <1>1 DEF Elements
  <2> HIDE DEF f, names, n
  <2>. QED
    BY <1>1, <2>1, <2>2, ImageIsSmaller
<1>4. ASSUME NEW c \in names PROVE group(c) \in Group
  <2>1. PICK k \in 1 .. n : l[k].CommandName = c
    BY <1>1 DEF Elements
  <2>2. IsFiniteSet(1 .. n) /\ Cardinality(1 .. n) = n
    BY <1>1, FS_Interval
  <2>3. members(c) \in SUBSET (1 .. n) /\ k \in members(c)
    BY <1>1, <2>1
  <2>4. /\ IsFiniteSet(members(c)) /\ Cardinality(members(c)) \in Nat
        /\ Cardinality(members(c)) <= n /\ Cardinality(members(c)) # 0
    <3>1. IsFiniteSet(members(c)) /\ Cardinality(members(c)) <= n
      BY <2>2, <2>3, FS_Subset
    <3>2. Cardinality(members(c)) \in Nat
      BY <3>1, FS_CardinalityType
    <3>3. Cardinality(members(c)) # 0
      BY <2>3, <3>1, FS_EmptySet
    <3>. QED
      BY <3>1, <3>2, <3>3
  <2>5. Cardinality(members(c)) \in Lengths \ {0}
    BY <1>1, <2>4, LengthsAreNats
  <2>6. c \in {p.CommandName : p \in Process}
    BY <1>1, <2>1
  <2>7. /\ SumFunctionOnSet([i \in DOMAIN l |-> l[i].CPU], members(c)) \in Nat
        /\ SumFunctionOnSet([i \in DOMAIN l |-> l[i].Mem], members(c)) \in Nat
    <3>1. \A i \in members(c) : /\ [j \in DOMAIN l |-> l[j].CPU][i] \in Nat
                                /\ [j \in DOMAIN l |-> l[j].Mem][i] \in Nat
      BY <1>1, ProcAssumption
    <3> HIDE DEF members
    <3>. QED
      BY <2>4, <3>1, SumType
  <2> HIDE DEF members
  <2>. QED
    BY <2>5, <2>6, <2>7 DEF Group
<1>5. Cardinality(names) \in Nat /\ Cardinality(names) \in Lengths
  BY <1>1, <1>3, LengthsAreNats
<1> HIDE DEF names, group, n
<1>6. g \in [1 .. Cardinality(names) -> Group]
  BY <1>2, <1>4
<1>. QED
  BY <1>5, <1>6 DEF Short

(* A sort leaves a list of the same length with elements of the same kind, *)
(* also when it has been torn by another sort of the list.                 *)
LEMMA SortingKeepsElements ==
  ASSUME NEW S, NEW l \in Seq(S), NEW s \in Torn(l) \cup Rearranged(l)
  PROVE  s \in Seq(S) /\ Len(s) = Len(l)
<1>1. Len(l) \in Nat /\ DOMAIN l = 1 .. Len(l) /\ \A i \in 1 .. Len(l) : l[i] \in S
  OBVIOUS
<1>2. s \in [1 .. Len(l) -> S]
  <2>1. CASE s \in Torn(l)
    BY <1>1, <2>1 DEF Torn, Elements
  <2>2. CASE s \in Rearranged(l)
    <3>1. PICK p \in [DOMAIN l -> DOMAIN l] : s = [i \in DOMAIN l |-> l[p[i]]]
      BY <2>2 DEF Rearranged
    <3>. QED
      BY <1>1, <3>1
  <2>. QED
    BY <2>1, <2>2
<1>. QED
  BY <1>1, <1>2

(* The row of a process or of a group is one that the widget makes.        *)
LEMMA RowsAreMade ==
  ASSUME NEW p \in Process \cup Group, NEW grouped \in BOOLEAN
  PROVE  RowOf(p, grouped) \in MadeRow
<1>1. CASE p \in Process
  BY <1>1 DEF MadeRow
<1>2. CASE p \in Group
  <2> DEFINE h == [Pid |-> p.Pid, CommandName |-> p.CommandName, FullCommand |-> p.FullCommand]
  <2>1. h \in GroupHead
    BY <1>2 DEF Group, GroupHead
  <2>2. RowOf(p, grouped) = RowOf(h, grouped)
    BY DEF RowOf
  <2> HIDE DEF h
  <2>. QED
    BY <2>1, <2>2 DEF MadeRow
<1>. QED
  BY <1>1, <1>2

(* The tables that convertProcsToTableRows can leave behind, rows that are *)
(* still nil included, are among those that Table.tla lets an owner        *)
(* assign.                                                                 *)
LEMMA TablesAreMade ==
  ASSUME NEW t \in Seq(MadeRow), Short(t)
  PROVE  t \in RowLists
<1>1. t \in [1 .. Len(t) -> MadeRow] /\ Len(t) \in Lengths
  BY DEF Short
<1>. QED
  BY <1>1, ProcAssumption
-----------------------------------------------------------------------------
(* The step under the test that nothing has panicked.                      *)
LEMMA NextIs ==
  ASSUME Next
  PROVE  \/ \E t \in Threads : UpdateStep(t)
         \/ Tick \/ Start \/ Render \/ DrawTick \/ SetColumn \/ GoTop \/ Handler
  BY Zenon DEF Next, Running

(* The widget begins with the table of NewTable.                           *)
LEMMA InitRefines == Init => TableInit
  BY DEF Init

(* A step of the widget does to its table what Table.tla allows: the       *)
(* table's own operations, and of the exported fields only the assignments *)
(* an owner may make.                                                      *)
LEMMA StepRefines ==
  ASSUME ProcTypeOK, [Next]_vars
  PROVE  [TableNext]_tableVars
<1>1. ASSUME NEW t \in Threads, UpdateStep(t), ~Publish(t)
      PROVE  UNCHANGED tableVars
  BY <1>1, Zenon DEF UpdateStep, GetProcs, GetProcsFails, AssignUngrouped, AssignGrouped, BeginSort,
     EndSort, Convert, BeginRows, MakeRow
<1>2. ASSUME NEW t \in Threads, Publish(t)
      PROVE  SetRows /\ UNCHANGED <<UniqueCol, Dy, cursor>>
  <2>1. strings[t] \in Seq(MadeRow) /\ Short(strings[t])
    BY DEF ProcTypeOK
  <2>2. Rows' = strings[t] /\ UNCHANGED <<UniqueCol, Dy, cursor>>
    BY <1>2 DEF Publish
  <2>. QED
    BY <2>1, <2>2, TablesAreMade DEF SetRows
<1>3. CASE Tick \/ DrawTick
  BY <1>3, Zenon DEF Tick, DrawTick
<1>4. CASE Start
  BY <1>4 DEF Start, Resize, TableNext
<1>5. CASE Render
  <2>1. UNCHANGED <<Rows, UniqueCol, Dy>>
    BY <1>5 DEF Render
  <2>2. Draw \/ UNCHANGED cursor
    BY <1>5, Zenon DEF Render
  <2>. QED
    BY <2>1, <2>2 DEF TableNext, Own, cursor, tableVars
<1>6. CASE GoTop
  <2>1. Own(ScrollTop)
    BY <1>6, Zenon DEF GoTop
  <2>2. Own(Scroll)
    BY <2>1, Zenon DEF Own, Scroll
  <2>. QED
    BY <2>2, Zenon DEF TableNext
<1>7. CASE ScrollKey
  BY <1>7, Zenon DEF ScrollKey, TableNext
<1>8. CASE ResizeEvent
  BY <1>8 DEF ResizeEvent, Resize, TableNext
<1>9. CASE SetColumn
  <2>1. UniqueCol' \in Cols /\ UNCHANGED <<Rows, Dy, cursor>>
    BY <1>9 DEF SetColumn, Cols
  <2>. QED
    BY <2>1 DEF SetUniqueCol, TableNext
<1>10. CASE KillProc
  BY <1>10, Zenon DEF KillProc, ForgetItem, TableNext
<1>11. CASE \/ ToggleShowingGroupedProcs \/ ChangeProcSortMethod \/ EditFilter \/ TypeRune
            \/ Backspace \/ CancelFilter \/ AcceptFilter
  BY <1>11, Zenon DEF ToggleShowingGroupedProcs, ChangeProcSortMethod, EditFilter, TypeRune, Backspace, CancelFilter, AcceptFilter
<1>12. CASE UNCHANGED vars
  BY <1>12, Zenon DEF vars
<1>. QED
  BY <1>1, <1>2, <1>3, <1>4, <1>5, <1>6, <1>7, <1>8, <1>9, <1>10, <1>11, <1>12, NextIs, Zenon
     DEF Handler, TableNext

(* The types of the widget's own variables.                                *)
OwnTypeOK ==
    /\ showGroupedProcs \in BOOLEAN
    /\ pc["ui"] # "column" => UniqueCol = IF showGroupedProcs THEN 1 ELSE 0
    /\ sortMethod \in {"c", "m", "p", "n"}
    /\ filter \in Seq(Runes) /\ Len(filter) <= MaxFilter
    /\ editing \in BOOLEAN
    /\ groupedProcs \in Seq(Group) /\ Short(groupedProcs)
    /\ ungroupedProcs \in Seq(Process) /\ Short(ungroupedProcs)
    /\ pc \in [Threads -> Working \cup {"off", "idle", "render"}]
    /\ procs \in [Threads -> Seq(Process)] /\ \A t \in Threads : Short(procs[t])
    /\ list \in [Threads -> {"none", "grouped", "ungrouped"}]
    /\ strings \in [Threads -> Seq(MadeRow)] /\ \A t \in Threads : Short(strings[t])
    /\ limit \in [Threads -> Lengths] /\ filled \in [Threads -> Nat]
    /\ panicked \in {"no", "convert", "draw", "kill"}
    /\ events \in 0 .. MaxEvents

(* The type of the history of the readings.                                *)
FetchedTypeOK == fetched \in [procs : Seq(Process), fresh : BOOLEAN]

(* The type invariant is the table's, the widget's own and the history's.  *)
LEMMA ProcTypes == ProcTypeOK <=> TableTypeOK /\ OwnTypeOK /\ FetchedTypeOK
  BY DEF ProcTypeOK, OwnTypeOK, FetchedTypeOK

(* The empty list is a list of anything, of a length that occurs.          *)
LEMMA EmptyIsShort == ASSUME NEW S PROVE << >> \in Seq(S) /\ Short(<< >>)
  BY DEF Short, Lengths

(* The initial values have their types.                                    *)
LEMMA InitTyped == Init => OwnTypeOK
<1> SUFFICES ASSUME Init PROVE OwnTypeOK
  OBVIOUS
<1>1. /\ showGroupedProcs = TRUE /\ UniqueCol = 1 /\ sortMethod = "c" /\ filter = << >> /\ editing = FALSE
      /\ groupedProcs = << >> /\ ungroupedProcs = << >> /\ panicked = "no" /\ events = 0
  BY DEF Init
<1>2. Len(filter) <= MaxFilter /\ filter \in Seq(Runes) /\ events \in 0 .. MaxEvents
  BY <1>1, ProcAssumption
<1>3. pc \in [Threads -> Working \cup {"off", "idle", "render"}]
  BY DEF Init, Threads, Working
<1>4. /\ procs \in [Threads -> Seq(Process)] /\ \A t \in Threads : Short(procs[t])
      /\ strings \in [Threads -> Seq(MadeRow)] /\ \A t \in Threads : Short(strings[t])
      /\ limit \in [Threads -> Lengths] /\ filled \in [Threads -> Nat]
  BY EmptyIsShort DEF Init, Lengths
<1>5. list \in [Threads -> {"none", "grouped", "ungrouped"}]
  BY DEF Init
<1>6. /\ groupedProcs \in Seq(Group) /\ Short(groupedProcs)
      /\ ungroupedProcs \in Seq(Process) /\ Short(ungroupedProcs)
  BY <1>1, EmptyIsShort
<1>. QED
  BY <1>1, <1>2, <1>3, <1>4, <1>5, <1>6 DEF OwnTypeOK

(* A step of update keeps the types: what getProcs, the filter, the        *)
(* grouping, the sort and the conversion give each other.                  *)
LEMMA UpdateKeepsTypes ==
  ASSUME OwnTypeOK, NEW t \in Threads, UpdateStep(t)
  PROVE  OwnTypeOK'
<1> USE DEF OwnTypeOK
(* The event loop does not come back to the step that sets the column.     *)
<1>0. pc'["ui"] # "column" => pc["ui"] # "column"
  <2>1. pc[t] # "column"
    BY DEF UpdateStep, GetProcs, GetProcsFails, AssignUngrouped, AssignGrouped, BeginSort, EndSort,
       Convert, BeginRows, MakeRow, Publish
  <2>2. UNCHANGED pc \/ \E label : Goto(t, label)
    BY Zenon DEF UpdateStep, GetProcs, GetProcsFails, AssignUngrouped, AssignGrouped, BeginSort, EndSort,
       Convert, BeginRows, MakeRow, Publish
  <2>3. "ui" \in Threads
    BY DEF Threads
  <2>. QED
    BY <2>1, <2>2, <2>3 DEF Goto
<1>1. CASE GetProcs(t)
  <2>1. PICK reading \in Readings : procs' = [procs EXCEPT ![t] = filterProcs(reading, filter)]
    BY <1>1 DEF GetProcs
  <2>2. filterProcs(reading, filter) \in Seq(Process) /\ Short(filterProcs(reading, filter))
    <3>1. reading \in Seq(Process)
      BY ProcAssumption
    <3>2. /\ filterProcs(reading, filter) \in Seq(Process)
          /\ Len(filterProcs(reading, filter)) \in 0 .. Len(reading)
      BY <3>1, FilterKeepsProcesses
    <3>3. Len(reading) \in Lengths
      <4>1. Len(reading) = 0 \/ Len(reading) \in 1 .. Len(reading)
        BY <3>1
      <4>. QED
        BY <4>1 DEF Lengths
    <3>. QED
      BY <3>2, <3>3, LengthsAreNats DEF Short
  <2>3. procs' \in [Threads -> Seq(Process)] /\ \A u \in Threads : Short(procs'[u])
    BY <2>1, <2>2
  <2>4. pc' \in [Threads -> Working \cup {"off", "idle", "render"}]
    BY <1>1 DEF GetProcs, Goto, Working
  <2>. QED
    BY <1>1, <1>0, <2>3, <2>4 DEF GetProcs, making, widget, lists, tableVars
<1>2. CASE GetProcsFails(t)
  <2>1. pc' \in [Threads -> Working \cup {"off", "idle", "render"}]
    BY <1>2 DEF GetProcsFails, Goto, AfterUpdate
  <2>. QED
    BY <1>2, <1>0, <2>1 DEF GetProcsFails, making, widget, lists, locals, tableVars
<1>3. CASE AssignUngrouped(t)
  <2>1. pc' \in [Threads -> Working \cup {"off", "idle", "render"}]
    BY <1>3 DEF AssignUngrouped, Goto, Working
  <2>2. list' \in [Threads -> {"none", "grouped", "ungrouped"}]
    BY <1>3 DEF AssignUngrouped, Replaced
  <2>. QED
    BY <1>3, <1>0, <2>1, <2>2 DEF AssignUngrouped, making, widget, tableVars
<1>4. CASE AssignGrouped(t)
  <2>1. pc' \in [Threads -> Working \cup {"off", "idle", "render"}]
    BY <1>4 DEF AssignGrouped, Goto, Working
  <2>2. list' \in [Threads -> {"none", "grouped", "ungrouped"}]
    BY <1>4 DEF AssignGrouped, Replaced
  <2>3. procs' \in [Threads -> Seq(Process)] /\ \A u \in Threads : Short(procs'[u])
    BY <1>4, EmptyIsShort DEF AssignGrouped
  <2>4. groupedProcs' \in Seq(Group) /\ Short(groupedProcs')
    BY <1>4, GroupsAreGroups DEF AssignGrouped
  <2>. QED
    BY <1>4, <1>0, <2>1, <2>2, <2>3, <2>4 DEF AssignGrouped, making, widget, tableVars
<1>5. CASE BeginSort(t)
  <2>1. pc' \in [Threads -> Working \cup {"off", "idle", "render"}]
    BY <1>5 DEF BeginSort, Goto, Working
  <2>2. list' \in [Threads -> {"none", "grouped", "ungrouped"}]
    BY <1>5 DEF BeginSort, Field
  <2>. QED
    BY <1>5, <1>0, <2>1, <2>2 DEF BeginSort, making, widget, lists, tableVars
<1>6. CASE EndSort(t)
  <2>1. pc' \in [Threads -> Working \cup {"off", "idle", "render"}]
    BY <1>6 DEF EndSort, Goto, Working
  <2>2. list' \in [Threads -> {"none", "grouped", "ungrouped"}]
    BY <1>6 DEF EndSort
  <2>3. Result(t) \subseteq Torn(ListIn(list[t])) \cup Rearranged(ListIn(list[t]))
    BY DEF Result, Sorted
  <2>4. groupedProcs' \in Seq(Group) /\ Short(groupedProcs')
    <3>1. CASE list[t] = "grouped"
      <4>1. groupedProcs' \in Torn(groupedProcs) \cup Rearranged(groupedProcs)
        BY <1>6, <2>3, <3>1 DEF EndSort, ListIn
      <4>. QED
        BY <4>1, SortingKeepsElements DEF Short
    <3>2. CASE list[t] # "grouped"
      BY <1>6, <3>2 DEF EndSort
    <3>. QED
      BY <3>1, <3>2
  <2>5. ungroupedProcs' \in Seq(Process) /\ Short(ungroupedProcs')
    <3>1. CASE list[t] = "ungrouped"
      <4>1. ungroupedProcs' \in Torn(ungroupedProcs) \cup Rearranged(ungroupedProcs)
        BY <1>6, <2>3, <3>1 DEF EndSort, ListIn
      <4>. QED
        BY <4>1, SortingKeepsElements DEF Short
    <3>2. CASE list[t] # "ungrouped"
      BY <1>6, <3>2 DEF EndSort
    <3>. QED
      BY <3>1, <3>2
  <2>. QED
    BY <1>6, <1>0, <2>1, <2>2, <2>4, <2>5 DEF EndSort, making, widget, tableVars
<1>7. CASE Convert(t)
  <2>1. pc' \in [Threads -> Working \cup {"off", "idle", "render"}]
    BY <1>7 DEF Convert, Goto, Working
  <2>2. list' \in [Threads -> {"none", "grouped", "ungrouped"}]
    BY <1>7 DEF Convert, Field
  <2> DEFINE nils == [i \in DOMAIN ListIn(Field) |-> NilRow]
  <2>3. nils \in Seq(MadeRow) /\ Short(nils)
    <3>1. PICK n \in Nat : DOMAIN ListIn(Field) = 1 .. n /\ n \in Lengths
      BY DEF ListIn, Field, Short
    <3>2. nils \in [1 .. n -> MadeRow]
      BY <3>1 DEF MadeRow
    <3> HIDE DEF nils
    <3>. QED
      BY <3>1, <3>2 DEF Short
  <2>4. strings' \in [Threads -> Seq(MadeRow)] /\ \A u \in Threads : Short(strings'[u])
    <3>1. strings' = [strings EXCEPT ![t] = nils]
      BY <1>7 DEF Convert
    <3> HIDE DEF nils
    <3>. QED
      BY <2>3, <3>1
  <2>. QED
    BY <1>7, <1>0, <2>1, <2>2, <2>4 DEF Convert, widget, lists, tableVars
<1>8. CASE BeginRows(t)
  <2>1. pc' \in [Threads -> Working \cup {"off", "idle", "render"}]
    BY <1>8 DEF BeginRows, Goto, Working
  <2>2. limit' \in [Threads -> Lengths] /\ filled' \in [Threads -> Nat]
    BY <1>8 DEF BeginRows, ListIn, Short
  <2>. QED
    BY <1>8, <1>0, <2>1, <2>2 DEF BeginRows, widget, lists, tableVars
<1>9. CASE MakeRow(t)
  <2>1. pc' \in [Threads -> Working \cup {"off", "idle", "render"}]
    BY <1>9 DEF MakeRow, Goto, Working
  <2>2. /\ strings' \in [Threads -> Seq(MadeRow)] /\ \A u \in Threads : Short(strings'[u])
        /\ filled' \in [Threads -> Nat]
    <3> DEFINE now == ListIn(list[t])
               i == filled[t] + 1
               sources == IF pc[Other(t)] = "sorting" /\ list[Other(t)] = list[t] THEN Elements(now) ELSE {now[i]}
               inRange == i <= Len(strings[t]) /\ i <= Len(now)
    <3>1. CASE UNCHANGED <<strings, filled>>
      BY <3>1
    <3>2. CASE inRange /\ \E p \in sources : strings' = [strings EXCEPT ![t] = [@ EXCEPT ![i] = RowOf(p, showGroupedProcs)]]
      <4>1. PICK p \in sources : strings' = [strings EXCEPT ![t] = [strings[t] EXCEPT ![i] = RowOf(p, showGroupedProcs)]]
        BY <3>2
      <4>2. now \in Seq(Process \cup Group) /\ i \in 1 .. Len(now) /\ i \in Nat
        BY <3>2 DEF ListIn
      <4>3. p \in Process \cup Group
        BY <4>1, <4>2 DEF Elements
      <4>4. RowOf(p, showGroupedProcs) \in MadeRow
        BY <4>3, RowsAreMade
      <4>5. [strings[t] EXCEPT ![i] = RowOf(p, showGroupedProcs)] \in Seq(MadeRow)
            /\ Len([strings[t] EXCEPT ![i] = RowOf(p, showGroupedProcs)]) = Len(strings[t])
        <5> DEFINE made == [strings[t] EXCEPT ![i] = RowOf(p, showGroupedProcs)]
        <5>1. PICK n \in Nat : n = Len(strings[t]) /\ strings[t] \in [1 .. n -> MadeRow]
          OBVIOUS
        <5>2. made \in [1 .. n -> MadeRow]
          BY <4>4, <5>1
        <5> HIDE DEF made
        <5>3. made \in Seq(MadeRow) /\ Len(made) = n
          BY <5>2
        <5>. QED
          BY <5>1, <5>3 DEF made
      <4>6. filled' \in [Threads -> Nat]
        BY <1>9, <4>2 DEF MakeRow
      <4>. QED
        BY <4>1, <4>5, <4>6 DEF Short
    <3>. QED
      BY <1>9, <3>1, <3>2, Zenon DEF MakeRow
  <2>3. panicked' \in {"no", "convert", "draw", "kill"}
    BY <1>9 DEF MakeRow
  <2>. QED
    BY <1>9, <1>0, <2>1, <2>2, <2>3 DEF MakeRow, widget, lists, tableVars
<1>10. CASE Publish(t)
  <2>1. pc' \in [Threads -> Working \cup {"off", "idle", "render"}]
    BY <1>10 DEF Publish, Goto, AfterUpdate
  <2>2. /\ strings' \in [Threads -> Seq(MadeRow)] /\ \A u \in Threads : Short(strings'[u])
        /\ limit' \in [Threads -> Lengths] /\ filled' \in [Threads -> Nat]
        /\ list' \in [Threads -> {"none", "grouped", "ungrouped"}]
    BY <1>10, EmptyIsShort DEF Publish, Lengths
  <2>. QED
    BY <1>10, <1>0, <2>1, <2>2 DEF Publish, widget, lists
<1>. QED
  BY <1>1, <1>2, <1>3, <1>4, <1>5, <1>6, <1>7, <1>8, <1>9, <1>10, Zenon DEF UpdateStep

(* The other steps keep the types.                                         *)
LEMMA OthersKeepTypes ==
  ASSUME OwnTypeOK, Tick \/ Start \/ Render \/ DrawTick \/ SetColumn \/ GoTop \/ Handler
  PROVE  OwnTypeOK'
<1> USE DEF OwnTypeOK
<1>1. "ui" \in Threads /\ "ticker" \in Threads
  BY DEF Threads
<1>2. ASSUME NEW t \in Threads, NEW label \in {"totop", "get", "sort", "render", "idle"}, Goto(t, label),
             pc[t] # "column"
      PROVE  /\ pc' \in [Threads -> Working \cup {"off", "idle", "render"}]
             /\ pc'["ui"] # "column" => pc["ui"] # "column"
  BY <1>1, <1>2 DEF Goto, Working
<1>3. CASE Tick \/ DrawTick
  <2>1. /\ pc' \in [Threads -> Working \cup {"off", "idle", "render"}]
        /\ pc'["ui"] # "column" => pc["ui"] # "column"
    BY <1>1, <1>2, <1>3 DEF Tick, DrawTick
  <2>. QED
    BY <1>3, <2>1 DEF Tick, DrawTick, widget, lists, locals, making, tableVars
<1>4. CASE Start
  <2>1. /\ pc' \in [Threads -> Working \cup {"off", "idle", "render"}]
        /\ pc'["ui"] # "column" => pc["ui"] # "column"
    BY <1>1, <1>2, <1>4 DEF Start
  <2>. QED
    BY <1>4, <2>1 DEF Start, widget, lists, locals, making
<1>5. CASE Render
  <2>1. /\ pc' \in [Threads -> Working \cup {"off", "idle", "render"}]
        /\ pc'["ui"] # "column" => pc["ui"] # "column"
    BY <1>1, <1>2, <1>5 DEF Render
  <2>. QED
    BY <1>5, <2>1 DEF Render, widget, lists, locals, making
<1>6. CASE GoTop
  <2>1. /\ pc' \in [Threads -> Working \cup {"off", "idle", "render"}]
        /\ pc'["ui"] # "column" => pc["ui"] # "column"
    BY <1>1, <1>2, <1>6 DEF GoTop
  <2>. QED
    BY <1>6, <2>1 DEF GoTop, widget, lists, locals, making, Own
<1>7. ASSUME Event
      PROVE  /\ events' \in 0 .. MaxEvents /\ UNCHANGED <<lists, locals>>
             /\ pc["ui"] = "idle"
  BY <1>7, ProcAssumption DEF Event
<1>8. CASE ScrollKey \/ ResizeEvent
  <2>1. UniqueCol' = UniqueCol /\ Event /\ Goto("ui", "render") /\ UNCHANGED <<widget, panicked>>
    BY <1>8, Zenon DEF ScrollKey, ResizeEvent, Own
  <2>2. pc' \in [Threads -> Working \cup {"off", "idle", "render"}] /\ pc["ui"] # "column"
    BY <1>1, <1>2, <1>7, <2>1
  <2>. QED
    BY <1>7, <2>1, <2>2 DEF widget, lists, locals, making
<1>9. CASE ToggleShowingGroupedProcs
  <2>1. pc' \in [Threads -> Working \cup {"off", "idle", "render"}] /\ pc'["ui"] = "column"
    BY <1>1, <1>9 DEF ToggleShowingGroupedProcs, Goto, Working
  <2>2. events' \in 0 .. MaxEvents /\ UNCHANGED <<lists, locals>>
    BY <1>7, <1>9, Zenon DEF ToggleShowingGroupedProcs
  <2>. QED
    BY <1>9, <2>1, <2>2 DEF ToggleShowingGroupedProcs, lists, locals, making
<1>10. CASE ChangeProcSortMethod
  <2>1. events' \in 0 .. MaxEvents /\ UNCHANGED <<lists, locals>> /\ pc["ui"] # "column"
    BY <1>7, <1>10 DEF ChangeProcSortMethod
  <2>2. pc' \in [Threads -> Working \cup {"off", "idle", "render"}]
    BY <1>1, <1>2, <1>10, <2>1 DEF ChangeProcSortMethod
  <2>3. sortMethod' \in {"c", "m", "p", "n"}
    BY <1>10, ProcAssumption DEF ChangeProcSortMethod
  <2>. QED
    BY <1>10, <2>1, <2>2, <2>3 DEF ChangeProcSortMethod, tableVars, lists, locals, making
<1>11. CASE EditFilter \/ AcceptFilter
  <2>1. events' \in 0 .. MaxEvents /\ UNCHANGED <<lists, locals>> /\ pc["ui"] # "column"
    BY <1>7, <1>11 DEF EditFilter, AcceptFilter
  <2>2. pc' \in [Threads -> Working \cup {"off", "idle", "render"}]
    BY <1>1, <1>2, <1>11, <2>1 DEF EditFilter, AcceptFilter
  <2>3. editing' \in BOOLEAN /\ UNCHANGED <<tableVars, showGroupedProcs, sortMethod, filter, panicked>>
    BY <1>11 DEF EditFilter, AcceptFilter
  <2>. QED
    BY <2>1, <2>2, <2>3 DEF tableVars, lists, locals, making
<1>12. CASE TypeRune \/ Backspace \/ CancelFilter
  <2>1. events' \in 0 .. MaxEvents /\ UNCHANGED <<lists, locals>> /\ pc["ui"] # "column"
    BY <1>7, <1>12 DEF TypeRune, Backspace, CancelFilter
  <2>2. pc' \in [Threads -> Working \cup {"off", "idle", "render"}]
    BY <1>1, <1>2, <1>12, <2>1 DEF TypeRune, Backspace, CancelFilter
  <2>3. filter' \in Seq(Runes) /\ Len(filter') <= MaxFilter
    <3>1. CASE TypeRune
      BY <3>1, ProcAssumption DEF TypeRune
    <3>2. CASE Backspace
      BY <3>2, ProcAssumption DEF Backspace
    <3>3. CASE CancelFilter
      BY <3>3, ProcAssumption DEF CancelFilter
    <3>. QED
      BY <1>12, <3>1, <3>2, <3>3
  <2>4. editing' \in BOOLEAN /\ UNCHANGED <<tableVars, showGroupedProcs, sortMethod, panicked>>
    BY <1>12 DEF TypeRune, Backspace, CancelFilter
  <2>. QED
    BY <2>1, <2>2, <2>3, <2>4 DEF tableVars, lists, locals, making
<1>13. CASE KillProc
  <2>1. events' \in 0 .. MaxEvents /\ UNCHANGED <<lists, locals>>
    BY <1>7, <1>13, Zenon DEF KillProc
  <2>. QED
    BY <1>13, <2>1 DEF KillProc, widget, lists, locals, making
<1>14. CASE SetColumn
  <2>1. pc' \in [Threads -> Working \cup {"off", "idle", "render"}]
    BY <1>1, <1>14 DEF SetColumn, Goto, Working
  <2>. QED
    BY <1>14, <2>1 DEF SetColumn, widget, lists, locals, making
<1>. QED
  BY <1>3, <1>4, <1>5, <1>6, <1>8, <1>9, <1>10, <1>11, <1>12, <1>13, <1>14, Zenon DEF Handler

(* What a step does to the history: as long as no two updates overlap it   *)
(* is the reading of the step that reads, or becomes old when one fails.   *)
FetchedNext ==
    fetched' = IF \E t \in Threads : Fetches(t)
               THEN [procs |-> procs'[CHOOSE t \in Threads : Fetches(t)], fresh |-> TRUE]
               ELSE IF \E t \in Threads : Fails(t) THEN [fetched EXCEPT !.fresh = FALSE]
               ELSE fetched

LEMMA FetchedKeepsType ==
  ASSUME FetchedTypeOK, OwnTypeOK', Next
  PROVE  FetchedTypeOK'
<1>1. fetched' = NothingFetched \/ FetchedNext
  BY Zenon DEF Next, Running, FetchedNext
<1>2. CASE fetched' = NothingFetched
  BY <1>2 DEF FetchedTypeOK, NothingFetched
<1>3. CASE FetchedNext
  <2>1. (\E t \in Threads : Fetches(t)) => (CHOOSE t \in Threads : Fetches(t)) \in Threads
    BY Zenon
  <2>2. \A t \in Threads : procs'[t] \in Seq(Process)
    BY DEF OwnTypeOK
  <2>. QED
    BY <1>3, <2>1, <2>2 DEF FetchedNext, FetchedTypeOK
<1>. QED
  BY <1>1, <1>2, <1>3

(* The inductive invariant. The table's part is the invariant of           *)
(* Table.tla.                                                              *)
ProcInv == ProcTypeOK /\ TopRowNotNegative

(* The inductive invariant holds initially.                                *)
LEMMA ProcInvInit == Init => ProcInv
<1> SUFFICES ASSUME Init PROVE ProcInv
  OBVIOUS
<1>1. TableTypeOK /\ TopRowNotNegative
  BY InitRefines, TableInvInit DEF TableInv
<1>2. FetchedTypeOK
  BY DEF Init, NothingFetched, FetchedTypeOK
<1>. QED
  BY <1>1, <1>2, InitTyped, ProcTypes DEF ProcInv

(* The inductive invariant is kept by every step: the table's part because *)
(* a step of the widget is one of the table.                               *)
LEMMA ProcInvStep == ProcInv /\ [Next]_vars => ProcInv'
<1> SUFFICES ASSUME ProcInv, [Next]_vars PROVE ProcInv'
  OBVIOUS
<1>1. ProcTypeOK /\ TableInv /\ OwnTypeOK /\ FetchedTypeOK
  BY ProcTypes DEF ProcInv, TableInv
<1>2. TableInv'
  BY <1>1, StepRefines, TableInvStep
<1>3. OwnTypeOK'
  <2>1. CASE Next
    BY <1>1, <2>1, NextIs, UpdateKeepsTypes, OthersKeepTypes
  <2>2. CASE UNCHANGED vars
    BY <1>1, <2>2 DEF OwnTypeOK, vars, tableVars, widget, lists, locals, making
  <2>. QED
    BY <2>1, <2>2
<1>4. ProcTypeOK'
  <2>1. FetchedTypeOK'
    BY <1>1, <1>3, FetchedKeepsType DEF FetchedTypeOK, vars
  <2>. QED
    BY <1>2, <1>3, <2>1 DEF TableInv, OwnTypeOK, FetchedTypeOK, ProcTypeOK
<1>. QED
  BY <1>2, <1>4 DEF ProcInv, TableInv

(* The inductive invariant holds always.                                   *)
LEMMA ProcInvariant == Spec => []ProcInv
  BY ProcInvInit, ProcInvStep, PTL DEF Spec

(* Every variable of the widget and of its table keeps its type; above all *)
(* the unique column is that of the mode that is shown, and lists and rows *)
(* never outgrow the readings.                                             *)
THEOREM ProcTypeCorrect == Spec => []ProcTypeOK
  BY ProcInvariant, PTL DEF ProcInv

(* The process widget uses its table the way Table.tla says an owner may:  *)
(* the composition implements the specification of the table alone.        *)
THEOREM ImplementsTable == Spec => TableSpec
<1>1. ProcInv /\ [Next]_vars => [TableNext]_tableVars
  BY StepRefines DEF ProcInv
<1>. QED
  BY InitRefines, <1>1, ProcInvariant, PTL DEF Spec, TableSpec

(* So what is proved of the table alone holds of the table inside the      *)
(* widget: the refreshes, the filter and the keys never bring its window   *)
(* above the first row, and cursor operations and draws do to the cursor   *)
(* what they promise.                                                      *)
THEOREM WidgetScrolls ==
  Spec => []TopRowNotNegative /\ CursorOnARow /\ CursorInView /\ JumpsRecover /\ DrawFollowsItem
  BY ImplementsTable, TopRowStaysNotNegative, CursorEndsOnARow, CursorEndsInView, JumpsEndInView,
     DrawFollowsTheItem, PTL
-----------------------------------------------------------------------------
(* A draw that prints a row in the cursor colour ends with the cursor on a *)
(* row that shows the wanted item.                                         *)
LEMMA DrawnCursor ==
  ASSUME TableTypeOK, TopRowNotNegative, Draw, Marked # {}
  PROVE  SelectedRow' + 1 \in DOMAIN Rows /\ Key(SelectedRow') = Wanted
<1>1. TopRow >= 0
  BY DEF TopRowNotNegative
<1>2. PICK last \in Marked : SelectedRow' = last
  BY <1>1 DEF Draw, DrawCursor, TableTypeOK
<1>3. last \in View /\ Key(last) = Wanted
  BY <1>2 DEF Marked, Wanted
<1>4. last + 1 \in DOMAIN Rows
  BY <1>1, <1>3 DEF View, TableTypeOK
<1>. QED
  BY <1>2, <1>3, <1>4

(* Every step keeps a drawn cursor on the row a kill would take, or makes  *)
(* the drawing out of date.                                                *)
LEMMA CursorStep ==
  ASSUME ProcInv, CursorIsTarget, [Next]_vars
  PROVE  CursorIsTarget'
<1>1. TableTypeOK /\ TopRowNotNegative /\ pc \in [Threads -> Working \cup {"off", "idle", "render"}]
  BY DEF ProcInv, ProcTypeOK
<1>2. ASSUME UNCHANGED <<Rows, UniqueCol, SelectedRow, shown>>,
             pc'["ui"] = "idle" /\ ~stale' => pc["ui"] = "idle" /\ ~stale
      PROVE  CursorIsTarget'
  BY <1>2 DEF CursorIsTarget, Key
<1>3. ASSUME pc'["ui"] # "idle" PROVE CursorIsTarget'
  BY <1>3 DEF CursorIsTarget
<1>4. "ui" \in Threads /\ "ticker" \in Threads /\ \A t \in Threads : t = "ui" \/ t = "ticker"
  BY DEF Threads
<1>5. ASSUME NEW t \in Threads, NEW label, Goto(t, label), label # "idle" \/ t = "ticker"
      PROVE  pc'["ui"] = "idle" => pc["ui"] = "idle" /\ t = "ticker"
  BY <1>1, <1>4, <1>5 DEF Goto
<1>6. ASSUME NEW t \in Threads, UpdateStep(t), ~Publish(t) PROVE CursorIsTarget'
  <2>1. UNCHANGED <<tableVars, history>>
    BY <1>6, Zenon DEF UpdateStep, GetProcs, GetProcsFails, AssignUngrouped, AssignGrouped, BeginSort,
       EndSort, Convert, BeginRows, MakeRow
  <2>2. pc'["ui"] = "idle" => pc["ui"] = "idle"
    <3>1. \/ UNCHANGED pc
          \/ Goto(t, AfterUpdate(t))
          \/ \E label \in {"assignU", "assignG", "sort", "sorting", "convert", "range", "row", "publish"} : Goto(t, label)
      BY <1>6 DEF UpdateStep, GetProcs, GetProcsFails, AssignUngrouped, AssignGrouped, BeginSort,
       EndSort, Convert, BeginRows, MakeRow
    <3>. QED
      BY <1>5, <3>1, <1>4 DEF AfterUpdate
  <2>. QED
    BY <1>2, <2>1, <2>2 DEF tableVars, history
<1>7. ASSUME NEW t \in Threads, Publish(t) PROVE CursorIsTarget'
  BY <1>7 DEF Publish, CursorIsTarget
<1>8. CASE Tick
  BY <1>2, <1>5, <1>4, <1>8 DEF Tick, tableVars, history
<1>9. CASE Start
  BY <1>2, <1>5, <1>4, <1>9 DEF Start, cursor, history
<1>10. CASE Render
  <2>1. CASE Draw /\ shown' = (IF Marked = {} THEN NoItem ELSE Wanted) /\ UNCHANGED <<Rows, UniqueCol>>
    <3>1. CASE Marked = {}
      BY <2>1, <3>1 DEF CursorIsTarget
    <3>2. CASE Marked # {}
      BY <1>1, <2>1, <3>2, DrawnCursor DEF CursorIsTarget, Key
    <3>. QED
      BY <3>1, <3>2
  <2>2. CASE UNCHANGED pc
    BY <1>3, <1>10, <2>2 DEF Render
  <2>. QED
    BY <1>10, <2>1, <2>2 DEF Render
<1>11. CASE DrawTick \/ SetColumn \/ GoTop
  BY <1>3, <1>5, <1>4, <1>11 DEF DrawTick, SetColumn, GoTop
<1>12. CASE Handler /\ ~KillProc
  <2>1. \E label \in {"render", "column", "totop", "get"} : Goto("ui", label)
    BY <1>12 DEF Handler, ScrollKey, ResizeEvent, ToggleShowingGroupedProcs, ChangeProcSortMethod,
       EditFilter, TypeRune, Backspace, CancelFilter, AcceptFilter
  <2>. QED
    BY <1>3, <1>5, <1>4, <2>1
<1>13. CASE KillProc
  BY <1>2, <1>13 DEF KillProc, history
<1>14. CASE UNCHANGED vars
  BY <1>2, <1>14 DEF vars, tableVars, history
<1>. QED
  BY <1>6, <1>7, <1>8, <1>9, <1>10, <1>11, <1>12, <1>13, <1>14, NextIs

(* While the rows on the screen are the table's, a row in the cursor       *)
(* colour is the one a kill would take.                                    *)
THEOREM CursorStaysTarget == Spec => []CursorIsTarget
<1>1. Init => CursorIsTarget
  BY DEF Init, CursorIsTarget
<1>2. ProcInv /\ CursorIsTarget /\ [Next]_vars => CursorIsTarget'
  BY CursorStep
<1>. QED
  BY <1>1, <1>2, ProcInvariant, PTL DEF Spec
-----------------------------------------------------------------------------
(* A list is an arrangement of itself.                                     *)
LEMMA ArrangementOfItself ==
  ASSUME NEW S, NEW l \in Seq(S)
  PROVE  l \in Rearranged(l)
<1> DEFINE p == [i \in DOMAIN l |-> i]
<1>1. p \in [DOMAIN l -> DOMAIN l] /\ Elements(p) = DOMAIN l
  BY DEF Elements
<1>2. l = [i \in DOMAIN l |-> l[p[i]]]
  OBVIOUS
<1> HIDE DEF p
<1>. QED
  BY <1>1, <1>2 DEF Rearranged

(* An arrangement of a list has its length and its elements.               *)
LEMMA ArrangementIs ==
  ASSUME NEW l, NEW s \in Rearranged(l)
  PROVE  /\ DOMAIN s = DOMAIN l /\ Elements(s) = Elements(l)
         /\ \E p \in [DOMAIN l -> DOMAIN l] :
              /\ Elements(p) = DOMAIN l
              /\ s = [i \in DOMAIN l |-> l[p[i]]]
<1>1. PICK p \in [DOMAIN l -> DOMAIN l] :
        /\ Elements(p) = DOMAIN l
        /\ s = [i \in DOMAIN l |-> l[p[i]]]
  BY DEF Rearranged
<1>2. {p[i] : i \in DOMAIN l} = DOMAIN l
  BY <1>1 DEF Elements
<1>3. ASSUME NEW x \in Elements(l) PROVE x \in Elements(s)
  <2>1. PICK j \in DOMAIN l : x = l[j]
    BY DEF Elements
  <2>2. PICK i \in DOMAIN l : p[i] = j
    BY <1>2
  <2>. QED
    BY <1>1, <2>1, <2>2 DEF Elements
<1>4. Elements(s) \subseteq Elements(l)
  BY <1>1 DEF Elements
<1>. QED
  BY <1>1, <1>2, <1>3, <1>4

(* Sorting a list that was sorted before gives an arrangement of the       *)
(* first.                                                                  *)
LEMMA ArrangedTwice ==
  ASSUME NEW l, NEW s \in Rearranged(l), NEW r \in Rearranged(s)
  PROVE  r \in Rearranged(l)
<1>1. PICK p \in [DOMAIN l -> DOMAIN l] :
        /\ Elements(p) = DOMAIN l
        /\ s = [i \in DOMAIN l |-> l[p[i]]]
  BY ArrangementIs, Zenon
<1>2. PICK q \in [DOMAIN l -> DOMAIN l] :
        /\ Elements(q) = DOMAIN l
        /\ r = [i \in DOMAIN l |-> s[q[i]]]
  <2>1. DOMAIN s = DOMAIN l
    BY ArrangementIs, Zenon
  <2>2. \E q \in [DOMAIN s -> DOMAIN s] :
          /\ Elements(q) = DOMAIN s
          /\ r = [i \in DOMAIN s |-> s[q[i]]]
    BY DEF Rearranged
  <2>. QED
    BY <2>1, <2>2
<1> DEFINE pq == [i \in DOMAIN l |-> p[q[i]]]
<1>3. pq \in [DOMAIN l -> DOMAIN l] /\ r = [i \in DOMAIN l |-> l[pq[i]]]
  BY <1>1, <1>2
<1>4. Elements(pq) = DOMAIN l
  <2>1. ASSUME NEW x \in DOMAIN l PROVE \E i \in DOMAIN l : pq[i] = x
    <3>1. PICK j \in DOMAIN l : p[j] = x
      BY <1>1 DEF Elements
    <3>2. PICK i \in DOMAIN l : q[i] = j
      BY <1>2 DEF Elements
    <3>. QED
      BY <3>1, <3>2
  <2>. QED
    BY <1>3, <2>1 DEF Elements
<1> HIDE DEF pq
<1>. QED
  BY <1>3, <1>4 DEF Rearranged

(* The groups of a list, sorted, are still groups of the list.             *)
LEMMA ArrangedGroups ==
  ASSUME NEW l, NEW g \in groupProcs(l), NEW s \in Rearranged(g)
  PROVE  s \in groupProcs(l)
<1> DEFINE members(c) == {i \in DOMAIN l : l[i].CommandName = c}
           group(c) == [ Pid |-> Cardinality(members(c)),
                         CommandName |-> c,
                         FullCommand |-> NoItem,
                         CPU |-> SumFunctionOnSet([i \in DOMAIN l |-> l[i].CPU], members(c)),
                         Mem |-> SumFunctionOnSet([i \in DOMAIN l |-> l[i].Mem], members(c)) ]
           names == {p.CommandName : p \in Elements(l)}
           n == Cardinality(names)
           G == {group(c) : c \in names}
<1>1. groupProcs(l) = {t \in [1 .. n -> G] : Elements(t) = G}
  BY DEF groupProcs
<1> HIDE DEF n, G
<1>2. g \in [1 .. n -> G] /\ Elements(g) = G
  BY <1>1
<1>3. s \in [1 .. n -> G] /\ Elements(s) = G
  <2>1. DOMAIN s = 1 .. n /\ Elements(s) = G
    BY <1>2, ArrangementIs
  <2>2. PICK p \in [DOMAIN g -> DOMAIN g] : s = [i \in DOMAIN g |-> g[p[i]]]
    BY ArrangementIs, Zenon
  <2>. QED
    BY <1>2, <2>1, <2>2
<1>. QED
  BY <1>1, <1>3

(* A row that was made is not nil.                                         *)
LEMMA RowsAreNotNil == ASSUME NEW p, NEW grouped PROVE RowOf(p, grouped) # NilRow
<1>1. DOMAIN RowOf(p, grouped) = {0, 1}
  BY DEF RowOf, Cols
<1>2. DOMAIN NilRow = {}
  BY DEF NilRow
<1>. QED
  BY <1>1, <1>2
-----------------------------------------------------------------------------
(* The list fields hold the groups and the processes of the last reading,  *)
(* in some order, and Rows shows them.                                     *)
GroupsOfTheReading == groupedProcs \in groupProcs(fetched.procs)
ProcessesOfTheReading == ungroupedProcs \in Rearranged(fetched.procs)
TableOfTheReading == RowsFor(Rows, fetched.procs, showGroupedProcs, sortMethod)

(* The last reading, if none has failed since, is filtered by the filter   *)
(* of this moment.                                                         *)
FilteredNow == fetched.fresh => \E reading \in Readings : fetched.procs = filterProcs(reading, filter)

(* Sorted by the key of this moment; the rows of this moment's mode, all   *)
(* of them or the first k; the list of this moment's mode.                 *)
InOrderNow(l) ==
    \A i, j \in DOMAIN l : i < j => InOrder(sortMethod, showGroupedProcs, l[i], l[j])
RowsOf(l) == [i \in DOMAIN l |-> RowOf(l[i], showGroupedProcs)]
FirstRows(l, k) == [i \in DOMAIN l |-> IF i <= k THEN RowOf(l[i], showGroupedProcs) ELSE NilRow]
Current == ListIn(Field)

(* What the goroutine t has done of its update: it assigns what it has     *)
(* read, sorts what it will convert, into the order the rows will be in,   *)
(* and converts what is sorted.                                            *)
Progress(t) ==
    /\ pc[t] \in {"assignU", "assignG"} => procs[t] = fetched.procs
    /\ pc[t] = "sorting" => /\ list[t] = Field
                            /\ order[t] = [method |-> sortMethod, grouped |-> showGroupedProcs]
    /\ pc[t] \in {"convert", "range", "row", "publish"} => InOrderNow(Current)
    /\ pc[t] = "range" => list[t] = Field /\ strings[t] = FirstRows(Current, 0)
    /\ pc[t] = "row" => /\ list[t] = Field /\ strings[t] = FirstRows(Current, filled[t])
                        /\ limit[t] = Len(Current) /\ filled[t] < limit[t]
    /\ pc[t] = "publish" => strings[t] = RowsOf(Current)

(* The other goroutine is not in its update.                               *)
Alone(t) == pc[Other(t)] \notin Working

(* What holds as long as no two updates have overlapped. While the event   *)
(* loop goes to the top and sorts, or the ticker's update is under way,    *)
(* the table may still have the old order or an old reading.               *)
Undisturbed ==
    /\ pc["ui"] # "off" /\ pc["ticker"] # "render"
    /\ \E t \in Threads : Alone(t)
    /\ panicked \in {"no", "kill"}
    /\ (\A t \in Threads : pc[t] \notin {"assignU", "assignG"}) => GroupsOfTheReading
    /\ (\A t \in Threads : pc[t] # "assignU") => ProcessesOfTheReading
    /\ pc["ui"] # "get" => FilteredNow
    /\ \A t \in Threads : Progress(t)
    /\ pc["ui"] \in {"idle", "render", "get"} /\ pc["ticker"] \in {"off", "idle", "get"} => TableOfTheReading

UndisturbedInv == ~overlapped => Undisturbed

(* Nothing is the groups and the rows of nothing.                          *)
LEMMA NothingIsShown ==
  ASSUME NEW grouped, NEW m
  PROVE  << >> \in groupProcs(<< >>) /\ << >> \in Rearranged(<< >>) /\ RowsFor(<< >>, << >>, grouped, m)
<1>1. << >> \in groupProcs(<< >>)
  <2> DEFINE members(c) == {i \in DOMAIN << >> : << >>[i].CommandName = c}
             group(c) == [ Pid |-> Cardinality(members(c)),
                           CommandName |-> c,
                           FullCommand |-> NoItem,
                           CPU |-> SumFunctionOnSet([i \in DOMAIN << >> |-> << >>[i].CPU], members(c)),
                           Mem |-> SumFunctionOnSet([i \in DOMAIN << >> |-> << >>[i].Mem], members(c)) ]
             names == {p.CommandName : p \in Elements(<< >>)}
             n == Cardinality(names)
             G == {group(c) : c \in names}
  <2>1. groupProcs(<< >>) = {s \in [1 .. n -> G] : Elements(s) = G}
    BY DEF groupProcs
  <2>2. names = {} /\ n = 0
    BY FS_EmptySet DEF Elements
  <2>3. G = {}
    BY <2>2
  <2> HIDE DEF n, G
  <2>4. << >> \in [1 .. n -> G] /\ Elements(<< >>) = G
    BY <2>2, <2>3 DEF Elements
  <2>. QED
    BY <2>1, <2>4
<1>2. << >> \in Rearranged(<< >>)
  <2>1. << >> \in Seq({})
    OBVIOUS
  <2>. QED
    BY <2>1, ArrangementOfItself
<1>3. << >> \in Sorted(<< >>, m, grouped)
  BY <1>2 DEF Sorted
<1>4. << >> = [i \in DOMAIN << >> |-> RowOf(<< >>[i], grouped)]
  OBVIOUS
<1>. QED
  BY <1>1, <1>2, <1>3, <1>4 DEF RowsFor

(* The invariant holds when the constructor runs its first update.         *)
LEMMA UndisturbedInit == Init => Undisturbed
<1> SUFFICES ASSUME Init PROVE Undisturbed
  OBVIOUS
<1>1. /\ Rows = << >> /\ groupedProcs = << >> /\ ungroupedProcs = << >> /\ panicked = "no"
      /\ pc = [t \in Threads |-> IF t = "ui" THEN "get" ELSE "off"]
      /\ fetched.procs = << >>
  BY DEF Init, TableInit, NothingFetched
<1>2. "ui" \in Threads /\ "ticker" \in Threads /\ Other("ui") = "ticker"
  BY Others DEF Threads
<1>3. Alone("ui")
  BY <1>1, <1>2 DEF Alone, Working
<1>4. ASSUME NEW t \in Threads PROVE Progress(t)
  BY <1>1, <1>4 DEF Progress
<1>5. GroupsOfTheReading /\ ProcessesOfTheReading /\ TableOfTheReading
  BY <1>1, NothingIsShown DEF GroupsOfTheReading, ProcessesOfTheReading, TableOfTheReading
<1>. QED
  BY <1>1, <1>2, <1>3, <1>4, <1>5 DEF Undisturbed

(* Of two goroutines one is the one that steps, or the other.              *)
LEMMA TwoThreads ==
  /\ Threads = {"ui", "ticker"}
  /\ \A t \in Threads : Other(t) \in Threads /\ Other(t) # t
  /\ \A t, u \in Threads : u = t \/ u = Other(t)
  BY Others DEF Threads

(* A sorted list of this moment's mode gives the table of the reading.     *)
LEMMA SortedIsShown ==
  ASSUME NEW l, NEW c, c \in Rearranged(c),
         IF showGroupedProcs THEN c \in groupProcs(l) ELSE c \in Rearranged(l),
         InOrderNow(c)
  PROVE  RowsFor(RowsOf(c), l, showGroupedProcs, sortMethod)
<1>1. RowsOf(c) = [i \in DOMAIN c |-> RowOf(c[i], showGroupedProcs)]
  BY DEF RowsOf
<1>2. CASE showGroupedProcs
  <2>1. c \in groupProcs(l) /\ c \in Sorted(c, sortMethod, showGroupedProcs)
    BY <1>2 DEF Sorted, InOrderNow
  <2>. QED
    BY <1>1, <1>2, <2>1, Zenon DEF RowsFor
<1>3. CASE ~showGroupedProcs
  <2>1. c \in Sorted(l, sortMethod, showGroupedProcs)
    BY <1>3 DEF Sorted, InOrderNow
  <2>. QED
    BY <1>1, <1>3, <2>1, Zenon DEF RowsFor
<1>. QED
  BY <1>2, <1>3

(* A step of update keeps the invariant while the other goroutine is not   *)
(* in its update: what it has read, sorted, chosen and made is what it     *)
(* continues with, and what it assigns to Rows is its reading in the order *)
(* of this moment.                                                         *)
LEMMA UpdateStaysUndisturbed ==
  ASSUME ProcTypeOK, Undisturbed, NEW t \in Threads, UpdateStep(t), FetchedNext, panicked = "no"
  PROVE  Undisturbed'
<1>1. /\ pc \in [Threads -> Working \cup {"off", "idle", "render"}]
      /\ procs \in [Threads -> Seq(Process)] /\ list \in [Threads -> {"none", "grouped", "ungrouped"}]
      /\ strings \in [Threads -> Seq(MadeRow)] /\ limit \in [Threads -> Lengths] /\ filled \in [Threads -> Nat]
      /\ groupedProcs \in Seq(Group) /\ ungroupedProcs \in Seq(Process)
      /\ fetched \in [procs : Seq(Process), fresh : BOOLEAN]
      /\ \A u \in Threads : Progress(u)
  BY DEF ProcTypeOK, Undisturbed
<1>2. pc[t] \in Working
  BY DEF UpdateStep, GetProcs, GetProcsFails, AssignUngrouped, AssignGrouped, BeginSort,
     EndSort, Convert, BeginRows, MakeRow, Publish, Working
<1>3. Alone(t)
  BY <1>2, TwoThreads DEF Undisturbed, Alone
<1>4. \/ UNCHANGED pc
      \/ \E label : Goto(t, label)
  BY Zenon DEF UpdateStep, GetProcs, GetProcsFails, AssignUngrouped, AssignGrouped, BeginSort,
     EndSort, Convert, BeginRows, MakeRow, Publish
<1>5. pc'[Other(t)] = pc[Other(t)] /\ pc[Other(t)] \notin Working
  BY <1>1, <1>3, <1>4, TwoThreads DEF Goto, Alone
<1>6. Alone(t)'
  BY <1>5 DEF Alone
<1>7. Progress(Other(t))'
  BY <1>5 DEF Progress, Working
<1>8. UNCHANGED <<showGroupedProcs, sortMethod, filter>>
  BY DEF UpdateStep, GetProcs, GetProcsFails, AssignUngrouped, AssignGrouped, BeginSort,
     EndSort, Convert, BeginRows, MakeRow, Publish, widget
<1>9. \A u \in Threads : u # t => pc[u] \notin Working /\ pc'[u] \notin Working
  BY <1>5, TwoThreads
(* The steps after the reading leave the history alone.                    *)
<1>10. ASSUME pc[t] # "get" PROVE fetched' = fetched
  <2>1. \A u \in Threads : pc[u] # "get"
    BY <1>9, <1>10 DEF Working
  <2>. QED
    BY <2>1 DEF FetchedNext, Fetches, Fails
<1>11. ASSUME NEW label, Goto(t, label) PROVE pc'[t] = label
  BY <1>1, <1>11 DEF Goto
<1>12. Current \in Rearranged(Current) /\ DOMAIN Current = 1 .. Len(Current) /\ Len(Current) \in Nat
  <2>1. Current \in Seq(Process \cup Group)
    BY <1>1 DEF Current, ListIn
  <2>. QED
    BY <2>1, ArrangementOfItself
(* What is left to show of a step, the parts that steps leave alone first. *)
<1>13. ASSUME Progress(t)', panicked' \in {"no", "kill"},
              pc'[t] \notin {"assignU", "assignG"} => GroupsOfTheReading',
              pc'[t] # "assignU" => ProcessesOfTheReading',
              FilteredNow',
              pc'[t] \in {"idle", "render", "get"} => TableOfTheReading'
       PROVE  Undisturbed'
  <2>1. \A u \in Threads : Progress(u)'
    BY <1>7, <1>13, TwoThreads, Zenon
  <2>2. pc'["ui"] \in {"idle", "render", "get"} /\ pc'["ticker"] \in {"off", "idle", "get"} => TableOfTheReading'
    <3>1. CASE t = "ui"
      BY <1>13, <3>1
    <3>2. CASE t = "ticker"
      <4>1. pc'["ticker"] # "off"
        BY <1>1, <1>4, <1>2, <3>2 DEF Goto, UpdateStep, GetProcs, GetProcsFails, AssignUngrouped, AssignGrouped,
           BeginSort, EndSort, Convert, BeginRows, MakeRow, Publish, AfterUpdate, Working
      <4>. QED
        BY <1>13, <3>2, <4>1
    <3>. QED
      BY <3>1, <3>2, TwoThreads
  <2>3. pc'["ui"] # "off" /\ pc'["ticker"] # "render"
    <3>1. UNCHANGED pc \/ Goto(t, AfterUpdate(t)) \/ \E label \in Working : Goto(t, label)
      BY DEF UpdateStep, GetProcs, GetProcsFails, AssignUngrouped, AssignGrouped, BeginSort,
         EndSort, Convert, BeginRows, MakeRow, Publish, Working
    <3>2. pc["ui"] # "off" /\ pc["ticker"] # "render"
      BY DEF Undisturbed
    <3>. QED
      BY <1>1, <3>1, <3>2, TwoThreads DEF Goto, AfterUpdate, Working
  <2>. QED
    BY <1>6, <1>13, <2>1, <2>2, <2>3 DEF Undisturbed
<1>14. ASSUME pc[t] # "get" PROVE FilteredNow'
  <2>1. pc["ui"] # "get"
    BY <1>9, <1>14, TwoThreads DEF Working
  <2>2. fetched' = fetched
    BY <1>10, <1>14
  <2>. QED
    BY <1>8, <2>1, <2>2 DEF FilteredNow, Undisturbed
<1>15. /\ pc[t] \notin {"assignU", "assignG"} => GroupsOfTheReading
       /\ pc[t] # "assignU" => ProcessesOfTheReading
  <2>1. \A u \in Threads : u # t => pc[u] \notin {"assignU", "assignG"}
    BY <1>9 DEF Working
  <2>. QED
    BY <2>1 DEF Undisturbed
<1>16. ASSUME UNCHANGED <<groupedProcs, ungroupedProcs>>, pc[t] \notin {"get", "assignU", "assignG"}
       PROVE  GroupsOfTheReading' /\ ProcessesOfTheReading'
  BY <1>10, <1>15, <1>16 DEF GroupsOfTheReading, ProcessesOfTheReading
<1>17. ASSUME UNCHANGED <<groupedProcs, ungroupedProcs>>
       PROVE  /\ Current' = Current /\ Field' = Field /\ RowsOf(Current)' = RowsOf(Current)
              /\ \A k : FirstRows(Current, k)' = FirstRows(Current, k)
              /\ InOrderNow(Current) => InOrderNow(Current)'
  <2>1. Current' = Current /\ Field' = Field
    BY <1>8, <1>17 DEF Current, ListIn, Field
  <2>2. InOrderNow(Current) => InOrderNow(Current)'
    BY <1>8, <2>1 DEF InOrderNow, InOrder
  <2>3. RowsOf(Current)' = RowsOf(Current) /\ \A k : FirstRows(Current, k)' = FirstRows(Current, k)
    BY <1>8, <2>1 DEF RowsOf, FirstRows, RowOf
  <2>. QED
    BY <2>1, <2>2, <2>3
<1>18. CASE GetProcs(t)
  <2>1. PICK reading \in Readings : procs' = [procs EXCEPT ![t] = filterProcs(reading, filter)]
    BY <1>18 DEF GetProcs
  <2>2. pc[t] = "get" /\ pc'[t] = "assignU" /\ procs'[t] = filterProcs(reading, filter)
    BY <1>1, <1>11, <1>18, <2>1 DEF GetProcs
  <2>3. fetched' = [procs |-> filterProcs(reading, filter), fresh |-> TRUE]
    <3>1. \A u \in Threads : Fetches(u) <=> u = t
      BY <1>9, <2>2 DEF Fetches, Working
    <3>2. (CHOOSE u \in Threads : Fetches(u)) = t
      BY <3>1
    <3>. QED
      BY <2>2, <3>1, <3>2 DEF FetchedNext
  <2>4. Progress(t)'
    BY <2>2, <2>3 DEF Progress
  <2>5. FilteredNow'
    BY <1>8, <2>3 DEF FilteredNow
  <2>6. UNCHANGED panicked
    BY <1>18 DEF GetProcs
  <2>. QED
    BY <1>13, <2>2, <2>4, <2>5, <2>6
<1>19. CASE GetProcsFails(t)
  <2>1. pc[t] = "get" /\ pc'[t] \in {"render", "idle"}
    BY <1>11, <1>19 DEF GetProcsFails, AfterUpdate
  <2>2. fetched' = [fetched EXCEPT !.fresh = FALSE]
    <3>1. (\A u \in Threads : ~Fetches(u)) /\ Fails(t)
      BY <1>9, <2>1 DEF Fetches, Fails, Working
    <3>. QED
      BY <3>1 DEF FetchedNext
  <2>3. fetched'.procs = fetched.procs /\ ~fetched'.fresh
    BY <1>1, <2>2
  <2>4. Progress(t)' /\ FilteredNow'
    BY <2>1, <2>3 DEF Progress, FilteredNow
  <2>5. UNCHANGED <<Rows, groupedProcs, ungroupedProcs, panicked>>
    BY <1>19 DEF GetProcsFails, tableVars, lists
  <2>6. GroupsOfTheReading' /\ ProcessesOfTheReading'
    BY <1>15, <2>1, <2>3, <2>5 DEF GroupsOfTheReading, ProcessesOfTheReading
  <2>7. TableOfTheReading'
    <3>1. pc["ui"] \in {"idle", "render", "get"} /\ pc["ticker"] \in {"off", "idle", "get"}
      BY <1>1, <1>9, <2>1, TwoThreads DEF Working, Undisturbed
    <3>2. TableOfTheReading
      BY <3>1 DEF Undisturbed
    <3>. QED
      BY <1>8, <2>3, <2>5, <3>2 DEF TableOfTheReading, RowsFor, Sorted
  <2>. QED
    BY <1>13, <2>1, <2>4, <2>5, <2>6, <2>7 DEF Undisturbed
<1>20. CASE AssignUngrouped(t)
  <2>1. pc[t] = "assignU" /\ pc'[t] = "assignG" /\ procs[t] = fetched.procs
    BY <1>1, <1>11, <1>20 DEF Progress, AssignUngrouped
  <2>2. UNCHANGED <<panicked, procs>> /\ ungroupedProcs' = procs[t] /\ fetched' = fetched
    BY <1>10, <1>20, <2>1 DEF AssignUngrouped
  <2>3. Progress(t)'
    BY <2>1, <2>2 DEF Progress
  <2>4. ProcessesOfTheReading'
    <3>1. procs[t] \in Rearranged(procs[t])
      BY <1>1, ArrangementOfItself
    <3>. QED
      BY <2>1, <2>2, <3>1 DEF ProcessesOfTheReading
  <2>. QED
    BY <1>13, <1>14, <2>1, <2>2, <2>3, <2>4 DEF Undisturbed
<1>21. CASE AssignGrouped(t)
  <2>1. pc[t] = "assignG" /\ pc'[t] = "sort" /\ procs[t] = fetched.procs
    BY <1>1, <1>11, <1>21 DEF Progress, AssignGrouped
  <2>2. UNCHANGED <<ungroupedProcs, panicked>> /\ groupedProcs' \in groupProcs(procs[t]) /\ fetched' = fetched
    BY <1>10, <1>21, <2>1 DEF AssignGrouped
  <2>3. Progress(t)'
    BY <2>1 DEF Progress
  <2>4. GroupsOfTheReading' /\ ProcessesOfTheReading'
    BY <1>15, <2>1, <2>2 DEF GroupsOfTheReading, ProcessesOfTheReading
  <2>. QED
    BY <1>13, <1>14, <2>1, <2>2, <2>3, <2>4 DEF Undisturbed
<1>22. CASE BeginSort(t)
  <2>1. /\ pc[t] = "sort" /\ UNCHANGED <<groupedProcs, ungroupedProcs, panicked>> /\ pc'[t] = "sorting"
        /\ list'[t] = Field
    BY <1>1, <1>11, <1>22 DEF BeginSort, lists
  <2>2. order'[t] = [method |-> sortMethod, grouped |-> showGroupedProcs]
    <3>1. pc[Other(t)] # "sorting"
      BY <1>5 DEF Working
    <3>. QED
      BY <1>22, <3>1 DEF BeginSort
  <2>3. Progress(t)'
    BY <1>8, <1>17, <2>1, <2>2 DEF Progress
  <2>. QED
    BY <1>13, <1>14, <1>16, <2>1, <2>3 DEF Undisturbed
<1>23. CASE EndSort(t)
  <2>1. pc[t] = "sorting" /\ pc'[t] = "convert" /\ UNCHANGED panicked /\ fetched' = fetched
    BY <1>10, <1>11, <1>23 DEF EndSort
  <2>2. list[t] = Field /\ order[t] = [method |-> sortMethod, grouped |-> showGroupedProcs]
    BY <1>1, <2>1 DEF Progress
  <2>3. Result(t) = Sorted(Current, sortMethod, showGroupedProcs)
    BY <2>2 DEF Result, Current, ProcTypeOK
  <2>4. Current' \in Sorted(Current, sortMethod, showGroupedProcs)
    BY <1>8, <1>23, <2>2, <2>3 DEF EndSort, Current, Field, ListIn
  <2>5. GroupsOfTheReading'
    <3>1. UNCHANGED groupedProcs \/ groupedProcs' \in Rearranged(groupedProcs)
      BY <1>23, <2>2, <2>3 DEF EndSort, Current, Field, ListIn, Sorted
    <3>2. groupedProcs \in groupProcs(fetched.procs)
      BY <1>15, <2>1 DEF GroupsOfTheReading
    <3>. QED
      BY <2>1, <3>1, <3>2, ArrangedGroups DEF GroupsOfTheReading
  <2>6. ProcessesOfTheReading'
    <3>1. UNCHANGED ungroupedProcs \/ ungroupedProcs' \in Rearranged(ungroupedProcs)
      BY <1>23, <2>2, <2>3 DEF EndSort, Current, Field, ListIn, Sorted
    <3>2. ungroupedProcs \in Rearranged(fetched.procs)
      BY <1>15, <2>1 DEF ProcessesOfTheReading
    <3>. QED
      BY <2>1, <3>1, <3>2, ArrangedTwice DEF ProcessesOfTheReading
  <2>7. InOrderNow(Current)'
    BY <1>8, <2>4 DEF InOrderNow, InOrder, Sorted
  <2>8. Progress(t)'
    BY <2>1, <2>7 DEF Progress
  <2>. QED
    BY <1>13, <1>14, <2>1, <2>5, <2>6, <2>8 DEF Undisturbed
<1>24. CASE Convert(t)
  <2>1. /\ pc[t] = "convert" /\ pc'[t] = "range" /\ UNCHANGED <<panicked, groupedProcs, ungroupedProcs>>
        /\ list'[t] = Field
        /\ strings'[t] = [i \in DOMAIN Current |-> NilRow]
    BY <1>1, <1>11, <1>24 DEF Convert, lists, Current
  <2>2. InOrderNow(Current)' /\ FirstRows(Current, 0)' = FirstRows(Current, 0) /\ Field' = Field
    BY <1>1, <1>17, <2>1 DEF Progress
  <2>3. strings'[t] = FirstRows(Current, 0)
    BY <1>12, <2>1 DEF FirstRows
  <2>4. Progress(t)'
    BY <2>1, <2>2, <2>3 DEF Progress
  <2>. QED
    BY <1>13, <1>14, <1>16, <2>1, <2>4 DEF Undisturbed
<1>25. CASE BeginRows(t)
  <2>1. /\ pc[t] = "range" /\ UNCHANGED <<panicked, groupedProcs, ungroupedProcs, list, strings>>
        /\ limit'[t] = Len(ListIn(list[t])) /\ filled'[t] = 0
        /\ pc'[t] = IF limit'[t] = 0 THEN "publish" ELSE "row"
    BY <1>1, <1>11, <1>25 DEF BeginRows, lists
  <2>2. list[t] = Field /\ strings[t] = FirstRows(Current, 0) /\ InOrderNow(Current)
    BY <1>1, <2>1 DEF Progress
  <2>3. /\ Current' = Current /\ Field' = Field /\ RowsOf(Current)' = RowsOf(Current)
        /\ FirstRows(Current, 0)' = FirstRows(Current, 0) /\ InOrderNow(Current)'
    BY <1>17, <2>1, <2>2
  <2>4. limit'[t] = Len(Current)
    BY <2>1, <2>2 DEF Current
  <2>5. CASE limit'[t] = 0
    <3>1. strings[t] = RowsOf(Current)
      BY <1>12, <2>2, <2>4, <2>5 DEF FirstRows, RowsOf
    <3>. QED
      BY <1>13, <1>14, <1>16, <2>1, <2>3, <2>5, <3>1 DEF Undisturbed, Progress
  <2>6. CASE limit'[t] # 0
    <3>1. filled'[t] < limit'[t]
      BY <1>12, <2>1, <2>4, <2>6
    <3>2. strings'[t] = FirstRows(Current, filled[t])'
      <4>1. FirstRows(Current, filled[t])' = FirstRows(Current, 0)'
        BY <2>1 DEF FirstRows
      <4>. QED
        BY <2>1, <2>2, <2>3, <4>1
    <3>3. Progress(t)'
      BY <2>1, <2>2, <2>3, <2>4, <2>6, <3>1, <3>2 DEF Progress
    <3>. QED
      BY <1>13, <1>14, <1>16, <2>1, <2>6, <3>3 DEF Undisturbed
  <2>. QED
    BY <2>5, <2>6
<1>26. CASE MakeRow(t)
  <2>1. pc[t] = "row" /\ UNCHANGED <<groupedProcs, ungroupedProcs, list, limit>>
    BY <1>26 DEF MakeRow, lists
  <2>2. /\ list[t] = Field /\ strings[t] = FirstRows(Current, filled[t]) /\ InOrderNow(Current)
        /\ limit[t] = Len(Current) /\ filled[t] < limit[t] /\ filled[t] \in Nat
    BY <1>1, <2>1 DEF Progress
  <2>3. PICK k \in 1 .. Len(Current) : k = filled[t] + 1
    BY <1>12, <2>2
  <2>4. strings[t] = [i \in 1 .. Len(Current) |-> IF i <= filled[t] THEN RowOf(Current[i], showGroupedProcs) ELSE NilRow]
    BY <1>12, <2>2 DEF FirstRows
  <2>5. Len(strings[t]) = Len(Current)
    BY <1>12, <2>4
  <2>6. ~ (pc[Other(t)] = "sorting" /\ list[Other(t)] = list[t]) /\ ListIn(list[t]) = Current
    BY <1>5, <2>2 DEF Working, Current
  <2>7. /\ strings' = [strings EXCEPT ![t] = [strings[t] EXCEPT ![k] = RowOf(Current[k], showGroupedProcs)]]
        /\ filled' = [filled EXCEPT ![t] = k]
        /\ Goto(t, IF k = limit[t] THEN "publish" ELSE "row")
        /\ UNCHANGED panicked
    BY <1>26, <1>12, <2>3, <2>5, <2>6 DEF MakeRow
  <2>8. filled'[t] = k /\ pc'[t] = (IF k = limit[t] THEN "publish" ELSE "row")
    BY <1>1, <1>11, <2>7
  <2>9. strings'[t] = FirstRows(Current, k)
    <3>1. strings'[t] = [strings[t] EXCEPT ![k] = RowOf(Current[k], showGroupedProcs)]
      BY <1>1, <2>7
    <3>2. FirstRows(Current, k) = [i \in 1 .. Len(Current) |-> IF i <= k THEN RowOf(Current[i], showGroupedProcs) ELSE NilRow]
      BY <1>12 DEF FirstRows
    <3>3. \A i \in 1 .. Len(Current) : i <= k <=> i <= filled[t] \/ i = k
      BY <1>12, <2>2, <2>3
    <3>. QED
      BY <2>4, <3>1, <3>2, <3>3
  <2>10. /\ Current' = Current /\ Field' = Field /\ RowsOf(Current)' = RowsOf(Current)
         /\ FirstRows(Current, k)' = FirstRows(Current, k) /\ InOrderNow(Current)'
    BY <1>17, <2>1, <2>2
  <2>11. CASE k = limit[t]
    <3>1. FirstRows(Current, k) = RowsOf(Current)
      BY <1>12, <2>2, <2>11 DEF FirstRows, RowsOf
    <3>2. Progress(t)'
      BY <2>8, <2>9, <2>10, <2>11, <3>1 DEF Progress
    <3>. QED
      BY <1>13, <1>14, <1>16, <2>1, <2>7, <2>8, <2>11, <3>2 DEF Undisturbed
  <2>12. CASE k # limit[t]
    <3>1. strings'[t] = FirstRows(Current, filled[t])'
      <4>1. FirstRows(Current, filled[t])' = FirstRows(Current, k)'
        BY <2>8 DEF FirstRows
      <4>. QED
        BY <2>9, <2>10, <4>1
    <3>2. list'[t] = Field' /\ limit'[t] = Len(Current') /\ filled'[t] < limit'[t]
      BY <1>12, <2>1, <2>2, <2>8, <2>10, <2>12
    <3>3. Progress(t)'
      BY <2>8, <2>10, <2>12, <3>1, <3>2 DEF Progress
    <3>. QED
      BY <1>13, <1>14, <1>16, <2>1, <2>7, <2>8, <2>12, <3>3 DEF Undisturbed
  <2>. QED
    BY <2>11, <2>12
<1>27. CASE Publish(t)
  <2>1. /\ pc[t] = "publish" /\ Rows' = strings[t] /\ UNCHANGED <<groupedProcs, ungroupedProcs, panicked>>
        /\ pc'[t] \in {"render", "idle"}
    BY <1>11, <1>27 DEF Publish, lists, AfterUpdate
  <2>2. strings[t] = RowsOf(Current) /\ InOrderNow(Current) /\ fetched' = fetched
    BY <1>1, <1>10, <2>1 DEF Progress
  <2>3. Progress(t)'
    BY <2>1 DEF Progress
  <2>4. IF showGroupedProcs THEN Current \in groupProcs(fetched.procs) ELSE Current \in Rearranged(fetched.procs)
    BY <1>15, <2>1 DEF Current, ListIn, Field, GroupsOfTheReading, ProcessesOfTheReading
  <2>5. RowsFor(RowsOf(Current), fetched.procs, showGroupedProcs, sortMethod)
    BY <1>12, <2>2, <2>4, SortedIsShown
  <2>6. TableOfTheReading'
    BY <1>8, <2>1, <2>2, <2>5 DEF TableOfTheReading, RowsFor, Sorted
  <2>. QED
    BY <1>13, <1>14, <1>16, <2>1, <2>3, <2>6 DEF Undisturbed
<1>. QED
  BY <1>18, <1>19, <1>20, <1>21, <1>22, <1>23, <1>24, <1>25, <1>26, <1>27, Zenon DEF UpdateStep

(* The other steps keep the invariant as long as they do not begin an      *)
(* overlap: a draw finds no nil row, and a key that changes the mode, the  *)
(* order or the filter finds the ticker outside of its update.             *)
LEMMA OthersStayUndisturbed ==
  ASSUME ProcInv, Undisturbed, panicked = "no", FetchedNext,
         Tick \/ Start \/ Render \/ DrawTick \/ SetColumn \/ GoTop \/ Handler,
         ~ \A t \in Threads : pc'[t] \in Working
  PROVE  Undisturbed'
<1>1. /\ pc \in [Threads -> Working \cup {"off", "idle", "render"}]
      /\ \A u \in Threads : Progress(u)
  BY DEF ProcInv, ProcTypeOK, Undisturbed
<1>2. /\ "ui" \in Threads /\ "ticker" \in Threads /\ Other("ui") = "ticker" /\ Other("ticker") = "ui"
      /\ \A t \in Threads : t = "ui" \/ t = "ticker"
  BY Others DEF Threads
<1>3. UNCHANGED <<lists, locals>>
  BY Zenon DEF Tick, Start, Render, DrawTick, SetColumn, GoTop, Handler, ScrollKey, ResizeEvent,
     ToggleShowingGroupedProcs, ChangeProcSortMethod, EditFilter, TypeRune, Backspace, CancelFilter,
     AcceptFilter, KillProc, Event
<1>4. \E t \in Threads : Alone(t)'
  BY <1>2 DEF Alone
(* Of such a step, the goroutine t that takes it and where it goes.        *)
<1>5. \E t \in Threads : /\ pc[t] \in {"off", "idle", "render", "column", "totop"}
                         /\ \E label \in {"column", "totop", "get", "sort", "render", "idle"} :
                              Goto(t, label) /\ (t = "ticker" => label # "render")
  <2>1. CASE Tick
    BY <1>2, <2>1 DEF Tick
  <2>2. CASE Start
    BY <1>2, <2>2 DEF Start
  <2>3. CASE Render \/ DrawTick
    <3>1. pc["ui"] \in {"idle", "render"} /\ (Goto("ui", "idle") \/ Goto("ui", "render"))
      BY <1>1, <1>2, <2>3 DEF Render, DrawTick, Goto
    <3>. QED
      BY <1>2, <3>1
  <2>4. CASE SetColumn \/ GoTop
    BY <1>2, <2>4 DEF SetColumn, GoTop
  <2>5. CASE Handler
    <3>1. pc["ui"] = "idle"
      BY <2>5 DEF Handler, ScrollKey, ResizeEvent, ToggleShowingGroupedProcs, ChangeProcSortMethod,
         EditFilter, TypeRune, Backspace, CancelFilter, AcceptFilter, KillProc, Event
    <3>2. UNCHANGED pc \/ \E label \in {"column", "totop", "get", "render"} : Goto("ui", label)
      BY <2>5 DEF Handler, ScrollKey, ResizeEvent, ToggleShowingGroupedProcs, ChangeProcSortMethod,
         EditFilter, TypeRune, Backspace, CancelFilter, AcceptFilter, KillProc
    <3>3. UNCHANGED pc => Goto("ui", "idle")
      BY <1>1, <3>1 DEF Goto
    <3>. QED
      BY <1>2, <3>1, <3>2, <3>3
  <2>. QED
    BY <2>1, <2>2, <2>3, <2>4, <2>5
<1>6. \A u \in Threads : /\ pc[u] \in {"off", "idle", "render", "column", "totop"} \/ pc'[u] = pc[u]
                         /\ pc'[u] \in {"column", "totop", "get", "sort", "render", "idle"} \/ pc'[u] = pc[u]
  BY <1>1, <1>5 DEF Goto
<1>7. fetched' = fetched
  BY <1>6 DEF FetchedNext, Fetches, Fails
<1>8. /\ (\A t \in Threads : pc'[t] \notin {"assignU", "assignG"}) => GroupsOfTheReading'
      /\ (\A t \in Threads : pc'[t] # "assignU") => ProcessesOfTheReading'
  <2>1. /\ (\A t \in Threads : pc'[t] \notin {"assignU", "assignG"}) => GroupsOfTheReading
        /\ (\A t \in Threads : pc'[t] # "assignU") => ProcessesOfTheReading
    BY <1>6 DEF Undisturbed
  <2>. QED
    BY <1>3, <1>7, <2>1 DEF GroupsOfTheReading, ProcessesOfTheReading, lists
(* What a goroutine has done stands, or it is at none of these steps.      *)
<1>9. ASSUME UNCHANGED <<showGroupedProcs, sortMethod>>
      PROVE  \A u \in Threads : Progress(u)'
  <2> SUFFICES ASSUME NEW u \in Threads PROVE Progress(u)'
    OBVIOUS
  <2>1. CASE pc'[u] \in {"column", "totop", "get", "sort", "render", "idle"}
    BY <2>1 DEF Progress
  <2>2. CASE pc'[u] = pc[u]
    <3>1. UNCHANGED <<procs, list, order, strings, limit, filled, groupedProcs, ungroupedProcs>>
      BY <1>3 DEF lists, locals, making
    <3>2. /\ InOrderNow(Current)' = InOrderNow(Current) /\ RowsOf(Current)' = RowsOf(Current) /\ Current' = Current
          /\ Field' = Field /\ FirstRows(Current, 0)' = FirstRows(Current, 0)
          /\ FirstRows(Current, filled[u])' = FirstRows(Current, filled[u])
      BY <1>9, <3>1 DEF InOrderNow, InOrder, RowsOf, FirstRows, RowOf, Current, ListIn, Field
    <3>3. Progress(u)
      BY <1>1
    <3>. QED
      BY <1>7, <1>9, <2>2, <3>1, <3>2, <3>3 DEF Progress
  <2>. QED
    BY <1>6, <2>1, <2>2
<1>10. ASSUME UNCHANGED <<Rows, showGroupedProcs, sortMethod>> PROVE TableOfTheReading' = TableOfTheReading
  BY <1>7, <1>10 DEF TableOfTheReading, RowsFor, Sorted
<1>11. ASSUME UNCHANGED filter PROVE FilteredNow' = FilteredNow
  BY <1>7, <1>11 DEF FilteredNow
<1>12. /\ pc'["ui"] # "get" => pc["ui"] # "get"
       /\ pc'["ui"] # "off" /\ pc'["ticker"] # "render"
  <2>1. pc'["ui"] # "off" /\ pc'["ticker"] # "render"
    BY <1>1, <1>2, <1>5 DEF Goto, Undisturbed
  <2>. QED
    BY <1>2, <1>6, <2>1
(* Steps that leave the rows, the mode and the order, and lead nowhere     *)
(* where the table is to be that of the reading and was not before.        *)
<1>13. ASSUME panicked' \in {"no", "kill"}, UNCHANGED <<Rows, showGroupedProcs, sortMethod>>,
              UNCHANGED filter \/ pc'["ui"] = "get",
              pc'["ui"] \in {"idle", "render", "get"} => pc["ui"] \in {"idle", "render", "get"},
              pc'["ticker"] \in {"off", "idle", "get"} => pc["ticker"] \in {"off", "idle", "get"}
       PROVE  Undisturbed'
  BY <1>4, <1>8, <1>9, <1>10, <1>11, <1>12, <1>13 DEF Undisturbed
<1>14. CASE Tick
  <2>1. /\ pc["ticker"] = "idle" /\ Goto("ticker", "get")
        /\ UNCHANGED <<Rows, showGroupedProcs, sortMethod, filter, panicked>>
    BY <1>14 DEF Tick, tableVars, widget
  <2>2. pc'["ui"] = pc["ui"]
    BY <1>1, <1>2, <2>1 DEF Goto
  <2>. QED
    BY <1>13, <2>1, <2>2 DEF Undisturbed
<1>15. CASE Start
  <2>1. /\ pc["ticker"] = "off" /\ Goto("ticker", "idle")
        /\ UNCHANGED <<Rows, showGroupedProcs, sortMethod, filter, panicked>>
    BY <1>15 DEF Start, widget
  <2>2. pc'["ui"] = pc["ui"]
    BY <1>1, <1>2, <2>1 DEF Goto
  <2>. QED
    BY <1>13, <2>1, <2>2 DEF Undisturbed
<1>16. CASE Render
  <2>1. /\ pc["ui"] = "render" /\ pc["ticker"] \notin Working \cup {"off"}
        /\ UNCHANGED <<Rows, showGroupedProcs, sortMethod, filter>>
    BY <1>16 DEF Render, Locked, widget
  <2>2. TableOfTheReading
    BY <1>1, <1>2, <2>1 DEF Undisturbed, Working
  <2>3. Drawable
    <3>1. ASSUME NEW r \in View PROVE Rows[r + 1] # NilRow
      <4>1. r + 1 \in DOMAIN Rows
        BY DEF View, ProcInv, ProcTypeOK, TableTypeOK, TopRowNotNegative
      <4>2. PICK s, grouped : Rows = [i \in DOMAIN s |-> RowOf(s[i], grouped)]
        BY <2>2 DEF TableOfTheReading, RowsFor
      <4>. QED
        BY <4>1, <4>2, RowsAreNotNil
    <3>. QED
      BY <3>1 DEF Drawable
  <2>4. Goto("ui", "idle") /\ UNCHANGED panicked
    BY <1>16, <2>3 DEF Render
  <2>5. pc'["ticker"] = pc["ticker"]
    BY <1>1, <1>2, <2>4 DEF Goto
  <2>. QED
    BY <1>13, <2>1, <2>4, <2>5 DEF Undisturbed
<1>17. CASE DrawTick
  <2>1. /\ pc["ui"] = "idle" /\ Goto("ui", "render")
        /\ UNCHANGED <<Rows, showGroupedProcs, sortMethod, filter, panicked>>
    BY <1>17 DEF DrawTick, tableVars, widget
  <2>2. pc'["ticker"] = pc["ticker"]
    BY <1>1, <1>2, <2>1 DEF Goto
  <2>. QED
    BY <1>13, <2>1, <2>2 DEF Undisturbed
<1>18. CASE SetColumn \/ GoTop
  <2>1. /\ pc["ui"] \in {"column", "totop"} /\ (Goto("ui", "totop") \/ Goto("ui", "sort"))
        /\ UNCHANGED <<showGroupedProcs, sortMethod, filter, panicked>>
    BY <1>18 DEF SetColumn, GoTop, widget
  <2>2. pc'["ui"] \in {"totop", "sort"}
    BY <1>1, <1>2, <2>1 DEF Goto
  <2>. QED
    BY <1>4, <1>8, <1>9, <1>11, <1>12, <2>1, <2>2 DEF Undisturbed
(* The event loop is idle when it takes an event. *)
<1>19. CASE Handler /\ ~ToggleShowingGroupedProcs /\ ~ChangeProcSortMethod /\ ~KillProc
  <2>1. /\ pc["ui"] = "idle" /\ UNCHANGED <<Rows, showGroupedProcs, sortMethod, panicked>>
        /\ (Goto("ui", "get") \/ (Goto("ui", "render") /\ UNCHANGED filter))
    BY <1>19 DEF Handler, ScrollKey, ResizeEvent, EditFilter, TypeRune, Backspace, CancelFilter,
       AcceptFilter, Event, Own, tableVars, widget
  <2>2. /\ pc'["ticker"] = pc["ticker"]
        /\ (UNCHANGED filter \/ pc'["ui"] = "get")
    BY <1>1, <1>2, <2>1 DEF Goto
  <2>. QED
    BY <1>13, <2>1, <2>2 DEF Undisturbed
<1>20. CASE KillProc
  <2>1. /\ pc["ui"] = "idle" /\ UNCHANGED <<Rows, showGroupedProcs, sortMethod, filter, pc>>
        /\ panicked' \in {"no", "kill"}
    BY <1>20 DEF KillProc, Event, widget
  <2>. QED
    BY <1>13, <2>1
(* Now the event loop is in its update, so the ticker is not. *)
<1>21. ASSUME NEW label \in {"column", "totop"}, Goto("ui", label), UNCHANGED <<panicked, filter>> PROVE Undisturbed'
  <2>1. pc'["ui"] = label /\ pc'["ticker"] = pc["ticker"] /\ pc'["ticker"] \notin Working
    BY <1>1, <1>2, <1>21 DEF Goto, Working
  <2>2. \A t \in Threads : Progress(t)'
    BY <1>2, <2>1 DEF Progress, Working
  <2>. QED
    BY <1>4, <1>8, <1>11, <1>12, <1>21, <2>1, <2>2 DEF Undisturbed
<1>22. CASE ToggleShowingGroupedProcs
  BY <1>21, <1>22 DEF ToggleShowingGroupedProcs
<1>23. CASE ChangeProcSortMethod
  <2>1. /\ pc["ui"] = "idle" /\ UNCHANGED <<Rows, showGroupedProcs, filter, panicked>>
        /\ Goto("ui", "totop") \/ (Goto("ui", "render") /\ UNCHANGED sortMethod)
    BY <1>23 DEF ChangeProcSortMethod, Event, tableVars
  <2>2. CASE Goto("ui", "totop")
    BY <1>21, <2>1, <2>2
  <2>3. CASE Goto("ui", "render") /\ UNCHANGED sortMethod
    <3>1. pc'["ticker"] = pc["ticker"]
      BY <1>1, <1>2, <2>3 DEF Goto
    <3>. QED
      BY <1>13, <2>1, <2>3, <3>1 DEF Undisturbed
  <2>. QED
    BY <2>1, <2>2, <2>3
<1>. QED
  BY <1>14, <1>15, <1>16, <1>17, <1>18, <1>19, <1>20, <1>22, <1>23

(* The invariant is kept by every step: no goroutine enters its update     *)
(* while the other is in it unless overlapped says so from then on.        *)
LEMMA UndisturbedStep ==
  ASSUME ProcInv, UndisturbedInv, [Next]_vars
  PROVE  UndisturbedInv'
<1>1. CASE UNCHANGED vars
  <2>1. UNCHANGED <<Rows, showGroupedProcs, sortMethod, filter, groupedProcs, ungroupedProcs, pc, procs, list, order,
                    strings, limit, filled, panicked, overlapped, fetched>>
    BY <1>1 DEF vars, tableVars, widget, lists, locals, making
  <2>2. \A t \in Threads : Progress(t)' = Progress(t)
    BY <2>1 DEF Progress, InOrderNow, InOrder, RowsOf, FirstRows, RowOf, Current, ListIn, Field
  <2>3. TableOfTheReading' = TableOfTheReading
    BY <2>1 DEF TableOfTheReading, RowsFor, Sorted
  <2>4. FilteredNow' = FilteredNow /\ GroupsOfTheReading' = GroupsOfTheReading
        /\ ProcessesOfTheReading' = ProcessesOfTheReading
    BY <2>1 DEF FilteredNow, GroupsOfTheReading, ProcessesOfTheReading
  <2>. QED
    BY <2>1, <2>2, <2>3, <2>4 DEF UndisturbedInv, Undisturbed, Alone
<1>2. CASE Next
  <2> SUFFICES ASSUME ~overlapped' PROVE Undisturbed'
    BY DEF UndisturbedInv
  <2>1. /\ panicked = "no" /\ ~overlapped /\ ~ \A t \in Threads : pc'[t] \in Working
        /\ \/ \E t \in Threads : UpdateStep(t)
           \/ Tick \/ Start \/ Render \/ DrawTick \/ SetColumn \/ GoTop \/ Handler
    BY <1>2, Zenon DEF Next, Running
  <2>2. FetchedNext
    BY <1>2, Zenon DEF Next, Running, FetchedNext
  <2>3. Undisturbed
    BY <2>1 DEF UndisturbedInv
  <2>. QED
    BY <2>1, <2>2, <2>3, UpdateStaysUndisturbed, OthersStayUndisturbed DEF ProcInv
<1>. QED
  BY <1>1, <1>2

(* As long as the two goroutines have never worked on the lists at once,   *)
(* nothing has panicked but a kill, and whenever neither is at work the    *)
(* rows are exactly those of the processes that the last successful update *)
(* has read and filtered, in the mode and the order of this moment, and    *)
(* filtered by the filter of this moment unless an update has failed       *)
(* since.                                                                  *)
THEOREM NothingElseCorrupts == Spec => []OnlyOverlapCorrupts
<1>1. Init => UndisturbedInv
  BY UndisturbedInit DEF UndisturbedInv
<1>2. ProcInv /\ UndisturbedInv /\ [Next]_vars => UndisturbedInv'
  BY UndisturbedStep
<1>3. ProcInv /\ UndisturbedInv => OnlyOverlapCorrupts
  <2> SUFFICES ASSUME ProcInv, Undisturbed
               PROVE  /\ panicked \in {"no", "kill"}
                      /\ (\A t \in Threads : pc[t] \notin Working)
                         => /\ RowsFor(Rows, fetched.procs, showGroupedProcs, sortMethod)
                            /\ FilteredNow
    BY DEF UndisturbedInv, OnlyOverlapCorrupts, FilteredNow
  <2>1. panicked \in {"no", "kill"}
    BY DEF Undisturbed
  <2>2. ASSUME \A t \in Threads : pc[t] \notin Working
        PROVE  TableOfTheReading /\ FilteredNow
    BY <2>2, Others DEF Undisturbed, ProcInv, ProcTypeOK, Threads, Working
  <2>. QED
    BY <2>1, <2>2 DEF TableOfTheReading
<1>. QED
  BY <1>1, <1>2, <1>3, ProcInvariant, PTL DEF Spec
=============================================================================
