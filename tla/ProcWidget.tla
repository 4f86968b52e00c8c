----------------------------- MODULE ProcWidget -----------------------------
(***************************************************************************)
(* The process widget of widgets/proc.go and the two goroutines that work  *)
(* on it.  "ui" is the event loop: it runs the key handlers and draws.     *)
(* "ticker" is the goroutine NewProcWidget starts: every second it takes   *)
(* the widget's lock, runs update and releases the lock.  Drawing takes    *)
(* the lock too (ui.Render does), the key handlers do not: a filter key    *)
(* runs the whole of update, Tab and the sort keys sort and convert, while *)
(* the ticker may be anywhere in its own update.                           *)
(*                                                                         *)
(* The steps of update, sortProcs and convertProcsToTableRows that touch   *)
(* fields both goroutines use are separate actions; what a goroutine does  *)
(* with data of its own belongs to the step before it.  Sorting is in      *)
(* place and takes two steps: while it runs another goroutine may read the *)
(* list, or sort it as well, and then finds or leaves a list in which      *)
(* elements may be repeated and missing.  A list field that is assigned a  *)
(* new slice during a sort leaves that sort working on the old one.  A row *)
(* is made in one step; between rows the other goroutine may go on.        *)
(*                                                                         *)
(* A Proc is a record.  Names and commands are numbers with the order of   *)
(* the strings.  The division of CPU by the number of processors is part   *)
(* of the readings: it does not change the order.                          *)
(***************************************************************************)
EXTENDS Table, FiniteSets, Functions

CONSTANTS
    Readings,        \* what getProcs may return: sequences of Procs
    Runes,           \* what the user may type into the filter
    MaxFilter,       \* bound on the length of the filter
    Matches(_, _),   \* Matches(p, f): p's command or pid contains f
    Methods,         \* the sort keys in use, among "c", "m", "p", "n"
    MaxEvents        \* bound on the events the user sends

Process == UNION {{reading[i] : i \in DOMAIN reading} : reading \in Readings}

(* How long the lists and tables get that are made of the readings. *)
Lengths == {0} \cup UNION {1 .. Len(reading) : reading \in Readings}
Short(l) == Len(l) \in Lengths

(* What a group shows: its size, its name and an empty command. *)
GroupHead == [ Pid : Lengths \ {0}, CommandName : {p.CommandName : p \in Process},
               FullCommand : {NoItem} ]
Group == [ Pid : Lengths \ {0}, CommandName : {p.CommandName : p \in Process},
           FullCommand : {NoItem}, CPU : Nat, Mem : Nat ]

RowOf(p, grouped) ==
    [c \in Cols |-> IF c = 0 THEN p.Pid
                    ELSE IF grouped THEN p.CommandName ELSE p.FullCommand]
MadeRow == {NilRow} \cup {RowOf(p, grouped) : p \in Process \cup GroupHead, grouped \in BOOLEAN}

(* The tables that the widget makes are among those an owner may assign.   *)
ASSUME ProcAssumption ==
    /\ Readings \subseteq Seq(Process)
    /\ \A p \in Process : p.CPU \in Nat /\ p.Mem \in Nat
    /\ \A n \in Lengths : [1 .. n -> MadeRow] \subseteq RowLists
    /\ Methods \subseteq {"c", "m", "p", "n"}
    /\ MaxFilter \in Nat /\ MaxEvents \in Nat

VARIABLES
    showGroupedProcs, sortMethod,
    filter,          \* the filter, which is the entry's Value
    editing,         \* the entry is being edited
    groupedProcs, ungroupedProcs,
    pc,              \* where each goroutine is
    procs,           \* of each goroutine: the list update has read
    list,            \* of each goroutine: the list it sorts or converts
    order,           \* of each goroutine: the order it sorts into
    strings,         \* of each goroutine: the rows it makes
    limit, filled,   \* of each goroutine: how many it will make, has made
    panicked,        \* what made the program panic, or "no"
    events,          \* how many events the user has sent
    shown,           \* history: the item drawn in the cursor colour, if any
    stale,           \* history: Rows was assigned since the last draw
    overlapped,      \* history: both goroutines worked on the lists at once
    fetched          \* history: the processes that the last update to succeed
                     \* has read and filtered; fresh if none has failed since

widget == <<showGroupedProcs, sortMethod, filter, editing>>
lists == <<groupedProcs, ungroupedProcs>>
making == <<strings, limit, filled>>
locals == <<procs, list, order, making>>
history == <<shown, stale>>
vars == <<tableVars, widget, lists, pc, locals, panicked, events, history, overlapped, fetched>>

Threads == {"ui", "ticker"}
Other(t) == CHOOSE u \in Threads : u # t
Working == {"column", "totop", "get", "assignU", "assignG", "sort", "sorting",
            "convert", "range", "row", "publish"}

(* Mutant: the key handlers hold the lock as well, and still hold it when  *)
(* they render.                                                            *)
LockedByHandlerToo == pc["ticker"] \in Working \/ pc["ui"] = "render"

(* The ticker holds the lock from Lock() to Unlock(), around its update. *)
Locked == pc["ticker"] \in Working

Goto(t, label) == pc' = [pc EXCEPT ![t] = label]
(* Where a goroutine goes when update or convertProcsToTableRows returns:  *)
(* the handlers draw the widget, the ticker unlocks.                       *)
AfterUpdate(t) == IF t = "ui" THEN "render" ELSE "idle"
-----------------------------------------------------------------------------
(* The pure parts. *)
Elements(l) == {l[i] : i \in DOMAIN l}
Torn(l) == [DOMAIN l -> Elements(l)]
Rearranged(l) ==
    {[i \in DOMAIN l |-> l[p[i]]] :
        p \in {q \in [DOMAIN l -> DOMAIN l] : Elements(q) = DOMAIN l}}

(* The numbers in S in increasing order. *)
Increasing(S) ==
    CHOOSE s \in [1 .. Cardinality(S) -> S] : \A i, j \in DOMAIN s : i < j => s[i] < s[j]

filterProcs(l, f) ==
    LET kept == Increasing({i \in DOMAIN l : Matches(l[i], f)})
    IN  IF f = << >> THEN l ELSE [i \in DOMAIN kept |-> l[kept[i]]]

(* groupProcs walks a map, so the groups come in any order. *)
groupProcs(l) ==
    LET members(c) == {i \in DOMAIN l : l[i].CommandName = c}
        group(c) == [ Pid |-> Cardinality(members(c)),
                      CommandName |-> c,
                      FullCommand |-> NoItem,
                      CPU |-> SumFunctionOnSet([i \in DOMAIN l |-> l[i].CPU], members(c)),
                      Mem |-> SumFunctionOnSet([i \in DOMAIN l |-> l[i].Mem], members(c)) ]
        names == {p.CommandName : p \in Elements(l)}
    IN  {s \in [1 .. Cardinality(names) -> {group(c) : c \in names}] :
            Elements(s) = {group(c) : c \in names}}

(* May a stand before b?  By pid is downward for groups, whose Pid is the  *)
(* number of their members, and upward for processes.                      *)
InOrder(m, grouped, a, b) ==
    CASE m = "c" -> a.CPU >= b.CPU
      [] m = "m" -> a.Mem >= b.Mem
      [] m = "p" -> IF grouped THEN a.Pid >= b.Pid ELSE a.Pid <= b.Pid
      [] m = "n" -> a.CommandName <= b.CommandName

(* sort.Sort is not stable: equal elements come in any order. *)
Sorted(l, m, grouped) ==
    {s \in Rearranged(l) :
        \A i, j \in DOMAIN s : i < j => InOrder(m, grouped, s[i], s[j])}
-----------------------------------------------------------------------------
(* update: getProcs and the filtering, with the filter of this moment. *)
GetProcs(t) ==
    /\ pc[t] = "get"
    /\ \E reading \in Readings :
         procs' = [procs EXCEPT ![t] = filterProcs(reading, filter)]
    /\ Goto(t, "assignU")
    /\ UNCHANGED <<tableVars, widget, lists, list, order, making, panicked, events, history>>

GetProcsFails(t) ==
    /\ pc[t] = "get"
    /\ Goto(t, AfterUpdate(t))
    /\ UNCHANGED <<tableVars, widget, lists, locals, panicked, events, history>>

(* A list field gets a new slice: a sort the other goroutine has begun on  *)
(* the field goes on with the old one.                                     *)
Replaced(t, field) ==
    list' = IF pc[Other(t)] = "sorting" /\ list[Other(t)] = field
            THEN [list EXCEPT ![Other(t)] = "none"] ELSE list

AssignUngrouped(t) ==
    /\ pc[t] = "assignU"
    /\ ungroupedProcs' = procs[t]
    /\ Replaced(t, "ungrouped")
    /\ Goto(t, "assignG")
    /\ UNCHANGED <<tableVars, widget, groupedProcs, procs, order, making, panicked, events, history>>

AssignGrouped(t) ==
    /\ pc[t] = "assignG"
    /\ groupedProcs' \in groupProcs(procs[t])
    /\ Replaced(t, "grouped")
    /\ procs' = [procs EXCEPT ![t] = << >>]
    /\ Goto(t, "sort")
    /\ UNCHANGED <<tableVars, widget, ungroupedProcs, order, making, panicked, events, history>>

Field == IF showGroupedProcs THEN "grouped" ELSE "ungrouped"
ListIn(field) == IF field = "grouped" THEN groupedProcs ELSE ungroupedProcs

(* sortProcs picks the list and the order, and sorts in place. *)
BeginSort(t) ==
    LET clash == pc[Other(t)] = "sorting" /\ list[Other(t)] = Field
        mine == [method |-> sortMethod, grouped |-> showGroupedProcs]
    IN  /\ pc[t] = "sort"
        /\ list' = [list EXCEPT ![t] = Field]
        /\ order' = [u \in Threads |-> IF clash THEN [method |-> "torn", grouped |-> FALSE]
                                       ELSE IF u = t THEN mine ELSE order[u]]
        /\ Goto(t, "sorting")
        /\ UNCHANGED <<tableVars, widget, lists, procs, making, panicked, events, history>>

NoOrder == [method |-> "none", grouped |-> FALSE]
Result(t) ==
    IF order[t].method = "torn" THEN Torn(ListIn(list[t]))
    ELSE Sorted(ListIn(list[t]), order[t].method, order[t].grouped)

EndSort(t) ==
    /\ pc[t] = "sorting"
    /\ IF list[t] = "grouped" THEN groupedProcs' \in Result(t) ELSE UNCHANGED groupedProcs
    /\ IF list[t] = "ungrouped" THEN ungroupedProcs' \in Result(t) ELSE UNCHANGED ungroupedProcs
    /\ list' = [list EXCEPT ![t] = "none"]
    /\ order' = [order EXCEPT ![t] = NoOrder]
    /\ Goto(t, "convert")
    /\ UNCHANGED <<tableVars, widget, procs, making, panicked, events, history>>

(* convertProcsToTableRows: the list is chosen and the rows are made, as   *)
(* many as the list has elements now; all of them are nil.                 *)
Convert(t) ==
    /\ pc[t] = "convert"
    /\ list' = [list EXCEPT ![t] = Field]
    /\ strings' = [strings EXCEPT ![t] = [i \in DOMAIN ListIn(Field) |-> NilRow]]
    /\ Goto(t, "range")
    /\ UNCHANGED <<tableVars, widget, lists, procs, order, limit, filled, panicked, events, history>>

(* The loop over the rows takes the number of elements once, perhaps when  *)
(* the other goroutine has assigned another slice to the field.            *)
BeginRows(t) ==
    /\ pc[t] = "range"
    /\ limit' = [limit EXCEPT ![t] = Len(ListIn(list[t]))]
    /\ filled' = [filled EXCEPT ![t] = 0]
    /\ Goto(t, IF limit'[t] = 0 THEN "publish" ELSE "row")
    /\ UNCHANGED <<tableVars, widget, lists, procs, list, order, strings, panicked, events, history>>

(* For every row the element and showGroupedProcs are read again.  An      *)
(* index out of range panics, that of a row or that of an element.         *)
MakeRow(t) ==
    LET now == ListIn(list[t])
        i == filled[t] + 1
        beingSorted == pc[Other(t)] = "sorting" /\ list[Other(t)] = list[t]
        inRange == i <= Len(strings[t]) /\ i <= Len(now)
    IN  /\ pc[t] = "row"
        /\ \/ /\ inRange
              /\ \E p \in IF beingSorted THEN Elements(now) ELSE {now[i]} :
                    strings' = [strings EXCEPT ![t] = [@ EXCEPT ![i] = RowOf(p, showGroupedProcs)]]
              /\ filled' = [filled EXCEPT ![t] = i]
              /\ Goto(t, IF i = limit[t] THEN "publish" ELSE "row")
              /\ UNCHANGED panicked
           \/ /\ ~inRange
              /\ panicked' = "convert"
              /\ UNCHANGED <<pc, strings, filled>>
        /\ UNCHANGED <<tableVars, widget, lists, procs, list, order, limit, events, history>>

Publish(t) ==
    /\ pc[t] = "publish"
    /\ Rows' = strings[t]
    /\ stale' = TRUE
    /\ strings' = [strings EXCEPT ![t] = << >>]
    /\ limit' = [limit EXCEPT ![t] = 0] /\ filled' = [filled EXCEPT ![t] = 0]
    /\ list' = [list EXCEPT ![t] = "none"]
    /\ Goto(t, AfterUpdate(t))
    /\ UNCHANGED <<UniqueCol, Dy, cursor, widget, lists, procs, order, panicked, events, shown>>
-----------------------------------------------------------------------------
(* Mutant: no refreshes while the filter is being edited. *)
TickUnlessEditing ==
    /\ pc["ticker"] = "idle" /\ ~editing
    /\ Goto("ticker", "get")
    /\ UNCHANGED <<tableVars, widget, lists, locals, panicked, events, history>>

(* The ticker's second has passed: it takes the lock. *)
Tick ==
    /\ pc["ticker"] = "idle"
    /\ Goto("ticker", "get")
    /\ UNCHANGED <<tableVars, widget, lists, locals, panicked, events, history>>

(* The constructor's first update is done: the ticker runs, the layout     *)
(* gives the widget its rectangle and the event loop begins with a draw.   *)
Start ==
    /\ pc["ticker"] = "off" /\ pc["ui"] = "render"
    /\ Goto("ticker", "idle")
    /\ Dy' \in Heights
    /\ UNCHANGED <<Rows, UniqueCol, cursor, widget, lists, locals, panicked, events, history>>

(* ui.Render of the widget, alone or in the grid: under the lock. *)
Render ==
    /\ pc["ui"] = "render" /\ pc["ticker"] # "off" /\ ~Locked
    /\ \/ /\ Draw
          /\ shown' = IF Marked = {} THEN NoItem ELSE Wanted
          /\ stale' = FALSE
          /\ Goto("ui", "idle")
          /\ UNCHANGED panicked
       \/ /\ ~Drawable
          /\ panicked' = "draw"
          /\ UNCHANGED <<cursor, pc, shown, stale>>
    /\ UNCHANGED <<Rows, UniqueCol, Dy, widget, lists, locals, events>>

(* The draw ticker of the event loop renders the whole grid. *)
DrawTick ==
    /\ pc["ui"] = "idle"
    /\ Goto("ui", "render")
    /\ UNCHANGED <<tableVars, widget, lists, locals, panicked, events, history>>

(* The event loop takes an event of the user's. *)
Event ==
    /\ pc["ui"] = "idle" /\ events < MaxEvents
    /\ events' = events + 1
    /\ UNCHANGED <<lists, locals>>

ScrollKey ==
    /\ Event
    /\ Own(Scroll)
    /\ Goto("ui", "render")
    /\ UNCHANGED <<widget, panicked, history>>

ResizeEvent ==
    /\ Event
    /\ Dy' \in Heights
    /\ Goto("ui", "render")
    /\ UNCHANGED <<Rows, UniqueCol, cursor, widget, panicked, history>>

(* Tab: the mode and then the column change, without the lock, and then    *)
(* the cursor goes to the top.                                             *)
ToggleShowingGroupedProcs ==
    /\ Event
    /\ showGroupedProcs' = ~showGroupedProcs
    /\ Goto("ui", "column")
    /\ UNCHANGED <<tableVars, sortMethod, filter, editing, panicked, history>>

(* Mutant: only the mode of processes sets its column. *)
SetColumnOfProcesses ==
    /\ pc["ui"] = "column"
    /\ UniqueCol' = IF showGroupedProcs THEN UniqueCol ELSE 0
    /\ Goto("ui", "totop")
    /\ UNCHANGED <<Rows, Dy, cursor, widget, lists, locals, panicked, events, history>>

SetColumn ==
    /\ pc["ui"] = "column"
    /\ UniqueCol' = IF showGroupedProcs THEN 1 ELSE 0
    /\ Goto("ui", "totop")
    /\ UNCHANGED <<Rows, Dy, cursor, widget, lists, locals, panicked, events, history>>

(* Mutant: the new order is not applied to the rows there are. *)
ChangeMethodOnly ==
    /\ Event /\ ~editing
    /\ \E method \in Methods : sortMethod' = method
    /\ Goto("ui", "render")
    /\ UNCHANGED <<tableVars, showGroupedProcs, filter, editing, panicked, history>>

(* The letters are handlers' keys only while the filter is not edited. *)
ChangeProcSortMethod ==
    /\ Event /\ ~editing
    /\ \E method \in Methods :
         /\ sortMethod' = method
         /\ Goto("ui", IF method = sortMethod THEN "render" ELSE "totop")
    /\ UNCHANGED <<tableVars, showGroupedProcs, filter, editing, panicked, history>>

(* Mutant: the cursor goes to the top and the window stays. *)
GoTopCursorOnly ==
    /\ pc["ui"] = "totop"
    /\ SelectedItem' = NoItem /\ SelectedRow' = 0
    /\ Goto("ui", "sort")
    /\ UNCHANGED <<Rows, UniqueCol, Dy, TopRow, widget, lists, locals, panicked, events, history>>

GoTop ==
    /\ pc["ui"] = "totop"
    /\ Own(ScrollTop)
    /\ Goto("ui", "sort")
    /\ UNCHANGED <<widget, lists, locals, panicked, events, history>>

(* The keys of the filter.  Those that change the text call update, which  *)
(* works without the lock.                                                 *)
EditFilter ==
    /\ Event /\ ~editing
    /\ editing' = TRUE
    /\ Goto("ui", "render")
    /\ UNCHANGED <<tableVars, showGroupedProcs, sortMethod, filter, panicked, history>>

TypeRune ==
    /\ Event /\ editing /\ Len(filter) < MaxFilter
    /\ \E r \in Runes : filter' = Append(filter, r)
    /\ Goto("ui", "get")
    /\ UNCHANGED <<tableVars, showGroupedProcs, sortMethod, editing, panicked, history>>

Backspace ==
    /\ Event /\ editing
    /\ filter' = IF filter = << >> THEN << >> ELSE SubSeq(filter, 1, Len(filter) - 1)
    /\ Goto("ui", IF filter = << >> THEN "render" ELSE "get")
    /\ UNCHANGED <<tableVars, showGroupedProcs, sortMethod, editing, panicked, history>>

CancelFilter ==
    /\ Event /\ editing
    /\ filter' = << >>
    /\ editing' = FALSE
    /\ Goto("ui", "get")
    /\ UNCHANGED <<tableVars, showGroupedProcs, sortMethod, panicked, history>>

AcceptFilter ==
    /\ Event /\ editing
    /\ editing' = FALSE
    /\ Goto("ui", "render")
    /\ UNCHANGED <<tableVars, showGroupedProcs, sortMethod, filter, panicked, history>>

(* KillProc, after two d or d3 or d9: "kill" or "pkill" of the text in the *)
(* unique column of the row with the selected number, in the Rows of this  *)
(* moment.  Nothing is drawn afterwards.                                   *)
HasTarget == SelectedRow + 1 \in DOMAIN Rows /\ Rows[SelectedRow + 1] # NilRow
KillCommand == IF UniqueCol = 1 THEN "pkill" ELSE "kill"

KillProc ==
    /\ Event /\ ~editing
    /\ SelectedItem' = NoItem
    /\ panicked' = IF HasTarget THEN "no" ELSE "kill"
    /\ UNCHANGED <<Rows, UniqueCol, Dy, SelectedRow, TopRow, widget, pc, history>>
-----------------------------------------------------------------------------
NothingFetched == [procs |-> << >>, fresh |-> FALSE]

(* NewProcWidget, about to run its first update. *)
Init ==
    /\ TableInit /\ UniqueCol = 1
    /\ showGroupedProcs = TRUE
    /\ sortMethod = "c"
    /\ filter = << >>
    /\ editing = FALSE
    /\ groupedProcs = << >> /\ ungroupedProcs = << >>
    /\ pc = [t \in Threads |-> IF t = "ui" THEN "get" ELSE "off"]
    /\ procs = [t \in Threads |-> << >>]
    /\ list = [t \in Threads |-> "none"]
    /\ order = [t \in Threads |-> NoOrder]
    /\ strings = [t \in Threads |-> << >>]
    /\ limit = [t \in Threads |-> 0] /\ filled = [t \in Threads |-> 0]
    /\ panicked = "no"
    /\ events = 0
    /\ shown = NoItem /\ stale = TRUE /\ overlapped = FALSE
    /\ fetched = NothingFetched

(* A step of update in the goroutine t. *)
UpdateStep(t) ==
    \/ GetProcs(t) \/ GetProcsFails(t)
    \/ AssignUngrouped(t) \/ AssignGrouped(t)
    \/ BeginSort(t) \/ EndSort(t)
    \/ Convert(t) \/ BeginRows(t) \/ MakeRow(t) \/ Publish(t)

Handler ==
    \/ ScrollKey \/ ResizeEvent
    \/ ToggleShowingGroupedProcs \/ ChangeProcSortMethod
    \/ EditFilter \/ TypeRune \/ Backspace \/ CancelFilter \/ AcceptFilter
    \/ KillProc

Fetches(t) == pc[t] = "get" /\ pc'[t] = "assignU"
Fails(t) == pc[t] = "get" /\ pc'[t] \notin {"get", "assignU"}

(* A panic in either goroutine ends the program.  (The rest is history.) *)
Running(Step) ==
    /\ panicked = "no"
    /\ Step
    /\ overlapped' = (overlapped \/ \A t \in Threads : pc'[t] \in Working)
    /\ fetched' = IF overlapped' THEN NothingFetched
                  ELSE IF \E t \in Threads : Fetches(t)
                  THEN [procs |-> procs'[CHOOSE t \in Threads : Fetches(t)], fresh |-> TRUE]
                  ELSE IF \E t \in Threads : Fails(t) THEN [fetched EXCEPT !.fresh = FALSE]
                  ELSE fetched

Next ==
    \/ \E t \in Threads : Running(UpdateStep(t))
    \/ Running(Tick) \/ Running(Start)
    \/ Running(Render) \/ Running(DrawTick)
    \/ Running(SetColumn) \/ Running(GoTop) \/ Running(Handler)

(* A running goroutine goes on; the tickers go on ticking; a mutex on      *)
(* which a goroutine waits is handed to it (sync.Mutex does not starve     *)
(* waiters), so Render is strongly fair; and listing the processes does    *)
(* not fail for ever.                                                      *)
Fairness ==
    /\ \A t \in Threads : WF_vars(Running(UpdateStep(t))) /\ SF_vars(Running(GetProcs(t)))
    /\ WF_vars(Running(Tick)) /\ WF_vars(Running(Start))
    /\ WF_vars(Running(SetColumn)) /\ WF_vars(Running(GoTop))
    /\ SF_vars(Running(Render))

Spec == Init /\ [][Next]_vars /\ Fairness
-----------------------------------------------------------------------------
ProcTypeOK ==
    /\ TableTypeOK
    /\ showGroupedProcs \in BOOLEAN
    /\ pc["ui"] # "column" => UniqueCol = IF showGroupedProcs THEN 1 ELSE 0
    /\ sortMethod \in {"c", "m", "p", "n"}
    /\ filter \in Seq(Runes) /\ Len(filter) <= MaxFilter
    /\ editing \in BOOLEAN
    /\ groupedProcs \in Seq(Group) /\ Short(groupedProcs)
    /\ ungroupedProcs \in Seq(Process) /\ Short(ungroupedProcs)
    /\ pc \in [Threads -> Working \cup {"off", "idle", "render"}]
    /\ procs \in [Threads -> Seq(Process)] /\ \A t \in Threads : Short(procs[t])
    /\ list \in [Threads -> {"none", "grouped", "ungrouped"}]
    /\ strings \in [Threads -> Seq(MadeRow)] /\ \A t \in Threads : Short(strings[t])
    /\ limit \in [Threads -> Lengths] /\ filled \in [Threads -> Nat]
    /\ fetched \in [procs : Seq(Process), fresh : BOOLEAN]
    /\ panicked \in {"no", "convert", "draw", "kill"}
    /\ events \in 0 .. MaxEvents

(* While the rows on the screen are the table's rows and a row is in the   *)
(* cursor colour, that row is the one a kill would take: draw, scroll,     *)
(* sort, filter and kill leave the two forms of the cursor together.       *)
CursorIsTarget ==
    pc["ui"] = "idle" /\ ~stale /\ shown # NoItem
    => SelectedRow + 1 \in DOMAIN Rows /\ Key(SelectedRow) = shown

(* The rows that a list of processes gives, for a mode and an order.       *)
RowsFor(rows, l, grouped, m) ==
    \E made \in (IF grouped THEN groupProcs(l) ELSE {l}) : \E s \in Sorted(made, m, grouped) :
        rows = [i \in DOMAIN s |-> RowOf(s[i], grouped)]

Renders(rows, grouped, m, f) ==
    \E reading \in Readings : RowsFor(rows, filterProcs(reading, f), grouped, m)

(* As long as the two goroutines have never worked on the lists at the     *)
(* same time, neither a conversion nor a draw has panicked, and whenever   *)
(* neither is at work, the rows are exactly those of the processes that    *)
(* the last successful update has read and filtered, in the mode and the   *)
(* order that the keys have asked for; and these are a whole reading       *)
(* filtered by the present filter, unless an update has failed since.  So  *)
(* every torn, misordered or outdated table, and every panic, needs a key  *)
(* handler that runs without the lock during a refresh.                    *)
OnlyOverlapCorrupts ==
    ~overlapped =>
      /\ panicked \in {"no", "kill"}
      /\ (\A t \in Threads : pc[t] \notin Working)
         => /\ RowsFor(Rows, fetched.procs, showGroupedProcs, sortMethod)
            /\ fetched.fresh => \E reading \in Readings : fetched.procs = filterProcs(reading, filter)

(* Once the user stops, the table becomes and stays a reading of the       *)
(* processes in the mode, the order and the filter the user has left, no   *)
(* matter how the last handlers and the refreshes overlapped, unless they  *)
(* made the program panic.                                                 *)
Settles ==
    <>[](panicked # "no" \/ Renders(Rows, showGroupedProcs, sortMethod, filter))

(* A handler that has begun ends with its drawing done: the event loop is  *)
(* never kept out by the refreshes.                                        *)
HandlerReturns == pc["ui"] # "idle" ~> (pc["ui"] = "idle" \/ panicked # "no")

(* What the help says: dd kills the selected process or group, and table.go *)
(* of SelectedItem: it keeps the cursor on the correct item if the data     *)
(* changes.  So a kill takes what the screen shows in the cursor colour.    *)
KillsHighlighted ==
    [][ KillProc /\ HasTarget /\ shown # NoItem => Key(SelectedRow) = shown ]_vars
=============================================================================
