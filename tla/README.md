# gotop: TLA+ models, model checking and proofs

gotop is a terminal activity monitor. Widgets sample the system on their own
tickers, an event loop draws them on a grid and turns keys into operations on
the process widget, which sorts, filters, groups and kills processes. This
directory models the parts of it that carry state from step to step and that
more than one goroutine, handler or run of the program touches.

All source paths below are relative to the repository.

## 1. Inventory

| Component | State | Operations | Interacts with |
|---|---|---|---|
| Scrolling table, `termui/table.go` | `Rows`, `UniqueCol`, the cursor as a number (`SelectedRow`) and as an item (`SelectedItem`), `TopRow` | `Scroll*`, `HandleClick`, `calcPos`, `Draw` | the owner assigns its exported fields; `ui.Render` draws it under its lock |
| Process widget, `widgets/proc.go` | `groupedProcs`, `ungroupedProcs`, `sortMethod`, `showGroupedProcs`, `filter`, an embedded table and a filter entry | `update`, `sortProcs`, `convertProcsToTableRows`, `filterProcs`, `ToggleShowingGroupedProcs`, `ChangeProcSortMethod`, `KillProc` | a ticker goroutine (with the lock), the event loop (without it), `ps`, `kill`, `pkill` |
| Filter entry, `termui/entry.go` | `Value`, `editing` | `HandleEvent`, `SetEditing` | runs the widget's `update` on each change of the text |
| Event loop, `cmd/gotop/main.go` | `previousKey`, `c.HelpVisible`, `c.GraphHorizontalScale`, the channels of signals, ticks and events | `eventLoop` | everything on the screen |
| Rotating log, `logging/logging.go` | `fp`, the log file and three older ones | `New`, `Write`, `rotate`, `Close` | the file system; later runs of the program |
| Layout, `layout/layout.go`, `layout/parser.go` | the definition's rows, the columns of the row being made | `ParseLayout`, `Layout`, `processRow`, `makeWidget` | creates the widgets and so starts their goroutines |
| Device registry, `devices/` | registered updaters, domains, startup and shutdown functions | `Register*`, `Startup`, `Shutdown`, `UpdateCPU`, `UpdateMem`, `UpdateTemps` | series widgets call the updaters |
| NVidia extension, `devices/nvidia.go` | cached maps, error map, mutex | background `updateNvidia`, the updaters that copy the caches | a shell command; the updaters' callers |
| Remote extension, `devices/remote.go` | cached maps, mutex | one fetching goroutine per remote, the updaters | HTTP servers |
| Series widgets, `widgets/{cpu,mem,net,disk,temp,battery,batterygauge}.go` | series of readings, last counters | `update` on a ticker, `EnableMetric`, `Draw` | graphs trim what the updates append |
| Graphs, `termui/{linegraph,sparkline,gauge}.go` | the series while they are drawn, `HorizontalScale` | `Draw` | share the series with the updates, under the widget's lock |
| Startup and options, `cmd/gotop/main.go`, `config.go` | the configuration in memory, the file `gotop.conf` | `Load`, `parseArgs`, `marshal`, `Write`, `run` | the user's edits; later runs of the program |
| Colour schemes, `colorschemes/` | the table of schemes by name | `FromName` | the configuration |
| Help, status bar, utilities, dictionaries, metrics export | none of their own that changes over time | drawing, conversion, an HTTP server of a library | read other widgets' fields |

### What is hard about it

- **Interleavings in the process widget.** The ticker goroutine takes the
  widget's lock around `update`; `ui.Render` takes it to draw. The key handlers
  do not take it: a character typed into the filter runs the whole of `update`
  in the event loop, Tab and the sort keys sort the lists in place and convert
  them, while the ticker may be anywhere in the same code.
- **Two forms of one cursor.** A refresh moves rows. Only `Draw` brings the
  number and the item together, only `KillProc` turns the number into a
  command.
- **Arithmetic at the edges** of the table (empty tables, windows of fewer than
  two rows, rows that vanish), of the graph scale, of the columns of a layout.
- **Memory of earlier keys**: pairs of keys, help and filter entry each change
  what the next key means.
- **Failures between the steps** of a rotation, and restarts in the middle.
- **Loops whose end is not obvious**: `Layout` puts rows back in front of the
  rows it has still to consume.
- **Caches between jobs and widgets**: a reading of several values is stored and
  copied value by value, under a lock that has to cover both sides; a map is handed
  out without it; `Startup` waits for answers that may be errors, or not come.
- **What a widget remembers**: counters that go back or wrap, devices that vanish and
  return, readings that are partly missing, a zero that means "not yet"; series that
  are trimmed by the draw while the width and the scale change.
- **A file that outlives the program**: what one run writes, later runs must be able to
  read, whatever flags and edits come between.

`PROJECT.json` lists each hazard with its line and the properties that cover it.

### What makes each component correct

- Table: the cursor is on a row and in the window after every operation,
  whatever the owner did in between; `Draw` follows the selected item.
- Process widget: what is highlighted is what a kill takes; the rows are those
  of one reading in the current mode, order and filter; only overlapping
  handlers and refreshes can break that, and the next refresh repairs it; the
  event loop is never kept waiting for ever.
- Event loop: no key press kills twice; an edited filter takes the keys; what the loop
  believes to be on the screen is there; signals end it.
- Log: no file grows without limit, none but the oldest is lost, a failed
  rotation is tried again.
- Layout: it ends, every widget is shown and none more than twice, columns do not
  overflow, and the order is that of the definition.
- Devices: a widget sees one reading whole, and one that keeps its map sees readings in
  their order; `Startup` returns, and not before the answers it waits for are known; no
  widget waits for a tool.
- Series widgets: what is shown of a counter is what was moved, also when a counter
  is reset or a device replaced; points go to the series of their device, as far as
  devices keep their numbers.
- Graphs: no draw trims a point that it shows, and a draw of numbers from 0 to 100 at a
  positive scale does not panic.
- Configuration: what was written is what is read back; an option that is not given on
  the command line keeps the file's value.

## 2. Modules

| Module | What it is |
|---|---|
| `Table` | the scrolling table and everything its owner may do to it |
| `ProcWidget` | the process widget with its two goroutines; extends `Table` and is shown to implement it |
| `EventLoop` | the event loop, with the entry's claim on keys |
| `LogHistory` | abstract: a set of numbered log files, of which only the oldest is ever given up |
| `Logging` | the rotating log, one step per call to the file system; implements `LogHistory` |
| `Layout` | `Layout` and `processRow` |
| `Devices` | `Startup`, the jobs of the NVidia and remote extensions, their caches, and the widgets that copy them |
| `Series` | the graphs with their trimming, and the widgets that only add points: CPU, memory, batteries |
| `Widgets` | the widgets that compare a reading with the one before: net, disk, temperatures; extends `Series` |
| `Configuration` | the options: the file, `load`, `parseArgs`, `marshal`, from run to run |
| `ProcWidgetProofs` (also of `Table`), `EventLoopProofs`, `LoggingProofs`, `LayoutProofs`, `DevicesProofs`, `WidgetsProofs` (also of `Series`), `ConfigurationProofs` | theorems about the modules they extend |
| `FoldProofs` | lemmas for them: induction on numbers, sums over finite sets, folds over sequences, enumerations of sets of numbers |
| `MC*` | values of the constants for TLC |

`PROJECT.json` maps each definition to the lines it stands for. Operators marked
"Mutant" in a comment are deliberately wrong variants of the definition after
them, which no specification uses: substituted for it, they make the properties
named in `PROJECT.json` fail.

### Table

`CalcPos(row)` is `calcPos` entered with the given `SelectedRow`; the `Scroll*`
operators and `HandleClick` are the exported methods. `DrawCursor` is the part of
`Draw` that has an effect: it looks for the item, prints rows in the cursor
colour and assigns the number of the last of them. Rows that were allocated but
not filled (`NilRow`) make `Draw` panic when they are printed (`Drawable`).
`SetRows`, `SetUniqueCol`, `ForgetItem` and `Resize` are the assignments of the
owner and of the terminal, in any order: the table's own theorems hold whatever
its owner does. `Half` is Go's truncating division, which matters for windows of
fewer than two rows. Column widths, the header and the clipping are left out, and
so is `Draw` of a table without cursor.

`DrawFollowsItem` is about steps that change a variable; a draw that wrongly does
nothing is caught by `CursorIsTarget` in `ProcWidget`.

### ProcWidget

`pc` says where each of the goroutines `"ui"` and `"ticker"` is. The steps of
`update`, `sortProcs` and `convertProcsToTableRows` that touch shared fields are
separate actions; work on a goroutine's own data belongs to the step before it.
The lock is `Locked`: the ticker's steps from `Tick` to `Publish`. `Render` needs
it, the handlers do not. Where the Go program has a data race the model chooses
among its outcomes:

- sorting is in place, from `BeginSort` to `EndSort`; a reader or a second sort in
  that interval finds or leaves a list with elements repeated or missing
  (`Torn`);
- rows are made one by one: `Convert` allocates as many as the list has elements,
  `BeginRows` takes the number of rounds from the list of that moment, and each
  `MakeRow` reads the list and the mode again. It panics when its index leaves the rows
  or the list, and rows stay nil when the rounds are fewer than the rows;
- Tab assigns the mode, then the column (`SetColumn`), then scrolls to the top (`GoTop`),
  with the ticker's steps in between;
- a list field that gets a new slice leaves a running sort with the old one.

The cursor operation `ScrollTop` of a handler is one step, the filter is read
once per filtering, and a slice header is read as a whole. Names and commands
are numbers with the order of the strings; the division of CPU by the number of
processors, which does not change the order, is part of the readings. What the
commands that list the processes return is the constant `Readings`, and
`GetProcsFails` is their failure: `update` then returns with the mode, order or
filter changed and the rows as they were. `shown`, `stale`, `overlapped` and
`fetched` are history variables: the item that the last draw put in the cursor colour,
whether `Rows` was assigned since, whether both goroutines have worked on the lists at
once, and what the last successful update has read and filtered, `fresh` if no update has
failed since.

### EventLoop

One action per case of the `select`, and for an event one action per way through
the loop's body: `EntryEvent` (the entry consumes it), `Quit`, `HelpEvent`,
`GridEvent`. Letters and keys the loop treats alike are one member of `Events`.
`screen` is what was drawn over the whole screen last. The kills are counted by
the kind of their pair; these counts and `dPressed` are history variables. The scale the
loop begins with is any integer: neither the file's parser nor the flag checks it.

### Logging

The places 0 to 3 are `errors.log`, `errors.log.0`, `errors.log.1` and
`errors.log.2`. `Write` makes the comparison of the size, then `CloseOld`, `Move`
(one rename), `Open` and `Append` follow, each of which may fail; `Stop` is the end
or the death of the program at any point, after which `New` finds what there is.
`Append` may write only a part. Assumed: `os.Stat` of a file that exists succeeds,
and one instance of gotop uses the directory. The copy of standard error
to the first file is left out.

The model shows one consequence that is not stated as a property: when the creation
of the new file fails, place 0 is empty, so no later write sees a long file, none
rotates, and the log stays silent until the program is started again. `Retried`
therefore excepts this case.

### Layout

`rows` is the definition, as `ParseLayout` returns it: of each row the heights of
its widgets, at least 1, and no row without widgets. `ProcessRow` is the beginning
of a call, `PlaceWidget` the placing of one widget, `HandBack` both ways of putting
rows back (`Full`, which the comparison `ch <= maxHeight` never lets happen, and a
widget that fits no column), `RowMade` the return. Fractions and weights, which
follow from heights and columns, are left out; so are the parser's text handling
and the construction of the widgets.

A column's search begins at the widget's own index, so a widget can come to be
left of one that precedes it in its row: below `3:cpu 2:mem net`, the row
`2:disk temp` puts disk under net and temp under mem. Rule 13 of the layout language, "top
down, left-to-right order", holds of the order in which widgets are taken up; `TopDown` states what it says of the
rows on the screen.

### Devices

A reading is represented by the number of the last change of its source, so the order
of readings and the mixing of two of them can be seen; 0 is what `strconv.Atoi` returns
with an error, and -1 a key that is not in the map. `main` is where `Startup` is,
`phase` where each job: NVidia's goroutine (`Tick`, `RunNvidiaSmi`, `RecordFailure`,
the lock, a `Row` for each GPU) and one goroutine per remote (`Tick`, `Answer`, the lock,
a `Line` for each metric, `Close`, which tells the `WaitGroup` the first time). `wg` is
the counter of the `WaitGroup`, which may not become negative, `told` the remotes whose
`wg` is nil by now. nvidia-smi may fail or
give fields that do not parse; a remote may answer with an error status, with bad lines
or part of a body. `Panic` is a failed request, whose nil response is dereferenced, or
a blank or short line of a remote's, or an nvidia-smi whose rows, all as long as the first,
have fewer than six fields; it ends the program, `main = "crashed"`.

`Readers` are goroutines of widgets in `UpdateCPU`, `UpdateMem` or `UpdateTemps`,
`DomainOf` tells which. A reader calls the updaters one after
the other, takes the lock of each, copies the cache key by key, unlocks, and ranges over
the map of errors it got (`"range"`). `Keepers` keep their map from tick to tick, as the
widgets of memory and temperatures do. The CPU's widget starts a goroutine with an empty
map at each tick and waits for none, so several readers of its domain may be at work at
once. `refused` is a history variable: the remotes whose first answer was not good.

The updaters that ask the machine through gopsutil keep nothing and are left out. So are
the texts of errors; the accesses to their map are there. Assumed: an nvidia-smi that succeeds
lists every GPU. (`src/devices/nvidia.go` never removes anything from its caches, so the values of a
GPU that is not listed any more stay beside newer ones of the others.) A remote has one
metric per domain.

### Series and Widgets

The widgets share nothing and each of them works under its own lock, so a behaviour is that
of one widget of any kind, chosen at the start, and an update or a draw is one step. The
exception is the CPU widget, which reads in a goroutine of its own at each tick and
takes the lock afterwards: `flight` is the bag of the readings that wait, `ReadCPU` and
`AppendCPU` the two halves.

`Series` keeps of a series its length and the device of its newest point; `NaN` is a
moving average that has seen the mean of no CPUs. `odd` has the series that ever got a
point outside 0 to 100 or no number at all: remotes' metrics, which nobody checks, batteries that
are fuller than full, that mean. Such a point may be drawn beyond the colours of the
canvas, which panics; whether it is depends on the height, so with `odd` a draw may
panic or not. `TickBattery` lists the batteries anew at every tick: one may be missing,
or fail, or be empty, and those that are left out (`missing`, a history variable) move the numbers of those
behind them.

`DrawLines` and `DrawSparks` trim and may
panic; `Look` is a resize or a change of the scale. A width may be 0: `Inner.Dx()` of a
rectangle that is narrower than its border; a series that is trimmed then panics. The
scale may be any integer: with one that is not positive no series reaches the wall, so
none is trimmed, and with a negative one a few points leave the slice of colours, which panics. The rest
of a draw only prints.

`Widgets` has what net, disk and temp keep. Counters are integers whose sign bit is worth `SignBit`, so that
unsigned differences wrap at its double and `int` differences are negative, as in the code.
`interfaceMap` is the map `NetWidget.update` builds from its option, and `Meant`
what the option asks for. `Transfer`, `Replace` and `Mount` are the machine; `moved`,
`sum` and `reset` are history variables. A disk's counters may be missing from the
answer of the system (`blank`), which reads as zero without an error; the bytes written
are kept alongside those read, in the same way, and are left out. A device that is replaced
between two ticks wraps the difference of the next one, in the model as in the code. A
temperature is represented by how often it was converted: at each tick the widget
converts all of `Data`, those again that were not read. Of the net widget there are two kinds, `"net"` for the bytes and
`"sparks"` for the graph, neither of which changes the other.

### Configuration

A value is the text that stands for it in the file, `Empty` the text without characters. `Load` is `NewConfig` and `load`,
`ParseArgs` the flags with what they start from (`FromConf`: the configuration;
`OwnDefault`: a default of their own), `Write` is `marshal` and the writing of the
file, after which the program ends. `Exit` drops the memory, `Edit` is the user
with an editor. `loaded`, `given`, `wrote` and `writes` are history variables. Deprecated
keys are read and ignored, unknown keys are options of extensions. The interval is a
number in the file and a duration on the command line (`Nanoseconds`).

## 3. Runs

| Run | Question | Bounds |
|---|---|---|
| `table` | invariants of the table under every operation | six row lists of up to six rows over six items, with a nil row, duplicates in the second column, lists that differ in length and order; inner heights 0, 1, 2, 3, 4, 6 |
| `proc` | safety of the process widget, and that it implements `TableSpec` | two readings, three processes, two of one name; one process exits between the readings; two sort keys, a filter of one character; two heights; three user events, rows made one by one |
| `proc_live` | liveness of the process widget | two readings, two events, one height |
| `event_loop` | safety and liveness of the loop | four presses of d, scale from 7 (reaching 1, 4, 7, 10), two graphs, all keys |
| `logging` | safety of the log, and that it implements `LogHistory` | limit 2, writes of 1 and 3, six files |
| `layout` | safety of the layout, and that it consumes rows | every definition of up to 3 rows, 3 widgets a row, spans up to 3 |
| `devices` | safety of caches and copies, and that `Startup` and updaters return | two GPUs, two remotes, one domain, two readings; NVidia alone, or two remotes of which one may have no URL, each with one goroutine that keeps its map or with two of the CPU's widget; NVidia with a remote and one goroutine of that widget |
| `widgets` | the graphs, and what widgets make of counters and partial readings | two devices of each kind, of one key odd points; widths 0 and 2, scales -1, 0, 1 and 2, series of up to 9 points; counters of 4 bits (`SignBit` 8) that reach 2; seven values of the interface option |
| `config` | what is written is read back | files of one line of any kind or of two lines of four keys; one flag on a command line; two writes between edits |
| `kill_row`, `devices_race`, `config_file` | one documented promise each, which the code does not keep: section 6 | as `proc`, `devices`, `config` |

Why the bounds are enough to be interesting:

- `table`: windows smaller than, equal to and larger than the list, a list that
  shrinks to nothing and grows again, an item that moves, vanishes or is shown
  twice. The theorems about `Table` need none of these bounds.
- `proc`: three events allow a handler to begin while a refresh runs, a second one
  to work on what it left, and a kill to see it. The mode tables differ in length
  (two processes of one name are one group), which is what makes an index leave a
  list. Refreshes are unbounded: the ticker goes on for ever.
- `proc_live`: `MaxEvents` is also what "the user stops" means in `Settles`.
- `event_loop`: with four presses, two complete pairs, or a pair followed by a
  third press with another key, occur; the channel of two is filled and overrun.
- `logging`: with six files, four places are filled and two files are replaced,
  after failures at every step; a write of 3 passes the limit of 2 at once.
- `layout`: the smallest row that is handed back partly placed has two rows of two
  widgets; with three rows, one can follow it in the row of the grid that shows it again.
- `devices`: with two GPUs a copy can be torn between them, with two remotes one holds
  the lock the other waits for and one may answer long after the other; readers of other
  domains share nothing but the locks, for which two goroutines of one domain and the
  jobs compete just the same. Two readings are an older and a newer one. The theorems about
  the safety properties need none of these bounds.
- `widgets`: trimming begins at four times the width, so 9 points pass it at width 2, and
  any point does at width 0; at scale 2 a series is longer than its view while it is
  short enough; the other scales are those that never trim. The two
  interfaces include the VPN, which options treat differently. Counters stay below
  half of their range, as those of 64 bits do, and a reset makes the difference wrap.
- `config`: every option, an unknown key, a deprecated key, the comment, the blank line
  and the line without equals sign; schemes that are called as their file, otherwise
  and not at all. Two writes show that what was read back can be written again.

Deadlock checking is off where the program really may stop: the process widget
panics, the event loop quits, the layout is made, a draw of a widget panics, and in
`widgets` the bounds of series and counters end some kinds. The other runs check it.

### Fairness

- `ProcWidget`: weak fairness of each goroutine's own steps, those of Tab and of the
  scrolling to the top among them (the scheduler runs every runnable goroutine), and of the tick. Strong fairness of `Render`: it waits
  for a `sync.Mutex` that the ticker takes again and again, and Go's mutex hands
  itself to a waiter that has waited for a millisecond. Strong fairness of a
  successful `GetProcs`: an assumption about the environment, that listing the
  processes does not fail for ever. No fairness of the user's events.
- `EventLoop`: weak fairness of `Terminate`. `select` chooses at random among the
  ready cases, and the case of a signal in the channel stays ready; so it
  is taken with probability one however many other events are ready.
- `Devices`: weak fairness of what a goroutine can do by itself; strong fairness of taking
  a lock, for the reason given with `Render`. Nothing is assumed of nvidia-smi and of
  remotes: `StartupReturns` has as its hypothesis that each job leaves its fetching and
  processing again and again, `UpdateReturns` that each remote ends its body.
- The other modules state safety only. That the layout ends is stated
  without fairness, by the number of rows left: `EachCallConsumes`.

## 4. Properties

**Table.** `CursorOnARow`: every cursor operation ends on a row (or at -1 in an empty
table). `CursorInView`: it ends with the cursor in the window if the window still
showed some row; the condition is needed, as `calcPos` lowers the top before it clamps the
row. `JumpsRecover`: a jump to either end has no such condition. `DrawFollowsItem`: a draw
never changes a remembered item and moves the number to a printed row that shows it.

**ProcWidget.** `CursorIsTarget`: until the next refresh, the highlighted row is the
one a kill would take. `OnlyOverlapCorrupts`: as long as the two goroutines have never
been in `update` at the same time, the rows are exactly those of the processes read and filtered
last, in the mode and order of now; these are a whole reading filtered by the filter of
now unless an update has failed since; and nothing has panicked but, possibly, a kill in
an empty table. `Settles`:
once the user stops, the table becomes and stays a rendering of some reading in the final
mode, order and filter (or has panicked). `HandlerReturns`: the event loop always
gets its drawing done. `TableSpec`: every step of the widget is a step of `Table`,
so what holds of the table holds of the widget's.

**EventLoop.** `EachDOnce` counts: twice the kills by dd, plus the kills by d3 and
d9, plus a d that is held, never exceed the presses of d. `ScreenIsWhatIsVisible`: what the loop takes to be visible is
on the screen, if help is not configured to be shown at the start. `ScalesAgree`: the
graphs have one scale, and no key brings a positive one below 1 or lowers another. `EditingIsSafe`: while the filter is edited no key
quits or kills. `SignalTerminates`: a signal ends the loop.

**Logging.** `Bounded`: a file passes the limit by at most one write. `Retried`: a log
without an open file still has its long file in place, so that the next write
rotates again, unless creating the new file has failed. `LosesOnlyTheOldest`: the refinement of `LogHistory`.

**Layout.** `ColumnsFit`: the widgets of a column are no taller than their row of the
grid. `TopDown`, `EveryWidgetIsPlaced`; `AtMostTwice`: a row of the grid shows no widget
twice, and a row of the definition is shown in two neighbouring rows of the grid at most,
although a row that is handed back is begun anew. `EachCallConsumes`: between calls of
`processRow`, the rows left and the rows made are together no more than the definition's,
although rows are put back; so the loop in `Layout` ends.

**Devices.** `OneReading`: no widget has values of two runs of nvidia-smi once an updater
has returned. `WholeCopy`: a copy that is complete is the cache as it is at one moment.
`NeverOlder`: a widget that keeps its map never shows an older reading of a sensor after
a newer one. (The CPU's widget has no such property: its goroutines append in any order.)
`SensorsKnown`: `Startup` goes on with every sensor of the remotes whose first answer was
good. `StartupReturns` and `UpdateReturns`: error statuses and bad data keep nobody waiting.

**Series.** `DrawKeepsTheView`: a draw with a width trims no point the canvas has room for, whatever the
scale; if the scale is positive and all points were numbers from 0 to 100 it does not panic
and draws every series. `BatteryOfItsId`: a graph shows its own battery or one behind it,
and at most as far behind as batteries before that one have been missing or failed; empty ones
move nothing.

**Widgets.** `NetAddsUp`: the points of the net widget add up to bytes that moved on the
interfaces the option asks for, to all of them if no counter was reset. `DiskAddsUp`: so do
those of a disk, over failed readings, unmounts and missing counters, but for one that was
replaced between two ticks, until it is unmounted. What is said of temperatures is their type only: that stale
ones are converted again is what the code does, and no document promises otherwise.

**Configuration.** `WrittenIsReadBack`: a file that `--write-config` wrote loads, and gives
the options it was written from. Left out, as it does not hold of them: texts with an equals
sign, schemes whose `Name` is not that of their file, `mbps`, which its line
sets whatever its value (`src/config.go:183`), and what `marshal` does not write:
`nvidiarefresh` and the variables of extensions (`src/config.go:236-277`).

## 5. Proofs

Proved for every value of the constants allowed by the named assumptions:

| Module | Theorems | From |
|---|---|---|
| `ProcWidgetProofs`, of `Table` | `TableTypeCorrect`, `TopRowStaysNotNegative`, `CursorEndsOnARow`, `CursorEndsInView`, `JumpsEndInView`, `DrawFollowsTheItem` | `TableAssumption`: row lists are sequences of rows, heights are natural numbers |
| `ProcWidgetProofs`, of `ProcWidget` | `ProcTypeCorrect`, `ImplementsTable`, `WidgetScrolls`, `CursorStaysTarget`, `NothingElseCorrupts` | also `ProcAssumption`: readings are sequences of processes with natural numbers for CPU and memory, and the rows made of them are among the table's |
| `DevicesProofs` | `DevicesTypeCorrect`, `ReadingsAreNotMixed`, `CopiesAreWhole`, `ReadingsNeverGoBack`, `SensorsAreKnown` | `DevicesAssumption`: GPUs, remotes, readers and the name nvidia are told apart, remotes are finitely many, each reader has a domain |
| `EventLoopProofs` | `TypeCorrect`, `NoPressKillsTwice`, `HelpNeverDuringEditing`, `ScreenAgrees`, `ScalesStayEqual`, `EditingKeysAreText` | `EventLoopAssumption`: the configuration's scale is an integer, the bounds are natural numbers |
| `LoggingProofs` | `LogTypeCorrect`, `FilesAreBounded`, `FailedRotationIsRetried`, `RotationKeepsHistory` | `LoggingAssumption`: writes are not empty |
| `LayoutProofs` | `LayoutTypeCorrect`, `LayoutConsumesRows`, `LayoutColumnsFit`, `LayoutIsTopDown`, `LayoutPlacesEveryWidget`, `LayoutShowsAtMostTwice` | `LayoutAssumption`: the bounds of the definitions are natural numbers |
| `WidgetsProofs` | `CapturedIsMeant`, `WidgetsTypeCorrect`, `BatteriesKeepTheirIds`, `DrawsKeepTheView`, `NetShowsWhatMoved`, `DisksShowWhatMoved` | `SeriesAssumption`: keys are numbered without repetition, widths are natural numbers, scales integers, series may have two points, with which memory's begin; `WidgetsAssumption`: there are finitely many interfaces and their counters together stay below the sign bit |
| `ConfigurationProofs` | `LastLineDecides`, `ConfigTypeCorrect`, `WhatIsWrittenIsRead` | `ConfigurationAssumption`: the user's files are sequences of lines, flags have values of their kind, a duration has a number of nanoseconds, no scheme is called by the empty name |

- **Table.** The inductive invariant is the type invariant with
  `TopRowNotNegative`: a draw's printed rows are rows of the list only if the window
  does not begin above it, and then the item it remembers is a cell. One lemma,
  `CalcPosResult`, does the arithmetic of `calcPos`, and `ScrollIsCalcPos` reduces
  every cursor operation to it. The action properties follow from the invariant.
- **ProcWidget.** `ProcInv` is the types of both goroutines' lists wherever they are in
  `update`, and `TopRowNotNegative`. A list that a sort of the other goroutine has torn is
  still a list of processes of a length that occurs, and so are the rows made of it. Every step
  is a step of `TableSpec` (`StepRefines`), so the theorems about the table hold of
  the table in the widget (`WidgetScrolls`). `CursorIsTarget` is kept by each step from a
  state with `ProcInv`, as only `Draw` marks rows and its cursor ends on the last of them.
  `OnlyOverlapCorrupts` needs `UndisturbedInv`: who is in `update` finds, at each step of it
  (`Progress`), what the step before has left of the reading that was fetched: while rows
  are made, those done are of the list's elements and the others are nil (`FirstRows`). Between
  updates what is in the list is `fetched`, arranged. The
  lemmas behind it say that a rearrangement of a rearrangement is one (`ArrangedTwice`), that
  groups rearranged are groups (`ArrangedGroups`), and what filtering and
  grouping make of a list, which are enumerations whose existence `FoldProofs` proves.
- **EventLoop.** `EventLoopInv` adds to the properties `EditingNeedsProc`, that only
  the entry of a process widget is edited. Without it `HelpExcludesEditing` is
  not inductive: in a layout without that widget no event would go to an entry that
  was edited, and the key ? would open the help.
- **Logging.** `LogInv` adds that the files are ordered by age (`Ordered`) and
  numbered within those created (`Numbered`), that the place the next file moves to
  is empty except for the first move (`PlaceEmpty`), and what holds of the open file
  and of a log under rotation (`InPlace`). `Ordered` makes the file a rename replaces the
  oldest, `PlaceEmpty` makes it the only one, `InPlace` carries the size limit from the
  comparison to the write and the long file through a failed rotation. The
  refinement is proved step by step: a first move gives up the oldest file, `Open`
  adds a newer one, every other step is a stutter.
- **Layout.** `LayoutInv` adds that inside a call the columns are those of the first row
  taken, that none is taller than the row of the grid, and that while the first row is
  placed the columns from the next widget's on are empty (`Columns`). So a widget of the
  first row always fits the column of its own index, only later rows are handed back,
  and a row is consumed (`RowsLeft`). The lemma `NeverFull` shows on the way that the
  test for full columns never finds one. `GridInv` is about what has been placed: the rows
  in process and those left are the definition's last, in order (`RowsInOrder`); each column
  descends, those of the row being made between the call's first row and the `Frontier`, the
  row whose widgets are being placed (`ColumnsInOrder`), those of the grid not beyond that
  first row (`GridInOrder`); no widget before the frontier is missing (`NoneIsLost`). The heights of a
  column are a sum over its widgets, which `FoldProofs` extends by one at a time.
  `AtMostTwice` rests on `FirstRowFits`, that a call never hands back its first row: what is
  placed is behind the next widget of the frontier (`PlacedBehind`), each widget once
  (`EachOnce`); a call ends behind its first row (`FirstIsBehind`), so of the rows of the grid only the
  last can show the row that the next call begins with (`LastAlone`).

- **Devices.** `DevicesInv` has, beside the type invariant and `OneReading`: `Locked`, that
  who works on a cache holds its lock; `Copying`, that what a reader has copied is what
  the cache has now, which holds because the cache does not change under the lock
  (`CacheUnderLock`); `Output`, that the GPUs' values are of one output unless a job is
  storing it, and then those stored are of its output; `Ages`, that what a job has
  fetched is not older than what caches and widgets have of it; `Counted`, that the
  `WaitGroup` counts the remotes that have not told it, so that it is never negative and
  a wait that ends has waited for all; and `Answers`, that
  while `Startup` waits, a remote it does not wait for any more, and whose first answer was
  good, is in the caches. `OneReading` is inductive only with `Locked`, `Copying` and
  `Output`, when a reader unlocks: it has copied a cache that no job was writing. That no
  job of one source overtakes another is what makes `Ages` inductive: there is
  one job per source. A reader that begins with an empty map has nothing to go back from,
  which is why `NeverOlder` is about `Keepers`.
- **Series and Widgets.** `SeriesInv` is the type invariant of the graphs with
  `BatteryOfItsId` and the fact that what is listed has points. A draw keeps the view
  because both graphs trim to more points than they have room for at any positive scale, and not at all at the others.
  The numbers of batteries keep their order and are lowered by those left out before them (`IdsOfBatteries`). `WidgetInv` adds to the types, for
  net, that what moved and is not shown yet (`Pending`) is what the counters have beyond the
  last total, or more after a reset, and that the total stays below the sign bit
  (`Bound`), so that only a reset makes a difference wrap; for a disk, that what has moved is
  what was shown and what its counter has beyond the last reading. `CapturedIsMeant` is proved
  apart: by induction over the prefixes of the option, the map that `update` builds says of
  each interface what its last mention says.
- **Configuration.** By the same kind of induction, the last line of an option decides
  (`LastLineDecides`). `ConfigInv` has the types, where `Config` is what an option can be in
  memory; `AsLoaded`, that until the flags are looked at the options are those of the file; and
  `AsWritten`, that the file is what `marshal` makes of options that were in memory. What
  `marshal` writes has each option once, and what load takes for it is what it was written for.
- **Induction.** `InductionOnNat` has a set for its parameter, not a predicate, so
  it can be cited. The recursion behind the community modules' sums and folds is a
  function chosen to satisfy its equation; `SummingExists` and `FoldingExists` build
  one, by induction on the size of sets, and what a sum or a fold is follows from that.

Only model-checked:

- the liveness properties `Settles`, `HandlerReturns`, `SignalTerminates`, `StartupReturns`
  and `UpdateReturns`: the provers handle neither fairness nor `ENABLED`.

All invariants and all action properties of the passing runs are proved.

## 6. Where the code and its documentation differ

Three documented promises have a run in which they are violated:

- `kill_row`: a refresh between the last draw and a kill makes `KillProc`
  (`src/widgets/proc.go:250`) take another process than the highlighted one.
- `devices_race`: `updateNvidia` writes the map of errors without the lock
  (`src/devices/nvidia.go:140`) while a widget ranges over it, although a comment there
  says the caches are not modified while they are read.
- `config_file`: options of the file such as `averagecpu` or `nvidia` are assigned
  the defaults of flags that were not given (`src/cmd/gotop/main.go:96`).

Others were seen while modelling and have no run:

- Tab during a refresh can leave rows of the other mode; the count of a group is then
  given to `kill` as a process id.
- A d, then keys typed in the help or the filter entry, then another d kill.
- With `helpvisible=true` in the file the loop starts with the grid on the screen and the
  keys of the help.
- A row whose last widget fits no column is handed back with the widgets that were placed
  already, which are made, with their goroutines, and shown twice (never a third time:
  `AtMostTwice`).
- `docs/nvidia-extension.md` names an option `nvidia-refresh`; the file's parser knows
  `nvidiarefresh`, which nothing reads.
- Texts with an equals sign can be given on the command line and are written to the file,
  which then does not load; a scheme whose `Name` differs from its file's is
  refused as unknown unless the command line gives another.
- A file with `mbps=false` sets mbps.
- The comment at `src/config.go:205` describes writing as an update of the loaded
  configuration; `marshal` drops `nvidiarefresh` and the variables of extensions, so a file
  that is written over loses them.
- `graphscale` may be negative, in the file and on the command line, and then the first
  draws of a graph panic; a remote's metric far over 100 can do the same.

## 7. Not modelled, and why

- Drawing beyond what it changes, colours, labels, units, dictionaries, the help text and
  the status bar: output, no behaviour over time. The drawille canvas is a bitmap of one draw.
- What `--list` prints, the search for configuration and layout files, the text handling of the
  layout parser and of `nvidia-smi`'s and the remotes' formats, beyond good and bad lines.
- The updaters that ask the machine through gopsutil and the SMART devices: they keep nothing.
  `Shutdown`: nothing calls it, so the functions extensions register for it never run.
- The order of the CPU widget's points as a property: nothing in the code orders the goroutines,
  so `Devices` and `Series` have every order and nothing demands one.
- Two instances of the program that share the log: nothing in the code coordinates
  them.
- The metrics export: a library's HTTP server that reads the widgets' fields; what can
  go wrong there is a property of the widgets.
- Vendored and generated code.

## 8. Plan

Done: all components with behaviour over time, and proofs of every safety property that a
run checks. Left:

1. `Gotop`: `EventLoop` composed with `ProcWidget`, so that the loop's promises about kills
   and the widget's about targets are joined.
2. Lemmas towards the liveness properties that are safety: that a refresh that nobody
   disturbs makes the table a reading, whatever came before it.
