------------------------------- MODULE Series -------------------------------
(***************************************************************************)
(* The graphs of termui/linegraph.go and termui/sparkline.go, and the      *)
(* widgets that only add points to them: CPU, memory and battery.  The     *)
(* widgets share nothing, so a behaviour is that of one widget of any kind *)
(* (module Widgets has the kinds that remember counters).                  *)
(*                                                                         *)
(* Updates and draws hold the widget's lock, each is one step; only the    *)
(* CPU widget reads before it takes the lock, in a goroutine per tick.     *)
(* (Of the net widget a behaviour has the graph, of the kind "sparks", or  *)
(* the bytes, of the kind "net" in Widgets; neither changes the other.)    *)
(* Of a series the length is kept, the device its newest point was read    *)
(* from, and whether it ever got a point that is no number from 0 to 100.  *)
(* Such points come from remotes, whose metrics nobody checks, from        *)
(* batteries fuller than full and from the mean of no CPUs.  A point from  *)
(* 0 to 100 is drawn on a canvas of any height; another one may be beyond  *)
(* the colours of the canvas, which panics: whether it is depends on the   *)
(* height and on how far back the graph shows, and is left open here.      *)
(***************************************************************************)
EXTENDS Integers, FiniteSets, SequencesExt

CONSTANTS
    Keys,       \* the CPUs, kinds of memory or batteries, in their order
    Average,    \* AVRG
    NaN,        \* what the average of no CPUs is, and every average after it
    Odd,        \* the Keys that may yield what is no number from 0 to 100
    RX, TX,     \* Lines of the net widget, its sparklines
    Widths,     \* the values of Inner.Dx(): a rectangle's, so never negative
    Scales,     \* the values of HorizontalScale, which nothing restricts
    MaxLen,     \* bound on the length of a series when a point is added
    MaxFlight   \* bound on the equal CPU readings that wait for the lock

Key == ToSet(Keys)
Lines == {RX, TX}
Names == Key \cup Lines \cup {Average}

ASSUME SeriesAssumption ==
    /\ Keys \in Seq(Key) /\ IsInjective(Keys) /\ Average \notin Key /\ NaN \notin Names
    /\ Odd \subseteq Key
    /\ Widths \subseteq Nat /\ Scales \subseteq Int
    /\ MaxLen \in Nat \ {0, 1} /\ MaxFlight \in Nat

VARIABLES
    kind,       \* the widget
    dx, scale,  \* the width of the canvas and HorizontalScale
    len, last,  \* Data: the lengths of the series, and their newest points
    odd,        \* those that had a point that is no number from 0 to 100
    listed,     \* seriesList, the series that are drawn
    broken,     \* a draw has panicked, which ends the program
    shows,      \* of CPU: ShowAverageLoad and ShowPerCPULoad
    flight,     \* of CPU: the readings that wait for the lock, a bag
    mems,       \* of mem: the keys of mems whose Total is not zero
    missing     \* of battery: those that an update has left out (history)

look == <<dx, scale>>
data == <<len, last, odd>>
sources == <<kind, shows, flight, mems, missing>>
seriesVars == <<kind, dx, scale, len, last, odd, listed, broken, shows, flight, mems, missing>>

LineGraphs == {"cpu", "mem", "battery"}
Graphs == LineGraphs \cup {"sparks"}
Data == {k \in Names : len[k] > 0}
-----------------------------------------------------------------------------
(* The constructors: AVRG begins with a zero and every CPU that answers    *)
(* with its load; a memory with a zero and its first point.  A program     *)
(* that asks for neither kind of CPU load gets one of them.                *)
FirstPoints(answer) ==
    CASE kind = "cpu" -> [(IF "average" \in shows THEN {Average} ELSE {}) \cup
                          (IF "each" \in shows THEN answer ELSE {}) -> {1}]
      [] kind = "mem" -> [answer -> {2}]
      [] OTHER -> [{} -> {0}]

SeriesInit(k) ==
    /\ kind = k
    /\ shows \in IF kind = "cpu" THEN SUBSET {"average", "each"} \ {{}} ELSE {{}}
    /\ \E answer \in SUBSET Key :
          /\ mems = IF kind = "mem" THEN answer ELSE {}
          /\ \E first \in FirstPoints(answer) :
                len = [n \in Names |-> IF n \in DOMAIN first THEN first[n] ELSE 0]
    /\ last = [n \in Names |-> n]
    /\ odd \in SUBSET (Odd \cap Data)
    /\ listed = {} /\ broken = FALSE
    /\ flight = [r \in SUBSET (IF kind = "cpu" THEN Key ELSE {}) |-> 0]
    /\ missing = {}
    /\ dx \in IF kind \in Graphs THEN Widths ELSE {0}
    /\ scale \in IF kind \in LineGraphs THEN Scales ELSE {1}

(* Each series in the domain of of gets a point of the device named, those *)
(* in strange yield no number from 0 to 100.                               *)
Append1(of, strange) ==
    /\ \A n \in DOMAIN of : len[n] < MaxLen
    /\ len' = [n \in Names |-> IF n \in DOMAIN of THEN len[n] + 1 ELSE len[n]]
    /\ last' = [n \in Names |-> IF n \in DOMAIN of THEN of[n] ELSE last[n]]
    /\ odd' = odd \cup {n \in DOMAIN of : of[n] \in strange \cup {NaN}}
-----------------------------------------------------------------------------
(* CPUWidget.update: UpdateCPU yields the CPUs of the sources that answer. *)
ReadCPU(read) ==
    /\ kind = "cpu" /\ flight[read] < MaxFlight
    /\ flight' = [flight EXCEPT ![read] = @ + 1]
    /\ UNCHANGED <<kind, dx, scale, len, last, odd, listed, broken, shows, mems, missing>>

(* The mean of no CPUs is 0/0, and a moving average that has seen one      *)
(* never becomes a number again.                                           *)
NewAverage(read) == IF read = {} THEN NaN ELSE last[Average]

(* Mutant: a reading may be appended again. *)
AppendCPUAgain(read, strange) ==
    /\ kind = "cpu"
    /\ flight' = [flight EXCEPT ![read] = @ - 1]
    /\ Append1([n \in read |-> n], strange)
    /\ UNCHANGED <<kind, dx, scale, listed, broken, shows, mems, missing>>

(* An average of numbers from 0 to 100 is one, unless it was none before.  *)
AppendCPU(read, strange) ==
    /\ kind = "cpu" /\ flight[read] > 0
    /\ Average \in strange => strange \cap read # {} \/ Average \in odd
    /\ flight' = [flight EXCEPT ![read] = @ - 1]
    /\ Append1([n \in (IF "each" \in shows THEN read ELSE {}) \cup
                      (IF "average" \in shows THEN {Average} ELSE {}) |->
                    IF n = Average THEN NewAverage(read) ELSE n], strange)
    /\ UNCHANGED <<kind, dx, scale, listed, broken, shows, mems, missing>>

(* The map mems outlives the tick: a memory whose source fails keeps its   *)
(* entry and gets the same point again; one without a total gets none.     *)
TickMem(read, totals, strange) ==
    /\ kind = "mem" /\ totals \subseteq read
    /\ mems' = (mems \ read) \cup totals
    /\ Append1([n \in mems' |-> n], strange \cap read)
    /\ UNCHANGED <<kind, dx, scale, listed, broken, shows, flight, missing>>

(* BatteryWidget.update: battery.GetAll lists the batteries anew, in their *)
(* order; those that failed are left out before the others are numbered.   *)
IdOf(b, out) == b - Cardinality({c \in out : c < b})

(* The points of the batteries read, when those in out are not counted.    *)
AppendBatteries(read, out, strange) ==
    Append1([n \in {Keys[IdOf(b, out)] : b \in read} |->
                Keys[CHOOSE b \in read : Keys[IdOf(b, out)] = n]], strange)

NotListed(present, failed) == ((1 .. Len(Keys)) \ present) \cup failed

(* Mutant: an empty battery is not counted either. *)
TickBatteryCompact(present, failed, empty, strange) ==
    /\ kind = "battery"
    /\ AppendBatteries(present \ (failed \cup empty), NotListed(present, failed) \cup empty, strange)
    /\ missing' = missing \cup NotListed(present, failed)
    /\ UNCHANGED <<kind, dx, scale, listed, broken, shows, flight, mems>>

TickBattery(present, failed, empty, strange) ==
    /\ kind = "battery"
    /\ AppendBatteries(present \ (failed \cup empty), NotListed(present, failed), strange)
    /\ missing' = missing \cup NotListed(present, failed)
    /\ UNCHANGED <<kind, dx, scale, listed, broken, shows, flight, mems>>

(* NetWidget.update adds a point to both lines, or to none if it sees the  *)
(* first bytes.                                                            *)
TickSparks(first) ==
    /\ kind = "sparks"
    /\ Append1([n \in (IF first THEN {} ELSE Lines) |-> n], {})
    /\ UNCHANGED <<kind, dx, scale, listed, broken, shows, flight, mems, missing>>
-----------------------------------------------------------------------------
(* The points are drawn from the newest to the oldest, scale dots apart,   *)
(* on a canvas 2(dx+1) dots wide.  Of the points that reach the wall a     *)
(* series is drawn as far as the line to the first behind it.              *)
Overflows(n) == (len[n] - 1) * scale > 2 * dx + 1
View ==
    IF kind = "sparks" THEN dx
    ELSE IF scale <= 0 THEN MaxLen
    ELSE (2 * dx + 1) \div scale + (IF (2 * dx + 1) % scale = 0 THEN 1 ELSE 2)

Trimmed(S) == [n \in Names |-> IF n \in S THEN len[n] - (dx - 1) ELSE len[n]]

(* Mutant: a series is trimmed as soon as it fills the canvas. *)
TooLongForCells(n) == len[n] > dx
TooLong(n) == len[n] > 4 * dx

(* With a negative scale the points go to the right, where the slice of    *)
(* colours has room for two dots.                                          *)
BeyondColors(n) == (len[n] - 1) * (0 - scale) > 2

(* LineGraph.Draw trims a series that is too long when it meets the wall,  *)
(* and thus never with a scale that is not positive.  Data[dx-1:] panics   *)
(* without a width.                                                        *)
DrawLines ==
    LET long == {n \in Data : Overflows(n) /\ TooLong(n)}
        forced == (dx = 0 /\ long # {}) \/ \E n \in Data : BeyondColors(n)
    IN  /\ kind \in LineGraphs
        /\ broken' \in IF forced THEN {TRUE} ELSE {FALSE, odd # {}}
        /\ len' = IF broken' THEN len ELSE Trimmed(long)
        /\ listed' = IF Cardinality(listed) # Cardinality(Data) THEN Data ELSE listed
        /\ UNCHANGED <<kind, dx, scale, last, odd, shows, flight, mems, missing>>

(* SparklineGroup.Draw trims a line that is too long, visible or not.      *)
DrawSparks ==
    LET long == {n \in Data : TooLong(n)}
    IN  /\ kind = "sparks"
        /\ broken' = (dx = 0 /\ long # {})
        /\ len' = IF broken' THEN len ELSE Trimmed(long)
        /\ UNCHANGED <<kind, dx, scale, last, odd, listed, shows, flight, mems, missing>>

Draw == DrawLines \/ DrawSparks

(* A resize, and the keys h and l. *)
Look ==
    /\ kind \in Graphs
    /\ dx' \in Widths
    /\ scale' \in IF kind \in LineGraphs THEN Scales ELSE {scale}
    /\ UNCHANGED <<kind, len, last, odd, listed, broken, shows, flight, mems, missing>>

SeriesNext ==
    \/ \E read \in DOMAIN flight :
          ReadCPU(read) \/ \E strange \in SUBSET ((Odd \cap read) \cup {Average}) : AppendCPU(read, strange)
    \/ \E read \in SUBSET Key : \E totals \in SUBSET read, strange \in SUBSET (Odd \cap read) :
          TickMem(read, totals, strange)
    \/ \E present \in SUBSET (1 .. Len(Keys)), strange \in SUBSET Odd :
          \E failed \in SUBSET present : \E empty \in SUBSET (present \ failed) :
             TickBattery(present, failed, empty, strange)
    \/ \E first \in BOOLEAN : TickSparks(first)
    \/ Draw
    \/ Look
-----------------------------------------------------------------------------
(* A draw of a canvas with a width trims none of the points that the same  *)
(* canvas shows, in whatever order points came and the canvas and the      *)
(* scale changed.  If besides the scale is positive and all points were    *)
(* numbers from 0 to 100, it does not panic and draws all series there are.*)
DrawKeepsTheView ==
    [][Draw /\ dx > 0 =>
          /\ \A n \in Data : len'[n] >= len[n] \/ len'[n] >= View
          /\ scale > 0 /\ odd = {} => ~broken' /\ (kind \in LineGraphs => listed' = Data)]_seriesVars

(* A graph shows the battery it is labelled with, or one after it, but     *)
(* only if as many batteries before that one have been missing from an     *)
(* update, because they failed or were not listed: those that are left out *)
(* move the others, and empty ones do not.                                 *)
BatteryOfItsId ==
    kind = "battery" => \A b \in DOMAIN Keys : len[Keys[b]] > 0 =>
        \E c \in DOMAIN Keys :
            /\ last[Keys[b]] = Keys[c]
            /\ c - b \in 0 .. Cardinality({f \in missing : f < c})
=============================================================================
