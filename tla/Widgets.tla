------------------------------ MODULE Widgets ------------------------------
(***************************************************************************)
(* The widgets that compare a reading with what they have kept: net, disk  *)
(* and temp; together with those of Series the widgets other than the one  *)
(* of processes.  Counters are unsigned integers, and those of the system  *)
(* stay below half of their range.                                         *)
(***************************************************************************)
EXTENDS Series

CONSTANTS
    Interfaces, VPN,    \* the network interfaces, NetInterfaceVpn
    All,                \* NetInterfaceAll
    Options,            \* the values of NetInterface, see Option
    Devices,            \* the devices of partitions, but for loop devices
    Sensors, Extern,    \* of temperatures, those of extensions
    SignBit,            \* the highest bit of a counter: 2^63
    MaxBytes            \* bound on a counter of the system

Option == [name : Interfaces \cup {All}, not : BOOLEAN]

ASSUME WidgetsAssumption ==
    /\ Options \subseteq Seq(Option) /\ VPN \in Interfaces /\ All \notin Interfaces
    /\ Extern \subseteq Sensors
    /\ IsFiniteSet(Interfaces) /\ SignBit \in Nat /\ MaxBytes \in Nat
    /\ MaxBytes * Cardinality(Interfaces) < SignBit

VARIABLES
    counter,    \* the system: bytes received and sent of the interfaces, and
                \* bytes read of the devices, since they are there
    reset,      \* those that have begun to count from zero again (history)
    moved,      \* bytes moved since the widget began to count (history)
    sum,        \* the sum of what it has shown of them (history)
    option,     \* NetInterface
    total,      \* totalBytesRecv and totalBytesSent
    listing,    \* the mounted devices; seen: not only under /var/lib/docker/
    prev,       \* Partitions with their BytesRead; Rows has the same
    fahrenheit, \* TempScale
    temps       \* Data of temp: how often the value shown was converted

system == <<counter, reset, moved, sum>>
vars == <<seriesVars, system, option, total, listing, prev, fahrenheit, temps>>

Counters == CASE kind = "net" -> Interfaces \X Lines
              [] kind = "disk" -> Devices
              [] OTHER -> {}
Wrapped(n) == n % (2 * SignBit)
Signed(n) == IF n >= SignBit THEN n - 2 * SignBit ELSE n
-----------------------------------------------------------------------------
(* The map of interfaces that update builds from NetInterface: all of them *)
(* but the VPN, until one is named.                                        *)
byDefault ==
    [i \in Interfaces \cup {All} |-> IF i = All THEN "yes" ELSE IF i = VPN THEN "no" ELSE "absent"]
Named(map, o) ==
    IF o.not THEN [map EXCEPT ![o.name] = "no"]
    ELSE [[map EXCEPT ![All] = "absent"] EXCEPT ![o.name] = "yes"]
interfaceMap == FoldLeft(Named, byDefault, option)

Captured == {i \in Interfaces : \/ interfaceMap[i] = "yes"
                                \/ interfaceMap[i] = "absent" /\ interfaceMap[All] = "yes"}

TotalOf(l) == Wrapped(SumFunctionOnSet([i \in Interfaces |-> counter[<<i, l>>]], Captured))

(* Mutant: a difference is taken as it is. *)
RecentUnsigned(l) == Wrapped(TotalOf(l) - total[l])

(* A difference that is negative as an int becomes zero. *)
Recent(l) == IF Signed(Wrapped(TotalOf(l) - total[l])) < 0 THEN 0 ELSE Wrapped(TotalOf(l) - total[l])

(* NetWidget.update.  A total of zero received bytes is taken for that of  *)
(* a widget that has not been updated yet, of the bytes sent too.          *)
TickNet ==
    /\ kind = "net"
    /\ LET shown == IF total[RX] # 0 THEN Lines ELSE {}
       IN  /\ sum' = [l \in DOMAIN sum |-> IF l \in shown THEN sum[l] + Recent(l) ELSE sum[l]]
           /\ moved' = IF shown = {} THEN sum ELSE moved
    /\ total' = [l \in Lines |-> TotalOf(l)]
    /\ UNCHANGED <<seriesVars, counter, reset, option, listing, prev, fahrenheit, temps>>
-----------------------------------------------------------------------------
(* Mutant: what is not listed any more is not deleted. *)
KeptForEver == DOMAIN prev \cup {d \in DOMAIN listing : listing[d] = "seen"}

(* DiskWidget.update: partitions come and go with the listing, of which    *)
(* those under /var/lib/docker/ are not added but stay if they are there.  *)
(* A partition that cannot be read keeps what it has; one of which the     *)
(* system has no counters (blank) reads zero without an error; one whose   *)
(* last reading was zero is taken for a new one; differences are unsigned. *)
(* (Bytes written are kept alongside, and are new when the bytes read are.)*)
Kept == {d \in DOMAIN prev : d \in DOMAIN listing} \cup {d \in DOMAIN listing : listing[d] = "seen"}

Rate(d, old) == IF old = 0 THEN 0 ELSE Wrapped(counter[d] - old)

TickDisk(read, blank) ==
    /\ kind = "disk"
    /\ LET old == [d \in Kept |-> IF d \in DOMAIN prev THEN prev[d] ELSE 0]
           now == Kept \cap read
           anew == Devices \ (Kept \cap DOMAIN prev)
       IN  /\ prev' = [d \in Kept |-> IF d \in now \cap blank THEN 0
                                      ELSE IF d \in now THEN counter[d] ELSE old[d]]
           /\ sum' = [d \in DOMAIN sum |->
                  IF d \in anew \cup (now \cap blank) THEN 0
                  ELSE IF d \in now THEN sum[d] + Rate(d, old[d]) ELSE sum[d]]
           /\ moved' = [d \in DOMAIN moved |->
                  IF d \in anew \cup (now \cap blank) THEN 0
                  ELSE IF d \in now /\ old[d] = 0 THEN sum[d] ELSE moved[d]]
           /\ reset' = reset \cap DOMAIN listing \cap DOMAIN prev
    /\ UNCHANGED <<seriesVars, counter, option, total, listing, fahrenheit, temps>>
-----------------------------------------------------------------------------
(* TempWidget.update: UpdateTemps changes the sensors that can be read, of *)
(* the machine only those in Data; then all of Data is converted.          *)
Converted(n) == IF fahrenheit THEN (IF n < 2 THEN n + 1 ELSE 2) ELSE n

TickTemp(read) ==
    /\ kind = "temp"
    /\ LET fresh == read \cap (DOMAIN temps \cup Extern)
       IN  temps' = [s \in DOMAIN temps \cup fresh |->
                        Converted(IF s \in fresh THEN 0 ELSE temps[s])]
    /\ UNCHANGED <<seriesVars, system, option, total, listing, prev, fahrenheit>>
-----------------------------------------------------------------------------
(* The system: bytes are transferred, interfaces and devices are replaced, *)
(* partitions are mounted and unmounted.  Meant says which interfaces an   *)
(* option asks for: each as it is named last, and those that it does not   *)
(* name, but for the VPN, unless it names others and not all after them.   *)
LastOf(S) == option[Max(S)]
Mentions(i) == {p \in DOMAIN option : option[p].name = i}
Deciding == {p \in DOMAIN option : ~ option[p].not \/ option[p].name = All}

Meant ==
    {i \in Interfaces :
        IF Mentions(i) # {} THEN ~ LastOf(Mentions(i)).not
        ELSE i # VPN /\ (Deciding = {} \/ LastOf(Deciding) = [name |-> All, not |-> FALSE])}

Line(c) == IF kind = "net" THEN c[2] ELSE c

Transfer(c) ==
    /\ counter[c] < MaxBytes
    /\ counter' = [counter EXCEPT ![c] = @ + 1]
    /\ moved' = IF kind = "net" => c[1] \in Meant THEN [moved EXCEPT ![Line(c)] = @ + 1] ELSE moved
    /\ UNCHANGED <<seriesVars, reset, sum, option, total, listing, prev, fahrenheit, temps>>

Of(c) == IF kind = "net" THEN c[1] ELSE c

Replace(x) ==
    /\ x \notin reset
    /\ reset' = reset \cup {x}
    /\ counter' = [c \in Counters |-> IF Of(c) = x THEN 0 ELSE counter[c]]
    /\ UNCHANGED <<seriesVars, moved, sum, option, total, listing, prev, fahrenheit, temps>>

Listings == UNION {[D -> {"seen", "docker"}] : D \in SUBSET Devices}

Mount ==
    /\ kind = "disk"
    /\ listing' \in Listings
    /\ UNCHANGED <<seriesVars, system, option, total, prev, fahrenheit, temps>>
-----------------------------------------------------------------------------
(* The constructors.  That of the net widget has updated it once.          *)
Init ==
    /\ \E k \in {"cpu", "mem", "battery", "sparks", "net", "disk", "temp"} : SeriesInit(k)
    /\ counter = [c \in Counters |-> 0]
    /\ reset = {}
    /\ moved = [x \in Lines \cup Devices |-> 0] /\ sum = moved
    /\ option \in IF kind = "net" THEN Options ELSE {<< >>}
    /\ total = [l \in Lines |-> IF kind = "net" THEN TotalOf(l) ELSE 0]
    /\ listing \in IF kind = "disk" THEN Listings ELSE {<< >>}
    /\ prev = << >>
    /\ fahrenheit \in IF kind = "temp" THEN BOOLEAN ELSE {FALSE}
    /\ temps \in IF kind = "temp" THEN {[s \in D |-> 0] : D \in SUBSET Sensors} ELSE {<< >>}

Next ==
    /\ ~broken
    /\ \/ SeriesNext /\ UNCHANGED <<system, option, total, listing, prev, fahrenheit, temps>>
       \/ TickNet
       \/ \E read \in SUBSET Devices : \E blank \in SUBSET read : TickDisk(read, blank)
       \/ \E read \in SUBSET Sensors : TickTemp(read)
       \/ \E c \in Counters : Transfer(c)
       \/ \E c \in Counters : Replace(Of(c))
       \/ Mount

Spec == Init /\ [][Next]_vars
-----------------------------------------------------------------------------
WidgetsTypeOK ==
    /\ len \in [Names -> 0 .. MaxLen] /\ last \in [Names -> Names \cup {NaN}]
    /\ dx \in Widths \cup {0} /\ scale \in Scales \cup {1} /\ listed \subseteq Names /\ broken \in BOOLEAN
    /\ flight \in [SUBSET (IF kind = "cpu" THEN Key ELSE {}) -> 0 .. MaxFlight]
    /\ odd \subseteq Names
    /\ mems \subseteq Key /\ missing \subseteq 1 .. Len(Keys)
    /\ counter \in [Counters -> 0 .. MaxBytes] /\ reset \subseteq Interfaces \cup Devices
    /\ moved \in [Lines \cup Devices -> Nat] /\ sum \in [Lines \cup Devices -> Nat]
    /\ total \in [Lines -> 0 .. 2 * SignBit - 1] /\ option \in Options \cup {<< >>}
    /\ listing \in Listings /\ fahrenheit \in BOOLEAN
    /\ DOMAIN prev \subseteq Devices /\ \A d \in DOMAIN prev : prev[d] \in 0 .. MaxBytes
    /\ DOMAIN temps \subseteq Sensors /\ \A s \in DOMAIN temps : temps[s] \in 0 .. 2

(* The net widget shows no byte that has not moved on an interface that    *)
(* the options ask for, since its first update that saw received bytes,    *)
(* whatever interfaces are replaced.  As long as none is, its points and   *)
(* what it has not shown yet are all of the bytes.                         *)
NetAddsUp ==
    kind = "net" => \A l \in Lines :
        /\ sum[l] <= moved[l]
        /\ reset = {} => moved[l] = sum[l] + TotalOf(l) - total[l]

(* So it is with the reads of a disk that was not replaced between two     *)
(* updates: one that was unplugged and is listed again is a new one, and   *)
(* what a failed reading has missed is shown by the next one.              *)
DiskAddsUp ==
    kind = "disk" => \A d \in DOMAIN prev \ reset :
        prev[d] # 0 => moved[d] = sum[d] + counter[d] - prev[d]
=============================================================================
