--------------------------- MODULE Configuration ---------------------------
(***************************************************************************)
(* The options of gotop: config.go, which reads and writes the file, and   *)
(* what cmd/gotop/main.go does with them before the widgets exist.  The    *)
(* file outlives the program: a run may write it (--write-config) for the  *)
(* runs after it, and the user edits it in between.                        *)
(*                                                                         *)
(* A value is the text that stands for it in the file; numbers, durations  *)
(* and texts are members of small sets.  load and parseArgs run alone, so  *)
(* each is one step.  Upper case and blanks around a line are left out.    *)
(***************************************************************************)
EXTENDS Naturals, SequencesExt

CONSTANTS
    Numbers, Durations, Strings,   \* the texts of the values
    Nanoseconds,                   \* of each duration, as a number
    Schemes, NameOf,               \* colour schemes, and the Name each says it has
    Arguments,                     \* the command lines: flags with values, and what to do
    UserFiles,                     \* the files the user writes, sequences of Line
    MaxWrites                      \* bound on --write-config between edits

Flags == {"helpvisible", "averagecpu", "percpuload", "statusbar", "nvidia", "mbps"}
Ints == {"graphhorizontalscale", "updateinterval", "maxlogsize"}
Options == Flags \cup Ints \cup
    {"colorscheme", "tempscale", "netinterface", "layout", "metricsexportport",
     "temperatures", "nvidiarefresh"}
Deprecated == {"configdir", "logdir", "logfile"}

Empty == ""
Text == Numbers \cup Durations \cup Strings \cup Schemes \cup {NameOf[s] : s \in Schemes} \cup
        {"true", "false", "C", "F", Empty, "a=b"}
HasEquals(t) == t = "a=b"

(* A line is a key and what follows the first equals sign.  Of those with  *)
(* none there are the comment, the empty line, and any others.  No file is *)
(* as good as an empty one.                                                *)
NoSign == {[key |-> k, text |-> Empty] : k \in {"#", "blank", "word"}}
Assignment == [key : Options \cup Deprecated \cup Strings, text : Text]
Line == NoSign \cup Assignment

(* A scheme without a name cannot be asked for, see SchemeOf.  A flag that *)
(* is not a text or a number is on or off, fahrenheit or celsius.          *)
ASSUME ConfigurationAssumption ==
    /\ "default" \in Schemes /\ "default" \in Strings /\ "all" \in Strings
    /\ NameOf["default"] = "default" /\ Empty \notin Schemes
    /\ Numbers # {} /\ \A d \in Durations : Nanoseconds[d] \in Numbers
    /\ UserFiles \subseteq Seq(Line)
    /\ \A a \in Arguments :
          /\ \A o \in DOMAIN a.flags : o \in Options /\ a.flags[o] \in Text
          /\ \A o \in DOMAIN a.flags \cap Flags : a.flags[o] \in {"true", "false"}
          /\ "tempscale" \in DOMAIN a.flags => a.flags["tempscale"] \in {"C", "F"}
          /\ a.do \in {"run", "write", "list", "version"}
    /\ MaxWrites \in Nat

VARIABLES
    pc,         \* what the program does, "off" between runs
    file,       \* gotop.conf
    conf, ext,  \* Config, and its ExtensionVars
    loaded,     \* conf as it was loaded (history)
    given,      \* the options of the command line (history)
    wrote,      \* conf when the file was written, if it was since the user
    writes      \* edited it, and how often (history)

vars == <<pc, file, conf, ext, loaded, given, wrote, writes>>
Nothing == << >>
-----------------------------------------------------------------------------
(* NewConfig.  The numbers of the defaults stand for those of the code.    *)
Default == [o \in Options |->
    CASE o = "percpuload" -> "true"
      [] o \in Flags \ {"percpuload"} -> "false"
      [] o \in Ints -> CHOOSE n \in Numbers : TRUE
      [] o = "colorscheme" -> "default"
      [] o = "tempscale" -> "C"
      [] o = "netinterface" -> "all"
      [] o = "layout" -> "default"
      [] OTHER -> Empty]

(* FromName *)
SchemeOf(t) == IF t = Empty THEN "default" ELSE t

(* What load makes of a text; mbps is set whatever the text.               *)
Legal(o) ==
    CASE o \in Flags \ {"mbps"} -> {"true", "false"}
      [] o \in Ints -> Numbers
      [] o = "tempscale" -> {"C", "F"}
      [] o = "nvidiarefresh" -> Durations
      [] o = "colorscheme" -> Schemes \cup {Empty}
      [] OTHER -> Text

Parsed(o, t) ==
    CASE o = "mbps" -> "true"
      [] o = "colorscheme" -> SchemeOf(t)
      [] OTHER -> t

(* An empty line is a panic, the others are reported; either ends the run. *)
Bad(l) ==
    \/ l.key \in {"blank", "word"}
    \/ HasEquals(l.text)
    \/ l.key \in Options /\ l.text \notin Legal(l.key)

Assigned(c, l) ==
    IF l.key \in Options THEN [c EXCEPT ![l.key] = Parsed(l.key, l.text)] ELSE c

LoadedConf(lines) == FoldLeft(Assigned, Default, lines)

Extensions(lines) ==
    {<<l.key, l.text>> : l \in {k \in ToSet(lines) : k.key \in Strings}}

(* run up to Load; a file that cannot be read ends it as a bad one does.   *)
Load ==
    /\ pc = "off"
    /\ \/ pc' = "failed" /\ UNCHANGED <<conf, ext, loaded>>
       \/ /\ \A p \in DOMAIN file : ~ Bad(file[p])
          /\ pc' = "args"
          /\ conf' = LoadedConf(file) /\ loaded' = conf'
          /\ ext' = Extensions(file)
    /\ given' = {}
    /\ UNCHANGED <<file, wrote, writes>>
-----------------------------------------------------------------------------
(* The options parseArgs starts from the configuration; for the others it  *)
(* starts from a default of its own and assigns what comes out.            *)
FromConf == {"colorscheme", "graphhorizontalscale", "updateinterval", "layout", "metricsexportport"}
OwnDefault == [o \in {"percpuload", "averagecpu", "statusbar", "mbps", "nvidia",
                      "tempscale", "netinterface"} |->
    CASE o = "tempscale" -> "C" [] o = "netinterface" -> "all" [] OTHER -> "false"]

Color(a) == IF "colorscheme" \in DOMAIN a.flags THEN a.flags["colorscheme"]
            ELSE NameOf[conf["colorscheme"]]

(* The option as the flag gives it: the interval is a duration there.      *)
Given(a, o) == IF o = "updateinterval" THEN Nanoseconds[a.flags[o]] ELSE a.flags[o]

(* An empty name of a scheme leaves the scheme alone. *)
ArgsConf(a) == [o \in Options |->
    IF o = "colorscheme" THEN (IF a.do = "version" \/ Color(a) = Empty THEN conf[o] ELSE Color(a))
    ELSE IF o \in DOMAIN a.flags THEN Given(a, o)
    ELSE IF o \in DOMAIN OwnDefault THEN OwnDefault[o]
    ELSE conf[o]]

(* --version ends the program before the colours are looked up.            *)
Refused(a) ==
    \/ "graphhorizontalscale" \in DOMAIN a.flags /\ a.flags["graphhorizontalscale"] \notin Numbers
    \/ "updateinterval" \in DOMAIN a.flags /\ a.flags["updateinterval"] \notin Durations
    \/ a.do # "version" /\ Color(a) \notin Schemes \cup {Empty}

ParseArgs(a) ==
    /\ pc = "args"
    /\ DOMAIN a.flags \subseteq FromConf \cup DOMAIN OwnDefault
    /\ a.do = "write" => writes < MaxWrites
    /\ IF Refused(a)
       THEN pc' = "failed" /\ UNCHANGED <<conf, ext>>
       ELSE /\ conf' = ArgsConf(a)
            /\ ext' = ext \cup (IF conf'["nvidia"] = "true" THEN {<<"nvidia", "true">>} ELSE {})
            /\ pc' = CASE a.do = "write" -> "write" [] a.do = "run" -> "setup" [] OTHER -> "done"
    /\ given' = DOMAIN a.flags
    /\ UNCHANGED <<file, loaded, wrote, writes>>
-----------------------------------------------------------------------------
Written == <<"graphhorizontalscale", "helpvisible", "colorscheme", "updateinterval",
             "averagecpu", "percpuload", "tempscale", "statusbar", "netinterface", "layout",
             "maxlogsize", "metricsexportport", "mbps", "temperatures", "nvidia">>

TextOf(c, o) == IF o = "colorscheme" THEN NameOf[c[o]] ELSE c[o]

(* Mutant: the interval is written as parseArgs reads it. *)
marshalDuration(c) ==
    [p \in DOMAIN Written |-> [key |-> Written[p],
        text |-> IF Written[p] = "updateinterval" THEN CHOOSE d \in Durations : TRUE
                 ELSE TextOf(c, Written[p])]]

(* An empty port and an empty list of sensors are written as comments.     *)
marshal(c) ==
    [p \in DOMAIN Written |->
        IF Written[p] \in {"metricsexportport", "temperatures"} /\ TextOf(c, Written[p]) = Empty
        THEN [key |-> "#", text |-> Empty]
        ELSE [key |-> Written[p], text |-> TextOf(c, Written[p])]]

(* Write, after which the program ends; the file system may refuse it.     *)
Write ==
    /\ pc = "write"
    /\ pc' = "done"
    /\ file' = marshal(conf) /\ wrote' = conf /\ writes' = writes + 1
    /\ UNCHANGED <<conf, ext, loaded, given>>

WriteFails == pc = "write" /\ pc' = "failed" /\ UNCHANGED <<file, conf, ext, loaded, given, wrote, writes>>

(* The rest of run: the log, the extensions, the layout and the UI, each   *)
(* of which can fail.                                                      *)
SetUp ==
    /\ pc = "setup"
    /\ pc' \in {"running", "failed"}
    /\ UNCHANGED <<file, conf, ext, loaded, given, wrote, writes>>

(* What the process has in memory goes with it. *)
Exit ==
    /\ pc \in {"running", "failed", "done"}
    /\ pc' = "off"
    /\ conf' = Default /\ ext' = {} /\ loaded' = Default /\ given' = {}
    /\ UNCHANGED <<file, wrote, writes>>

Edit ==
    /\ pc = "off"
    /\ file' \in UserFiles /\ wrote' = Nothing /\ writes' = 0
    /\ UNCHANGED <<pc, conf, ext, loaded, given>>

Init ==
    /\ pc = "off" /\ file = << >>
    /\ conf = Default /\ ext = {} /\ loaded = Default /\ given = {}
    /\ wrote = Nothing /\ writes = 0

Next ==
    \/ Load \/ Write \/ WriteFails \/ SetUp \/ Exit \/ Edit
    \/ \E a \in Arguments : ParseArgs(a)

Spec == Init /\ [][Next]_vars
-----------------------------------------------------------------------------
(* A file that the program has written can be loaded, and gives the        *)
(* options it was written from, by a later run, after any edits and flags  *)
(* before.  Not so if a text has an equals sign or a scheme has another    *)
(* name than its file; and mbps is always set by its line, until parseArgs *)
(* assigns it.                                                             *)
Writable(o) == ~ HasEquals(wrote[o]) /\ (o = "colorscheme" => NameOf[wrote[o]] = wrote[o])

WrittenIsReadBack ==
    wrote # Nothing /\ (\A o \in ToSet(Written) : Writable(o)) =>
        /\ ~ \E p \in DOMAIN file : Bad(file[p])
        /\ pc = "args" => \A o \in ToSet(Written) \ {"mbps"} : conf[o] = wrote[o]

(* What docs/configuration.md says: most settings of the command line can  *)
(* be persisted in the file, whose values command-line options override.   *)
(* So an option that the file has and that was not given is as loaded.     *)
OnlyGivenOverride ==
    pc \in {"write", "setup", "running"} =>
        \A l \in ToSet(file) : l.key \in Options \ given => conf[l.key] = loaded[l.key]
=============================================================================
