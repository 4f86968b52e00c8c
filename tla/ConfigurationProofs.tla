------------------------ MODULE ConfigurationProofs ------------------------
(***************************************************************************)
(* Proofs about the options: what load makes of a file of any length, and  *)
(* that a file which --write-config has written gives the options it was   *)
(* written from.  The first part is about load, which is a fold over the   *)
(* lines of the file: of the lines of an option the last one decides.      *)
(***************************************************************************)
EXTENDS Configuration, FoldProofs

(* The values that the program can hold for an option.                     *)
Value(o) ==
    CASE o \in Flags -> {"true", "false"}
      [] o \in Ints -> Numbers
      [] o = "tempscale" -> {"C", "F"}
      [] o = "nvidiarefresh" -> Durations \cup {Empty}
      [] o = "colorscheme" -> Schemes
      [] OTHER -> Text
Config == {c \in [Options -> Text] : \A o \in Options : c[o] \in Value(o)}

(* NewConfig is a configuration.                                           *)
LEMMA DefaultIs == Default \in Config
<1>1. (CHOOSE n \in Numbers : TRUE) \in Numbers
  BY ConfigurationAssumption
<1>2. ASSUME NEW o \in Options PROVE Default[o] \in Value(o) /\ Default[o] \in Text
  BY <1>1, ConfigurationAssumption DEF Default, Value, Text, Options, Flags, Ints
<1>3. Default \in [Options -> Text]
  BY <1>2 DEF Default
<1>. QED
  BY <1>2, <1>3 DEF Config

-----------------------------------------------------------------------------
(* Every line has a text, which is empty if it has no equals sign.         *)
LEMMA TextOfALine == \A l \in Line : l.text \in Text
<1>1. ASSUME NEW l \in NoSign PROVE l.text \in Text
  <2>1. l.text = Empty
    BY DEF NoSign
  <2>. QED
    BY <2>1 DEF Text
<1>2. ASSUME NEW l \in Assignment PROVE l.text \in Text
  BY DEF Assignment
<1>. QED
  BY <1>1, <1>2 DEF Line

(* What load makes of a line is a configuration again, and of one that it  *)
(* does not refuse a legal one.                                            *)
LEMMA AssignedIs ==
  ASSUME NEW c \in [Options -> Text], NEW l \in Line
  PROVE  /\ Assigned(c, l) \in [Options -> Text]
         /\ \A o \in Options : Assigned(c, l)[o] = IF l.key = o THEN Parsed(o, l.text) ELSE c[o]
         /\ c \in Config /\ ~ Bad(l) => Assigned(c, l) \in Config
<1>1. l.text \in Text
  BY TextOfALine
<1>2. ASSUME NEW o \in Options, NEW t \in Text PROVE Parsed(o, t) \in Text
  BY ConfigurationAssumption DEF Parsed, SchemeOf, Text
<1>3. ASSUME NEW o \in Options, NEW t \in Text, t \in Legal(o) PROVE Parsed(o, t) \in Value(o)
  BY <1>3, ConfigurationAssumption DEF Parsed, SchemeOf, Legal, Value, Options, Flags, Ints
<1>4. Assigned(c, l) \in [Options -> Text]
  BY <1>1, <1>2 DEF Assigned
<1>5. \A o \in Options : Assigned(c, l)[o] = IF l.key = o THEN Parsed(o, l.text) ELSE c[o]
  BY DEF Assigned
<1>6. ASSUME c \in Config, ~ Bad(l) PROVE Assigned(c, l) \in Config
  <2>1. ASSUME NEW o \in Options PROVE Assigned(c, l)[o] \in Value(o)
    <3>1. CASE l.key = o
      <4>1. l.text \in Legal(o)
        BY <1>6, <3>1 DEF Bad
      <4>. QED
        BY <1>1, <1>3, <1>5, <3>1, <4>1
    <3>2. CASE l.key # o
      BY <1>5, <1>6, <3>2 DEF Config
    <3>. QED
      BY <3>1, <3>2
  <2>. QED
    BY <1>4, <2>1 DEF Config
<1>. QED
  BY <1>4, <1>5, <1>6

(* The recursive function of the fold over the lines.                      *)
LoadBody(lines, g, s) == IF s = {} THEN Default ELSE Assigned(g[s \ {Max(s)}], lines[Max(s)])
Loading(lines) == CHOOSE g : g = [s \in SUBSET DOMAIN lines |-> LoadBody(lines, g, s)]

(* What load makes of a file is that function at all of its lines.         *)
LEMMA LoadedIsLoading ==
  ASSUME NEW lines
  PROVE  LoadedConf(lines) = Loading(lines)[DOMAIN lines]
  BY DEF LoadedConf, FoldLeft, MapThenFoldSet, Loading, LoadBody

(* That recursive function is what its recursion says.                     *)
LEMMA LoadingExists ==
  ASSUME NEW N \in Nat, NEW lines \in [1 .. N -> Line]
  PROVE  Loading(lines) = [s \in SUBSET DOMAIN lines |-> LoadBody(lines, Loading(lines), s)]
<1> DEFINE S == DOMAIN lines
           A == [Options -> Text]
           step == [cp \in A \X S |-> Assigned(cp[1], lines[cp[2]])]
<1>1. S \subseteq Nat /\ IsFiniteSet(S)
  <2>1. S = 1 .. N
    OBVIOUS
  <2>. QED
    BY <2>1, FS_Interval
<1>2. Default \in A
  BY DefaultIs DEF Config
<1>3. ASSUME NEW c \in A, NEW p \in S PROVE Assigned(c, lines[p]) \in A
  <2>1. lines[p] \in Line
    OBVIOUS
  <2>. QED
    BY <2>1, AssignedIs
<1>4. step \in [A \X S -> A]
  BY <1>3
<1>5. \A c \in A, p \in S : step[<<c, p>>] = Assigned(c, lines[p])
  OBVIOUS
<1> HIDE DEF A, step
<1>6. PICK g : Folding(g, S, A, Default, step)
  <2> HIDE DEF S
  <2>. QED
    BY <1>1, <1>2, <1>4, FoldingExists
<1>7. ASSUME NEW s \in SUBSET S PROVE g[s] = LoadBody(lines, g, s)
  <2>1. CASE s = {}
    BY <1>6, <2>1 DEF LoadBody, Folding
  <2>2. CASE s # {}
    <3>1. s \ {Max(s)} \in SUBSET S /\ Max(s) \in S
      BY <1>1, <2>2, WithoutLargest
    <3>2. g[s \ {Max(s)}] \in A
      BY <1>6, <3>1 DEF Folding
    <3>3. g[s] = step[<<g[s \ {Max(s)}], Max(s)>>]
      BY <1>6, <2>2 DEF Folding
    <3>. QED
      BY <1>5, <2>2, <3>1, <3>2, <3>3 DEF LoadBody
  <2>. QED
    BY <2>1, <2>2
<1>8. g = [s \in SUBSET S |-> LoadBody(lines, g, s)]
  BY <1>6, <1>7 DEF Folding
<1>. QED
  BY <1>8 DEF Loading

(* So what is loaded from the first n lines is what is loaded from one     *)
(* line less, with the last assigned.                                      *)
LEMMA PrefixLoad ==
  ASSUME NEW N \in Nat, NEW lines \in [1 .. N -> Line], NEW n \in 0 .. N
  PROVE  /\ n = 0 => Loading(lines)[1 .. n] = Default
         /\ n > 0 => Loading(lines)[1 .. n] = Assigned(Loading(lines)[1 .. n - 1], lines[n])
<1>1. Loading(lines) = [s \in SUBSET DOMAIN lines |-> LoadBody(lines, Loading(lines), s)]
  BY LoadingExists
<1>2. 1 .. n \in SUBSET DOMAIN lines
  OBVIOUS
<1>3. Loading(lines)[1 .. n] = LoadBody(lines, Loading(lines), 1 .. n)
  BY <1>1, <1>2
<1>4. ASSUME n = 0 PROVE Loading(lines)[1 .. n] = Default
  <2>1. 1 .. n = {}
    BY <1>4
  <2>. QED
    BY <1>3, <2>1 DEF LoadBody
<1>5. ASSUME n > 0 PROVE Loading(lines)[1 .. n] = Assigned(Loading(lines)[1 .. n - 1], lines[n])
  <2>1. 1 .. n # {} /\ Max(1 .. n) = n /\ (1 .. n) \ {n} = 1 .. n - 1
    <3>1. n \in Nat
      OBVIOUS
    <3>. QED
      BY <1>5, <3>1, PositionsBefore, Zenon
  <2>2. Loading(lines)[1 .. n] = Assigned(Loading(lines)[(1 .. n) \ {Max(1 .. n)}], lines[Max(1 .. n)])
    BY <1>3, <2>1, Zenon DEF LoadBody
  <2>. QED
    BY <2>1, <2>2, Zenon
<1>. QED
  BY <1>4, <1>5

(* The lines of an option among the first n, and what follows of the       *)
(* configuration that was loaded from them.                                *)
MentionsIn(lines, n, o) == {p \in 1 .. n : lines[p].key = o}
Says(c, lines, n) ==
    /\ c \in [Options -> Text]
    /\ \A o \in Options :
          c[o] = IF MentionsIn(lines, n, o) = {} THEN Default[o]
                 ELSE Parsed(o, lines[Max(MentionsIn(lines, n, o))].text)
    /\ (\A p \in 1 .. n : ~ Bad(lines[p])) => c \in Config

(* One more line: it decides about its option, the others stay.            *)
LEMMA AssignedFollows ==
  ASSUME NEW N \in Nat, NEW lines \in [1 .. N -> Line], NEW n \in 0 .. N - 1,
         NEW c, Says(c, lines, n)
  PROVE  Says(Assigned(c, lines[n + 1]), lines, n + 1)
<1> DEFINE l == lines[n + 1]
           new == Assigned(c, l)
<1>1. l \in Line /\ c \in [Options -> Text]
  BY DEF Says
<1>2. /\ new \in [Options -> Text]
      /\ \A o \in Options : new[o] = IF l.key = o THEN Parsed(o, l.text) ELSE c[o]
      /\ c \in Config /\ ~ Bad(l) => new \in Config
  BY <1>1, AssignedIs
<1>3. 1 .. n + 1 = (1 .. n) \cup {n + 1}
  OBVIOUS
<1>4. ASSUME \A p \in 1 .. n + 1 : ~ Bad(lines[p]) PROVE new \in Config
  <2>1. ~ Bad(l) /\ \A p \in 1 .. n : ~ Bad(lines[p])
    BY <1>3, <1>4, Zenon DEF l
  <2>. QED
    BY <1>2, <2>1 DEF Says
<1>5. ASSUME NEW s \in SUBSET (1 .. n) PROVE Max(s \cup {n + 1}) = n + 1
  <2>1. s \cup {n + 1} \subseteq Nat /\ n + 1 \in s \cup {n + 1} /\ \A m \in s \cup {n + 1} : m <= n + 1
    OBVIOUS
  <2>. QED
    BY <2>1, LargestIs
<1>6. ASSUME NEW o \in Options
      PROVE  new[o] = IF MentionsIn(lines, n + 1, o) = {} THEN Default[o]
                      ELSE Parsed(o, lines[Max(MentionsIn(lines, n + 1, o))].text)
  <2>1. MentionsIn(lines, n, o) \in SUBSET (1 .. n)
    BY DEF MentionsIn
  <2>2. CASE l.key = o
    <3>1. MentionsIn(lines, n + 1, o) = MentionsIn(lines, n, o) \cup {n + 1}
      BY <1>3, <2>2, Zenon DEF MentionsIn, l
    <3>2. MentionsIn(lines, n + 1, o) # {} /\ Max(MentionsIn(lines, n + 1, o)) = n + 1
      BY <1>5, <2>1, <3>1
    <3>3. new[o] = Parsed(o, l.text)
      BY <1>2, <2>2
    <3> HIDE DEF new
    <3>. QED
      BY <3>2, <3>3, Zenon DEF l
  <2>3. CASE l.key # o
    <3>1. MentionsIn(lines, n + 1, o) = MentionsIn(lines, n, o)
      BY <1>3, <2>3, Zenon DEF MentionsIn, l
    <3>2. new[o] = c[o]
      BY <1>2, <2>3
    <3> HIDE DEF new
    <3>. QED
      BY <3>1, <3>2, Zenon DEF Says
  <2>. QED
    BY <2>2, <2>3
<1> HIDE DEF new
<1>7. Says(new, lines, n + 1)
  BY <1>2, <1>4, <1>6, Zenon DEF Says
<1>. QED
  BY <1>7 DEF new, l

(* By induction over the lines.                                            *)
LEMMA LoadSays ==
  ASSUME NEW N \in Nat, NEW lines \in [1 .. N -> Line]
  PROVE  Says(LoadedConf(lines), lines, N)
<1> DEFINE T == {n \in Nat : n <= N => Says(Loading(lines)[1 .. n], lines, n)}
<1>1. 0 \in T
  <2>1. Loading(lines)[1 .. 0] = Default
    <3>1. 0 \in 0 .. N
      OBVIOUS
    <3>. QED
      BY <3>1, PrefixLoad
  <2>2. \A o \in Options : MentionsIn(lines, 0, o) = {}
    BY DEF MentionsIn
  <2>3. Says(Default, lines, 0)
    BY <2>2, DefaultIs DEF Says, Config
  <2>. QED
    BY <2>1, <2>3
<1>2. ASSUME NEW n \in Nat, n \in T PROVE n + 1 \in T
  <2> SUFFICES ASSUME n + 1 <= N PROVE Says(Loading(lines)[1 .. n + 1], lines, n + 1)
    OBVIOUS
  <2>1. Says(Loading(lines)[1 .. n], lines, n) /\ n \in 0 .. N - 1
    BY <1>2
  <2>2. Loading(lines)[1 .. n + 1] = Assigned(Loading(lines)[1 .. n], lines[n + 1])
    <3>1. n + 1 \in 0 .. N /\ n + 1 > 0 /\ (n + 1) - 1 = n
      OBVIOUS
    <3>. QED
      BY <3>1, PrefixLoad
  <2>. QED
    BY <2>1, <2>2, AssignedFollows
<1>3. Nat \subseteq T
  <2> HIDE DEF T
  <2>. QED
    BY <1>1, <1>2, InductionOnNat
<1>4. Says(Loading(lines)[1 .. N], lines, N)
  BY <1>3
<1>5. DOMAIN lines = 1 .. N
  OBVIOUS
<1>. QED
  BY <1>4, <1>5, LoadedIsLoading, Zenon

(* load takes the lines one after the other and assigns each at once, so   *)
(* of the lines that set an option the last one decides, and an option     *)
(* without a line keeps its default; and load either refuses a file, of    *)
(* any length, or makes a configuration of it.                             *)
THEOREM LastLineDecides ==
  ASSUME NEW lines \in Seq(Line)
  PROVE  /\ \A o \in Options :
               LET mentions == {p \in DOMAIN lines : lines[p].key = o}
               IN  LoadedConf(lines)[o] = IF mentions = {} THEN Default[o]
                                          ELSE Parsed(o, lines[Max(mentions)].text)
         /\ (\A p \in DOMAIN lines : ~ Bad(lines[p])) => LoadedConf(lines) \in Config
<1>1. PICK N \in Nat : lines \in [1 .. N -> Line]
  OBVIOUS
<1>2. DOMAIN lines = 1 .. N
  BY <1>1
<1>3. Says(LoadedConf(lines), lines, N)
  BY <1>1, LoadSays
<1>. QED
  BY <1>2, <1>3, Zenon DEF Says, MentionsIn
-----------------------------------------------------------------------------
(* What a file is.                                                         *)
LEMMA LinesAre ==
  ASSUME NEW N \in Nat, NEW lines \in [1 .. N -> Line]
  PROVE  lines \in Seq(Line) /\ DOMAIN lines = 1 .. N
  OBVIOUS

(* marshal writes 15 options, each once.                                   *)
LEMMA WrittenIs ==
  /\ Written \in [1 .. 15 -> Options] /\ DOMAIN Written = 1 .. 15
  /\ \A p, q \in 1 .. 15 : Written[p] = Written[q] => p = q
<1>1. /\ DOMAIN Written = 1 .. 15 /\ Written \in [1 .. 15 -> Options]
  BY DEF Written, Options, Flags, Ints
<1>2. ASSUME NEW p \in 1 .. 15, NEW q \in 1 .. 15, Written[p] = Written[q] PROVE p = q
  BY <1>2 DEF Written
<1>. QED
  BY <1>1, <1>2

(* The options that are commented out when they are empty.                 *)
Commented(c, o) == o \in {"metricsexportport", "temperatures"} /\ TextOf(c, o) = Empty

(* What marshal writes for each of them.                                   *)
LEMMA MarshalIs ==
  ASSUME NEW c \in Config
  PROVE  /\ marshal(c) \in [1 .. 15 -> Line]
         /\ \A p \in 1 .. 15 :
              IF Commented(c, Written[p])
              THEN marshal(c)[p].key = "#" /\ marshal(c)[p].text = Empty
              ELSE marshal(c)[p].key = Written[p] /\ marshal(c)[p].text = TextOf(c, Written[p])
<1> DEFINE line(p) == IF Commented(c, Written[p]) THEN [key |-> "#", text |-> Empty]
                      ELSE [key |-> Written[p], text |-> TextOf(c, Written[p])]
<1>1. marshal(c) = [p \in 1 .. 15 |-> line(p)]
  BY WrittenIs DEF marshal, Commented
<1>2. ASSUME NEW p \in 1 .. 15 PROVE line(p) \in Line
  <2>1. Written[p] \in Options
    BY WrittenIs
  <2>2. CASE Commented(c, Written[p])
    <3>1. [key |-> "#", text |-> Empty] \in NoSign
      BY DEF NoSign
    <3>. QED
      BY <2>2, <3>1 DEF Line
  <2>3. CASE ~ Commented(c, Written[p])
    <3>1. TextOf(c, Written[p]) \in Text
      <4>1. c["colorscheme"] \in Schemes
        BY DEF Config, Value, Options, Flags, Ints
      <4>2. c[Written[p]] \in Text
        BY <2>1 DEF Config
      <4>. QED
        BY <4>1, <4>2 DEF TextOf, Text
    <3>2. [key |-> Written[p], text |-> TextOf(c, Written[p])] \in Assignment
      BY <2>1, <3>1 DEF Assignment
    <3>. QED
      BY <2>3, <3>2 DEF Line
  <2>. QED
    BY <2>2, <2>3
<1>3. ASSUME NEW p \in 1 .. 15
      PROVE  IF Commented(c, Written[p]) THEN line(p).key = "#" /\ line(p).text = Empty
             ELSE line(p).key = Written[p] /\ line(p).text = TextOf(c, Written[p])
  OBVIOUS
<1> HIDE DEF line
<1>. QED
  BY <1>1, <1>2, <1>3

(* What a run has in memory and can be written.                            *)
WritableIn(c, o) == ~ HasEquals(c[o]) /\ (o = "colorscheme" => NameOf[c[o]] = c[o])

(* No text that is written has an equals sign, and load takes each for the *)
(* option it is written for.                                               *)
LEMMA MarshalIsGood ==
  ASSUME NEW c \in Config, \A o \in ToSet(Written) : WritableIn(c, o), NEW p \in 1 .. 15
  PROVE  ~ Bad(marshal(c)[p])
<1> DEFINE o == Written[p]
           l == marshal(c)[p]
<1>1. o \in Options /\ o \in ToSet(Written) /\ WritableIn(c, o)
  BY WrittenIs DEF ToSet
<1>2. CASE Commented(c, o)
  <2>1. l.key = "#" /\ l.text = Empty
    BY <1>2, MarshalIs
  <2>2. ~ HasEquals(Empty)
    BY Zenon DEF HasEquals, Empty
  <2>3. l.key \notin {"blank", "word"} /\ l.key \notin Options
    BY <2>1 DEF Options, Flags, Ints
  <2>. QED
    BY <2>1, <2>2, <2>3 DEF Bad
<1>3. CASE ~ Commented(c, o)
  <2>1. l.key = o /\ l.text = TextOf(c, o)
    BY <1>3, MarshalIs
  <2>2. TextOf(c, o) = c[o]
    BY <1>1 DEF TextOf, WritableIn
  <2>3. c[o] \in Value(o) /\ c[o] \in Text
    BY <1>1 DEF Config
  <2>4. o # "nvidiarefresh"
    BY DEF Written
  <2>5. c[o] \in Legal(o)
    BY <1>1, <2>3, <2>4 DEF Value, Legal, Options, Flags, Ints
  <2>6. l.key \notin {"blank", "word"}
    BY <1>1, <2>1 DEF Options, Flags, Ints
  <2>. QED
    BY <1>1, <2>1, <2>2, <2>5, <2>6 DEF Bad, WritableIn
<1>. QED
  BY <1>2, <1>3

(* And what load makes of the file are the options it was written from,    *)
(* but for mbps, which its line sets.                                      *)
LEMMA MarshalIsReadBack ==
  ASSUME NEW c \in Config, \A o \in ToSet(Written) : WritableIn(c, o),
         NEW o \in ToSet(Written) \ {"mbps"}
  PROVE  LoadedConf(marshal(c))[o] = c[o]
<1> DEFINE lines == marshal(c)
           mentions == {p \in 1 .. 15 : lines[p].key = o}
<1>1. PICK q \in 1 .. 15 : o = Written[q]
  BY WrittenIs DEF ToSet
<1>2. o \in Options /\ WritableIn(c, o) /\ c[o] \in Value(o)
  BY <1>1, WrittenIs DEF Config
<1>3. LoadedConf(lines)[o] = IF mentions = {} THEN Default[o] ELSE Parsed(o, lines[Max(mentions)].text)
  <2>1. lines \in Seq(Line) /\ DOMAIN lines = 1 .. 15
    <3>1. lines \in [1 .. 15 -> Line]
      BY MarshalIs
    <3> HIDE DEF lines
    <3>. QED
      BY <3>1, LinesAre
  <2> HIDE DEF lines
  <2>. QED
    BY <1>2, <2>1, LastLineDecides, Zenon
<1>4. "#" \notin Options
  BY DEF Options, Flags, Ints
<1>5. CASE Commented(c, o)
  <2>1. ASSUME NEW p \in 1 .. 15 PROVE lines[p].key # o
    <3>1. CASE p = q
      BY <1>1, <1>2, <1>4, <1>5, <3>1, MarshalIs
    <3>2. CASE p # q
      <4>1. lines[p].key = "#" \/ lines[p].key = Written[p]
        BY MarshalIs
      <4>2. Written[p] # o
        BY <1>1, <3>2, WrittenIs
      <4>. QED
        BY <1>2, <1>4, <4>1, <4>2
    <3>. QED
      BY <3>1, <3>2
  <2>2. mentions = {}
    BY <2>1
  <2>3. Default[o] = Empty /\ c[o] = Empty
    BY <1>2, <1>5 DEF Default, Commented, TextOf, Flags, Ints
  <2>. QED
    BY <1>3, <2>2, <2>3
<1>6. CASE ~ Commented(c, o)
  <2>1. lines[q].key = o /\ lines[q].text = TextOf(c, o)
    BY <1>1, <1>6, MarshalIs
  <2>2. ASSUME NEW p \in 1 .. 15, p # q PROVE lines[p].key # o
    <3>1. lines[p].key = "#" \/ lines[p].key = Written[p]
      BY MarshalIs
    <3>2. Written[p] # o
      BY <1>1, <2>2, WrittenIs
    <3>. QED
      BY <1>2, <1>4, <3>1, <3>2
  <2>3. q \in mentions /\ \A p \in mentions : p = q
    BY <2>1, <2>2
  <2>4. mentions # {} /\ Max(mentions) = q
    <3>1. mentions \subseteq Nat /\ \A m \in mentions : m <= q
      BY <2>3
    <3> HIDE DEF mentions
    <3>. QED
      BY <2>3, <3>1, LargestIs
  <2>5. TextOf(c, o) = c[o]
    BY <1>2 DEF TextOf, WritableIn
  <2>6. Parsed(o, c[o]) = c[o]
    BY <1>2, ConfigurationAssumption DEF Parsed, SchemeOf, Value, Flags, Ints
  <2> HIDE DEF mentions, lines
  <2>7. LoadedConf(lines)[o] = Parsed(o, lines[q].text)
    BY <1>3, <2>4, Zenon
  <2>8. LoadedConf(lines)[o] = c[o]
    BY <2>1, <2>5, <2>6, <2>7, Zenon
  <2>. QED
    BY <2>8 DEF lines
<1>. QED
  BY <1>5, <1>6
-----------------------------------------------------------------------------
(* The type invariant: in particular what is in memory is a configuration, *)
(* whatever files and flags it comes from.                                 *)
ConfigTypeOK ==
    /\ pc \in {"off", "failed", "args", "write", "setup", "running", "done"}
    /\ file \in Seq(Line)
    /\ conf \in Config /\ loaded \in Config
    /\ ext \subseteq (Strings \cup {"nvidia"}) \X Text
    /\ given \subseteq Options
    /\ writes \in 0 .. MaxWrites
    /\ pc = "write" => writes < MaxWrites

(* Until the flags are looked at the options are those of the file, and    *)
(* the file that a run has written is what marshal makes of its options.   *)
AsLoaded == pc = "args" => conf = LoadedConf(file)
AsWritten == wrote # Nothing => wrote \in Config /\ file = marshal(wrote)
ConfigInv == ConfigTypeOK /\ AsLoaded /\ AsWritten

(* The invariant holds when there is no file yet.                          *)
LEMMA ConfigInvInit == Init => ConfigInv
<1> SUFFICES ASSUME Init PROVE ConfigInv
  OBVIOUS
<1>1. ConfigTypeOK
  <2>1. << >> \in Seq(Line)
    OBVIOUS
  <2>2. 0 \in 0 .. MaxWrites
    BY ConfigurationAssumption
  <2>. QED
    BY <2>1, <2>2, DefaultIs DEF Init, ConfigTypeOK
<1>2. AsLoaded /\ AsWritten
  BY DEF Init, AsLoaded, AsWritten
<1>. QED
  BY <1>1, <1>2 DEF ConfigInv

(* load makes a configuration of a file that it does not refuse.           *)
LEMMA LoadKeeps ==
  ASSUME ConfigInv, Load
  PROVE  ConfigInv'
<1>1. /\ file \in Seq(Line) /\ conf \in Config /\ loaded \in Config /\ given' = {}
      /\ ext \subseteq (Strings \cup {"nvidia"}) \X Text /\ writes \in 0 .. MaxWrites
      /\ UNCHANGED <<file, wrote, writes>>
  BY DEF ConfigInv, ConfigTypeOK, Load
<1>2. CASE pc' = "failed" /\ UNCHANGED <<conf, ext, loaded>>
  BY <1>1, <1>2 DEF ConfigInv, ConfigTypeOK, AsLoaded, AsWritten
<1>3. CASE /\ \A p \in DOMAIN file : ~ Bad(file[p])
           /\ pc' = "args"
           /\ conf' = LoadedConf(file) /\ loaded' = conf'
           /\ ext' = Extensions(file)
  <2>1. LoadedConf(file) \in Config
    BY <1>1, <1>3, LastLineDecides
  <2>2. Extensions(file) \subseteq (Strings \cup {"nvidia"}) \X Text
    <3>1. ASSUME NEW l \in ToSet(file), l.key \in Strings
          PROVE  <<l.key, l.text>> \in (Strings \cup {"nvidia"}) \X Text
      <4>1. l \in Line
        BY <1>1 DEF ToSet
      <4>. QED
        BY <3>1, <4>1, TextOfALine
    <3>. QED
      BY <3>1 DEF Extensions
  <2>3. ConfigTypeOK'
    BY <1>1, <1>3, <2>1, <2>2 DEF ConfigTypeOK
  <2>4. AsLoaded' /\ AsWritten'
    BY <1>1, <1>3 DEF AsLoaded, AsWritten, ConfigInv
  <2>. QED
    BY <2>3, <2>4 DEF ConfigInv
<1>. QED
  BY <1>2, <1>3 DEF Load

(* The flags that are not refused leave a configuration.                   *)
LEMMA ArgsConfIs ==
  ASSUME conf \in Config, NEW a \in Arguments, ~ Refused(a),
         DOMAIN a.flags \subseteq FromConf \cup DOMAIN OwnDefault
  PROVE  ArgsConf(a) \in Config
<1>1. ASSUME NEW o \in Options PROVE ArgsConf(a)[o] \in Value(o)
  <2>1. conf[o] \in Value(o)
    BY DEF Config
  <2>2. CASE o = "colorscheme"
    <3>1. Value(o) = Schemes
      BY <2>2 DEF Value, Flags, Ints
    <3>2. a.do # "version" /\ Color(a) # Empty => Color(a) \in Schemes
      BY DEF Refused
    <3>. QED
      BY <2>1, <2>2, <3>1, <3>2 DEF ArgsConf
  <2>3. CASE o # "colorscheme" /\ o \in DOMAIN a.flags
    <3>1. ArgsConf(a)[o] = Given(a, o)
      BY <2>3 DEF ArgsConf
    <3>2. a.flags[o] \in Text
      BY <2>3, ConfigurationAssumption
    <3>3. CASE o \in Flags
      <4>1. a.flags[o] \in {"true", "false"}
        BY <2>3, <3>3, ConfigurationAssumption
      <4>2. Given(a, o) = a.flags[o]
        BY <3>3 DEF Given, Flags
      <4>3. Value(o) = {"true", "false"}
        BY <3>3 DEF Value, Flags, Ints
      <4>. QED
        BY <3>1, <4>1, <4>2, <4>3
    <3>4. CASE o \in Ints
      <4>1. o = "graphhorizontalscale" \/ o = "updateinterval"
        BY <2>3, <3>4 DEF Ints, FromConf, OwnDefault
      <4>2. Given(a, o) \in Numbers
        BY <2>3, <4>1, ConfigurationAssumption DEF Given, Refused
      <4>. QED
        BY <3>1, <3>4, <4>2 DEF Value, Ints, Flags
    <3>5. CASE o = "tempscale"
      BY <2>3, <3>1, <3>5, ConfigurationAssumption DEF Given, Value, Flags, Ints
    <3>6. CASE o \notin Flags \cup Ints \cup {"tempscale"}
      <4>1. o # "nvidiarefresh"
        BY <2>3 DEF FromConf, OwnDefault
      <4>2. Given(a, o) = a.flags[o]
        BY <3>6 DEF Given, Ints
      <4>3. Value(o) = Text
        BY <2>3, <3>6, <4>1 DEF Value
      <4>. QED
        BY <3>1, <3>2, <4>2, <4>3
    <3>. QED
      BY <3>3, <3>4, <3>5, <3>6
  <2>4. CASE o # "colorscheme" /\ o \notin DOMAIN a.flags /\ o \in DOMAIN OwnDefault
    <3>1. ArgsConf(a)[o] = OwnDefault[o]
      BY <2>4 DEF ArgsConf
    <3>2. OwnDefault[o] \in Value(o)
      BY <2>4, ConfigurationAssumption DEF OwnDefault, Value, Flags, Ints, Text
    <3>. QED
      BY <3>1, <3>2
  <2>5. CASE o # "colorscheme" /\ o \notin DOMAIN a.flags /\ o \notin DOMAIN OwnDefault
    BY <2>1, <2>5 DEF ArgsConf
  <2>. QED
    BY <2>2, <2>3, <2>4, <2>5
<1>2. ASSUME NEW o \in Options, NEW t \in Value(o) PROVE t \in Text
  BY <1>2 DEF Value, Text, Flags, Ints
<1>3. ArgsConf(a) = [o \in Options |-> ArgsConf(a)[o]]
  BY DEF ArgsConf
<1> HIDE DEF Value
<1>4. ArgsConf(a) \in [Options -> Text]
  BY <1>1, <1>2, <1>3
<1>. QED
  BY <1>1, <1>4 DEF Config

(* Flags change the options in memory, not the file.                       *)
LEMMA ParseArgsKeeps ==
  ASSUME ConfigInv, NEW a \in Arguments, ParseArgs(a)
  PROVE  ConfigInv'
<1>1. /\ file \in Seq(Line) /\ conf \in Config /\ loaded \in Config
      /\ ext \subseteq (Strings \cup {"nvidia"}) \X Text /\ writes \in 0 .. MaxWrites
      /\ given' = DOMAIN a.flags /\ DOMAIN a.flags \subseteq Options
      /\ a.do = "write" => writes < MaxWrites
      /\ UNCHANGED <<file, loaded, wrote, writes>>
  BY ConfigurationAssumption DEF ConfigInv, ConfigTypeOK, ParseArgs
<1>2. AsWritten'
  BY <1>1 DEF ConfigInv, AsWritten
<1>3. CASE Refused(a)
  <2>1. pc' = "failed" /\ UNCHANGED <<conf, ext>>
    BY <1>3 DEF ParseArgs
  <2>. QED
    BY <1>1, <1>2, <2>1 DEF ConfigInv, ConfigTypeOK, AsLoaded
<1>4. CASE ~ Refused(a)
  <2>1. /\ conf' = ArgsConf(a)
        /\ ext' = ext \cup (IF conf'["nvidia"] = "true" THEN {<<"nvidia", "true">>} ELSE {})
        /\ pc' = CASE a.do = "write" -> "write" [] a.do = "run" -> "setup" [] OTHER -> "done"
        /\ DOMAIN a.flags \subseteq FromConf \cup DOMAIN OwnDefault
    BY <1>4 DEF ParseArgs
  <2>2. conf' \in Config
    BY <1>1, <1>4, <2>1, ArgsConfIs
  <2>3. pc' \in {"write", "setup", "done"} /\ (pc' = "write" => a.do = "write")
    BY <2>1
  <2>4. ext' \subseteq (Strings \cup {"nvidia"}) \X Text
    <3>1. <<"nvidia", "true">> \in (Strings \cup {"nvidia"}) \X Text
      BY DEF Text
    <3>. QED
      BY <1>1, <2>1, <3>1
  <2>5. ConfigTypeOK'
    BY <1>1, <2>2, <2>3, <2>4 DEF ConfigTypeOK
  <2>6. AsLoaded'
    BY <2>3 DEF AsLoaded
  <2>. QED
    BY <1>2, <2>5, <2>6 DEF ConfigInv
<1>. QED
  BY <1>3, <1>4

(* What is written is what marshal makes of the options in memory.         *)
LEMMA WriteKeeps ==
  ASSUME ConfigInv, Write
  PROVE  ConfigInv'
<1>1. /\ conf \in Config /\ pc' = "done" /\ file' = marshal(conf) /\ wrote' = conf /\ writes' = writes + 1
      /\ writes \in 0 .. MaxWrites /\ writes < MaxWrites
      /\ UNCHANGED <<conf, ext, loaded, given>>
  BY DEF ConfigInv, ConfigTypeOK, Write
<1>2. marshal(conf) \in Seq(Line)
  <2>1. marshal(conf) \in [1 .. 15 -> Line]
    BY <1>1, MarshalIs
  <2>. QED
    BY <2>1, LinesAre
<1>3. writes' \in 0 .. MaxWrites
  BY <1>1, ConfigurationAssumption
<1>4. ConfigTypeOK'
  BY <1>1, <1>2, <1>3 DEF ConfigInv, ConfigTypeOK
<1>5. AsLoaded' /\ AsWritten'
  BY <1>1 DEF AsLoaded, AsWritten
<1>. QED
  BY <1>4, <1>5 DEF ConfigInv

(* No step of a run, of the file system or of the user breaks it.          *)
LEMMA ConfigInvStep == ConfigInv /\ [Next]_vars => ConfigInv'
<1> SUFFICES ASSUME ConfigInv, [Next]_vars PROVE ConfigInv'
  OBVIOUS
<1>1. CASE Load
  BY <1>1, LoadKeeps
<1>2. CASE \E a \in Arguments : ParseArgs(a)
  BY <1>2, ParseArgsKeeps
<1>3. CASE Write
  BY <1>3, WriteKeeps
<1>4. CASE WriteFails
  BY <1>4 DEF WriteFails, ConfigInv, ConfigTypeOK, AsLoaded, AsWritten
<1>5. CASE SetUp
  BY <1>5 DEF SetUp, ConfigInv, ConfigTypeOK, AsLoaded, AsWritten
<1>6. CASE Exit
  BY <1>6, DefaultIs DEF Exit, ConfigInv, ConfigTypeOK, AsLoaded, AsWritten
<1>7. CASE Edit
  <2>1. file' \in Seq(Line) /\ 0 \in 0 .. MaxWrites
    BY <1>7, ConfigurationAssumption DEF Edit
  <2>. QED
    BY <1>7, <2>1 DEF Edit, ConfigInv, ConfigTypeOK, AsLoaded, AsWritten
<1>8. CASE UNCHANGED vars
  BY <1>8 DEF vars, ConfigInv, ConfigTypeOK, AsLoaded, AsWritten
<1>. QED
  BY <1>1, <1>2, <1>3, <1>4, <1>5, <1>6, <1>7, <1>8 DEF Next

(* So it is invariant.                                                     *)
LEMMA InvariantOfConfig == Spec => []ConfigInv
<1>1. Init => ConfigInv
  BY ConfigInvInit
<1>2. ConfigInv /\ [Next]_vars => ConfigInv'
  BY ConfigInvStep
<1>. QED
  BY <1>1, <1>2, PTL DEF Spec

(* Through any runs, flags and edits the options in memory are legal, and  *)
(* the file consists of lines.                                             *)
THEOREM ConfigTypeCorrect == Spec => []ConfigTypeOK
<1>1. ConfigInv => ConfigTypeOK
  BY DEF ConfigInv
<1>. QED
  BY <1>1, InvariantOfConfig, PTL

(* A file that --write-config has written, and that nobody has edited      *)
(* since, is loaded by later runs, and gives the options it was written    *)
(* from, if none has an equals sign and the scheme is called as its file.  *)
THEOREM WhatIsWrittenIsRead == Spec => []WrittenIsReadBack
<1>1. ConfigInv => WrittenIsReadBack
  <2> SUFFICES ASSUME ConfigInv, wrote # Nothing, \A o \in ToSet(Written) : Writable(o)
               PROVE  /\ ~ \E p \in DOMAIN file : Bad(file[p])
                      /\ pc = "args" => \A o \in ToSet(Written) \ {"mbps"} : conf[o] = wrote[o]
    BY DEF WrittenIsReadBack
  <2>1. wrote \in Config /\ file = marshal(wrote) /\ (pc = "args" => conf = LoadedConf(file))
    BY DEF ConfigInv, AsLoaded, AsWritten
  <2>2. \A o \in ToSet(Written) : WritableIn(wrote, o)
    BY DEF Writable, WritableIn
  <2>3. ASSUME NEW p \in DOMAIN file PROVE ~ Bad(file[p])
    <3>1. p \in 1 .. 15
      BY <2>1, WrittenIs DEF marshal
    <3>. QED
      BY <2>1, <2>2, <3>1, MarshalIsGood
  <2>4. ASSUME pc = "args", NEW o \in ToSet(Written) \ {"mbps"} PROVE conf[o] = wrote[o]
    <3>1. LoadedConf(marshal(wrote))[o] = wrote[o]
      BY <2>1, <2>2, MarshalIsReadBack
    <3>. QED
      BY <2>1, <2>4, <3>1
  <2>. QED
    BY <2>3, <2>4
<1>. QED
  BY <1>1, InvariantOfConfig, PTL
=============================================================================
