--------------------------- MODULE WidgetsProofs ---------------------------
(***************************************************************************)
(* Proofs about the graphs and the widgets that count.  Two invariants are *)
(* inductive and independent of each other: SeriesInv is about the series  *)
(* and their draws, WidgetInv about the counters and what is shown of      *)
(* them.  The first part shows that the map of interfaces that update      *)
(* builds from an option, a fold over a sequence, means what it should.    *)
(***************************************************************************)
EXTENDS Widgets, FoldProofs

-----------------------------------------------------------------------------
(* The body of the fold's recursive function, which takes the largest      *)
(* position first, and the function on the sets of positions.              *)
MapBody(g, s) == IF s = {} THEN byDefault ELSE Named(g[s \ {Max(s)}], option[Max(s)])
Mapping == CHOOSE g : g = [s \in SUBSET DOMAIN option |-> MapBody(g, s)]

(* The fold that builds the map of interfaces is the value of its          *)
(* recursive function at all the positions of the options.                 *)
LEMMA InterfaceMapIsMapping == interfaceMap = Mapping[DOMAIN option]
  BY DEF interfaceMap, FoldLeft, MapThenFoldSet, Mapping, MapBody

(* That recursive function is what its recursion says.                     *)
LEMMA MappingExists ==
  ASSUME NEW N \in Nat, option \in [1 .. N -> Option]
  PROVE  Mapping = [s \in SUBSET DOMAIN option |-> MapBody(Mapping, s)]
<1> DEFINE S == DOMAIN option
           A == [Interfaces \cup {All} -> {"yes", "no", "absent"}]
           step == [mp \in A \X S |-> Named(mp[1], option[mp[2]])]
<1>1. S \subseteq Nat /\ IsFiniteSet(S)
  <2>1. S = 1 .. N
    OBVIOUS
  <2>. QED
    BY <2>1, FS_Interval
<1>2. byDefault \in A
  BY DEF byDefault
<1>3. ASSUME NEW map \in A, NEW p \in S PROVE Named(map, option[p]) \in A
  <2>1. option[p] \in Option
    OBVIOUS
  <2>. QED
    BY <2>1 DEF Named, Option
<1>4. step \in [A \X S -> A]
  BY <1>3
<1>5. \A map \in A, p \in S : step[<<map, p>>] = Named(map, option[p])
  OBVIOUS
<1> HIDE DEF A, step
<1>6. PICK g : Folding(g, S, A, byDefault, step)
  BY <1>1, <1>2, <1>4, FoldingExists
<1>7. ASSUME NEW s \in SUBSET S PROVE g[s] = MapBody(g, s)
  <2>1. CASE s = {}
    BY <1>6, <2>1 DEF MapBody, Folding
  <2>2. CASE s # {}
    <3>1. s \ {Max(s)} \in SUBSET S /\ Max(s) \in S
      BY <1>1, <2>2, WithoutLargest
    <3>2. g[s \ {Max(s)}] \in A
      BY <1>6, <3>1 DEF Folding
    <3>3. g[s] = step[<<g[s \ {Max(s)}], Max(s)>>]
      BY <1>6, <2>2 DEF Folding
    <3>. QED
      BY <1>5, <2>2, <3>1, <3>2, <3>3 DEF MapBody
  <2>. QED
    BY <2>1, <2>2
<1>8. g = [s \in SUBSET S |-> MapBody(g, s)]
  BY <1>6, <1>7 DEF Folding
<1>. QED
  BY <1>8 DEF Mapping

(* So the map that a prefix of the options gives is that of the shorter    *)
(* prefix, with one more option named.                                     *)
LEMMA PrefixMap ==
  ASSUME NEW N \in Nat, option \in [1 .. N -> Option], NEW n \in 0 .. N
  PROVE  /\ n = 0 => Mapping[1 .. n] = byDefault
         /\ n > 0 => Mapping[1 .. n] = Named(Mapping[1 .. n - 1], option[n])
<1>1. Mapping = [s \in SUBSET DOMAIN option |-> MapBody(Mapping, s)]
  BY MappingExists
<1>2. 1 .. n \in SUBSET DOMAIN option
  OBVIOUS
<1>3. Mapping[1 .. n] = MapBody(Mapping, 1 .. n)
  BY <1>1, <1>2
<1>4. ASSUME n = 0 PROVE Mapping[1 .. n] = byDefault
  <2>1. 1 .. n = {}
    BY <1>4
  <2>. QED
    BY <1>3, <2>1 DEF MapBody
<1>5. ASSUME n > 0 PROVE Mapping[1 .. n] = Named(Mapping[1 .. n - 1], option[n])
  <2>1. 1 .. n # {} /\ Max(1 .. n) = n /\ (1 .. n) \ {n} = 1 .. n - 1
    <3>1. n \in Nat
      OBVIOUS
    <3>. QED
      BY <1>5, <3>1, PositionsBefore, Zenon
  <2>2. Mapping[1 .. n] = Named(Mapping[(1 .. n) \ {Max(1 .. n)}], option[Max(1 .. n)])
    BY <1>3, <2>1, Zenon DEF MapBody
  <2>. QED
    BY <2>1, <2>2, Zenon
<1>. QED
  BY <1>4, <1>5

(* What the first n options say: where they mention the interface, where   *)
(* they decide about all of them, and what the map must be then.           *)
MentionsIn(n, i) == {p \in 1 .. n : option[p].name = i}
DecidingIn(n) == {p \in 1 .. n : ~ option[p].not \/ option[p].name = All}
WordOf(o) == IF o.not THEN "no" ELSE "yes"
WordOfAll(o) == IF o.name = All THEN WordOf(o) ELSE "absent"
Says(map, n) ==
    /\ map \in [Interfaces \cup {All} -> {"yes", "no", "absent"}]
    /\ map[All] = IF DecidingIn(n) = {} THEN "yes" ELSE WordOfAll(option[Max(DecidingIn(n))])
    /\ \A i \in Interfaces :
          map[i] = IF MentionsIn(n, i) # {} THEN WordOf(option[Max(MentionsIn(n, i))])
                   ELSE IF i = VPN THEN "no" ELSE "absent"

(* One more option: what the map says follows what the options say.        *)
LEMMA NamedFollows ==
  ASSUME WidgetsAssumption, NEW N \in Nat, option \in [1 .. N -> Option], NEW n \in 0 .. N - 1,
         NEW map, Says(map, n)
  PROVE  Says(Named(map, option[n + 1]), n + 1)
<1> DEFINE o == option[n + 1]
           new == Named(map, o)
<1>1. o \in Option /\ o.name \in Interfaces \cup {All} /\ o.not \in BOOLEAN /\ All \notin Interfaces
  BY DEF Option, WidgetsAssumption
<1>2. map \in [Interfaces \cup {All} -> {"yes", "no", "absent"}]
  BY DEF Says
<1>3. new \in [Interfaces \cup {All} -> {"yes", "no", "absent"}]
  BY <1>1, <1>2 DEF Named
<1>4. new[All] = IF ~ o.not \/ o.name = All THEN WordOfAll(o) ELSE map[All]
  BY <1>1, <1>2 DEF Named, WordOfAll, WordOf
<1>5. ASSUME NEW i \in Interfaces
      PROVE  new[i] = IF o.name = i THEN WordOf(o) ELSE map[i]
  BY <1>1, <1>2 DEF Named, WordOf
<1>6. /\ DecidingIn(n + 1) = IF ~ o.not \/ o.name = All THEN DecidingIn(n) \cup {n + 1} ELSE DecidingIn(n)
      /\ \A i \in Interfaces : MentionsIn(n + 1, i) = IF o.name = i THEN MentionsIn(n, i) \cup {n + 1}
                                                      ELSE MentionsIn(n, i)
  <2>1. 1 .. n + 1 = (1 .. n) \cup {n + 1}
    OBVIOUS
  <2>2. DecidingIn(n + 1) = IF ~ o.not \/ o.name = All THEN DecidingIn(n) \cup {n + 1} ELSE DecidingIn(n)
    BY <2>1, Zenon DEF DecidingIn
  <2>3. ASSUME NEW i \in Interfaces
        PROVE  MentionsIn(n + 1, i) = IF o.name = i THEN MentionsIn(n, i) \cup {n + 1} ELSE MentionsIn(n, i)
    BY <2>1, Zenon DEF MentionsIn
  <2>. QED
    BY <2>2, <2>3
<1>7. ASSUME NEW s \in SUBSET (1 .. n) PROVE Max(s \cup {n + 1}) = n + 1
  <2>1. s \cup {n + 1} \subseteq Nat /\ n + 1 \in s \cup {n + 1} /\ \A m \in s \cup {n + 1} : m <= n + 1
    OBVIOUS
  <2>. QED
    BY <2>1, LargestIs
<1>8. DecidingIn(n) \in SUBSET (1 .. n) /\ \A i \in Interfaces : MentionsIn(n, i) \in SUBSET (1 .. n)
  BY DEF DecidingIn, MentionsIn
<1>9. /\ map[All] = IF DecidingIn(n) = {} THEN "yes" ELSE WordOfAll(option[Max(DecidingIn(n))])
      /\ \A i \in Interfaces :
          map[i] = IF MentionsIn(n, i) # {} THEN WordOf(option[Max(MentionsIn(n, i))])
                   ELSE IF i = VPN THEN "no" ELSE "absent"
  BY DEF Says
<1> HIDE DEF new
<1>10. new[All] = IF DecidingIn(n + 1) = {} THEN "yes" ELSE WordOfAll(option[Max(DecidingIn(n + 1))])
  <2>1. CASE ~ o.not \/ o.name = All
    <3>1. DecidingIn(n + 1) = DecidingIn(n) \cup {n + 1}
      BY <1>6, <2>1
    <3>2. DecidingIn(n + 1) # {} /\ Max(DecidingIn(n + 1)) = n + 1
      BY <1>7, <1>8, <3>1
    <3>. QED
      BY <1>4, <2>1, <3>2
  <2>2. CASE ~ (~ o.not \/ o.name = All)
    <3>1. DecidingIn(n + 1) = DecidingIn(n) /\ new[All] = map[All]
      BY <1>4, <1>6, <2>2
    <3>. QED
      BY <1>9, <3>1
  <2>. QED
    BY <2>1, <2>2
<1>11. ASSUME NEW i \in Interfaces
       PROVE  new[i] = IF MentionsIn(n + 1, i) # {} THEN WordOf(option[Max(MentionsIn(n + 1, i))])
                       ELSE IF i = VPN THEN "no" ELSE "absent"
  <2>1. CASE o.name = i
    <3>1. MentionsIn(n + 1, i) = MentionsIn(n, i) \cup {n + 1}
      BY <1>6, <2>1
    <3>2. MentionsIn(n + 1, i) # {} /\ Max(MentionsIn(n + 1, i)) = n + 1
      BY <1>7, <1>8, <3>1
    <3>. QED
      BY <1>5, <2>1, <3>2
  <2>2. CASE o.name # i
    <3>1. MentionsIn(n + 1, i) = MentionsIn(n, i) /\ new[i] = map[i]
      BY <1>5, <1>6, <2>2
    <3>. QED
      BY <1>9, <3>1
  <2>. QED
    BY <2>1, <2>2
<1>12. Says(new, n + 1)
  BY <1>3, <1>10, <1>11 DEF Says
<1>. QED
  BY <1>12 DEF new

(* By induction over the prefixes, the map that update builds says of each *)
(* interface what its last mention says, and of all of them what the last  *)
(* deciding option says.                                                   *)
LEMMA MapSays ==
  ASSUME WidgetsAssumption, NEW N \in Nat, option \in [1 .. N -> Option]
  PROVE  Says(interfaceMap, N)
<1> DEFINE T == {n \in Nat : n <= N => Says(Mapping[1 .. n], n)}
<1>1. 0 \in T
  <2>1. Mapping[1 .. 0] = byDefault
    <3>1. 0 \in 0 .. N
      OBVIOUS
    <3>. QED
      BY <3>1, PrefixMap
  <2>2. DecidingIn(0) = {} /\ \A i \in Interfaces : MentionsIn(0, i) = {}
    BY DEF DecidingIn, MentionsIn
  <2>3. Says(byDefault, 0)
    BY <2>2 DEF Says, byDefault, WidgetsAssumption
  <2>. QED
    BY <2>1, <2>3
<1>2. ASSUME NEW n \in Nat, n \in T PROVE n + 1 \in T
  <2> SUFFICES ASSUME n + 1 <= N PROVE Says(Mapping[1 .. n + 1], n + 1)
    OBVIOUS
  <2>1. Says(Mapping[1 .. n], n) /\ n \in 0 .. N - 1
    BY <1>2
  <2>2. Mapping[1 .. n + 1] = Named(Mapping[1 .. n], option[n + 1])
    <3>1. n + 1 \in 0 .. N /\ n + 1 > 0 /\ (n + 1) - 1 = n
      OBVIOUS
    <3>. QED
      BY <3>1, PrefixMap
  <2>. QED
    BY <2>1, <2>2, NamedFollows
<1>3. Nat \subseteq T
  <2> HIDE DEF T
  <2>. QED
    BY <1>1, <1>2, InductionOnNat
<1>4. Says(Mapping[1 .. N], N)
  BY <1>3
<1>. QED
  BY <1>4, InterfaceMapIsMapping

(* For every option, and every sequence of names and negations of which it *)
(* consists, the net widget counts exactly the interfaces that the option  *)
(* means: NetWidget.update builds its map in the order of the names and    *)
(* deletes the entry for all of them, and the result is what the last      *)
(* mention of an interface says.                                           *)
THEOREM CapturedIsMeant ==
  ASSUME WidgetsAssumption, option \in Options \cup {<< >>}
  PROVE  Captured = Meant
<1>1. PICK N \in Nat : option \in [1 .. N -> Option]
  <2>1. << >> \in Seq(Option)
    OBVIOUS
  <2>2. option \in Seq(Option)
    BY <2>1 DEF WidgetsAssumption
  <2>. QED
    BY <2>2
<1>2. Says(interfaceMap, N)
  BY <1>1, MapSays
<1>3. DOMAIN option = 1 .. N
  BY <1>1
<1>4. Deciding = DecidingIn(N) /\ \A i \in Interfaces : Mentions(i) = MentionsIn(N, i)
  BY <1>3 DEF Deciding, DecidingIn, Mentions, MentionsIn
<1>5. ASSUME NEW s \in SUBSET (1 .. N), s # {} PROVE LastOf(s) = option[Max(s)] /\ LastOf(s) \in Option
  <2>1. IsFiniteSet(1 .. N)
    BY FS_Interval
  <2>2. IsFiniteSet(s) /\ s \subseteq Nat
    <3>1. IsFiniteSet(s)
      BY <2>1, FS_Subset
    <3>. QED
      BY <3>1
  <2>3. Max(s) \in 1 .. N
    BY <1>5, <2>2, LargestIn
  <2>. QED
    BY <1>1, <2>3 DEF LastOf
<1>6. /\ interfaceMap[All] = IF Deciding = {} THEN "yes" ELSE WordOfAll(LastOf(Deciding))
      /\ \A i \in Interfaces :
            interfaceMap[i] = IF Mentions(i) # {} THEN WordOf(LastOf(Mentions(i)))
                              ELSE IF i = VPN THEN "no" ELSE "absent"
  BY <1>2, <1>4 DEF Says, LastOf
<1>7. Deciding # {} => LastOf(Deciding) \in Option
  <2>1. Deciding \in SUBSET (1 .. N)
    BY <1>3 DEF Deciding
  <2>. QED
    BY <1>5, <2>1
<1>8. interfaceMap[All] = "yes"
         <=> Deciding = {} \/ LastOf(Deciding) = [name |-> All, not |-> FALSE]
  <2> DEFINE o == LastOf(Deciding)
  <2>1. ASSUME o \in Option PROVE o = [name |-> All, not |-> FALSE] <=> o.name = All /\ ~ o.not
    BY <2>1 DEF Option
  <2>. QED
    BY <1>6, <1>7, <2>1 DEF WordOfAll, WordOf
<1>9. ASSUME NEW i \in Interfaces PROVE i \in Captured <=> i \in Meant
  <2>1. i \in Captured <=> \/ interfaceMap[i] = "yes"
                           \/ interfaceMap[i] = "absent" /\ interfaceMap[All] = "yes"
    BY DEF Captured
  <2>2. i \in Meant <=> IF Mentions(i) # {} THEN ~ LastOf(Mentions(i)).not
                        ELSE i # VPN /\ interfaceMap[All] = "yes"
    BY <1>8 DEF Meant
  <2>3. interfaceMap[i] = IF Mentions(i) # {} THEN WordOf(LastOf(Mentions(i)))
                          ELSE IF i = VPN THEN "no" ELSE "absent"
    BY <1>6
  <2>. QED
    BY <2>1, <2>2, <2>3 DEF WordOf
<1>. QED
  BY <1>9 DEF Captured, Meant

-----------------------------------------------------------------------------
(* The invariant of the graphs: their types, that what is listed has       *)
(* points, and that batteries have their ids.                              *)
SeriesTypes ==
    /\ len \in [Names -> 0 .. MaxLen] /\ last \in [Names -> Names \cup {NaN}]
    /\ dx \in Widths \cup {0} /\ scale \in Scales \cup {1} /\ listed \subseteq Names /\ broken \in BOOLEAN
    /\ flight \in [SUBSET (IF kind = "cpu" THEN Key ELSE {}) -> 0 .. MaxFlight]
    /\ odd \subseteq Names /\ mems \subseteq Key /\ missing \subseteq 1 .. Len(Keys)
SeriesInv == SeriesTypes /\ listed \subseteq Data /\ BatteryOfItsId

(* The keys are numbered without repetition, and there are finitely many   *)
(* names of series.                                                        *)
LEMMA NumberOfKeys ==
  ASSUME SeriesAssumption
  PROVE  /\ Len(Keys) \in Nat /\ DOMAIN Keys = 1 .. Len(Keys)
         /\ \A b \in 1 .. Len(Keys) : Keys[b] \in Key
         /\ \A b, c \in 1 .. Len(Keys) : Keys[b] = Keys[c] => b = c
         /\ IsFiniteSet(Names) /\ Key \subseteq Names /\ Lines \subseteq Names /\ Average \in Names
<1>1. Keys \in Seq(Key) /\ IsInjective(Keys)
  BY DEF SeriesAssumption
<1>2. Len(Keys) \in Nat /\ DOMAIN Keys = 1 .. Len(Keys) /\ \A b \in 1 .. Len(Keys) : Keys[b] \in Key
  BY <1>1
<1>3. \A b, c \in 1 .. Len(Keys) : Keys[b] = Keys[c] => b = c
  BY <1>1, <1>2 DEF IsInjective
<1>4. IsFiniteSet(Key)
  <2>1. IsFiniteSet(1 .. Len(Keys))
    BY <1>2, FS_Interval
  <2>2. Keys \in Surjection(1 .. Len(Keys), Key)
    BY <1>1, <1>2 DEF Key, ToSet, Surjection
  <2>. QED
    BY <2>1, <2>2, FS_Surjection
<1>5. IsFiniteSet(Names)
  <2>1. IsFiniteSet(Lines) /\ IsFiniteSet({Average})
    <3>1. Lines = {RX} \cup {TX}
      BY DEF Lines
    <3>. QED
      BY <3>1, FS_Singleton, FS_Union
  <2>. QED
    BY <1>4, <2>1, FS_Union DEF Names
<1>. QED
  BY <1>2, <1>3, <1>5 DEF Names

(* A point that is added keeps the types, and makes no series shorter.     *)
LEMMA AppendTypes ==
  ASSUME SeriesAssumption, SeriesTypes, NEW of, NEW strange, Append1(of, strange),
         \A n \in DOMAIN of : n \in Names /\ of[n] \in Names \cup {NaN}
  PROVE  /\ len' \in [Names -> 0 .. MaxLen] /\ last' \in [Names -> Names \cup {NaN}]
         /\ odd' \subseteq Names
         /\ \A n \in Names : len[n] <= len'[n]
  BY DEF SeriesAssumption, SeriesTypes, Append1

(* The invariant of the graphs holds when the constructors return.         *)
LEMMA InitSeriesInv ==
  ASSUME SeriesAssumption, NEW k, SeriesInit(k)
  PROVE  SeriesInv
<1>0. PICK answer \in SUBSET Key : \E first \in FirstPoints(answer) :
         len = [n \in Names |-> IF n \in DOMAIN first THEN first[n] ELSE 0]
  BY DEF SeriesInit
<1>1. PICK first \in FirstPoints(answer) : len = [n \in Names |-> IF n \in DOMAIN first THEN first[n] ELSE 0]
  BY <1>0
<1>2. mems \subseteq Key
  BY DEF SeriesInit
<1>3. \A n \in DOMAIN first : first[n] \in 0 .. 2
  <2>1. CASE kind = "cpu"
    BY <1>1, <2>1 DEF FirstPoints
  <2>2. CASE kind = "mem"
    BY <1>1, <2>2 DEF FirstPoints
  <2>3. CASE kind \notin {"cpu", "mem"}
    BY <1>1, <2>3 DEF FirstPoints
  <2>. QED
    BY <2>1, <2>2, <2>3
<1>4. kind = "battery" => DOMAIN first = {}
  BY <1>1 DEF FirstPoints
<1>5. len \in [Names -> 0 .. MaxLen]
  BY <1>1, <1>3 DEF SeriesAssumption
<1>6. last \in [Names -> Names \cup {NaN}]
  BY DEF SeriesInit
<1>7. SeriesTypes
  <2>1. flight \in [SUBSET (IF kind = "cpu" THEN Key ELSE {}) -> 0 .. MaxFlight]
    <3>1. kind = k /\ flight = [r \in SUBSET (IF kind = "cpu" THEN Key ELSE {}) |-> 0]
      BY DEF SeriesInit
    <3>2. 0 \in 0 .. MaxFlight
      BY DEF SeriesAssumption
    <3>. QED
      BY <3>1, <3>2, Zenon
  <2>2. dx \in Widths \cup {0} /\ scale \in Scales \cup {1} /\ listed \subseteq Names /\ broken \in BOOLEAN
    BY DEF SeriesInit
  <2>3. missing \subseteq 1 .. Len(Keys) /\ odd \subseteq Names
    BY DEF SeriesInit, Data
  <2>. QED
    BY <1>2, <1>5, <1>6, <2>1, <2>2, <2>3, Zenon DEF SeriesTypes
<1>8. kind = "battery" => \A b \in DOMAIN Keys : ~ (len[Keys[b]] > 0)
  BY <1>1, <1>4, NumberOfKeys
<1>9. BatteryOfItsId
  BY <1>8 DEF BatteryOfItsId
<1>. QED
  BY <1>7, <1>9 DEF SeriesInv, SeriesInit

(* A draw makes no series longer, empties none that has a point, and one   *)
(* that it trims keeps three points for every two columns of the canvas or *)
(* more: that is what the constant 4 of the code is for.                   *)
LEMMA DrawTrims ==
  ASSUME SeriesAssumption, SeriesTypes, Draw
  PROVE  /\ len' \in [Names -> 0 .. MaxLen]
         /\ \A n \in Names : len'[n] <= len[n]
         /\ \A n \in Names : len[n] > 0 => len'[n] > 0
         /\ \A n \in Names : len'[n] = len[n] \/ len'[n] >= 3 * dx + 2
<1>1. PICK long \in SUBSET Data : /\ \A n \in long : len[n] > 4 * dx
                                  /\ dx = 0 /\ long # {} => broken'
                                  /\ len' = IF broken' THEN len ELSE Trimmed(long)
  <2>1. CASE DrawLines
    <3> DEFINE long == {n \in Data : Overflows(n) /\ TooLong(n)}
    <3>1. /\ dx = 0 /\ long # {} => broken'
          /\ len' = IF broken' THEN len ELSE Trimmed(long)
      BY <2>1 DEF DrawLines
    <3>2. long \in SUBSET Data /\ \A n \in long : len[n] > 4 * dx
      BY DEF TooLong
    <3>. QED
      BY <3>1, <3>2
  <2>2. CASE DrawSparks
    <3> DEFINE long == {n \in Data : TooLong(n)}
    <3>1. /\ dx = 0 /\ long # {} => broken'
          /\ len' = IF broken' THEN len ELSE Trimmed(long)
      BY <2>2 DEF DrawSparks
    <3>2. long \in SUBSET Data /\ \A n \in long : len[n] > 4 * dx
      BY DEF TooLong
    <3>. QED
      BY <3>1, <3>2
  <2>. QED
    BY <2>1, <2>2 DEF Draw
<1>2. dx \in Nat /\ len \in [Names -> 0 .. MaxLen] /\ MaxLen \in Nat
  BY DEF SeriesTypes, SeriesAssumption
<1>3. CASE broken'
  BY <1>1, <1>2, <1>3
<1>4. CASE ~ broken'
  <2>1. len' = [n \in Names |-> IF n \in long THEN len[n] - (dx - 1) ELSE len[n]]
    BY <1>1, <1>4 DEF Trimmed
  <2>2. long # {} => dx >= 1
    BY <1>1, <1>2, <1>4
  <2>3. ASSUME NEW n \in Names
        PROVE  /\ len'[n] \in 0 .. MaxLen /\ len'[n] <= len[n]
               /\ len[n] > 0 => len'[n] > 0
               /\ len'[n] = len[n] \/ len'[n] >= 3 * dx + 2
    <3>1. CASE n \in long
      <4>1. len[n] > 4 * dx /\ dx >= 1 /\ len'[n] = len[n] - (dx - 1) /\ len[n] \in 0 .. MaxLen
        BY <1>1, <1>2, <2>1, <2>2, <3>1
      <4>. QED
        BY <1>2, <4>1
    <3>2. CASE n \notin long
      <4>1. len'[n] = len[n] /\ len[n] \in 0 .. MaxLen
        BY <1>2, <2>1, <3>2
      <4>. QED
        BY <1>2, <4>1
    <3>. QED
      BY <3>1, <3>2
  <2>4. len' \in [Names -> 0 .. MaxLen]
    BY <2>1, <2>3
  <2>. QED
    BY <2>3, <2>4
<1>. QED
  BY <1>3, <1>4

(* The id of a battery that can be read is the number of a battery, and    *)
(* lies as far below its own number as batteries before it have failed.    *)
LEMMA IdsOfBatteries ==
  ASSUME SeriesAssumption, NEW failed \in SUBSET (1 .. Len(Keys)), NEW b \in 1 .. Len(Keys), b \notin failed
  PROVE  /\ IdOf(b, failed) \in 1 .. Len(Keys)
         /\ b - IdOf(b, failed) = Cardinality({f \in failed : f < b})
         /\ b - IdOf(b, failed) \in Nat
<1> DEFINE lower == {f \in failed : f < b}
<1>1. Len(Keys) \in Nat
  BY NumberOfKeys
<1>2. IsFiniteSet(1 .. b - 1) /\ Cardinality(1 .. b - 1) = b - 1
  <2>1. 1 \in Int /\ b - 1 \in Int /\ b >= 1
    OBVIOUS
  <2>. QED
    BY <2>1, FS_Interval
<1>3. lower \subseteq 1 .. b - 1
  <2>1. ASSUME NEW f \in failed, f < b PROVE f \in 1 .. b - 1
    BY <1>1, <2>1
  <2>. QED
    BY <2>1
<1>4. IsFiniteSet(lower) /\ Cardinality(lower) <= b - 1
  <2>1. IsFiniteSet(lower) /\ Cardinality(lower) <= Cardinality(1 .. b - 1)
    BY <1>2, <1>3, FS_Subset
  <2>. QED
    BY <1>2, <2>1
<1>5. Cardinality(lower) \in Nat
  BY <1>4, FS_CardinalityType
<1> DEFINE n == Cardinality(lower)
<1>6. n \in Nat /\ n <= b - 1 /\ IdOf(b, failed) = b - n
  BY <1>4, <1>5 DEF IdOf
<1> HIDE DEF n
<1>7. IdOf(b, failed) \in 1 .. Len(Keys) /\ b - IdOf(b, failed) = n
  BY <1>1, <1>6
<1>. QED
  BY <1>6, <1>7 DEF n

(* Series that were listed at the last draw still have points after one is *)
(* added.                                                                  *)
LEMMA AppendKeepsListed ==
  ASSUME SeriesAssumption, SeriesInv, NEW of, NEW strange, Append1(of, strange),
         \A n \in DOMAIN of : n \in Names /\ of[n] \in Names \cup {NaN}, listed' = listed
  PROVE  listed' \subseteq Data'
<1>1. \A n \in Names : len[n] <= len'[n] /\ len[n] \in Nat /\ len'[n] \in Nat
  <2>1. len \in [Names -> 0 .. MaxLen] /\ MaxLen \in Nat
    BY DEF SeriesInv, SeriesTypes, SeriesAssumption
  <2>2. len' \in [Names -> 0 .. MaxLen] /\ \A n \in Names : len[n] <= len'[n]
    BY AppendTypes DEF SeriesInv
  <2>. QED
    BY <2>1, <2>2
<1>2. \A n \in listed : n \in Names /\ len[n] > 0
  BY DEF SeriesInv, Data
<1>3. \A n \in listed : n \in Names /\ len'[n] > 0
  BY <1>1, <1>2
<1>. QED
  BY <1>3 DEF Data

(* An update of the batteries keeps the invariant: the graph that gets a   *)
(* point gets it from a battery as far behind as batteries are left out    *)
(* now, and for the graphs without a new point the set of those that were  *)
(* left out only grows.                                                    *)
LEMMA TickBatteryKeepsIds ==
  ASSUME SeriesAssumption, SeriesInv,
         NEW present \in SUBSET (1 .. Len(Keys)), NEW failed \in SUBSET present,
         NEW empty \in SUBSET (present \ failed), NEW strange \in SUBSET Odd,
         TickBattery(present, failed, empty, strange)
  PROVE  SeriesInv'
<1> DEFINE read == present \ (failed \cup empty)
           out == NotListed(present, failed)
           of == [n \in {Keys[IdOf(b, out)] : b \in read} |->
                     Keys[CHOOSE b \in read : Keys[IdOf(b, out)] = n]]
<1>1. /\ kind = "battery" /\ Append1(of, strange) /\ missing' = missing \cup out
      /\ UNCHANGED <<kind, dx, scale, listed, broken, shows, flight, mems>>
  BY DEF TickBattery, AppendBatteries
<1>0. /\ out \in SUBSET (1 .. Len(Keys)) /\ read \subseteq 1 .. Len(Keys)
      /\ \A b \in read : b \in 1 .. Len(Keys) /\ b \notin out
  BY DEF NotListed
<1> HIDE DEF read, out
<1>2. ASSUME NEW b \in 1 .. Len(Keys), Keys[b] \in DOMAIN of
      PROVE  \E c \in read : of[Keys[b]] = Keys[c] /\ b = IdOf(c, out)
  <2>1. PICK c \in read : c = (CHOOSE e \in read : Keys[IdOf(e, out)] = Keys[b])
                          /\ Keys[IdOf(c, out)] = Keys[b]
    BY <1>2
  <2>2. IdOf(c, out) \in 1 .. Len(Keys)
    BY <1>0, IdsOfBatteries
  <2>3. IdOf(c, out) = b
    BY <2>1, <2>2, NumberOfKeys
  <2>4. of[Keys[b]] = Keys[c]
    BY <1>2, <2>1
  <2>. QED
    BY <2>3, <2>4
<1>3. ASSUME NEW n \in DOMAIN of PROVE n \in Key /\ of[n] \in Key
  <2>1. PICK b \in read : n = Keys[IdOf(b, out)]
    BY <1>3
  <2>2. IdOf(b, out) \in 1 .. Len(Keys)
    BY <1>0, IdsOfBatteries
  <2>3. PICK c \in read : of[n] = Keys[c]
    BY <1>2, <2>1, <2>2
  <2>. QED
    BY <1>0, <2>1, <2>2, <2>3, NumberOfKeys
<1> HIDE DEF of
<1>4. /\ len' \in [Names -> 0 .. MaxLen] /\ last' \in [Names -> Names \cup {NaN}]
      /\ odd' \subseteq Names
  BY <1>1, <1>3, AppendTypes, NumberOfKeys DEF SeriesInv
<1>5. listed' \subseteq Data'
  BY <1>1, <1>3, AppendKeepsListed, NumberOfKeys
<1>6. SeriesTypes'
  BY <1>0, <1>1, <1>4 DEF SeriesInv, SeriesTypes
<1>7. ASSUME NEW b \in 1 .. Len(Keys), len'[Keys[b]] > 0
      PROVE  \E c \in 1 .. Len(Keys) : /\ last'[Keys[b]] = Keys[c]
                                       /\ c - b \in 0 .. Cardinality({f \in missing' : f < c})
  <2>1. Keys[b] \in Names /\ IsFiniteSet(1 .. Len(Keys)) /\ missing' \subseteq 1 .. Len(Keys)
    <3>1. IsFiniteSet(1 .. Len(Keys))
      BY NumberOfKeys, FS_Interval
    <3>. QED
      BY <1>6, <3>1, NumberOfKeys DEF SeriesTypes
  <2>2. ASSUME NEW c \in 1 .. Len(Keys), NEW s \in SUBSET missing'
        PROVE  /\ Cardinality({f \in s : f < c}) \in Nat
               /\ Cardinality({f \in missing' : f < c}) \in Nat
               /\ Cardinality({f \in s : f < c}) <= Cardinality({f \in missing' : f < c})
    <3>1. {f \in missing' : f < c} \subseteq 1 .. Len(Keys)
      BY <2>1
    <3>2. IsFiniteSet({f \in missing' : f < c})
      BY <2>1, <3>1, FS_Subset
    <3>3. {f \in s : f < c} \subseteq {f \in missing' : f < c}
      OBVIOUS
    <3>. QED
      BY <3>2, <3>3, FS_Subset, FS_CardinalityType
  <2>3. CASE Keys[b] \in DOMAIN of
    <3>1. PICK c \in read : of[Keys[b]] = Keys[c] /\ b = IdOf(c, out)
      BY <1>2, <2>3
    <3>2. last'[Keys[b]] = Keys[c]
      BY <1>1, <2>1, <2>3, <3>1 DEF Append1
    <3>3. c - b = Cardinality({f \in out : f < c}) /\ c - b \in Nat
      BY <1>0, <3>1, IdsOfBatteries
    <3>4. out \in SUBSET missing'
      BY <1>1
    <3>5. c - b <= Cardinality({f \in missing' : f < c}) /\ Cardinality({f \in missing' : f < c}) \in Nat
      BY <1>0, <2>2, <3>3, <3>4
    <3>6. c - b \in 0 .. Cardinality({f \in missing' : f < c})
      <4> DEFINE n == Cardinality({f \in missing' : f < c})
      <4>1. n \in Nat /\ c - b \in Nat /\ c - b <= n
        BY <3>3, <3>5
      <4> HIDE DEF n
      <4>2. c - b \in 0 .. n
        BY <4>1
      <4>. QED
        BY <4>2 DEF n
    <3>7. c \in 1 .. Len(Keys)
      BY <1>0
    <3>. QED
      BY <3>2, <3>6, <3>7, Zenon
  <2>4. CASE Keys[b] \notin DOMAIN of
    <3>1. len'[Keys[b]] = len[Keys[b]] /\ last'[Keys[b]] = last[Keys[b]]
      BY <1>1, <2>1, <2>4 DEF Append1
    <3>2. PICK c \in 1 .. Len(Keys) : /\ last[Keys[b]] = Keys[c]
                                      /\ c - b \in 0 .. Cardinality({f \in missing : f < c})
      <4>1. kind = "battery" /\ BatteryOfItsId /\ b \in DOMAIN Keys /\ DOMAIN Keys = 1 .. Len(Keys)
        BY <1>1, NumberOfKeys DEF SeriesInv
      <4>2. len[Keys[b]] > 0
        BY <1>7, <3>1
      <4>. QED
        BY <4>1, <4>2, Zenon DEF BatteryOfItsId
    <3>3. missing \in SUBSET missing'
      BY <1>1
    <3>4. c - b \in 0 .. Cardinality({f \in missing' : f < c})
      <4> DEFINE m == Cardinality({f \in missing : f < c})
                 n == Cardinality({f \in missing' : f < c})
      <4>1. m \in Nat /\ n \in Nat /\ m <= n
        BY <2>2, <3>3
      <4>2. c - b \in 0 .. m
        BY <3>2
      <4> HIDE DEF m, n
      <4>3. c - b \in 0 .. n
        BY <4>1, <4>2
      <4>. QED
        BY <4>3 DEF n
    <3>. QED
      BY <3>1, <3>2, <3>4
  <2>. QED
    BY <2>3, <2>4
<1>8. BatteryOfItsId'
  <2>1. DOMAIN Keys = 1 .. Len(Keys)
    BY NumberOfKeys
  <2>2. \A b \in DOMAIN Keys : len'[Keys[b]] > 0 =>
            \E c \in DOMAIN Keys : /\ last'[Keys[b]] = Keys[c]
                                   /\ c - b \in 0 .. Cardinality({f \in missing' : f < c})
    BY <1>7, <2>1, Zenon
  <2>. QED
    BY <2>2, Zenon DEF BatteryOfItsId
<1>. QED
  BY <1>5, <1>6, <1>8 DEF SeriesInv

(* A draw keeps the invariant of the graphs.                               *)
LEMMA DrawKeepsInv ==
  ASSUME SeriesAssumption, SeriesInv, Draw
  PROVE  SeriesInv'
<1>1. /\ broken' \in BOOLEAN /\ listed' \in {listed, Data}
      /\ UNCHANGED <<kind, dx, scale, last, odd, shows, flight, mems, missing>>
  BY DEF Draw, DrawLines, DrawSparks
<1>2. /\ len' \in [Names -> 0 .. MaxLen]
      /\ \A n \in Names : len'[n] <= len[n]
      /\ \A n \in Names : len[n] > 0 => len'[n] > 0
  BY DrawTrims DEF SeriesInv
<1>3. listed' \subseteq Data
  BY <1>1 DEF SeriesInv
<1>4. Data \subseteq Data' /\ Data \subseteq Names
  BY <1>2 DEF Data
<1>5. SeriesTypes'
  BY <1>1, <1>2, <1>3, <1>4 DEF SeriesInv, SeriesTypes
<1>6. ASSUME kind = "battery", NEW b \in DOMAIN Keys, len'[Keys[b]] > 0
      PROVE  len[Keys[b]] > 0
  <2>1. Keys[b] \in Names /\ len[Keys[b]] \in 0 .. MaxLen /\ MaxLen \in Nat
    BY NumberOfKeys DEF SeriesInv, SeriesTypes, SeriesAssumption
  <2>. QED
    BY <1>2, <1>6, <2>1
<1>7. BatteryOfItsId'
  BY <1>1, <1>6 DEF SeriesInv, BatteryOfItsId
<1>. QED
  BY <1>3, <1>4, <1>5, <1>7 DEF SeriesInv

(* So does every update that is not of the batteries and adds points of    *)
(* devices that exist.                                                     *)
LEMMA AppendKeepsInv ==
  ASSUME SeriesAssumption, SeriesInv, NEW of, NEW strange, Append1(of, strange), kind # "battery",
         \A n \in DOMAIN of : n \in Names /\ of[n] \in Names \cup {NaN},
         UNCHANGED <<kind, dx, scale, listed, broken, missing>>,
         flight' \in [SUBSET (IF kind = "cpu" THEN Key ELSE {}) -> 0 .. MaxFlight],
         mems' \subseteq Key
  PROVE  SeriesInv'
<1>1. /\ len' \in [Names -> 0 .. MaxLen] /\ last' \in [Names -> Names \cup {NaN}]
      /\ odd' \subseteq Names
  BY AppendTypes DEF SeriesInv
<1>2. listed' \subseteq Data'
  BY AppendKeepsListed
<1>3. SeriesTypes'
  BY <1>1 DEF SeriesInv, SeriesTypes
<1>4. BatteryOfItsId'
  BY DEF BatteryOfItsId
<1>. QED
  BY <1>2, <1>3, <1>4 DEF SeriesInv

(* Every step of the graphs keeps their invariant.                         *)
LEMMA SeriesStep ==
  ASSUME SeriesAssumption, SeriesInv, [SeriesNext]_seriesVars
  PROVE  SeriesInv'
<1>0. /\ flight \in [SUBSET (IF kind = "cpu" THEN Key ELSE {}) -> 0 .. MaxFlight]
      /\ MaxFlight \in Nat /\ mems \subseteq Key /\ last \in [Names -> Names \cup {NaN}]
  BY DEF SeriesInv, SeriesTypes, SeriesAssumption
<1>1. ASSUME NEW read \in DOMAIN flight, ReadCPU(read)
      PROVE  SeriesInv'
  <2>1. flight' \in [SUBSET (IF kind = "cpu" THEN Key ELSE {}) -> 0 .. MaxFlight]
    BY <1>0, <1>1 DEF ReadCPU
  <2>2. UNCHANGED <<kind, dx, scale, len, last, odd, listed, broken, shows, mems, missing>>
    BY <1>1 DEF ReadCPU
  <2>3. SeriesTypes'
    BY <2>1, <2>2 DEF SeriesInv, SeriesTypes
  <2>4. BatteryOfItsId' /\ listed' \subseteq Data'
    BY <2>2 DEF SeriesInv, BatteryOfItsId, Data
  <2>. QED
    BY <2>3, <2>4 DEF SeriesInv
<1>2. ASSUME NEW read \in DOMAIN flight, NEW strange \in SUBSET ((Odd \cap read) \cup {Average}),
             AppendCPU(read, strange)
      PROVE  SeriesInv'
  <2> DEFINE of == [n \in (IF "each" \in shows THEN read ELSE {}) \cup
                      (IF "average" \in shows THEN {Average} ELSE {}) |->
                    IF n = Average THEN NewAverage(read) ELSE n]
  <2>1. /\ Append1(of, strange) /\ kind = "cpu"
        /\ UNCHANGED <<kind, dx, scale, listed, broken, shows, mems, missing>>
    BY <1>2 DEF AppendCPU
  <2>2. flight' \in [SUBSET (IF kind = "cpu" THEN Key ELSE {}) -> 0 .. MaxFlight]
    BY <1>0, <1>2 DEF AppendCPU
  <2>3. read \subseteq Names /\ NewAverage(read) \in Names \cup {NaN}
    BY <1>0, <2>1, NumberOfKeys DEF NewAverage
  <2>4. \A n \in DOMAIN of : n \in Names /\ of[n] \in Names \cup {NaN}
    BY <2>3, NumberOfKeys
  <2> HIDE DEF of
  <2>. QED
    BY <1>0, <2>1, <2>2, <2>4, AppendKeepsInv
<1>3. ASSUME NEW read \in SUBSET Key, NEW totals \in SUBSET read, NEW strange \in SUBSET (Odd \cap read),
             TickMem(read, totals, strange)
      PROVE  SeriesInv'
  <2> DEFINE of == [n \in mems' |-> n]
  <2>1. /\ Append1(of, strange \cap read) /\ kind = "mem" /\ mems' = (mems \ read) \cup totals
        /\ UNCHANGED <<kind, dx, scale, listed, broken, shows, flight, missing>>
    BY <1>3 DEF TickMem
  <2>2. mems' \subseteq Key
    BY <1>0, <2>1
  <2>3. \A n \in DOMAIN of : n \in Names /\ of[n] \in Names \cup {NaN}
    BY <2>2, NumberOfKeys
  <2>4. flight' = flight /\ kind # "battery"
    BY <2>1
  <2> HIDE DEF of
  <2>. QED
    BY <1>0, <2>1, <2>2, <2>3, <2>4, AppendKeepsInv
<1>4. ASSUME NEW present \in SUBSET (1 .. Len(Keys)), NEW strange \in SUBSET Odd,
             NEW failed \in SUBSET present, NEW empty \in SUBSET (present \ failed),
             TickBattery(present, failed, empty, strange)
      PROVE  SeriesInv'
  BY <1>4, TickBatteryKeepsIds
<1>5. ASSUME NEW first \in BOOLEAN, TickSparks(first)
      PROVE  SeriesInv'
  <2> DEFINE of == [n \in (IF first THEN {} ELSE Lines) |-> n]
  <2>1. /\ Append1(of, {}) /\ kind = "sparks"
        /\ UNCHANGED <<kind, dx, scale, listed, broken, shows, flight, mems, missing>>
    BY <1>5 DEF TickSparks
  <2>2. \A n \in DOMAIN of : n \in Names /\ of[n] \in Names \cup {NaN}
    BY NumberOfKeys
  <2>3. flight' = flight /\ mems' = mems /\ kind # "battery"
    BY <2>1
  <2> HIDE DEF of
  <2>. QED
    BY <1>0, <2>1, <2>2, <2>3, AppendKeepsInv
<1>6. ASSUME Draw
      PROVE  SeriesInv'
  BY <1>6, DrawKeepsInv
<1>7. ASSUME Look
      PROVE  SeriesInv'
  <2>1. UNCHANGED <<kind, len, last, odd, listed, broken, shows, flight, mems, missing>>
    BY <1>7 DEF Look
  <2>2. dx' \in Widths \cup {0} /\ scale' \in Scales \cup {1}
    BY <1>7 DEF Look, SeriesInv, SeriesTypes
  <2>3. SeriesTypes'
    BY <2>1, <2>2 DEF SeriesInv, SeriesTypes
  <2>4. BatteryOfItsId' /\ listed' \subseteq Data'
    BY <2>1 DEF SeriesInv, BatteryOfItsId, Data
  <2>. QED
    BY <2>3, <2>4 DEF SeriesInv
<1>8. ASSUME UNCHANGED seriesVars
      PROVE  SeriesInv'
  <2>1. UNCHANGED <<kind, dx, scale, len, last, odd, listed, broken, shows, flight, mems, missing>>
    BY <1>8 DEF seriesVars
  <2>2. SeriesTypes'
    BY <2>1 DEF SeriesInv, SeriesTypes
  <2>3. BatteryOfItsId' /\ listed' \subseteq Data'
    BY <2>1 DEF SeriesInv, BatteryOfItsId, Data
  <2>. QED
    BY <2>2, <2>3 DEF SeriesInv
<1>. QED
  BY <1>1, <1>2, <1>3, <1>4, <1>5, <1>6, <1>7, <1>8, Zenon DEF SeriesNext

(* A product with a number that is not positive is not positive.           *)
LEMMA NoOverflow ==
  ASSUME NEW m \in Nat, NEW z \in Int, z <= 0
  PROVE  m * z <= 0
  OBVIOUS

(* A draw of a canvas with a width leaves of a series that it trims at     *)
(* least as many points as the canvas shows.  With a positive scale and    *)
(* points that are numbers from 0 to 100 it does not panic, and lists      *)
(* every series.                                                           *)
LEMMA ViewIsKept ==
  ASSUME SeriesAssumption, SeriesInv, Draw, dx > 0
  PROVE  /\ \A n \in Data : len'[n] >= len[n] \/ len'[n] >= View
         /\ scale > 0 /\ odd = {} => ~ broken' /\ (kind \in LineGraphs => listed' = Data)
<1>1. dx \in Nat /\ dx # 0 /\ scale \in Int
  BY DEF SeriesInv, SeriesTypes, SeriesAssumption
<1>2. ASSUME NEW n \in Data PROVE n \in Names /\ len[n] \in Nat /\ len[n] - 1 \in Nat
  <2>1. n \in Names /\ len[n] > 0
    BY DEF Data
  <2>2. len[n] \in 0 .. MaxLen /\ MaxLen \in Nat
    BY <2>1 DEF SeriesInv, SeriesTypes, SeriesAssumption
  <2>. QED
    BY <2>1, <2>2
<1>3. ASSUME scale > 0, odd = {} PROVE ~ broken'
  <2>1. CASE DrawLines
    <3>1. ASSUME NEW n \in Data PROVE ~ BeyondColors(n)
      <4>1. (len[n] - 1) * (0 - scale) <= 0
        <5>1. len[n] - 1 \in Nat /\ 0 - scale \in Int /\ 0 - scale <= 0
          BY <1>1, <1>2, <1>3
        <5>. QED
          BY <5>1, NoOverflow
      <4>2. (len[n] - 1) * (0 - scale) \in Int
        <5>1. len[n] - 1 \in Int /\ 0 - scale \in Int
          BY <1>1, <1>2
        <5>. QED
          BY <5>1
      <4> DEFINE product == (len[n] - 1) * (0 - scale)
      <4>3. product \in Int /\ product <= 0
        BY <4>1, <4>2
      <4> HIDE DEF product
      <4>4. ~ (product > 2)
        BY <4>3
      <4>. QED
        BY <4>4 DEF product, BeyondColors
    <3>2. broken' \in {FALSE, odd # {}}
      BY <1>1, <2>1, <3>1 DEF DrawLines
    <3>. QED
      BY <1>3, <3>2
  <2>2. CASE DrawSparks
    BY <1>1, <2>2 DEF DrawSparks
  <2>. QED
    BY <2>1, <2>2 DEF Draw
<1>4. ASSUME kind \in LineGraphs PROVE listed' = Data
  <2>1. DrawLines
    BY <1>4 DEF Draw, DrawSparks, LineGraphs
  <2>2. IsFiniteSet(Data)
    <3>1. Data \subseteq Names
      BY DEF Data
    <3>. QED
      BY <3>1, NumberOfKeys, FS_Subset
  <2>3. Cardinality(listed) = Cardinality(Data) => listed = Data
    BY <2>2, FS_Subset DEF SeriesInv
  <2>. QED
    BY <2>1, <2>3 DEF DrawLines
<1>5. ASSUME kind = "sparks" \/ scale > 0 PROVE View \in Int /\ View <= 3 * dx + 2
  <2>1. CASE kind = "sparks"
    <3>1. View = dx
      BY <2>1 DEF View
    <3>. QED
      BY <1>1, <3>1
  <2>2. CASE kind # "sparks"
    <3>1. (2 * dx + 1) \div scale \in Int /\ (2 * dx + 1) \div scale <= 2 * dx + 1
      BY <1>1, <1>5, <2>2
    <3> DEFINE q == (2 * dx + 1) \div scale
    <3>2. View = q + 1 \/ View = q + 2
      BY <1>1, <1>5, <2>2 DEF View
    <3>3. q \in Int /\ q <= 2 * dx + 1
      BY <3>1
    <3> HIDE DEF q
    <3>. QED
      BY <1>1, <3>2, <3>3
  <2>. QED
    BY <2>1, <2>2
<1>6. ASSUME NEW n \in Data PROVE len'[n] >= len[n] \/ len'[n] >= View
  <2>1. CASE kind = "sparks" \/ scale > 0
    <3>1. len'[n] = len[n] \/ len'[n] >= 3 * dx + 2
      BY <1>2, DrawTrims DEF SeriesInv
    <3>2. len'[n] \in Int
      <4>1. len'[n] \in 0 .. MaxLen
        BY <1>2, DrawTrims DEF SeriesInv
      <4>. QED
        BY <4>1
    <3>. QED
      BY <1>1, <1>2, <1>5, <2>1, <3>1, <3>2
  <2>2. CASE kind # "sparks" /\ scale <= 0
    <3>1. DrawLines
      BY <2>2 DEF Draw, DrawSparks
    <3>2. ASSUME NEW x \in Data PROVE ~ Overflows(x)
      <4>1. (len[x] - 1) * scale <= 0 /\ (len[x] - 1) * scale \in Int
        <5>1. len[x] - 1 \in Nat
          BY <1>2
        <5>. QED
          BY <1>1, <2>2, <5>1, NoOverflow
      <4> DEFINE product == (len[x] - 1) * scale
      <4>2. product <= 0 /\ product \in Int
        BY <4>1
      <4> HIDE DEF product
      <4>3. ~ (product > 2 * dx + 1)
        BY <1>1, <4>2
      <4>. QED
        BY <4>3 DEF product, Overflows
    <3>3. {x \in Data : Overflows(x) /\ TooLong(x)} = {}
      BY <3>2
    <3>4. len' = len \/ len' = Trimmed({})
      BY <3>1, <3>3 DEF DrawLines
    <3>5. len'[n] = len[n]
      BY <1>2, <3>4 DEF Trimmed
    <3>. QED
      BY <1>2, <3>5
  <2>. QED
    BY <1>1, <2>1, <2>2
<1>. QED
  BY <1>3, <1>4, <1>6

-----------------------------------------------------------------------------
(* The bytes of the captured interfaces, as functions of the counters and  *)
(* the options.                                                            *)
MapFor(o) == FoldLeft(Named, byDefault, o)
CapturedFor(o) == {i \in Interfaces : \/ MapFor(o)[i] = "yes"
                                      \/ MapFor(o)[i] = "absent" /\ MapFor(o)[All] = "yes"}
BytesFor(c, o, l) == SumFunctionOnSet([i \in Interfaces |-> c[<<i, l>>]], CapturedFor(o))
Bytes(l) == BytesFor(counter, option, l)
Bound == MaxBytes * Cardinality(Interfaces)

(* The captured interfaces and the total that update computes, before and  *)
(* after a step, in terms of the counters and the option.                  *)
LEMMA CapturedBytes ==
  /\ Captured = CapturedFor(option)
  /\ \A l : TotalOf(l) = Wrapped(Bytes(l)) /\ TotalOf(l)' = Wrapped(Bytes(l))'
<1>1. interfaceMap = MapFor(option) /\ interfaceMap' = MapFor(option')
  BY DEF interfaceMap, MapFor, FoldLeft, MapThenFoldSet
<1> HIDE DEF MapFor
<1>2. Captured = CapturedFor(option) /\ Captured' = CapturedFor(option')
  BY <1>1 DEF Captured, CapturedFor
<1>. QED
  BY <1>2 DEF TotalOf, Bytes, BytesFor

(* Unsigned arithmetic: a number below the sign bit is itself, and a small *)
(* negative one is below the range by as much.                             *)
LEMMA WrappedNumber ==
  ASSUME WidgetsAssumption, NEW n \in Int
  PROVE  /\ SignBit \in Nat \ {0}
         /\ Wrapped(n) \in 0 .. 2 * SignBit - 1
         /\ 0 <= n /\ n < SignBit => Wrapped(n) = n
         /\ n < 0 /\ -n < SignBit => Wrapped(n) = 2 * SignBit + n
<1>1. SignBit \in Nat \ {0} /\ Bound \in Nat /\ Bound < SignBit
  <2>1. Cardinality(Interfaces) \in Nat
    BY FS_CardinalityType DEF WidgetsAssumption
  <2>. QED
    BY <2>1 DEF WidgetsAssumption, Bound
<1>2. Wrapped(n) \in 0 .. 2 * SignBit - 1
  BY <1>1 DEF Wrapped
<1>3. 0 <= n /\ n < SignBit => Wrapped(n) = n
  BY <1>1 DEF Wrapped
<1>4. n < 0 /\ -n < SignBit => Wrapped(n) = 2 * SignBit + n
  BY <1>1 DEF Wrapped
<1>. QED
  BY <1>1, <1>2, <1>3, <1>4

(* The invariant of the widgets that count. Pending are the bytes that     *)
(* have moved and that the net widget has not shown: never negative, and   *)
(* never fewer than the total has grown since the last update. A disk's    *)
(* counter is never behind what was read of it, unless it was replaced.    *)
WidgetTypes ==
    /\ counter \in [Counters -> 0 .. MaxBytes] /\ reset \subseteq Interfaces \cup Devices
    /\ moved \in [Lines \cup Devices -> Nat] /\ sum \in [Lines \cup Devices -> Nat]
    /\ total \in [Lines -> 0 .. 2 * SignBit - 1] /\ option \in Options \cup {<< >>}
    /\ listing \in Listings /\ fahrenheit \in BOOLEAN
    /\ DOMAIN prev \subseteq Devices /\ \A d \in DOMAIN prev : prev[d] \in 0 .. MaxBytes
    /\ DOMAIN temps \subseteq Sensors /\ \A s \in DOMAIN temps : temps[s] \in 0 .. 2

Pending(l) == moved[l] - sum[l]
NetInv ==
    kind = "net" => \A l \in Lines :
        /\ Pending(l) >= 0 /\ Pending(l) >= Bytes(l) - total[l]
        /\ total[l] <= Bound
        /\ reset = {} => Pending(l) = Bytes(l) - total[l]
DiskInv ==
    kind = "disk" => \A d \in DOMAIN prev \ reset :
        /\ prev[d] <= counter[d]
        /\ prev[d] # 0 => moved[d] = sum[d] + counter[d] - prev[d]
WidgetInv == WidgetTypes /\ NetInv /\ DiskInv

others == <<option, total, listing, prev, fahrenheit, temps>>

(* The bytes of the captured interfaces stay below the sign bit, so that   *)
(* their total does not wrap around.                                       *)
LEMMA BytesAreBounded ==
  ASSUME WidgetsAssumption, kind = "net", counter \in [Counters -> 0 .. MaxBytes], NEW l \in Lines
  PROVE  /\ Bound \in Nat /\ Bound < SignBit /\ SignBit \in Nat
         /\ Bytes(l) \in 0 .. Bound
         /\ TotalOf(l) = Bytes(l)
         /\ IsFiniteSet(CapturedFor(option)) /\ CapturedFor(option) \subseteq Interfaces
         /\ \A i \in Interfaces : <<i, l>> \in Counters /\ counter[<<i, l>>] \in 0 .. MaxBytes
<1> DEFINE f == [i \in Interfaces |-> counter[<<i, l>>]]
<1>1. IsFiniteSet(Interfaces) /\ MaxBytes \in Nat /\ SignBit \in Nat /\ Bound < SignBit
  BY DEF WidgetsAssumption, Bound
<1>2. /\ CapturedFor(option) \subseteq Interfaces /\ IsFiniteSet(CapturedFor(option))
      /\ Cardinality(CapturedFor(option)) <= Cardinality(Interfaces)
  <2>1. CapturedFor(option) \subseteq Interfaces
    BY DEF CapturedFor
  <2>. QED
    BY <1>1, <2>1, FS_Subset
<1>3. Cardinality(CapturedFor(option)) \in Nat /\ Cardinality(Interfaces) \in Nat
  BY <1>1, <1>2, FS_CardinalityType
<1>4. \A i \in Interfaces : <<i, l>> \in Counters /\ f[i] = counter[<<i, l>>] /\ counter[<<i, l>>] \in 0 .. MaxBytes
  BY DEF Counters
<1>5. Bytes(l) \in 0 .. MaxBytes * Cardinality(CapturedFor(option))
  <2>1. Bytes(l) = SumFunctionOnSet(f, CapturedFor(option))
    BY DEF Bytes, BytesFor
  <2>2. \A i \in CapturedFor(option) : f[i] \in 0 .. MaxBytes
    BY <1>2, <1>4
  <2> HIDE DEF f
  <2>. QED
    BY <1>1, <1>2, <2>1, <2>2, SumBounded
<1>6. MaxBytes * Cardinality(CapturedFor(option)) <= Bound /\ Bound \in Nat
  <2> DEFINE a == Cardinality(CapturedFor(option))
             b == Cardinality(Interfaces)
  <2>1. a \in Nat /\ b \in Nat /\ a <= b
    BY <1>2, <1>3
  <2> HIDE DEF a, b
  <2>2. MaxBytes * a <= MaxBytes * b /\ MaxBytes * b \in Nat /\ MaxBytes * a \in Nat
    BY <1>1, <2>1
  <2>. QED
    BY <2>2 DEF a, b, Bound
<1>7. Bytes(l) \in 0 .. Bound
  <2> DEFINE a == MaxBytes * Cardinality(CapturedFor(option))
  <2>1. a \in Nat /\ a <= Bound /\ Bytes(l) \in 0 .. a
    BY <1>1, <1>3, <1>5, <1>6
  <2> HIDE DEF a
  <2>. QED
    BY <1>6, <2>1
<1>8. TotalOf(l) = Bytes(l)
  <2>1. Bytes(l) \in Int /\ 0 <= Bytes(l) /\ Bytes(l) < SignBit
    BY <1>1, <1>6, <1>7
  <2>2. Wrapped(Bytes(l)) = Bytes(l)
    BY <2>1, WrappedNumber
  <2>. QED
    BY <2>2, CapturedBytes
<1>. QED
  BY <1>1, <1>2, <1>4, <1>6, <1>7, <1>8

(* Nothing that the types are about has changed.                           *)
LEMMA TypesUnchanged ==
  ASSUME WidgetTypes, UNCHANGED <<kind, counter, reset, moved, sum, option, total, listing, prev, fahrenheit, temps>>
  PROVE  WidgetTypes'
  BY DEF WidgetTypes, Counters

(* What update shows of a total is how much it has grown, and nothing if   *)
(* it has shrunk: the unsigned difference is then negative as an int.      *)
LEMMA RecentIsGrowth ==
  ASSUME WidgetsAssumption, WidgetTypes, NetInv, kind = "net", NEW l \in Lines
  PROVE  /\ total[l] \in 0 .. Bound /\ Bytes(l) \in 0 .. Bound
         /\ Recent(l) = IF Bytes(l) >= total[l] THEN Bytes(l) - total[l] ELSE 0
<1> DEFINE b == Bytes(l)
           t == total[l]
<1>1. b \in 0 .. Bound /\ TotalOf(l) = b /\ Bound \in Nat /\ Bound < SignBit /\ SignBit \in Nat
  BY BytesAreBounded DEF WidgetTypes
<1>2. t \in 0 .. Bound
  BY <1>1 DEF WidgetTypes, NetInv
<1>3. Recent(l) = IF Signed(Wrapped(b - t)) < 0 THEN 0 ELSE Wrapped(b - t)
  BY <1>1 DEF Recent
<1> HIDE DEF b, t
<1>4. CASE b >= t
  <2>1. b - t \in Int /\ 0 <= b - t /\ b - t < SignBit
    BY <1>1, <1>2, <1>4
  <2>2. Wrapped(b - t) = b - t
    BY <2>1, WrappedNumber
  <2>3. Signed(b - t) = b - t
    BY <1>1, <2>1 DEF Signed
  <2>4. Recent(l) = b - t
    BY <1>3, <2>1, <2>2, <2>3
  <2>. QED
    BY <1>1, <1>2, <1>4, <2>4 DEF b, t
<1>5. CASE ~ (b >= t)
  <2>1. b - t \in Int /\ b - t < 0 /\ -(b - t) < SignBit
    BY <1>1, <1>2, <1>5
  <2>2. Wrapped(b - t) = 2 * SignBit + (b - t)
    BY <2>1, WrappedNumber
  <2>3. Signed(2 * SignBit + (b - t)) < 0
    BY <1>1, <2>1 DEF Signed
  <2>4. Recent(l) = 0
    BY <1>3, <2>2, <2>3
  <2>. QED
    BY <1>1, <1>2, <1>5, <2>4 DEF b, t
<1>. QED
  BY <1>4, <1>5

(* An update of the net widget moves bytes from those that are pending to  *)
(* those that are shown.                                                   *)
LEMMA TickNetKeeps ==
  ASSUME WidgetsAssumption, WidgetInv, TickNet
  PROVE  WidgetInv'
<1> DEFINE shown == IF total[RX] # 0 THEN Lines ELSE {}
<1>1. /\ kind = "net" /\ kind' = kind
      /\ UNCHANGED <<counter, reset, option, listing, prev, fahrenheit, temps>>
  BY DEF TickNet, seriesVars
<1>2. /\ sum' = [l \in DOMAIN sum |-> IF l \in shown THEN sum[l] + Recent(l) ELSE sum[l]]
      /\ moved' = IF shown = {} THEN sum ELSE moved
      /\ total' = [l \in Lines |-> TotalOf(l)]
  BY DEF TickNet
<1>3. WidgetTypes /\ NetInv
  BY DEF WidgetInv
<1>4. /\ sum \in [Lines \cup Devices -> Nat] /\ moved \in [Lines \cup Devices -> Nat]
      /\ counter \in [Counters -> 0 .. MaxBytes]
  BY <1>3 DEF WidgetTypes
<1>5. ASSUME NEW l \in Lines
      PROVE  /\ total[l] \in Int /\ Bytes(l) \in Int /\ 0 <= total[l] /\ Bytes(l) <= Bound
             /\ Bytes(l) \in 0 .. 2 * SignBit - 1
             /\ TotalOf(l) = Bytes(l) /\ Bytes(l)' = Bytes(l)
             /\ Recent(l) = IF Bytes(l) >= total[l] THEN Bytes(l) - total[l] ELSE 0
             /\ Recent(l) \in Nat
  <2>1. /\ total[l] \in 0 .. Bound /\ Bytes(l) \in 0 .. Bound
        /\ Recent(l) = IF Bytes(l) >= total[l] THEN Bytes(l) - total[l] ELSE 0
    BY <1>1, <1>3, RecentIsGrowth
  <2>2. TotalOf(l) = Bytes(l) /\ Bound \in Nat /\ Bound < SignBit /\ SignBit \in Nat
    BY <1>1, <1>4, BytesAreBounded
  <2>3. Bytes(l)' = Bytes(l)
    BY <1>1 DEF Bytes
  <2>. QED
    BY <2>1, <2>2, <2>3
<1>6. /\ sum' \in [Lines \cup Devices -> Nat] /\ moved' \in [Lines \cup Devices -> Nat]
      /\ total' \in [Lines -> 0 .. 2 * SignBit - 1]
  <2>1. total' \in [Lines -> 0 .. 2 * SignBit - 1]
    BY <1>2, <1>5
  <2>2. moved' \in [Lines \cup Devices -> Nat]
    BY <1>2, <1>4
  <2>3. ASSUME NEW x \in Lines \cup Devices PROVE sum'[x] \in Nat
    BY <1>2, <1>4, <1>5
  <2>4. DOMAIN sum = Lines \cup Devices
    BY <1>4
  <2>. QED
    BY <1>2, <2>1, <2>2, <2>3, <2>4
<1>7. WidgetTypes'
  BY <1>1, <1>3, <1>6 DEF WidgetTypes, Counters
<1>8. ASSUME NEW l \in Lines
      PROVE  /\ Pending(l)' >= 0 /\ Pending(l)' >= Bytes(l)' - total'[l]
             /\ total'[l] <= Bound
             /\ reset = {} => Pending(l)' = Bytes(l)' - total'[l]
  <2>1. total'[l] = Bytes(l)
    BY <1>2, <1>5
  <2>2. /\ Pending(l) >= 0 /\ Pending(l) >= Bytes(l) - total[l]
        /\ reset = {} => Pending(l) = Bytes(l) - total[l]
    BY <1>1, <1>3 DEF NetInv
  <2>3. /\ sum[l] \in Nat /\ moved[l] \in Nat
        /\ sum'[l] = IF l \in shown THEN sum[l] + Recent(l) ELSE sum[l]
        /\ moved'[l] = IF shown = {} THEN sum[l] ELSE moved[l]
    BY <1>2, <1>4
  <2>4. Pending(l) = moved[l] - sum[l] /\ Pending(l)' = moved'[l] - sum'[l]
    BY DEF Pending
  <2>5. shown = {} \/ l \in shown
    OBVIOUS
  <2> HIDE DEF shown
  <2>6. /\ Pending(l) \in Int
        /\ Pending(l)' = IF l \in shown THEN Pending(l) - Recent(l) ELSE 0
    BY <1>5, <2>3, <2>4, <2>5
  <2>7. /\ Bytes(l)' - total'[l] = 0 /\ total'[l] <= Bound
    BY <1>5, <2>1
  <2>8. Pending(l)' >= 0 /\ (reset = {} => Pending(l)' = 0)
    BY <1>5, <2>2, <2>6
  <2>. QED
    BY <2>7, <2>8
<1>9. NetInv'
  <2>1. Bound' = Bound
    BY DEF Bound
  <2>. QED
    BY <1>1, <1>8, <2>1 DEF NetInv
<1>10. DiskInv'
  BY <1>1 DEF DiskInv
<1>. QED
  BY <1>7, <1>9, <1>10 DEF WidgetInv

(* A byte that is transferred is pending if and only if update will count  *)
(* its interface.                                                          *)
LEMMA TransferKeeps ==
  ASSUME WidgetsAssumption, WidgetInv, NEW c \in Counters, Transfer(c)
  PROVE  WidgetInv'
<1>1. /\ kind' = kind /\ UNCHANGED <<reset, sum, option, total, listing, prev, fahrenheit, temps>>
      /\ counter[c] < MaxBytes /\ counter' = [counter EXCEPT ![c] = @ + 1]
      /\ moved' = IF kind = "net" => c[1] \in Meant THEN [moved EXCEPT ![Line(c)] = @ + 1] ELSE moved
  BY DEF Transfer, seriesVars
<1>2. WidgetTypes /\ NetInv /\ DiskInv
  BY DEF WidgetInv
<1>3. /\ sum \in [Lines \cup Devices -> Nat] /\ moved \in [Lines \cup Devices -> Nat]
      /\ counter \in [Counters -> 0 .. MaxBytes] /\ MaxBytes \in Nat
      /\ option \in Options \cup {<< >>}
  BY <1>2 DEF WidgetTypes, WidgetsAssumption
<1>4. Line(c) \in Lines \cup Devices
  BY DEF Line, Counters
<1>5. counter' \in [Counters -> 0 .. MaxBytes] /\ moved' \in [Lines \cup Devices -> Nat]
  BY <1>1, <1>3, <1>4
<1>6. Counters' = Counters
  BY <1>1 DEF Counters
<1>7. WidgetTypes'
  BY <1>1, <1>2, <1>5, <1>6 DEF WidgetTypes
<1>8. NetInv'
  <2> SUFFICES ASSUME kind = "net", NEW l \in Lines
               PROVE  /\ Pending(l)' >= 0 /\ Pending(l)' >= Bytes(l)' - total[l]
                      /\ total[l] <= Bound
                      /\ reset = {} => Pending(l)' = Bytes(l)' - total[l]
    <3>1. Bound' = Bound
      BY DEF Bound
    <3>. QED
      BY <1>1, <3>1 DEF NetInv
  <2>1. PICK i \in Interfaces, k \in Lines : c = <<i, k>>
    BY DEF Counters
  <2> DEFINE f == [j \in Interfaces |-> counter[<<j, l>>]]
             g == [j \in Interfaces |-> counter'[<<j, l>>]]
             S == CapturedFor(option)
  <2>2. /\ IsFiniteSet(S) /\ S \subseteq Interfaces /\ Bytes(l) \in Int
        /\ \A j \in Interfaces : <<j, l>> \in Counters /\ counter[<<j, l>>] \in 0 .. MaxBytes
    <3>1. /\ IsFiniteSet(S) /\ S \subseteq Interfaces /\ Bytes(l) \in 0 .. Bound /\ Bound \in Nat
          /\ \A j \in Interfaces : <<j, l>> \in Counters /\ counter[<<j, l>>] \in 0 .. MaxBytes
      BY <1>3, BytesAreBounded
    <3>. QED
      BY <3>1
  <2>3. Bytes(l) = SumFunctionOnSet(f, S) /\ Bytes(l)' = SumFunctionOnSet(g, S)
    BY <1>1 DEF Bytes, BytesFor
  <2>4. ASSUME NEW j \in Interfaces
        PROVE  f[j] \in Int /\ g[j] = IF k = l /\ j = i THEN f[j] + 1 ELSE f[j]
    <3>1. f[j] = counter[<<j, l>>] /\ g[j] = counter'[<<j, l>>]
      OBVIOUS
    <3>2. <<j, l>> = c <=> k = l /\ j = i
      BY <2>1
    <3>3. counter'[<<j, l>>] = IF <<j, l>> = c THEN counter[<<j, l>>] + 1 ELSE counter[<<j, l>>]
      BY <1>1, <1>3, <2>2
    <3>4. counter[<<j, l>>] \in Int
      BY <1>3, <2>2
    <3> HIDE DEF f, g
    <3>. QED
      BY <3>1, <3>2, <3>3, <3>4
  <2>5. i \in Meant <=> i \in S
    BY <1>3, CapturedIsMeant, CapturedBytes
  <2>6. Bytes(l)' = IF k = l /\ i \in S THEN Bytes(l) + 1 ELSE Bytes(l)
    <3> HIDE DEF f, g, S
    <3>1. CASE k = l /\ i \in S
      <4>1. IsFiniteSet(S) /\ i \in S
        BY <2>2, <3>1
      <4>2. \A j \in S : f[j] \in Int /\ g[j] = IF j = i THEN f[j] + 1 ELSE f[j]
        BY <2>2, <2>4, <3>1
      <4>3. SumFunctionOnSet(g, S) = SumFunctionOnSet(f, S) + 1
        BY <4>1, <4>2, SumOfOneMore
      <4>. QED
        BY <2>3, <3>1, <4>3
    <3>2. CASE ~ (k = l /\ i \in S)
      <4>1. \A j \in S : f[j] = g[j]
        BY <2>2, <2>4, <3>2
      <4>. QED
        BY <2>2, <2>3, <3>2, <4>1, SumSame
    <3>. QED
      BY <3>1, <3>2
  <2>7. moved'[l] = IF k = l /\ i \in S THEN moved[l] + 1 ELSE moved[l]
    <3>1. c[1] = i /\ Line(c) = k
      BY <2>1 DEF Line
    <3>2. moved' = IF i \in S THEN [moved EXCEPT ![k] = @ + 1] ELSE moved
      BY <1>1, <2>5, <3>1
    <3> HIDE DEF S
    <3>. QED
      BY <1>3, <3>2
  <2>8. /\ Pending(l) >= 0 /\ Pending(l) >= Bytes(l) - total[l] /\ total[l] <= Bound
        /\ reset = {} => Pending(l) = Bytes(l) - total[l]
    BY <1>2 DEF NetInv
  <2>9. Pending(l) = moved[l] - sum[l] /\ Pending(l)' = moved'[l] - sum[l]
    BY <1>1 DEF Pending
  <2>10. moved[l] \in Nat /\ sum[l] \in Nat /\ total[l] \in Int
    BY <1>2, <1>3, WrappedNumber DEF WidgetTypes
  <2> DEFINE n == IF k = l /\ i \in S THEN 1 ELSE 0
  <2>11. Bytes(l)' = Bytes(l) + n /\ moved'[l] = moved[l] + n /\ n \in Nat
    BY <2>2, <2>6, <2>7, <2>10
  <2> HIDE DEF S, n
  <2>12. Pending(l)' = Pending(l) + n /\ Pending(l) \in Int
    BY <2>9, <2>10, <2>11
  <2>. QED
    BY <2>2, <2>8, <2>10, <2>11, <2>12
<1>9. DiskInv'
  <2> SUFFICES ASSUME kind = "disk", NEW d \in DOMAIN prev \ reset
               PROVE  /\ prev[d] <= counter'[d]
                      /\ prev[d] # 0 => moved'[d] = sum[d] + counter'[d] - prev[d]
    BY <1>1 DEF DiskInv
  <2>1. /\ prev[d] <= counter[d]
        /\ prev[d] # 0 => moved[d] = sum[d] + counter[d] - prev[d]
    BY <1>2 DEF DiskInv
  <2>2. Counters = Devices /\ Line(c) = c /\ d \in Devices
    BY <1>2 DEF Counters, Line, WidgetTypes
  <2>3. /\ prev[d] \in Nat /\ counter[d] \in Nat /\ moved[d] \in Nat /\ sum[d] \in Nat
    BY <1>2, <1>3, <2>2 DEF WidgetTypes
  <2>4. /\ counter'[d] = IF d = c THEN counter[d] + 1 ELSE counter[d]
        /\ moved'[d] = IF d = c THEN moved[d] + 1 ELSE moved[d]
    BY <1>1, <1>3, <2>2
  <2>. QED
    BY <2>1, <2>3, <2>4
<1>. QED
  BY <1>7, <1>8, <1>9 DEF WidgetInv

(* An interface or a disk that begins to count from zero makes the total   *)
(* smaller, and nothing is due any more of what it had counted.            *)
LEMMA ReplaceKeeps ==
  ASSUME WidgetsAssumption, WidgetInv, NEW c \in Counters, Replace(Of(c))
  PROVE  WidgetInv'
<1> DEFINE x == Of(c)
<1>1. /\ kind' = kind /\ UNCHANGED <<moved, sum, option, total, listing, prev, fahrenheit, temps>>
      /\ reset' = reset \cup {x}
      /\ counter' = [e \in Counters |-> IF Of(e) = x THEN 0 ELSE counter[e]]
  BY DEF Replace, seriesVars
<1>2. WidgetTypes /\ NetInv /\ DiskInv
  BY DEF WidgetInv
<1>3. counter \in [Counters -> 0 .. MaxBytes] /\ MaxBytes \in Nat
  BY <1>2 DEF WidgetTypes, WidgetsAssumption
<1>4. x \in Interfaces \cup Devices
  BY DEF Of, Counters
<1>5. counter' \in [Counters -> 0 .. MaxBytes]
  BY <1>1, <1>3
<1>6. Counters' = Counters
  BY <1>1 DEF Counters
<1>7. WidgetTypes'
  BY <1>1, <1>2, <1>4, <1>5, <1>6 DEF WidgetTypes
<1>8. NetInv'
  <2> SUFFICES ASSUME kind = "net", NEW l \in Lines
               PROVE  Pending(l)' >= 0 /\ Pending(l)' >= Bytes(l)' - total[l] /\ total[l] <= Bound
    <3>1. Bound' = Bound /\ reset' # {}
      BY <1>1 DEF Bound
    <3>. QED
      BY <1>1, <3>1 DEF NetInv
  <2> DEFINE f == [j \in Interfaces |-> counter[<<j, l>>]]
             g == [j \in Interfaces |-> counter'[<<j, l>>]]
             S == CapturedFor(option)
  <2>1. /\ IsFiniteSet(S) /\ S \subseteq Interfaces
        /\ \A j \in Interfaces : <<j, l>> \in Counters /\ counter[<<j, l>>] \in 0 .. MaxBytes
    BY <1>3, BytesAreBounded
  <2>2. Bytes(l) = SumFunctionOnSet(f, S) /\ Bytes(l)' = SumFunctionOnSet(g, S)
    BY <1>1 DEF Bytes, BytesFor
  <2>3. ASSUME NEW j \in Interfaces
        PROVE  f[j] \in Int /\ g[j] \in Int /\ g[j] <= f[j]
    <3>1. f[j] = counter[<<j, l>>] /\ g[j] = IF Of(<<j, l>>) = x THEN 0 ELSE counter[<<j, l>>]
      BY <1>1, <2>1
    <3>. QED
      BY <1>3, <2>1, <3>1
  <2> HIDE DEF f, g, S
  <2>4. \A j \in S : g[j] \in Int /\ f[j] \in Int /\ g[j] <= f[j]
    BY <2>1, <2>3
  <2>5. Bytes(l)' <= Bytes(l)
    BY <2>1, <2>2, <2>4, SumMonotone
  <2>6. Bytes(l) \in Int /\ Bytes(l)' \in Int
    BY <2>1, <2>2, <2>4, SumType
  <2>7. /\ Pending(l) >= 0 /\ Pending(l) >= Bytes(l) - total[l] /\ total[l] <= Bound
    BY <1>2 DEF NetInv
  <2>8. Pending(l) = Pending(l)' /\ Pending(l) \in Int /\ total[l] \in Int
    BY <1>1, <1>2, WrappedNumber DEF Pending, WidgetTypes
  <2>. QED
    BY <2>5, <2>6, <2>7, <2>8
<1>9. DiskInv'
  <2> SUFFICES ASSUME kind = "disk", NEW d \in DOMAIN prev \ reset'
               PROVE  /\ prev[d] <= counter'[d]
                      /\ prev[d] # 0 => moved[d] = sum[d] + counter'[d] - prev[d]
    BY <1>1 DEF DiskInv
  <2>1. d \notin reset /\ d # x
    BY <1>1
  <2>2. /\ prev[d] <= counter[d]
        /\ prev[d] # 0 => moved[d] = sum[d] + counter[d] - prev[d]
    BY <1>2, <2>1 DEF DiskInv
  <2>3. Counters = Devices /\ Of(d) = d /\ d \in Devices
    BY <1>2 DEF Counters, Of, WidgetTypes
  <2>4. counter'[d] = counter[d]
    BY <1>1, <2>1, <2>3
  <2>. QED
    BY <2>2, <2>4
<1>. QED
  BY <1>7, <1>8, <1>9 DEF WidgetInv

(* A listing is of devices.                                                *)
LEMMA ListedDevices ==
  ASSUME listing \in Listings
  PROVE  DOMAIN listing \subseteq Devices
  BY DEF Listings

(* What the disk widget shows of a counter that has not shrunk is how much *)
(* it has grown.                                                           *)
LEMMA RateIsGrowth ==
  ASSUME WidgetsAssumption, NEW a \in 0 .. MaxBytes, NEW b \in 0 .. MaxBytes
  PROVE  /\ Wrapped(a - b) \in Nat
         /\ b <= a => Wrapped(a - b) = a - b
<1>1. SignBit \in Nat /\ MaxBytes \in Nat /\ MaxBytes < SignBit
  <2>1. Cardinality(Interfaces) \in Nat /\ Cardinality(Interfaces) # 0
    <3>1. Interfaces # {} /\ IsFiniteSet(Interfaces)
      BY DEF WidgetsAssumption
    <3>. QED
      BY <3>1, FS_CardinalityType, FS_EmptySet
  <2> DEFINE n == Cardinality(Interfaces)
  <2>2. n \in Nat /\ n >= 1 /\ MaxBytes \in Nat /\ SignBit \in Nat /\ MaxBytes * n < SignBit
    BY <2>1 DEF WidgetsAssumption
  <2> HIDE DEF n
  <2>3. MaxBytes <= MaxBytes * n
    BY <2>2
  <2>. QED
    BY <2>2, <2>3
<1>2. a - b \in Int /\ a - b < SignBit
  BY <1>1
<1>3. Wrapped(a - b) \in 0 .. 2 * SignBit - 1
  BY <1>2, WrappedNumber
<1>4. b <= a => Wrapped(a - b) = a - b
  BY <1>2, WrappedNumber
<1>. QED
  BY <1>1, <1>3, <1>4

(* An update of the disk widget keeps the sums, for a partition that is    *)
(* new, that is read, that cannot be read and that is removed.             *)
LEMMA TickDiskKeeps ==
  ASSUME WidgetsAssumption, WidgetInv, NEW read \in SUBSET Devices, NEW blank \in SUBSET read,
         TickDisk(read, blank)
  PROVE  WidgetInv'
<1> DEFINE old == [d \in Kept |-> IF d \in DOMAIN prev THEN prev[d] ELSE 0]
           now == Kept \cap read
           anew == Devices \ (Kept \cap DOMAIN prev)
<1>1. /\ kind = "disk" /\ kind' = kind
      /\ UNCHANGED <<counter, option, total, listing, fahrenheit, temps>>
      /\ reset' = reset \cap DOMAIN listing \cap DOMAIN prev
  BY DEF TickDisk, seriesVars
<1>2. /\ prev' = [d \in Kept |-> IF d \in now \cap blank THEN 0 ELSE IF d \in now THEN counter[d] ELSE old[d]]
      /\ sum' = [d \in DOMAIN sum |->
                  IF d \in anew \cup (now \cap blank) THEN 0
                  ELSE IF d \in now THEN sum[d] + Rate(d, old[d]) ELSE sum[d]]
      /\ moved' = [d \in DOMAIN moved |->
                  IF d \in anew \cup (now \cap blank) THEN 0
                  ELSE IF d \in now /\ old[d] = 0 THEN sum[d] ELSE moved[d]]
  BY DEF TickDisk
<1>3. WidgetTypes /\ DiskInv
  BY DEF WidgetInv
<1>4. /\ sum \in [Lines \cup Devices -> Nat] /\ moved \in [Lines \cup Devices -> Nat]
      /\ counter \in [Devices -> 0 .. MaxBytes] /\ MaxBytes \in Nat
      /\ DOMAIN prev \subseteq Devices /\ \A d \in DOMAIN prev : prev[d] \in 0 .. MaxBytes
      /\ DOMAIN listing \subseteq Devices
  BY <1>1, <1>3, ListedDevices DEF WidgetTypes, Counters, WidgetsAssumption
<1>5. Kept \subseteq Devices /\ Kept \subseteq DOMAIN listing
  BY <1>4 DEF Kept
<1>6. ASSUME NEW d \in Kept
      PROVE  /\ old[d] = IF d \in DOMAIN prev THEN prev[d] ELSE 0
             /\ old[d] \in 0 .. MaxBytes /\ counter[d] \in 0 .. MaxBytes
             /\ prev'[d] = IF d \in now \cap blank THEN 0 ELSE IF d \in now THEN counter[d] ELSE old[d]
             /\ prev'[d] \in 0 .. MaxBytes
             /\ Rate(d, old[d]) \in Nat
             /\ 0 < old[d] /\ old[d] <= counter[d] => Rate(d, old[d]) = counter[d] - old[d]
  <2>1. old[d] = IF d \in DOMAIN prev THEN prev[d] ELSE 0
    OBVIOUS
  <2>2. old[d] \in 0 .. MaxBytes /\ counter[d] \in 0 .. MaxBytes
    BY <1>4, <1>5, <2>1
  <2>3. prev'[d] = IF d \in now \cap blank THEN 0 ELSE IF d \in now THEN counter[d] ELSE old[d]
    BY <1>2
  <2> HIDE DEF old, now, anew
  <2>4. /\ Rate(d, old[d]) \in Nat
        /\ 0 < old[d] /\ old[d] <= counter[d] => Rate(d, old[d]) = counter[d] - old[d]
    <3>1. /\ Wrapped(counter[d] - old[d]) \in Nat
          /\ old[d] <= counter[d] => Wrapped(counter[d] - old[d]) = counter[d] - old[d]
      BY <2>2, RateIsGrowth
    <3>2. Rate(d, old[d]) = IF old[d] = 0 THEN 0 ELSE Wrapped(counter[d] - old[d])
      BY DEF Rate
    <3>3. old[d] \in Int
      BY <1>4, <2>2
    <3>. QED
      BY <3>1, <3>2, <3>3
  <2>. QED
    BY <2>1, <2>2, <2>3, <2>4
<1>7. sum' \in [Lines \cup Devices -> Nat] /\ moved' \in [Lines \cup Devices -> Nat]
  <2>1. DOMAIN sum = Lines \cup Devices /\ DOMAIN moved = Lines \cup Devices
    BY <1>4
  <2>2. ASSUME NEW d \in Lines \cup Devices
        PROVE  sum'[d] \in Nat /\ moved'[d] \in Nat
    <3>1. d \in now => Rate(d, old[d]) \in Nat
      BY <1>6
    <3>2. sum[d] \in Nat /\ moved[d] \in Nat
      BY <1>4
    <3> HIDE DEF old, now, anew
    <3>3. /\ d \in now => sum'[d] \in {0, sum[d] + Rate(d, old[d])}
          /\ d \notin now => sum'[d] \in {0, sum[d]}
      BY <1>2, <2>1
    <3>4. moved'[d] \in {0, sum[d], moved[d]}
      BY <1>2, <2>1
    <3>. QED
      BY <3>1, <3>2, <3>3, <3>4
  <2> HIDE DEF old, now, anew
  <2>. QED
    BY <1>2, <2>1, <2>2
<1>8. DOMAIN prev' = Kept
  BY <1>2
<1>9. WidgetTypes'
  BY <1>1, <1>3, <1>5, <1>6, <1>7, <1>8 DEF WidgetTypes, Counters
<1>10. ASSUME NEW d \in Kept, d \notin reset'
       PROVE  /\ prev'[d] <= counter[d]
              /\ prev'[d] # 0 => moved'[d] = sum'[d] + counter[d] - prev'[d]
  <2>1. DOMAIN sum = Lines \cup Devices /\ DOMAIN moved = Lines \cup Devices /\ d \in Lines \cup Devices
    BY <1>4, <1>5
  <2>2. /\ sum'[d] = IF d \in anew \cup (now \cap blank) THEN 0
                     ELSE IF d \in now THEN sum[d] + Rate(d, old[d]) ELSE sum[d]
        /\ moved'[d] = IF d \in anew \cup (now \cap blank) THEN 0
                       ELSE IF d \in now /\ old[d] = 0 THEN sum[d] ELSE moved[d]
    BY <1>2, <2>1
  <2>3. /\ old[d] = IF d \in DOMAIN prev THEN prev[d] ELSE 0
        /\ old[d] \in 0 .. MaxBytes /\ counter[d] \in 0 .. MaxBytes
        /\ prev'[d] = IF d \in now \cap blank THEN 0 ELSE IF d \in now THEN counter[d] ELSE old[d]
        /\ 0 < old[d] /\ old[d] <= counter[d] => Rate(d, old[d]) = counter[d] - old[d]
    BY <1>6
  <2>4. old[d] = 0 => Rate(d, old[d]) = 0
    BY DEF Rate
  <2>5. sum[d] \in Nat /\ moved[d] \in Nat /\ MaxBytes \in Nat
    BY <1>4, <2>1
  <2>8. d \in anew <=> d \notin DOMAIN prev
    BY <1>5
  <2> HIDE DEF old, now, anew
  <2>6. CASE d \in DOMAIN prev
    <3>1. d \notin reset
      BY <1>1, <1>5, <1>10, <2>6
    <3>2. /\ prev[d] <= counter[d]
          /\ prev[d] # 0 => moved[d] = sum[d] + counter[d] - prev[d]
      BY <1>1, <1>3, <2>6, <3>1 DEF DiskInv
    <3>. QED
      BY <2>2, <2>3, <2>4, <2>5, <2>6, <2>8, <3>2
  <2>7. CASE d \notin DOMAIN prev
    BY <2>2, <2>3, <2>5, <2>7, <2>8
  <2>. QED
    BY <2>6, <2>7
<1>11. DiskInv'
  <2> SUFFICES ASSUME NEW d \in DOMAIN prev' \ reset'
               PROVE  /\ prev'[d] <= counter'[d]
                      /\ prev'[d] # 0 => moved'[d] = sum'[d] + counter'[d] - prev'[d]
    BY DEF DiskInv
  <2>. QED
    BY <1>1, <1>8, <1>10
<1>12. NetInv'
  BY <1>1 DEF NetInv
<1>. QED
  BY <1>9, <1>11, <1>12 DEF WidgetInv

(* Nothing that the sums are about has changed.                            *)
LEMMA NumbersUnchanged ==
  ASSUME NetInv, DiskInv, UNCHANGED <<kind, counter, reset, moved, sum, option, total, prev>>
  PROVE  NetInv' /\ DiskInv'
<1>1. \A l : Bytes(l)' = Bytes(l) /\ Pending(l)' = Pending(l)
  BY DEF Bytes, Pending
<1>2. Bound' = Bound
  BY DEF Bound
<1>. QED
  BY <1>1, <1>2 DEF NetInv, DiskInv

(* An update of the temperatures keeps the invariant.                      *)
LEMMA TickTempKeeps ==
  ASSUME WidgetsAssumption, WidgetInv, NEW read \in SUBSET Sensors, TickTemp(read)
  PROVE  WidgetInv'
<1> DEFINE fresh == read \cap (DOMAIN temps \cup Extern)
<1>1. /\ UNCHANGED <<kind, counter, reset, moved, sum, option, total, listing, prev, fahrenheit>>
      /\ temps' = [s \in DOMAIN temps \cup fresh |-> Converted(IF s \in fresh THEN 0 ELSE temps[s])]
  BY DEF TickTemp, seriesVars, system
<1>2. WidgetTypes /\ NetInv /\ DiskInv
  BY DEF WidgetInv
<1>3. ASSUME NEW n \in 0 .. 2 PROVE Converted(n) \in 0 .. 2
  BY DEF Converted
<1>4. DOMAIN temps' = DOMAIN temps \cup fresh /\ DOMAIN temps' \subseteq Sensors
  BY <1>1, <1>2 DEF WidgetTypes
<1>5. ASSUME NEW s \in DOMAIN temps' PROVE temps'[s] \in 0 .. 2
  <2>1. (IF s \in fresh THEN 0 ELSE temps[s]) \in 0 .. 2
    BY <1>2, <1>4 DEF WidgetTypes
  <2>2. temps'[s] = Converted(IF s \in fresh THEN 0 ELSE temps[s])
    BY <1>1, <1>4
  <2>. QED
    BY <1>3, <2>1, <2>2
<1>6. WidgetTypes'
  BY <1>1, <1>2, <1>4, <1>5 DEF WidgetTypes, Counters
<1>. QED
  BY <1>1, <1>2, <1>6, NumbersUnchanged DEF WidgetInv

(* Every step keeps the invariant of the widgets that count.               *)
LEMMA WidgetInvStep ==
  ASSUME WidgetsAssumption, WidgetInv, [Next]_vars
  PROVE  WidgetInv'
<1>1. ASSUME UNCHANGED <<kind, system, others>>
      PROVE  WidgetInv'
  <2>1. UNCHANGED <<kind, counter, reset, moved, sum, option, total, listing, prev, fahrenheit, temps>>
    BY <1>1 DEF system, others
  <2>. QED
    BY <2>1, TypesUnchanged, NumbersUnchanged DEF WidgetInv
<1>2. ASSUME SeriesNext, UNCHANGED <<system, option, total, listing, prev, fahrenheit, temps>>
      PROVE  WidgetInv'
  <2>1. kind' = kind
    BY <1>2, Zenon DEF SeriesNext, ReadCPU, AppendCPU, TickMem, TickBattery, TickSparks, Draw, DrawLines,
              DrawSparks, Look
  <2>2. UNCHANGED <<kind, system, others>>
    BY <1>2, <2>1 DEF others
  <2>. QED
    BY <1>1, <2>2
<1>3. ASSUME UNCHANGED vars
      PROVE  WidgetInv'
  <2>1. UNCHANGED <<kind, system, others>>
    BY <1>3 DEF vars, seriesVars, others
  <2>. QED
    BY <1>1, <2>1
<1>4. ASSUME Mount
      PROVE  WidgetInv'
  <2>1. /\ listing' \in Listings
        /\ UNCHANGED <<kind, counter, reset, moved, sum, option, total, prev, fahrenheit, temps>>
    BY <1>4 DEF Mount, seriesVars, system
  <2>2. WidgetTypes'
    BY <2>1 DEF WidgetInv, WidgetTypes, Counters
  <2>. QED
    BY <2>1, <2>2, NumbersUnchanged DEF WidgetInv
<1>. QED
  BY <1>2, <1>3, <1>4, TickNetKeeps, TickDiskKeeps, TickTempKeeps, TransferKeeps, ReplaceKeeps, Zenon DEF Next

(* The invariant of the widgets that count holds when the constructors     *)
(* return.                                                                 *)
LEMMA InitWidgetInv ==
  ASSUME SeriesAssumption, WidgetsAssumption, Init
  PROVE  WidgetInv
<1>1. /\ counter = [c \in Counters |-> 0] /\ reset = {}
      /\ moved = [x \in Lines \cup Devices |-> 0] /\ sum = moved
      /\ option \in Options \cup {<< >>}
      /\ total = [l \in Lines |-> IF kind = "net" THEN TotalOf(l) ELSE 0]
      /\ prev = << >> /\ fahrenheit \in BOOLEAN
  BY DEF Init
<1>2. MaxBytes \in Nat
  BY DEF WidgetsAssumption
<1>3. counter \in [Counters -> 0 .. MaxBytes]
  BY <1>1, <1>2
<1>4. ASSUME kind = "net", NEW l \in Lines
      PROVE  /\ total[l] = Bytes(l) /\ Bytes(l) \in 0 .. Bound /\ Bound \in Nat
             /\ Bound < SignBit
  BY <1>1, <1>3, <1>4, BytesAreBounded
<1>5. total \in [Lines -> 0 .. 2 * SignBit - 1]
  <2>1. ASSUME NEW l \in Lines PROVE total[l] \in 0 .. 2 * SignBit - 1
    <3>1. SignBit \in Nat \ {0}
      BY WrappedNumber
    <3>. QED
      BY <1>1, <1>4, <3>1
  <2>. QED
    BY <1>1, <2>1
<1>6. listing \in Listings
  <2>1. << >> \in Listings
    <3>1. << >> \in [{} -> {"seen", "docker"}]
      OBVIOUS
    <3>2. {} \in SUBSET Devices
      OBVIOUS
    <3>. QED
      BY <3>1, <3>2, Zenon DEF Listings
  <2>. QED
    BY <2>1 DEF Init
<1>7. DOMAIN temps \subseteq Sensors /\ \A s \in DOMAIN temps : temps[s] \in 0 .. 2
  <2>1. CASE kind = "temp"
    <3>1. PICK D \in SUBSET Sensors : temps = [s \in D |-> 0]
      BY <2>1 DEF Init
    <3>. QED
      BY <3>1
  <2>2. CASE kind # "temp"
    BY <2>2 DEF Init
  <2>. QED
    BY <2>1, <2>2
<1>8. WidgetTypes
  BY <1>1, <1>3, <1>5, <1>6, <1>7 DEF WidgetTypes
<1>9. NetInv
  <2> SUFFICES ASSUME kind = "net", NEW l \in Lines
               PROVE  /\ Pending(l) = 0 /\ Bytes(l) - total[l] = 0 /\ total[l] <= Bound
    BY DEF NetInv
  <2>1. Pending(l) = 0
    BY <1>1 DEF Pending
  <2>. QED
    BY <1>4, <2>1
<1>10. DiskInv
  BY <1>1 DEF DiskInv
<1>. QED
  BY <1>8, <1>9, <1>10 DEF WidgetInv

(* Every step of the widgets is a step of the graphs or leaves them alone. *)
LEMMA SeriesStepOfNext ==
  ASSUME [Next]_vars
  PROVE  [SeriesNext]_seriesVars
  BY Zenon DEF Next, vars, TickNet, TickDisk, TickTemp, Transfer, Replace, Mount

(* Both invariants hold in every reachable state.                          *)
LEMMA InvariantOfWidgets == Spec => [](SeriesInv /\ WidgetInv)
<1>1. Init => SeriesInv /\ WidgetInv
  BY InitSeriesInv, InitWidgetInv, SeriesAssumption, WidgetsAssumption DEF Init
<1>2. SeriesInv /\ WidgetInv /\ [Next]_vars => (SeriesInv /\ WidgetInv)'
  BY SeriesStepOfNext, SeriesStep, WidgetInvStep, SeriesAssumption, WidgetsAssumption
<1>. QED
  BY <1>1, <1>2, PTL DEF Spec

-----------------------------------------------------------------------------
(* The type invariant of the widgets: lengths stay within the bounds,      *)
(* trimming never makes one negative, and totals stay within the range of  *)
(* the counters.                                                           *)
THEOREM WidgetsTypeCorrect == Spec => []WidgetsTypeOK
<1>1. SeriesInv /\ WidgetInv => WidgetsTypeOK
  BY DEF SeriesInv, SeriesTypes, WidgetInv, WidgetTypes, WidgetsTypeOK
<1>. QED
  BY <1>1, InvariantOfWidgets, PTL

(* A graph shows the battery it is labelled with or one after it, and only *)
(* as many places after it as batteries that come before the one shown     *)
(* have been left out of an update, failed or not listed.                  *)
THEOREM BatteriesKeepTheirIds == Spec => []BatteryOfItsId
<1>1. SeriesInv => BatteryOfItsId
  BY DEF SeriesInv
<1>. QED
  BY <1>1, InvariantOfWidgets, PTL

(* Whatever the points, the looks and the scales before, a draw of a       *)
(* canvas with a width never trims what the same canvas shows; with a      *)
(* positive scale and points from 0 to 100 it does not panic either.       *)
THEOREM DrawsKeepTheView == Spec => DrawKeepsTheView
<1>1. SeriesInv /\ [Next]_vars =>
         [Draw /\ dx > 0 =>
            /\ \A n \in Data : len'[n] >= len[n] \/ len'[n] >= View
            /\ scale > 0 /\ odd = {} => ~broken' /\ (kind \in LineGraphs => listed' = Data)]_seriesVars
  BY ViewIsKept, SeriesAssumption
<1>. QED
  BY <1>1, InvariantOfWidgets, PTL DEF Spec, DrawKeepsTheView

(* The net widget never shows a byte that has not moved on an interface    *)
(* that the option asks for, and misses none as long as no interface is    *)
(* replaced: for every option, number of interfaces and width of the       *)
(* counters.                                                               *)
THEOREM NetShowsWhatMoved == Spec => []NetAddsUp
<1>1. WidgetInv => NetAddsUp
  <2> SUFFICES ASSUME WidgetInv, kind = "net", NEW l \in Lines
               PROVE  /\ sum[l] <= moved[l]
                      /\ reset = {} => moved[l] = sum[l] + TotalOf(l) - total[l]
    BY DEF NetAddsUp
  <2>1. TotalOf(l) = Bytes(l) /\ Bytes(l) \in Int
    <3>1. TotalOf(l) = Bytes(l) /\ Bytes(l) \in 0 .. Bound /\ Bound \in Nat
      BY BytesAreBounded, WidgetsAssumption DEF WidgetInv, WidgetTypes
    <3>. QED
      BY <3>1
  <2>2. sum[l] \in Nat /\ moved[l] \in Nat /\ total[l] \in Int
    BY WrappedNumber, WidgetsAssumption DEF WidgetInv, WidgetTypes
  <2>3. /\ moved[l] - sum[l] >= 0
        /\ reset = {} => moved[l] - sum[l] = Bytes(l) - total[l]
    BY DEF WidgetInv, NetInv, Pending
  <2>. QED
    BY <2>1, <2>2, <2>3
<1>. QED
  BY <1>1, InvariantOfWidgets, PTL

(* What the disk widget shows of a disk that is not replaced, and what it  *)
(* has not shown yet, add up to the bytes read.                            *)
THEOREM DisksShowWhatMoved == Spec => []DiskAddsUp
<1>1. WidgetInv => DiskAddsUp
  BY DEF WidgetInv, DiskInv, DiskAddsUp
<1>. QED
  BY <1>1, InvariantOfWidgets, PTL
=============================================================================
