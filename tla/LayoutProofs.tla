---------------------------- MODULE LayoutProofs ----------------------------
(***************************************************************************)
(* Why the layout ends: a widget of the first row always fits the column   *)
(* of its own index, so a call of processRow hands back at most the rows   *)
(* after the first it took, and what is left grows shorter with every      *)
(* call.  And why what it makes is right: the rows that are left, with     *)
(* those handed back, are always the last ones of the definition, in       *)
(* order, so that there is one frontier, behind which everything is placed *)
(* and from which on nothing is needed of what was.  And why no widget is  *)
(* shown more than twice: what is placed is behind the next widget, and a  *)
(* call ends behind the row it began with.  For every definition of any    *)
(* size.                                                                   *)
(***************************************************************************)
EXTENDS Layout, SequenceTheorems, FoldProofs, TLAPS

(* Sequences of one value, and sequences with one element replaced. *)
LEMMA ConstantSeq ==
    ASSUME NEW S, NEW n \in Nat, NEW c \in S
    PROVE  [k \in 1 .. n |-> c] \in Seq(S) /\ Len([k \in 1 .. n |-> c]) = n
  OBVIOUS

LEMMA ReplacedIn ==
    ASSUME NEW S, NEW s \in Seq(S), NEW k \in DOMAIN s, NEW v \in S
    PROVE  LET t == [s EXCEPT ![k] = v]
           IN  /\ t \in Seq(S) /\ Len(t) = Len(s) /\ DOMAIN t = DOMAIN s
               /\ t[k] = v
               /\ \A l \in DOMAIN s : l # k => t[l] = s[l]
  OBVIOUS

(* A sequence cut in two. *)
LEMMA FrontOf ==
    ASSUME NEW S, NEW s \in Seq(S), NEW h \in 1 .. Len(s)
    PROVE  /\ SubSeq(s, 1, h) \in Seq(S) /\ Len(SubSeq(s, 1, h)) = h
           /\ SubSeq(s, 1, h)[1] = s[1]
  OBVIOUS

LEMMA RestOf ==
    ASSUME NEW S, NEW s \in Seq(S), NEW h \in 1 .. Len(s)
    PROVE  /\ SubSeq(s, h, Len(s)) \in Seq(S)
           /\ Len(SubSeq(s, h, Len(s))) = (Len(s) - h) + 1
  OBVIOUS

NoEmptyRow == \A r \in DOMAIN rows : rows[r] # << >>

First == rows[processing[1]]

(* Inside a call: the columns are those of the first row, none is taller   *)
(* than the row of the grid, and as long as the first row is placed, the   *)
(* columns from the next widget's on are empty.                            *)
Columns ==
    /\ processing # << >>
    /\ Len(colHeights) = Len(First)
    /\ \A k \in 1 .. Len(First) : First[k] <= maxHeight
    /\ \A k \in 1 .. Len(colHeights) : colHeights[k] <= maxHeight
    /\ i = 1 => \A k \in w .. Len(colHeights) : colHeights[k] = 0

NextWidget ==
    /\ i \in 1 .. Len(processing) + 1
    /\ i <= Len(processing) => w \in 1 .. Len(Row)

RowsLeft ==
    /\ pc = "place" => Len(processing) + Len(rowDefs) + Len(uiRows) <= Len(rows)
    /\ pc = "made" => Len(rowDefs) + Len(uiRows) + 1 <= Len(rows)

LayoutInv ==
    /\ LayoutTypeOK
    /\ NoEmptyRow
    /\ pc = "place" => Columns /\ NextWidget
    /\ RowsLeft
    /\ EachCallConsumes

LEMMA LayoutInvInit == Init => LayoutInv
<1> SUFFICES ASSUME Init PROVE LayoutInv
  OBVIOUS
<1>1. /\ rows \in Seq(Seq(Nat \ {0}))
      /\ NoEmptyRow
  <2>1. PICK n \in 0 .. MaxRows : rows \in [1 .. n -> Rules]
    BY DEF Init, Definitions
  <2>2. ASSUME NEW rule \in Rules PROVE rule \in Seq(Nat \ {0}) /\ rule # << >>
    <3>1. PICK m \in 1 .. MaxWidgets : rule \in [1 .. m -> 1 .. MaxSpan]
      BY DEF Rules
    <3>2. rule \in [1 .. m -> Nat \ {0}] /\ m \in Nat \ {0}
      BY <3>1, LayoutAssumption
    <3>. QED
      BY <3>2
  <2>3. n \in Nat
    BY LayoutAssumption
  <2>4. \A r \in 1 .. n : rows[r] \in Seq(Nat \ {0}) /\ rows[r] # << >>
    BY <2>1, <2>2
  <2>5. rows \in [1 .. n -> Seq(Nat \ {0})]
    BY <2>1, <2>4
  <2>. QED
    BY <2>3, <2>4, <2>5 DEF NoEmptyRow
<1>2. /\ rowDefs = [r \in DOMAIN rows |-> r] /\ processing = << >>
      /\ maxHeight = 0 /\ colHeights = << >> /\ columns = << >>
      /\ i = 1 /\ w = 1 /\ uiRows = << >> /\ pc = "layout"
  BY DEF Init
<1>3. rowDefs \in Seq(DOMAIN rows) /\ Len(rowDefs) = Len(rows)
  BY <1>1, <1>2
<1>4. LayoutTypeOK
  BY <1>1, <1>2, <1>3 DEF LayoutTypeOK
<1>5. RowsLeft /\ EachCallConsumes
  BY <1>1, <1>2, <1>3 DEF RowsLeft, EachCallConsumes
<1>. QED
  BY <1>1, <1>2, <1>4, <1>5 DEF LayoutInv

(* The beginning of a call: at least one row is taken. *)
LEMMA ProcessRowKeeps ==
    ASSUME LayoutInv, ProcessRow
    PROVE  LayoutInv'
<1>1. /\ rows \in Seq(Seq(Nat \ {0})) /\ rowDefs \in Seq(DOMAIN rows)
      /\ uiRows \in Seq([height : Nat, columns : Seq(Seq(Nat \X Nat))])
      /\ pc = "layout" /\ rowDefs # << >>
      /\ NoEmptyRow
      /\ Len(rowDefs) + Len(uiRows) <= Len(rows)
  BY DEF LayoutInv, LayoutTypeOK, EachCallConsumes, ProcessRow
<1> DEFINE first == Head(rowDefs)
<1>2. first \in DOMAIN rows /\ rows[first] \in Seq(Nat \ {0}) /\ rows[first] # << >>
  BY <1>1 DEF NoEmptyRow
<1>3. PICK h \in Tallest(first) :
        /\ maxHeight' = h
        /\ IF h < Len(rowDefs)
           THEN processing' = SubSeq(rowDefs, 1, h) /\ rowDefs' = SubSeq(rowDefs, h + 1, Len(rowDefs))
           ELSE processing' = rowDefs /\ rowDefs' = << >>
  BY DEF ProcessRow
<1>4. h \in Nat \ {0} /\ \A k \in 1 .. Len(rows[first]) : rows[first][k] <= h
  BY <1>2 DEF Tallest
<1>5. /\ processing' \in Seq(DOMAIN rows) /\ rowDefs' \in Seq(DOMAIN rows)
      /\ processing' # << >> /\ processing'[1] = first
      /\ Len(processing') + Len(rowDefs') = Len(rowDefs)
  <2>1. CASE h < Len(rowDefs)
    <3>1. /\ processing' = SubSeq(rowDefs, 1, h)
          /\ rowDefs' = SubSeq(rowDefs, h + 1, Len(rowDefs))
      BY <1>3, <2>1
    <3>2. /\ SubSeq(rowDefs, 1, h) \in Seq(DOMAIN rows)
          /\ Len(SubSeq(rowDefs, 1, h)) = h
          /\ SubSeq(rowDefs, 1, h)[1] = rowDefs[1]
      <4>1. h \in 1 .. Len(rowDefs)
        BY <1>1, <1>4, <2>1
      <4>. QED
        BY <1>1, <4>1, FrontOf, Zenon
    <3>3. /\ SubSeq(rowDefs, h + 1, Len(rowDefs)) \in Seq(DOMAIN rows)
          /\ Len(SubSeq(rowDefs, h + 1, Len(rowDefs))) = (Len(rowDefs) - (h + 1)) + 1
      <4>1. h + 1 \in 1 .. Len(rowDefs)
        BY <1>1, <1>4, <2>1
      <4>. QED
        BY <1>1, <4>1, RestOf, Zenon
    <3>4. rowDefs[1] = first
      BY <1>1
    <3>5. Len(processing') = h /\ Len(rowDefs') = (Len(rowDefs) - (h + 1)) + 1
      BY <3>1, <3>2, <3>3
    <3>6. Len(processing') + Len(rowDefs') = Len(rowDefs)
      <4>1. Len(rowDefs) \in Nat
        BY <1>1
      <4>. QED
        BY <1>4, <3>5, <4>1
    <3>7. processing' # << >>
      BY <1>4, <3>5
    <3>. QED
      BY <3>1, <3>2, <3>3, <3>4, <3>6, <3>7
  <2>2. CASE ~(h < Len(rowDefs))
    BY <1>1, <1>3, <1>4, <2>2
  <2>. QED
    BY <2>1, <2>2
<1>6. /\ rows' = rows /\ uiRows' = uiRows
      /\ i' = 1 /\ w' = 1 /\ pc' = "place"
      /\ colHeights' = [k \in DOMAIN rows[first] |-> 0]
      /\ columns' = [k \in DOMAIN rows[first] |-> << >>]
  BY DEF ProcessRow
<1>7. /\ colHeights' \in Seq(Nat) /\ Len(colHeights') = Len(rows[first])
      /\ columns' \in Seq(Seq(Nat \X Nat)) /\ DOMAIN columns' = DOMAIN colHeights'
  <2>1. Len(rows[first]) \in Nat /\ DOMAIN rows[first] = 1 .. Len(rows[first])
    BY <1>2
  <2>2. << >> \in Seq(Nat \X Nat)
    OBVIOUS
  <2>3. /\ colHeights' = [k \in 1 .. Len(rows[first]) |-> 0]
        /\ columns' = [k \in 1 .. Len(rows[first]) |-> << >>]
    BY <1>6, <2>1
  <2>. QED
    BY <2>1, <2>2, <2>3, ConstantSeq
<1>8. LayoutTypeOK'
  BY <1>1, <1>3, <1>4, <1>5, <1>6, <1>7 DEF LayoutTypeOK
<1>9. Columns'
  <2>1. rows'[processing'[1]] = rows[first]
    BY <1>5, <1>6
  <2>2. Len(rows[first]) \in Nat /\ DOMAIN rows[first] = 1 .. Len(rows[first])
    BY <1>2
  <2>3. \A k \in 1 .. Len(rows[first]) : colHeights'[k] = 0
    BY <1>6, <2>2
  <2>4. maxHeight' \in Nat /\ \A k \in 1 .. Len(rows[first]) : rows[first][k] <= maxHeight'
    BY <1>3, <1>4
  <2>5. \A k \in 1 .. Len(rows[first]) : colHeights'[k] <= maxHeight'
    BY <2>3, <2>4
  <2>6. i' = 1 => \A k \in w' .. Len(rows[first]) : colHeights'[k] = 0
    BY <1>6, <2>2, <2>3
  <2>7. processing' # << >> /\ Len(colHeights') = Len(rows[first])
    BY <1>5, <1>7
  <2>. QED
    BY <2>1, <2>4, <2>5, <2>6, <2>7 DEF Columns, First
<1>10. NextWidget'
  <2>1. Len(processing') \in Nat \ {0}
    BY <1>5
  <2>2. Len(rows[first]) \in Nat \ {0}
    BY <1>2
  <2>3. i' = 1 /\ w' = 1 /\ rows' = rows /\ processing'[1] = first
    BY <1>5, <1>6
  <2>4. 1 \in 1 .. Len(processing') + 1 /\ 1 \in 1 .. Len(rows[first])
    BY <2>1, <2>2
  <2>5. rows'[processing'[i']] = rows[first]
    BY <2>3
  <2>. QED
    BY <2>3, <2>4, <2>5 DEF NextWidget, Row
<1>11. RowsLeft' /\ EachCallConsumes' /\ NoEmptyRow'
  BY <1>1, <1>5, <1>6 DEF RowsLeft, EachCallConsumes, NoEmptyRow
<1>. QED
  BY <1>8, <1>9, <1>10, <1>11 DEF LayoutInv

LEMMA PlaceWidgetKeeps ==
    ASSUME LayoutInv, PlaceWidget
    PROVE  LayoutInv'
<1>1. /\ rows \in Seq(Seq(Nat \ {0})) /\ processing \in Seq(DOMAIN rows) /\ maxHeight \in Nat
      /\ colHeights \in Seq(Nat) /\ columns \in Seq(Seq(Nat \X Nat))
      /\ DOMAIN columns = DOMAIN colHeights
      /\ pc = "place" /\ i \in 1 .. Len(processing) /\ w \in 1 .. Len(Row)
  BY DEF LayoutInv, LayoutTypeOK, PlaceWidget, NextWidget
<1>2. Columns /\ NoEmptyRow
  BY <1>1 DEF LayoutInv
<1>3. /\ processing[i] \in DOMAIN rows /\ processing[i] \in Nat
      /\ Row \in Seq(Nat \ {0}) /\ Row[w] \in Nat \ {0}
  <2>1. processing[i] \in DOMAIN rows
    BY <1>1
  <2>2. processing[i] \in Nat
    BY <1>1, <2>1
  <2>3. Row \in Seq(Nat \ {0})
    BY <1>1, <2>1 DEF Row
  <2>4. Row[w] \in Nat \ {0}
    BY <1>1, <2>3
  <2>. QED
    BY <2>1, <2>2, <2>3, <2>4
<1>13. w \in Nat \ {0} /\ w <= Len(Row) /\ Len(Row) \in Nat
  BY <1>1, <1>3
<1>14. /\ colHeights \in Seq(Nat) /\ DOMAIN colHeights = 1 .. Len(colHeights) /\ Len(colHeights) \in Nat
  BY <1>1
<1>4. PICK k \in Fitting :
        /\ columns' = [columns EXCEPT ![k] = Append(columns[k], <<processing[i], w>>)]
        /\ colHeights' = [colHeights EXCEPT ![k] = colHeights[k] + Row[w]]
        /\ \A l \in Fitting : k <= l
  BY DEF PlaceWidget
<1>5. /\ k \in w .. Len(colHeights) /\ k \in DOMAIN colHeights
      /\ colHeights[k] \in Nat /\ colHeights[k] + Row[w] <= maxHeight
  <2>1. k \in w .. Len(colHeights) /\ colHeights[k] + Row[w] <= maxHeight
    BY <1>4 DEF Fitting
  <2>2. k \in DOMAIN colHeights
    BY <1>13, <1>14, <2>1
  <2>3. colHeights[k] \in Nat
    BY <1>14, <2>2
  <2>. QED
    BY <2>1, <2>2, <2>3
<1>6. /\ UNCHANGED <<rows, rowDefs, processing, maxHeight, uiRows, pc>>
      /\ IF w < Len(Row) THEN w' = w + 1 /\ i' = i ELSE w' = 1 /\ i' = i + 1
  BY DEF PlaceWidget
<1>7. /\ colHeights' \in Seq(Nat) /\ Len(colHeights') = Len(colHeights)
      /\ DOMAIN colHeights' = DOMAIN colHeights
      /\ \A l \in DOMAIN colHeights : l # k => colHeights'[l] = colHeights[l]
      /\ colHeights'[k] <= maxHeight
  <2>1. colHeights[k] + Row[w] \in Nat
    BY <1>3, <1>5
  <2>2. /\ colHeights' \in Seq(Nat) /\ Len(colHeights') = Len(colHeights)
        /\ DOMAIN colHeights' = DOMAIN colHeights
        /\ colHeights'[k] = colHeights[k] + Row[w]
        /\ \A l \in DOMAIN colHeights : l # k => colHeights'[l] = colHeights[l]
    <3> DEFINE t == [colHeights EXCEPT ![k] = colHeights[k] + Row[w]]
    <3>2. /\ t \in Seq(Nat) /\ Len(t) = Len(colHeights) /\ DOMAIN t = DOMAIN colHeights
          /\ t[k] = colHeights[k] + Row[w]
          /\ \A l \in DOMAIN colHeights : l # k => t[l] = colHeights[l]
      <4>1. colHeights \in Seq(Nat) /\ k \in DOMAIN colHeights
        BY <1>14, <1>5
      <4>. QED
        BY <2>1, <4>1, ReplacedIn
    <3>3. colHeights' = t
      BY <1>4
    <3>. QED
      BY <3>2, <3>3
  <2>. QED
    BY <1>5, <2>2
<1>8. columns' \in Seq(Seq(Nat \X Nat)) /\ DOMAIN columns' = DOMAIN colHeights'
  <2>1. <<processing[i], w>> \in Nat \X Nat
    <3>1. processing[i] \in Nat
      BY <1>3
    <3>2. w \in Nat
      BY <1>13
    <3>. QED
      BY <3>1, <3>2
  <2>2. k \in DOMAIN columns /\ columns[k] \in Seq(Nat \X Nat)
    BY <1>1, <1>5
  <2>3. Append(columns[k], <<processing[i], w>>) \in Seq(Nat \X Nat)
    BY <2>1, <2>2
  <2>4. columns \in Seq(Seq(Nat \X Nat)) /\ DOMAIN columns = DOMAIN colHeights
    BY <1>1
  <2> DEFINE t == [columns EXCEPT ![k] = Append(columns[k], <<processing[i], w>>)]
  <2>5. t \in Seq(Seq(Nat \X Nat)) /\ DOMAIN t = DOMAIN columns
    BY <2>2, <2>3, <2>4, ReplacedIn
  <2>6. columns' = t
    BY <1>4
  <2>. QED
    BY <1>7, <2>4, <2>5, <2>6
<1>9. LayoutTypeOK'
  <2>1. i' \in Nat /\ w' \in Nat
    <3>1. i \in Nat
      BY <1>1
    <3>. QED
      BY <1>6, <1>13, <3>1
  <2>. QED
    BY <1>6, <1>7, <1>8, <2>1 DEF LayoutInv, LayoutTypeOK
<1>10. Columns'
  <2>1. i = 1 => k = w
    <3> SUFFICES ASSUME i = 1 PROVE k = w
      OBVIOUS
    <3>0. Row = First /\ Len(colHeights) = Len(First)
      BY <1>2 DEF Columns, Row, First
    <3>1. Row[w] <= maxHeight /\ colHeights[w] = 0
      <4>1. w \in 1 .. Len(First) /\ w \in w .. Len(colHeights)
        BY <1>13, <1>14, <3>0
      <4>. QED
        BY <1>2, <3>0, <4>1 DEF Columns
    <3>2. w \in w .. Len(colHeights) /\ colHeights[w] + Row[w] <= maxHeight
      BY <1>3, <1>13, <1>14, <3>0, <3>1
    <3>3. w \in Fitting
      BY <3>2 DEF Fitting
    <3>4. k <= w /\ w <= k /\ k \in Int
      BY <1>4, <1>5, <1>14, <1>13, <3>3
    <3>. QED
      BY <1>13, <3>4
  <2>2. i' = 1 => i = 1 /\ w' = w + 1
    <3>1. i \in Nat \ {0}
      BY <1>1
    <3>. QED
      BY <1>6, <3>1
  <2>3. i' = 1 => \A l \in w' .. Len(colHeights') : colHeights'[l] = 0
    <3> SUFFICES ASSUME i' = 1, NEW l \in w' .. Len(colHeights') PROVE colHeights'[l] = 0
      OBVIOUS
    <3>1. l \in w .. Len(colHeights) /\ l # k /\ l \in DOMAIN colHeights
      BY <1>13, <1>14, <1>7, <2>1, <2>2
    <3>2. colHeights[l] = 0
      BY <1>2, <2>2, <3>1 DEF Columns
    <3>. QED
      BY <1>7, <3>1, <3>2
  <2>4. \A l \in 1 .. Len(colHeights') : colHeights'[l] <= maxHeight'
    <3> SUFFICES ASSUME NEW l \in DOMAIN colHeights PROVE colHeights'[l] <= maxHeight
      BY <1>6, <1>7, <1>14
    <3>1. colHeights[l] <= maxHeight
      BY <1>2, <1>14 DEF Columns
    <3>. QED
      BY <1>7, <3>1
  <2>. QED
    BY <1>2, <1>6, <1>7, <2>3, <2>4 DEF Columns, First
<1>11. NextWidget'
  <2>1. CASE w < Len(Row)
    <3>1. w' = w + 1 /\ i' = i /\ rows' = rows /\ processing' = processing
      BY <1>6, <2>1
    <3>2. w + 1 \in 1 .. Len(Row) /\ i \in 1 .. Len(processing) + 1
      BY <1>1, <1>13, <2>1
    <3>. QED
      BY <3>1, <3>2 DEF NextWidget, Row
  <2>2. CASE ~(w < Len(Row))
    <3>1. w' = 1 /\ i' = i + 1 /\ rows' = rows /\ processing' = processing
      BY <1>6, <2>2
    <3>2. \A j \in 1 .. Len(processing) : 1 \in 1 .. Len(rows[processing[j]])
      <4> SUFFICES ASSUME NEW j \in 1 .. Len(processing) PROVE 1 \in 1 .. Len(rows[processing[j]])
        OBVIOUS
      <4>1. processing[j] \in DOMAIN rows
        BY <1>1
      <4>2. rows[processing[j]] \in Seq(Nat \ {0}) /\ rows[processing[j]] # << >>
        BY <1>1, <1>2, <4>1 DEF NoEmptyRow
      <4>. QED
        BY <4>2
    <3>3. i + 1 \in 1 .. Len(processing) + 1 /\ i + 1 \in Nat \ {0}
      BY <1>1
    <3>4. i + 1 <= Len(processing) => 1 \in 1 .. Len(rows[processing[i + 1]])
      <4>1. i + 1 <= Len(processing) => i + 1 \in 1 .. Len(processing)
        BY <1>1
      <4>. QED
        BY <3>2, <4>1
    <3>. QED
      BY <3>1, <3>3, <3>4 DEF NextWidget, Row
  <2>. QED
    BY <2>1, <2>2
<1>12. RowsLeft' /\ EachCallConsumes' /\ NoEmptyRow'
  BY <1>1, <1>2, <1>6 DEF LayoutInv, RowsLeft, EachCallConsumes, NoEmptyRow
<1>. QED
  BY <1>9, <1>10, <1>11, <1>12 DEF LayoutInv

(* The test for full columns, which compares with <=, finds none full.     *)
LEMMA NeverFull ==
    ASSUME LayoutInv, pc = "place", i <= Len(processing)
    PROVE  ~Full
<1>1. /\ rows \in Seq(Seq(Nat \ {0})) /\ processing \in Seq(DOMAIN rows)
      /\ colHeights \in Seq(Nat) /\ maxHeight \in Nat
      /\ Columns /\ NoEmptyRow
  BY DEF LayoutInv, LayoutTypeOK
<1>2. First \in Seq(Nat \ {0}) /\ First # << >>
  BY <1>1 DEF Columns, First, NoEmptyRow
<1>3. 1 \in DOMAIN colHeights /\ colHeights[1] <= maxHeight /\ colHeights[1] \in Nat
  BY <1>1, <1>2 DEF Columns
<1>. QED
  BY <1>1, <1>3 DEF Full

(* The first row of a call fits: what is handed back begins after it.      *)
LEMMA FirstRowFits ==
    ASSUME LayoutInv, HandBack
    PROVE  i # 1
<1>1. /\ rows \in Seq(Seq(Nat \ {0})) /\ processing \in Seq(DOMAIN rows) /\ maxHeight \in Nat
      /\ colHeights \in Seq(Nat)
      /\ pc = "place" /\ i \in 1 .. Len(processing) /\ w \in 1 .. Len(Row)
  BY DEF LayoutInv, LayoutTypeOK, HandBack, NextWidget
<1>2. Columns
  BY <1>1 DEF LayoutInv
<1>3. Fitting = {}
  BY <1>1, NeverFull DEF HandBack
<1>4. i # 1
  <2> SUFFICES ASSUME i = 1 PROVE FALSE
    OBVIOUS
  <2>1. /\ Row = First /\ Len(colHeights) = Len(First)
        /\ Row[w] <= maxHeight /\ colHeights[w] = 0
    BY <1>1, <1>2 DEF Columns, Row, First
  <2>2. Row[w] \in Nat
    BY <1>1 DEF Row
  <2>3. w \in Fitting
    BY <1>1, <2>1, <2>2 DEF Fitting
  <2>. QED
    BY <1>3, <2>3
<1>. QED
  BY <1>4

LEMMA HandBackKeeps ==
    ASSUME LayoutInv, HandBack
    PROVE  LayoutInv'
<1>1. /\ rows \in Seq(Seq(Nat \ {0})) /\ processing \in Seq(DOMAIN rows) /\ maxHeight \in Nat
      /\ rowDefs \in Seq(DOMAIN rows) /\ colHeights \in Seq(Nat)
      /\ uiRows \in Seq([height : Nat, columns : Seq(Seq(Nat \X Nat))])
      /\ pc = "place" /\ i \in 1 .. Len(processing) /\ w \in 1 .. Len(Row)
  BY DEF LayoutInv, LayoutTypeOK, HandBack, NextWidget
<1>2. Columns /\ NoEmptyRow /\ Len(processing) + Len(rowDefs) + Len(uiRows) <= Len(rows)
  BY <1>1 DEF LayoutInv, RowsLeft
<1>4. i # 1
  BY FirstRowFits
<1>5. /\ rowDefs' = SubSeq(processing, i, Len(processing)) \o rowDefs
      /\ pc' = "made"
      /\ UNCHANGED <<rows, processing, maxHeight, colHeights, columns, i, w, uiRows>>
  BY DEF HandBack
<1>6. rowDefs' \in Seq(DOMAIN rows) /\ Len(rowDefs') = (Len(processing) - i) + 1 + Len(rowDefs)
  <2>1. /\ SubSeq(processing, i, Len(processing)) \in Seq(DOMAIN rows)
        /\ Len(SubSeq(processing, i, Len(processing))) = (Len(processing) - i) + 1
    BY <1>1
  <2>. QED
    BY <1>1, <1>5, <2>1
<1>7. LayoutTypeOK'
  BY <1>5, <1>6 DEF LayoutInv, LayoutTypeOK
<1>8. RowsLeft' /\ EachCallConsumes' /\ NoEmptyRow'
  BY <1>1, <1>2, <1>4, <1>5, <1>6 DEF RowsLeft, EachCallConsumes, NoEmptyRow
<1>. QED
  BY <1>5, <1>7, <1>8 DEF LayoutInv

LEMMA RowMadeKeeps ==
    ASSUME LayoutInv, RowMade
    PROVE  LayoutInv'
<1>1. /\ rows \in Seq(Seq(Nat \ {0})) /\ processing \in Seq(DOMAIN rows) /\ maxHeight \in Nat
      /\ rowDefs \in Seq(DOMAIN rows) /\ columns \in Seq(Seq(Nat \X Nat))
      /\ uiRows \in Seq([height : Nat, columns : Seq(Seq(Nat \X Nat))])
  BY DEF LayoutInv, LayoutTypeOK
<1>2. /\ uiRows' = Append(uiRows, [height |-> maxHeight, columns |-> columns])
      /\ pc' = "layout"
      /\ UNCHANGED <<rows, rowDefs, processing, maxHeight, colHeights, columns, i, w>>
  BY DEF RowMade
<1>3. uiRows' \in Seq([height : Nat, columns : Seq(Seq(Nat \X Nat))]) /\ Len(uiRows') = Len(uiRows) + 1
  BY <1>1, <1>2
<1>4. Len(rowDefs) + Len(uiRows) + 1 <= Len(rows)
  <2>1. CASE pc = "made"
    BY <2>1 DEF LayoutInv, RowsLeft
  <2>2. CASE pc = "place"
    <3>1. processing # << >> /\ Len(processing) + Len(rowDefs) + Len(uiRows) <= Len(rows)
      BY <2>2 DEF LayoutInv, RowsLeft, Columns
    <3>. QED
      BY <1>1, <3>1
  <2>. QED
    BY <2>1, <2>2 DEF RowMade
<1>5. LayoutTypeOK'
  BY <1>2, <1>3 DEF LayoutInv, LayoutTypeOK
<1>6. RowsLeft' /\ EachCallConsumes' /\ NoEmptyRow'
  BY <1>1, <1>2, <1>3, <1>4 DEF LayoutInv, RowsLeft, EachCallConsumes, NoEmptyRow
<1>. QED
  BY <1>2, <1>5, <1>6 DEF LayoutInv

LEMMA LayoutInvStep == LayoutInv /\ [Next]_vars => LayoutInv'
<1> SUFFICES ASSUME LayoutInv, [Next]_vars PROVE LayoutInv'
  OBVIOUS
<1>1. CASE LayoutMade
  <2>1. /\ pc = "layout" /\ pc' = "done"
        /\ UNCHANGED <<rows, rowDefs, processing, maxHeight, colHeights, columns, i, w, uiRows>>
    BY <1>1 DEF LayoutMade
  <2>2. LayoutTypeOK'
    BY <2>1 DEF LayoutInv, LayoutTypeOK
  <2>. QED
    BY <2>1, <2>2 DEF LayoutInv, RowsLeft, EachCallConsumes, NoEmptyRow
<1>2. CASE UNCHANGED vars
  <2>1. UNCHANGED <<rows, rowDefs, processing, maxHeight, colHeights, columns, i, w, uiRows, pc>>
    BY <1>2 DEF vars
  <2>2. LayoutTypeOK' /\ NoEmptyRow'
    BY <2>1 DEF LayoutInv, LayoutTypeOK, NoEmptyRow
  <2>3. Columns' = Columns /\ NextWidget' = NextWidget
    BY <2>1 DEF Columns, First, NextWidget, Row
  <2>. QED
    BY <2>1, <2>2, <2>3 DEF LayoutInv, RowsLeft, EachCallConsumes
<1>. QED
  BY <1>1, <1>2, ProcessRowKeeps, PlaceWidgetKeeps, HandBackKeeps, RowMadeKeeps DEF Next

THEOREM LayoutInvariant == Spec => []LayoutInv
  BY LayoutInvInit, LayoutInvStep, PTL DEF Spec

(* The variables of the layout keep their types, for every definition; in  *)
(* particular processRow puts back only rows of the definition.            *)
THEOREM LayoutTypeCorrect == Spec => []LayoutTypeOK
<1>1. LayoutInv => LayoutTypeOK
  BY DEF LayoutInv
<1>. QED
  BY <1>1, LayoutInvariant, PTL

(* Each call of processRow consumes a row, whatever is put back, so the    *)
(* loop in Layout ends after at most as many calls as there are rows.      *)
THEOREM LayoutConsumesRows == Spec => []EachCallConsumes
<1>1. LayoutInv => EachCallConsumes
  BY DEF LayoutInv
<1>. QED
  BY <1>1, LayoutInvariant, PTL
-----------------------------------------------------------------------------
(* The grid. A call of processRow is under way in two of the places, and   *)
(* the frontier is the row whose widgets are placed next.                  *)
InCall == pc \in {"place", "made"}
Frontier ==
    IF pc = "place" THEN (Len(rows) - Len(rowDefs) - Len(processing)) + i
    ELSE (Len(rows) - Len(rowDefs)) + 1
(* The first row of the call, or where the next one begins.                *)
Start == IF InCall THEN processing[1] ELSE Frontier

(* The rows that are left are the last ones of the definition, in order,   *)
(* and in a call those it works on come right before them.                 *)
RowsInOrder ==
    /\ \A j \in DOMAIN rowDefs : rowDefs[j] = (Len(rows) - Len(rowDefs)) + j
    /\ pc = "place" => \A j \in DOMAIN processing :
         processing[j] = (Len(rows) - Len(rowDefs) - Len(processing)) + j
    /\ InCall => processing # << >>
    /\ Start \in 1 .. Frontier

(* A column of widgets of the definition, earlier rows above later ones.   *)
Descends(c) ==
    /\ \A p \in DOMAIN c : c[p] \in Widgets
    /\ \A p, q \in DOMAIN c : p < q => c[p][1] <= c[q][1]

(* In a call: the columns show rows between the call's first and the       *)
(* frontier, and what is kept as a column's height is what fills it.       *)
ColumnsInOrder ==
    InCall => \A k \in DOMAIN columns :
        /\ Descends(columns[k])
        /\ \A p \in DOMAIN columns[k] : columns[k][p][1] \in Start .. Frontier
        /\ Filled(columns[k]) = colHeights[k] /\ colHeights[k] <= maxHeight

(* The grid shows rows up to the first one of the call.                    *)
GridInOrder ==
    \A u \in DOMAIN uiRows : \A k \in DOMAIN uiRows[u].columns :
        LET c == uiRows[u].columns[k]
        IN  /\ Descends(c)
            /\ \A p \in DOMAIN c : c[p][1] <= Start

(* A widget before the frontier is in the grid or in a column.             *)
Behind(a) == a[1] < Frontier \/ (pc = "place" /\ a[1] = Frontier /\ a[2] < w)
InColumns == IF InCall THEN UNION {InColumn(columns[k]) : k \in DOMAIN columns} ELSE {}
NoneIsLost == \A a \in Widgets : Behind(a) => a \in Placed \cup InColumns

(* The invariant behind the properties of the grid.                        *)
GridInv == RowsInOrder /\ ColumnsInOrder /\ GridInOrder /\ TopDown /\ ColumnsFit /\ NoneIsLost

(* A widget is a place in the definition, and its height is a number.      *)
LEMMA WidgetIs ==
  ASSUME rows \in Seq(Seq(Nat \ {0}))
  PROVE  /\ \A a \in Widgets : /\ a[1] \in DOMAIN rows /\ a[2] \in DOMAIN rows[a[1]]
                               /\ a = <<a[1], a[2]>> /\ a[1] \in Nat /\ a[2] \in Nat \ {0}
                               /\ Height(a) \in Nat
         /\ \A r \in DOMAIN rows : \A x \in DOMAIN rows[r] : <<r, x>> \in Widgets
<1>1. ASSUME NEW a \in Widgets
      PROVE  /\ a[1] \in DOMAIN rows /\ a[2] \in DOMAIN rows[a[1]]
             /\ a = <<a[1], a[2]>> /\ a[1] \in Nat /\ a[2] \in Nat \ {0}
             /\ Height(a) \in Nat
  <2>1. PICK r \in DOMAIN rows : a \in {r} \X DOMAIN rows[r]
    BY DEF Widgets
  <2>2. PICK x \in DOMAIN rows[r] : a = <<r, x>>
    BY <2>1
  <2>3. r \in Nat /\ rows[r] \in Seq(Nat \ {0})
    OBVIOUS
  <2>4. x \in Nat \ {0} /\ rows[r][x] \in Nat
    BY <2>3
  <2>. QED
    BY <2>2, <2>3, <2>4 DEF Height
<1>2. ASSUME NEW r \in DOMAIN rows, NEW x \in DOMAIN rows[r] PROVE <<r, x>> \in Widgets
  BY DEF Widgets
<1>. QED
  BY <1>1, <1>2

(* An empty column is not filled at all.                                   *)
LEMMA FilledIsEmpty == Filled(<< >>) = 0
<1>1. DOMAIN << >> = {}
  OBVIOUS
<1>. QED
  BY <1>1, SumOfEmpty DEF Filled

(* A widget put into a column fills it by its height.                      *)
LEMMA FilledByOneMore ==
  ASSUME rows \in Seq(Seq(Nat \ {0})),
         NEW c \in Seq(Nat \X Nat), \A p \in DOMAIN c : c[p] \in Widgets,
         NEW a \in Widgets, a \in Nat \X Nat
  PROVE  Filled(Append(c, a)) = Filled(c) + Height(a)
<1> DEFINE n == Len(c)
           d == Append(c, a)
           f == [p \in DOMAIN c |-> Height(c[p])]
           g == [p \in DOMAIN d |-> Height(d[p])]
<1>1. n \in Nat /\ DOMAIN c = 1 .. n /\ DOMAIN d = 1 .. n + 1
  OBVIOUS
<1>2. d[n + 1] = a /\ \A p \in 1 .. n : d[p] = c[p]
  OBVIOUS
<1>3. g[n + 1] = Height(a)
  <2>1. n + 1 \in DOMAIN d
    BY <1>1
  <2> HIDE DEF d, n
  <2>. QED
    BY <1>2, <2>1
<1>4. \A p \in 1 .. n : f[p] \in Int /\ g[p] = f[p]
  <2> SUFFICES ASSUME NEW p \in 1 .. n PROVE f[p] \in Int /\ g[p] = f[p]
    OBVIOUS
  <2>1. p \in DOMAIN c /\ p \in DOMAIN d
    BY <1>1
  <2>2. f[p] = Height(c[p]) /\ g[p] = Height(d[p])
    BY <2>1
  <2>3. Height(c[p]) \in Nat
    BY <2>1, WidgetIs
  <2>. QED
    BY <1>2, <2>2, <2>3
<1>5. Height(a) \in Nat
  BY WidgetIs
<1> HIDE DEF f, g, n, d
<1>6. SumFunctionOnSet(g, 1 .. n + 1) = SumFunctionOnSet(f, 1 .. n) + g[n + 1]
  <2>1. n \in Nat /\ g[n + 1] \in Int
    BY <1>1, <1>3, <1>5
  <2>. QED
    BY <1>4, <2>1, SumOfLonger, Zenon
<1>7. Filled(d) = SumFunctionOnSet(g, 1 .. n + 1) /\ Filled(c) = SumFunctionOnSet(f, 1 .. n)
  BY <1>1 DEF Filled, f, g
<1>. QED
  BY <1>3, <1>6, <1>7 DEF d

(* The invariant holds of an empty grid.                                   *)
LEMMA GridInvInit == Init => GridInv
<1> SUFFICES ASSUME Init PROVE GridInv
  OBVIOUS
<1>1. LayoutInv
  BY LayoutInvInit
<1>2. /\ rows \in Seq(Seq(Nat \ {0})) /\ rowDefs = [r \in DOMAIN rows |-> r]
      /\ uiRows = << >> /\ pc = "layout"
  BY <1>1 DEF LayoutInv, LayoutTypeOK, Init
<1>3. DOMAIN rows = 1 .. Len(rows) /\ Len(rows) \in Nat /\ Len(rowDefs) = Len(rows)
  BY <1>2
<1>4. ~InCall /\ Frontier = 1 /\ Start = 1
  BY <1>2, <1>3 DEF InCall, Frontier, Start
<1>5. RowsInOrder
  BY <1>2, <1>3, <1>4 DEF RowsInOrder
<1>6. ColumnsInOrder /\ GridInOrder /\ TopDown /\ ColumnsFit
  BY <1>2, <1>4 DEF ColumnsInOrder, GridInOrder, TopDown, ColumnsFit
<1>7. NoneIsLost
  BY <1>2, <1>4, WidgetIs DEF NoneIsLost, Behind
<1>. QED
  BY <1>5, <1>6, <1>7 DEF GridInv

(* What a call of processRow takes. *)
LEMMA RowsTaken ==
  ASSUME LayoutInv, ProcessRow
  PROVE  /\ Len(processing') \in Nat /\ Len(rowDefs') \in Nat
         /\ Len(processing') + Len(rowDefs') = Len(rowDefs) /\ Len(processing') > 0
         /\ DOMAIN processing' = 1 .. Len(processing') /\ DOMAIN rowDefs' = 1 .. Len(rowDefs')
         /\ \A j \in 1 .. Len(processing') : processing'[j] = rowDefs[j]
         /\ \A j \in 1 .. Len(rowDefs') : rowDefs'[j] = rowDefs[Len(processing') + j]
<1>1. /\ rows \in Seq(Seq(Nat \ {0})) /\ rowDefs \in Seq(DOMAIN rows) /\ rowDefs # << >> /\ NoEmptyRow
  BY DEF LayoutInv, LayoutTypeOK, ProcessRow
<1> DEFINE first == Head(rowDefs)
<1>2. first \in DOMAIN rows /\ rows[first] \in Seq(Nat \ {0})
  BY <1>1
<1>3. PICK h \in Tallest(first) :
           IF h < Len(rowDefs)
           THEN processing' = SubSeq(rowDefs, 1, h) /\ rowDefs' = SubSeq(rowDefs, h + 1, Len(rowDefs))
           ELSE processing' = rowDefs /\ rowDefs' = << >>
  BY DEF ProcessRow
<1>4. h \in Nat \ {0}
  BY <1>2 DEF Tallest
<1>5. CASE h < Len(rowDefs)
  <2>1. processing' = SubSeq(rowDefs, 1, h) /\ rowDefs' = SubSeq(rowDefs, h + 1, Len(rowDefs))
    BY <1>3, <1>5
  <2> HIDE DEF first
  <2>2. processing' = [j \in 1 .. h |-> rowDefs[j]]
    BY <1>1, <1>4, <1>5, <2>1
  <2>3. rowDefs' = [j \in 1 .. Len(rowDefs) - h |-> rowDefs[h + j]]
    BY <1>1, <1>4, <1>5, <2>1
  <2>4. Len(processing') = h /\ Len(rowDefs') = Len(rowDefs) - h
    BY <1>1, <1>4, <1>5, <2>2, <2>3
  <2>. QED
    BY <1>1, <1>4, <1>5, <2>2, <2>3, <2>4
<1>6. CASE ~(h < Len(rowDefs))
  BY <1>1, <1>3, <1>6
<1>. QED
  BY <1>5, <1>6

(* What speaks of the rows and of the grid only stands while they do.      *)
LEMMA GridStands ==
  ASSUME UNCHANGED <<rows, uiRows>>
  PROVE  /\ Widgets' = Widgets /\ Placed' = Placed
         /\ TopDown' <=> TopDown
         /\ ColumnsFit' <=> ColumnsFit
         /\ (Start' = Start => (GridInOrder' <=> GridInOrder))
<1>1. rows' = rows /\ uiRows' = uiRows
  OBVIOUS
<1>2. Widgets' = Widgets
  BY <1>1 DEF Widgets
<1>3. Placed' = Placed
  BY <1>1 DEF Placed, InColumn
<1>4. TopDown' <=> TopDown
  <2>1. \A u : RowsShown(u)' = RowsShown(u)
    BY <1>1 DEF RowsShown, InColumn
  <2>. QED
    BY <1>1, <2>1 DEF TopDown
<1>5. ColumnsFit' <=> ColumnsFit
  BY <1>1 DEF ColumnsFit, Filled, Height
<1>6. Start' = Start => (GridInOrder' <=> GridInOrder)
  BY <1>1, <1>2 DEF GridInOrder, Descends
<1>. QED
  BY <1>2, <1>3, <1>4, <1>5, <1>6

(* The beginning of a call opens empty columns and takes the rows from the *)
(* frontier on.                                                            *)
LEMMA GridProcessRow ==
  ASSUME LayoutInv, GridInv, ProcessRow
  PROVE  GridInv'
<1>1. /\ rows \in Seq(Seq(Nat \ {0})) /\ rowDefs \in Seq(DOMAIN rows) /\ rowDefs # << >>
      /\ pc = "layout" /\ pc' = "place" /\ i' = 1 /\ w' = 1 /\ UNCHANGED <<rows, uiRows>>
      /\ Len(rowDefs) <= Len(rows)
  BY DEF LayoutInv, LayoutTypeOK, ProcessRow, EachCallConsumes
<1>10. /\ Len(processing') \in Nat /\ Len(rowDefs') \in Nat
       /\ Len(processing') + Len(rowDefs') = Len(rowDefs)
       /\ Len(rows) \in Nat /\ Len(rowDefs) \in Nat
  BY <1>1, RowsTaken
<1>2. Frontier' = Frontier
  <2>1. Frontier' = (Len(rows) - Len(rowDefs') - Len(processing')) + 1
    BY <1>1 DEF Frontier
  <2>2. Frontier = (Len(rows) - Len(rowDefs)) + 1
    BY <1>1 DEF Frontier
  <2>. QED
    BY <1>10, <2>1, <2>2
<1>3. Frontier = (Len(rows) - Len(rowDefs)) + 1 /\ Start = Frontier
  BY <1>1 DEF Frontier, Start, InCall
<1>4. \A j \in DOMAIN rowDefs : rowDefs[j] = (Len(rows) - Len(rowDefs)) + j
  BY DEF GridInv, RowsInOrder
<1>5. Start' = Start
  <2>1. processing'[1] = rowDefs[1]
    BY RowsTaken
  <2>2. rowDefs[1] = (Len(rows) - Len(rowDefs)) + 1
    BY <1>1, <1>4
  <2>3. Start' = processing'[1]
    BY <1>1 DEF Start, InCall
  <2>. QED
    BY <1>3, <2>1, <2>2, <2>3
<1>6. RowsInOrder'
  <2>1. /\ Len(rows) \in Nat /\ Len(rowDefs) \in Nat /\ DOMAIN rowDefs = 1 .. Len(rowDefs)
    BY <1>1
  <2>2. ASSUME NEW j \in 1 .. Len(rowDefs') PROVE rowDefs'[j] = (Len(rows) - Len(rowDefs')) + j
    <3>1. rowDefs'[j] = rowDefs[Len(processing') + j] /\ Len(processing') + j \in 1 .. Len(rowDefs)
      BY <2>1, RowsTaken
    <3>. QED
      BY <1>4, <1>10, <2>1, <3>1
  <2>3. ASSUME NEW j \in 1 .. Len(processing')
        PROVE  processing'[j] = (Len(rows) - Len(rowDefs') - Len(processing')) + j
    <3>1. processing'[j] = rowDefs[j] /\ j \in 1 .. Len(rowDefs)
      BY <2>1, RowsTaken
    <3>. QED
      BY <1>4, <1>10, <2>1, <3>1
  <2>4. processing' # << >>
    BY RowsTaken
  <2>5. Start' \in 1 .. Frontier'
    BY <1>2, <1>5 DEF GridInv, RowsInOrder
  <2>. QED
    BY <1>1, <2>2, <2>3, <2>4, <2>5, RowsTaken DEF RowsInOrder
<1>7. ColumnsInOrder'
  <2>1. /\ columns' = [k \in DOMAIN rows[Head(rowDefs)] |-> << >>]
        /\ colHeights' = [k \in DOMAIN rows[Head(rowDefs)] |-> 0]
    BY DEF ProcessRow
  <2>2. /\ maxHeight' \in Nat
    BY ProcessRowKeeps DEF LayoutInv, LayoutTypeOK
  <2>3. Filled(<< >>)' = 0
    BY FilledIsEmpty DEF Filled
  <2> SUFFICES ASSUME NEW k \in DOMAIN columns'
               PROVE  /\ Descends(columns[k])'
                      /\ \A p \in DOMAIN columns'[k] : columns'[k][p][1] \in Start' .. Frontier'
                      /\ Filled(columns[k])' = colHeights'[k] /\ colHeights'[k] <= maxHeight'
    BY DEF ColumnsInOrder
  <2>4. columns'[k] = << >> /\ colHeights'[k] = 0
    BY <2>1
  <2>5. Filled(columns[k])' = 0
    BY <2>3, <2>4 DEF Filled
  <2>. QED
    BY <2>2, <2>4, <2>5 DEF Descends
<1>8. GridInOrder' /\ TopDown' /\ ColumnsFit'
  BY <1>1, <1>5, GridStands DEF GridInv
<1>9. NoneIsLost'
  <2> SUFFICES ASSUME NEW a \in Widgets, Behind(a)' PROVE a \in Placed
    BY <1>1, GridStands DEF NoneIsLost
  <2>1. Behind(a)
    BY <1>1, <1>2, WidgetIs DEF Behind
  <2>. QED
    BY <1>1, <2>1 DEF GridInv, NoneIsLost, InColumns, InCall
<1>. QED
  BY <1>6, <1>7, <1>8, <1>9 DEF GridInv

(* A widget that is placed is the frontier's: it goes below those in its   *)
(* column, fills it by its height, and moves the frontier past itself.     *)
LEMMA GridPlaceWidget ==
  ASSUME LayoutInv, GridInv, PlaceWidget
  PROVE  GridInv'
<1> DEFINE a == <<processing[i], w>>
<1>1. /\ rows \in Seq(Seq(Nat \ {0})) /\ rowDefs \in Seq(DOMAIN rows) /\ processing \in Seq(DOMAIN rows)
      /\ colHeights \in Seq(Nat) /\ columns \in Seq(Seq(Nat \X Nat)) /\ DOMAIN columns = DOMAIN colHeights
      /\ i \in 1 .. Len(processing) /\ w \in 1 .. Len(Row) /\ pc = "place" /\ maxHeight \in Nat
  BY DEF LayoutInv, LayoutTypeOK, PlaceWidget, NextWidget
<1>2. /\ UNCHANGED <<rows, rowDefs, processing, maxHeight, uiRows, pc>>
      /\ IF w < Len(Row) THEN w' = w + 1 /\ i' = i ELSE w' = 1 /\ i' = i + 1
  BY DEF PlaceWidget
<1>3. /\ Len(rows) \in Nat /\ Len(rowDefs) \in Nat /\ Len(processing) \in Nat /\ i \in Nat
      /\ DOMAIN processing = 1 .. Len(processing)
  BY <1>1
<1>4. /\ processing[i] \in DOMAIN rows /\ Row = rows[processing[i]] /\ Row \in Seq(Nat \ {0})
      /\ w \in DOMAIN Row
  BY <1>1 DEF Row
<1>5. /\ a \in Widgets /\ a \in Nat \X Nat /\ a[1] = processing[i] /\ a[2] = w /\ Height(a) = Row[w]
  <2>1. a \in Widgets
    BY <1>1, <1>4, WidgetIs
  <2>2. a[1] = processing[i] /\ a[2] = w
    OBVIOUS
  <2>3. processing[i] \in Nat /\ w \in Nat
    <3>1. DOMAIN rows = 1 .. Len(rows) /\ DOMAIN Row = 1 .. Len(Row)
      BY <1>1, <1>4
    <3>. QED
      BY <1>4, <3>1
  <2>4. Height(a) = Row[w]
    BY <1>4, <2>2 DEF Height
  <2>. QED
    BY <2>1, <2>2, <2>3, <2>4
<1>6. processing[i] = Frontier
  <2>1. processing[i] = (Len(rows) - Len(rowDefs) - Len(processing)) + i
    BY <1>1 DEF GridInv, RowsInOrder
  <2>. QED
    BY <1>1, <2>1 DEF Frontier
<1>7. /\ Frontier \in Nat
      /\ IF w < Len(Row) THEN Frontier' = Frontier ELSE Frontier' = Frontier + 1
  <2>1. Frontier = (Len(rows) - Len(rowDefs) - Len(processing)) + i
    BY <1>1 DEF Frontier
  <2>2. Frontier' = (Len(rows) - Len(rowDefs) - Len(processing)) + i'
    BY <1>1, <1>2 DEF Frontier
  <2>3. Frontier \in Nat
    <3>1. DOMAIN rows = 1 .. Len(rows) /\ Len(rows) \in Nat
      BY <1>1
    <3>2. processing[i] \in Nat
      BY <1>4, <3>1
    <3>. QED
      BY <1>6, <3>2
  <2>. QED
    BY <1>2, <1>3, <2>1, <2>2, <2>3
<1>8. Start' = Start /\ Start = processing[1] /\ Start \in 1 .. Frontier
  BY <1>1, <1>2 DEF Start, InCall, GridInv, RowsInOrder
<1>9. InCall /\ InCall'
  BY <1>1, <1>2 DEF InCall
<1>10. RowsInOrder'
  <2>1. Start' \in 1 .. Frontier'
    BY <1>7, <1>8
  <2>. QED
    BY <1>1, <1>2, <2>1 DEF GridInv, RowsInOrder, InCall
<1>11. PICK k \in Fitting :
        /\ columns' = [columns EXCEPT ![k] = Append(columns[k], a)]
        /\ colHeights' = [colHeights EXCEPT ![k] = colHeights[k] + Row[w]]
  BY DEF PlaceWidget
<1> HIDE DEF a
<1>12. k \in DOMAIN columns /\ colHeights[k] + Row[w] <= maxHeight /\ columns[k] \in Seq(Nat \X Nat)
  <2>1. k \in w .. Len(colHeights) /\ colHeights[k] + Row[w] <= maxHeight
    BY <1>11 DEF Fitting
  <2>2. k \in DOMAIN colHeights
    <3>1. w \in Nat \ {0}
      <4>1. DOMAIN Row = 1 .. Len(Row) /\ Len(Row) \in Nat
        BY <1>4
      <4>. QED
        BY <1>4, <4>1
    <3>2. Len(colHeights) \in Nat /\ DOMAIN colHeights = 1 .. Len(colHeights)
      BY <1>1
    <3>. QED
      BY <2>1, <3>1, <3>2
  <2>. QED
    BY <1>1, <2>1, <2>2
<1> DEFINE c == columns[k]
<1>13. /\ DOMAIN columns' = DOMAIN columns
       /\ columns'[k] = Append(c, a) /\ colHeights'[k] = colHeights[k] + Row[w]
       /\ \A l \in DOMAIN columns : l # k => columns'[l] = columns[l] /\ colHeights'[l] = colHeights[l]
  BY <1>1, <1>11, <1>12
<1>14. \A l \in DOMAIN columns :
         /\ Descends(columns[l])
         /\ \A p \in DOMAIN columns[l] : columns[l][p][1] \in Start .. Frontier
         /\ Filled(columns[l]) = colHeights[l] /\ colHeights[l] <= maxHeight
  BY <1>9 DEF GridInv, ColumnsInOrder
<1>15. Widgets' = Widgets /\ Placed' = Placed
  BY <1>2, GridStands
<1>17. ASSUME NEW l \in DOMAIN columns
       PROVE  /\ Descends(columns'[l])
              /\ \A p \in DOMAIN columns'[l] : columns'[l][p][1] \in Start .. Frontier
              /\ Filled(columns'[l]) = colHeights'[l] /\ colHeights'[l] <= maxHeight
  <2>1. CASE l # k
    BY <1>13, <1>14, <2>1
  <2>2. CASE l = k
    <3>1. /\ Len(c) \in Nat /\ DOMAIN c = 1 .. Len(c)
          /\ DOMAIN Append(c, a) = 1 .. Len(c) + 1
          /\ Append(c, a)[Len(c) + 1] = a /\ \A p \in 1 .. Len(c) : Append(c, a)[p] = c[p]
      BY <1>5, <1>12
    <3>2. /\ \A p \in DOMAIN c : c[p] \in Widgets /\ c[p][1] \in Start .. Frontier
          /\ \A p, q \in DOMAIN c : p < q => c[p][1] <= c[q][1]
          /\ Filled(c) = colHeights[k]
      BY <1>12, <1>14 DEF Descends
    <3> DEFINE d == Append(c, a)
    <3> HIDE DEF c, d
    <3>3. \A p \in DOMAIN d : d[p] \in Widgets /\ d[p][1] \in Start .. Frontier
      <4> SUFFICES ASSUME NEW p \in DOMAIN d PROVE d[p] \in Widgets /\ d[p][1] \in Start .. Frontier
        OBVIOUS
      <4>1. p \in 1 .. Len(c) \/ p = Len(c) + 1
        BY <3>1 DEF d
      <4>2. CASE p \in 1 .. Len(c)
        BY <3>1, <3>2, <4>2 DEF d
      <4>3. CASE p = Len(c) + 1
        BY <1>5, <1>6, <1>7, <1>8, <3>1, <4>3 DEF d
      <4>. QED
        BY <4>1, <4>2, <4>3
    <3>4. \A p, q \in DOMAIN d : p < q => d[p][1] <= d[q][1]
      <4> SUFFICES ASSUME NEW p \in DOMAIN d, NEW q \in DOMAIN d, p < q PROVE d[p][1] <= d[q][1]
        OBVIOUS
      <4>1. p \in 1 .. Len(c) /\ d[p] = c[p]
        BY <3>1 DEF d
      <4>2. CASE q \in 1 .. Len(c)
        BY <3>1, <3>2, <4>1, <4>2 DEF d
      <4>3. CASE q = Len(c) + 1
        <5>1. d[q][1] = Frontier
          BY <1>5, <1>6, <3>1, <4>3 DEF d
        <5>2. d[p][1] \in Start .. Frontier
          BY <3>3
        <5>. QED
          BY <5>1, <5>2
      <4>. QED
        BY <3>1, <4>2, <4>3 DEF d
    <3>5. Filled(d) = Filled(c) + Height(a)
      BY <1>1, <1>5, <1>12, <3>2, FilledByOneMore DEF c, d
    <3>. QED
      BY <1>5, <1>12, <1>13, <2>2, <3>2, <3>3, <3>4, <3>5 DEF Descends, d
  <2>. QED
    BY <2>1, <2>2
<1>18. ColumnsInOrder'
  <2>1. \A l \in DOMAIN columns' :
         /\ Descends(columns'[l])
         /\ \A p \in DOMAIN columns'[l] : columns'[l][p][1] \in Start .. Frontier
         /\ Filled(columns'[l]) = colHeights'[l] /\ colHeights'[l] <= maxHeight
    BY <1>13, <1>17
  <2>2. \A l : Filled(columns[l])' = Filled(columns'[l])
    BY <1>2 DEF Filled, Height
  <2>3. \A l : Descends(columns[l])' <=> Descends(columns'[l])
    BY <1>15 DEF Descends
  <2>4. \A x \in Start .. Frontier : x \in Start .. Frontier'
    BY <1>7, <1>8
  <2>. QED
    BY <1>2, <1>8, <2>1, <2>2, <2>3, <2>4, Zenon DEF ColumnsInOrder
<1>19. GridInOrder' /\ TopDown' /\ ColumnsFit'
  BY <1>2, <1>8, GridStands DEF GridInv
<1>20. NoneIsLost'
  <2>1. a \in InColumn(columns'[k])
    <3>1. Len(c) + 1 \in DOMAIN Append(c, a) /\ Append(c, a)[Len(c) + 1] = a
      BY <1>12
    <3>. QED
      BY <1>13, <3>1 DEF InColumn
  <2>2. \A l \in DOMAIN columns : InColumn(columns[l]) \subseteq InColumn(columns'[l])
    <3> SUFFICES ASSUME NEW l \in DOMAIN columns, NEW p \in DOMAIN columns[l]
                 PROVE  columns[l][p] \in InColumn(columns'[l])
      BY DEF InColumn
    <3>1. CASE l # k
      BY <1>13, <3>1 DEF InColumn
    <3>2. CASE l = k
      <4>1. p \in DOMAIN Append(c, a) /\ Append(c, a)[p] = c[p]
        BY <1>12, <3>2
      <4>. QED
        BY <1>13, <3>2, <4>1 DEF InColumn
    <3>. QED
      BY <3>1, <3>2
  <2>3. InColumns \subseteq InColumns' /\ a \in InColumns'
    <3>1. /\ InColumns = UNION {InColumn(columns[l]) : l \in DOMAIN columns}
          /\ InColumns' = UNION {InColumn(columns'[l]) : l \in DOMAIN columns'}
      BY <1>9 DEF InColumns, InColumn
    <3>. QED
      BY <1>12, <1>13, <2>1, <2>2, <3>1
  <2> SUFFICES ASSUME NEW b \in Widgets, Behind(b)' PROVE b \in Placed \cup InColumns'
    BY <1>15 DEF NoneIsLost
  <2>4. /\ b[1] \in DOMAIN rows /\ b[2] \in DOMAIN rows[b[1]]
        /\ b = <<b[1], b[2]>> /\ b[1] \in Nat /\ b[2] \in Nat \ {0}
    BY <1>1, WidgetIs
  <2>5. Behind(b) \/ b = a
    <3>1. CASE w < Len(Row)
      <4>1. b[1] < Frontier \/ (b[1] = Frontier /\ b[2] < w + 1)
        BY <1>1, <1>2, <1>7, <3>1 DEF Behind
      <4>2. b[1] < Frontier \/ (b[1] = Frontier /\ (b[2] < w \/ b[2] = w))
        <5>1. w \in Nat
          BY <1>1, <1>4
        <5>. QED
          BY <2>4, <4>1, <5>1
      <4>. QED
        BY <1>1, <1>6, <2>4, <4>2 DEF Behind, a
    <3>2. CASE ~(w < Len(Row))
      <4>1. b[1] < Frontier + 1 \/ (b[1] = Frontier + 1 /\ b[2] < 1)
        BY <1>1, <1>2, <1>7, <3>2 DEF Behind
      <4>2. b[1] < Frontier \/ b[1] = Frontier
        BY <1>7, <2>4, <4>1
      <4>3. b[1] = Frontier => b[2] < w \/ b[2] = w
        <5> SUFFICES ASSUME b[1] = Frontier PROVE b[2] < w \/ b[2] = w
          OBVIOUS
        <5>1. b[2] \in DOMAIN Row
          BY <1>4, <1>6, <2>4
        <5>2. b[2] \in 1 .. Len(Row) /\ Len(Row) \in Nat /\ w \in 1 .. Len(Row)
          <6>1. DOMAIN Row = 1 .. Len(Row) /\ Len(Row) \in Nat
            BY <1>4
          <6>. QED
            BY <1>1, <5>1, <6>1
        <5>. QED
          BY <3>2, <5>2
      <4>. QED
        BY <1>1, <1>6, <2>4, <4>2, <4>3 DEF Behind, a
    <3>. QED
      BY <3>1, <3>2
  <2>. QED
    BY <2>3, <2>5 DEF GridInv, NoneIsLost
<1>. QED
  BY <1>10, <1>18, <1>19, <1>20 DEF GridInv

(* The rows handed back are those from the frontier on, in order. What of  *)
(* the frontier's row was placed may be placed again: nothing above relies *)
(* on it.                                                                  *)
LEMMA GridHandBack ==
  ASSUME LayoutInv, GridInv, HandBack
  PROVE  GridInv'
<1>1. /\ rows \in Seq(Seq(Nat \ {0})) /\ rowDefs \in Seq(DOMAIN rows) /\ processing \in Seq(DOMAIN rows)
      /\ i \in 1 .. Len(processing) /\ pc = "place" /\ pc' = "made"
      /\ rowDefs' = SubSeq(processing, i, Len(processing)) \o rowDefs
      /\ UNCHANGED <<rows, processing, maxHeight, colHeights, columns, i, w, uiRows>>
  BY DEF LayoutInv, LayoutTypeOK, HandBack, NextWidget
<1> DEFINE back == (Len(processing) - i) + 1
<1>2. /\ Len(rows) \in Nat /\ Len(rowDefs) \in Nat /\ Len(processing) \in Nat /\ i \in Nat /\ back \in Nat
      /\ DOMAIN processing = 1 .. Len(processing) /\ DOMAIN rowDefs = 1 .. Len(rowDefs)
  BY <1>1
<1>3. /\ Len(rowDefs') = back + Len(rowDefs) /\ DOMAIN rowDefs' = 1 .. back + Len(rowDefs)
      /\ \A j \in 1 .. back : rowDefs'[j] = processing[(i - 1) + j]
      /\ \A j \in 1 .. Len(rowDefs) : rowDefs'[back + j] = rowDefs[j]
  <2> DEFINE s == SubSeq(processing, i, Len(processing))
  <2>1. s = [j \in 1 .. back |-> processing[(i - 1) + j]] /\ s \in Seq(DOMAIN rows)
    BY <1>1, <1>2
  <2>2. Len(s) = back
    BY <1>2, <2>1
  <2>3. \A j \in 1 .. back : s[j] = processing[(i - 1) + j]
    BY <2>1
  <2>4. rowDefs' = s \o rowDefs
    BY <1>1
  <2> HIDE DEF s, back
  <2>. QED
    BY <1>1, <1>2, <2>1, <2>2, <2>3, <2>4
<1>4. /\ \A j \in 1 .. Len(rowDefs) : rowDefs[j] = (Len(rows) - Len(rowDefs)) + j
      /\ \A j \in 1 .. Len(processing) : processing[j] = (Len(rows) - Len(rowDefs) - Len(processing)) + j
  BY <1>1, <1>2 DEF GridInv, RowsInOrder
<1>5. Frontier' = Frontier
  <2>1. Frontier = (Len(rows) - Len(rowDefs) - Len(processing)) + i
    BY <1>1 DEF Frontier
  <2>2. Frontier' = (Len(rows) - (back + Len(rowDefs))) + 1
    BY <1>1, <1>3 DEF Frontier
  <2>. QED
    BY <1>2, <2>1, <2>2
<1>6. InCall /\ InCall' /\ Start' = Start
  BY <1>1 DEF InCall, Start
<1>7. RowsInOrder'
  <2>1. ASSUME NEW j \in DOMAIN rowDefs' PROVE rowDefs'[j] = (Len(rows) - Len(rowDefs')) + j
    <3>1. CASE j \in 1 .. back
      <4>1. rowDefs'[j] = processing[(i - 1) + j]
        BY <1>3, <3>1
      <4>2. (i - 1) + j \in 1 .. Len(processing)
        <5>1. j \in 1 .. (Len(processing) - i) + 1 /\ i >= 1
          BY <1>1, <3>1
        <5>. QED
          BY <1>2, <5>1
      <4>3. processing[(i - 1) + j] = (Len(rows) - Len(rowDefs) - Len(processing)) + ((i - 1) + j)
        BY <1>4, <4>2
      <4>. QED
        BY <1>2, <1>3, <3>1, <4>1, <4>3
    <3>2. CASE j \notin 1 .. back
      <4>1. j - back \in 1 .. Len(rowDefs) /\ j = back + (j - back) /\ j \in Nat
        <5>1. j \in 1 .. back + Len(rowDefs)
          BY <1>3
        <5> HIDE DEF back
        <5>. QED
          BY <1>2, <3>2, <5>1
      <4>2. rowDefs'[j] = rowDefs[j - back]
        <5> HIDE DEF back
        <5>. QED
          BY <1>3, <4>1
      <4>3. rowDefs[j - back] = (Len(rows) - Len(rowDefs)) + (j - back)
        BY <1>4, <4>1
      <4>. QED
        BY <1>2, <1>3, <4>1, <4>2, <4>3
    <3>. QED
      BY <3>1, <3>2
  <2>2. pc' # "place" /\ processing' = processing /\ processing # << >> /\ Start' \in 1 .. Frontier' /\ rows' = rows
    BY <1>1, <1>5, <1>6 DEF GridInv, RowsInOrder
  <2>. QED
    BY <2>1, <2>2 DEF RowsInOrder
<1>8. Widgets' = Widgets /\ Placed' = Placed /\ GridInOrder' /\ TopDown' /\ ColumnsFit'
  BY <1>1, <1>6, GridStands DEF GridInv
<1>9. ColumnsInOrder'
  <2>1. \A l : Filled(columns[l])' = Filled(columns[l])
    BY <1>1 DEF Filled, Height
  <2>2. \A l : Descends(columns[l])' <=> Descends(columns[l])
    BY <1>1, <1>8 DEF Descends
  <2>. QED
    BY <1>1, <1>5, <1>6, <2>1, <2>2 DEF GridInv, ColumnsInOrder
<1>10. NoneIsLost'
  <2>1. InColumns' = InColumns
    BY <1>1, <1>6 DEF InColumns, InColumn
  <2>2. \A b \in Widgets : Behind(b)' => Behind(b)
    BY <1>1, <1>5 DEF Behind
  <2>. QED
    BY <1>8, <2>1, <2>2 DEF GridInv, NoneIsLost
<1>. QED
  BY <1>7, <1>8, <1>9, <1>10 DEF GridInv

(* The columns become a row of the grid, whose widgets are between the     *)
(* first row of the call and the frontier.                                 *)
LEMMA GridRowMade ==
  ASSUME LayoutInv, GridInv, RowMade
  PROVE  GridInv'
<1>1. /\ rows \in Seq(Seq(Nat \ {0})) /\ rowDefs \in Seq(DOMAIN rows) /\ processing \in Seq(DOMAIN rows)
      /\ columns \in Seq(Seq(Nat \X Nat)) /\ maxHeight \in Nat
      /\ uiRows \in Seq([height : Nat, columns : Seq(Seq(Nat \X Nat))])
      /\ pc \in {"place", "made"} /\ pc' = "layout"
      /\ uiRows' = Append(uiRows, [height |-> maxHeight, columns |-> columns])
      /\ UNCHANGED <<rows, rowDefs, processing, maxHeight, colHeights, columns, i, w>>
  BY DEF LayoutInv, LayoutTypeOK, RowMade
<1> DEFINE n == Len(uiRows)
<1>2. /\ n \in Nat /\ DOMAIN uiRows = 1 .. n /\ DOMAIN uiRows' = 1 .. n + 1
      /\ uiRows'[n + 1] = [height |-> maxHeight, columns |-> columns]
      /\ \A u \in 1 .. n : uiRows'[u] = uiRows[u]
  BY <1>1
<1> HIDE DEF n
<1>3. InCall /\ ~InCall'
  BY <1>1 DEF InCall
<1>4. Frontier' = Frontier /\ Start' = Frontier
  <2>1. CASE pc = "made"
    BY <1>1, <1>3, <2>1 DEF Frontier, Start
  <2>2. CASE pc = "place"
    <3>1. i = Len(processing) + 1
      <4>1. i \in 1 .. Len(processing) + 1 /\ i > Len(processing)
        BY <2>2 DEF RowMade, LayoutInv, NextWidget
      <4>2. Len(processing) \in Nat
        BY <1>1
      <4>. QED
        BY <4>1, <4>2
    <3>2. Frontier = (Len(rows) - Len(rowDefs) - Len(processing)) + i
      BY <2>2 DEF Frontier
    <3>3. Frontier' = (Len(rows) - Len(rowDefs)) + 1 /\ Start' = Frontier'
      BY <1>1, <1>3 DEF Frontier, Start
    <3>4. Len(rows) \in Nat /\ Len(rowDefs) \in Nat /\ Len(processing) \in Nat
      BY <1>1
    <3>. QED
      BY <3>1, <3>2, <3>3, <3>4
  <2>. QED
    BY <1>1, <2>1, <2>2
<1>5. Start \in 1 .. Frontier /\ Frontier \in Int
  <2>1. Start \in 1 .. Frontier
    BY DEF GridInv, RowsInOrder
  <2>2. Len(rows) \in Nat /\ Len(rowDefs) \in Nat /\ Len(processing) \in Nat /\ i \in Nat
    BY <1>1 DEF LayoutInv, LayoutTypeOK
  <2>. QED
    BY <2>1, <2>2 DEF Frontier
<1>6. RowsInOrder'
  BY <1>1, <1>3, <1>4, <1>5 DEF GridInv, RowsInOrder
<1>7. ColumnsInOrder'
  BY <1>3 DEF ColumnsInOrder
<1>8. \A l \in DOMAIN columns :
         /\ Descends(columns[l])
         /\ \A p \in DOMAIN columns[l] : columns[l][p][1] \in Start .. Frontier
         /\ Filled(columns[l]) <= maxHeight
  BY <1>3 DEF GridInv, ColumnsInOrder
<1>9. \A u \in 1 .. n : \A l \in DOMAIN uiRows[u].columns :
         /\ Descends(uiRows[u].columns[l])
         /\ \A p \in DOMAIN uiRows[u].columns[l] : uiRows[u].columns[l][p][1] <= Start
         /\ Filled(uiRows[u].columns[l]) <= uiRows[u].height
  BY <1>2 DEF GridInv, GridInOrder, ColumnsFit
<1>10. /\ \A a \in Widgets : a[1] \in Nat
       /\ Widgets' = Widgets
       /\ \A c : Filled(c)' = Filled(c)
  <2>1. rows' = rows
    BY <1>1
  <2>2. \A a \in Widgets : a[1] \in Nat
    BY <1>1, WidgetIs
  <2>3. Widgets' = Widgets
    BY <2>1 DEF Widgets
  <2>4. \A c : Filled(c)' = Filled(c)
    BY <2>1 DEF Filled, Height
  <2>. QED
    BY <2>2, <2>3, <2>4
<1>11. \A c : Descends(c)' <=> Descends(c)
  BY <1>10 DEF Descends
<1>12. \A u \in 1 .. n + 1 : u \in 1 .. n \/ u = n + 1
  BY <1>2
<1>13. GridInOrder' /\ ColumnsFit'
  <2> SUFFICES ASSUME NEW u \in 1 .. n + 1, NEW l \in DOMAIN uiRows'[u].columns
               PROVE  /\ Descends(uiRows'[u].columns[l])
                      /\ \A p \in DOMAIN uiRows'[u].columns[l] : uiRows'[u].columns[l][p][1] <= Frontier
                      /\ Filled(uiRows'[u].columns[l]) <= uiRows'[u].height
    <3>1. \A c : Filled(c) = Filled(c)' /\ (Descends(c) <=> Descends(c)')
      BY <1>10, <1>11
    <3>2. DOMAIN uiRows' = 1 .. n + 1 /\ Start' = Frontier
      BY <1>2, <1>4
    <3>. QED
      BY <1>10, <1>11, <3>2, Zenon DEF GridInOrder, ColumnsFit
  <2>1. CASE u \in 1 .. n
    <3>1. uiRows'[u] = uiRows[u]
      BY <1>2, <2>1
    <3> DEFINE c == uiRows[u].columns[l]
    <3>2. Descends(c) /\ (\A p \in DOMAIN c : c[p][1] <= Start) /\ Filled(c) <= uiRows[u].height
      BY <1>9, <2>1, <3>1
    <3> HIDE DEF c
    <3>3. \A p \in DOMAIN c : c[p][1] <= Frontier
      <4> SUFFICES ASSUME NEW p \in DOMAIN c PROVE c[p][1] <= Frontier
        OBVIOUS
      <4>1. c[p] \in Widgets /\ c[p][1] <= Start
        BY <3>2 DEF Descends
      <4>2. c[p][1] \in Nat
        BY <1>10, <4>1
      <4>. QED
        BY <1>5, <4>1, <4>2
    <3>. QED
      BY <3>1, <3>2, <3>3 DEF c
  <2>2. CASE u = n + 1
    <3>1. uiRows'[u].columns = columns /\ uiRows'[u].height = maxHeight
      BY <1>2, <2>2
    <3>2. \A p \in DOMAIN columns[l] : columns[l][p][1] <= Frontier
      BY <1>5, <1>8, <3>1
    <3>. QED
      BY <1>8, <3>1, <3>2
  <2>. QED
    BY <1>12, <2>1, <2>2
<1>14. TopDown'
  <2>1. \A u \in DOMAIN uiRows' : \A k \in DOMAIN uiRows'[u].columns :
          Descends(uiRows'[u].columns[k])
    BY <1>11, <1>13, Zenon DEF GridInOrder
  <2>2. ASSUME NEW u \in 1 .. n + 1, NEW v \in 1 .. n + 1, u < v,
               NEW a \in RowsShown(u)', NEW b \in RowsShown(v)'
        PROVE  a <= b
    <3>1. u \in 1 .. n
      BY <1>2, <2>2
    <3>2. RowsShown(u)' = RowsShown(u)
      BY <1>2, <3>1 DEF RowsShown, InColumn
    <3>3. CASE v \in 1 .. n
      <4>1. RowsShown(v)' = RowsShown(v)
        BY <1>2, <3>3 DEF RowsShown, InColumn
      <4>. QED
        BY <1>2, <2>2, <3>1, <3>2, <3>3, <4>1 DEF GridInv, TopDown
    <3>4. CASE v = n + 1
      <4>1. PICK k \in DOMAIN uiRows[u].columns : \E p \in DOMAIN uiRows[u].columns[k] :
                a = uiRows[u].columns[k][p][1]
        BY <3>2 DEF RowsShown, InColumn
      <4>2. a \in Nat /\ a <= Start
        <5>1. PICK p \in DOMAIN uiRows[u].columns[k] : a = uiRows[u].columns[k][p][1]
          BY <4>1
        <5>2. uiRows[u].columns[k][p] \in Widgets /\ a <= Start
          BY <1>9, <3>1, <5>1 DEF Descends
        <5>. QED
          BY <1>10, <5>1, <5>2
      <4>3. uiRows'[v].columns = columns
        BY <1>2, <3>4
      <4>4. PICK l \in DOMAIN columns : \E p \in DOMAIN columns[l] : b = columns[l][p][1]
        BY <4>3 DEF RowsShown, InColumn
      <4>5. b \in Start .. Frontier
        BY <1>8, <4>4
      <4>. QED
        BY <1>5, <4>2, <4>5
    <3>. QED
      BY <1>12, <3>3, <3>4
  <2>. QED
    BY <1>2, <2>1, <2>2 DEF TopDown, Descends
<1>15. NoneIsLost'
  <2>1. Placed' = Placed \cup InColumns
    <3>1. InColumns = UNION {InColumn(columns[l]) : l \in DOMAIN columns}
      BY <1>3 DEF InColumns, InColumn
    <3>2. Placed' = UNION {UNION {InColumn(uiRows'[u].columns[l]) : l \in DOMAIN uiRows'[u].columns} : u \in DOMAIN uiRows'}
      BY DEF Placed, InColumn
    <3> DEFINE shown(row) == UNION {InColumn(row.columns[l]) : l \in DOMAIN row.columns}
    <3>3. Placed = UNION {shown(uiRows[u]) : u \in 1 .. n} /\ Placed' = UNION {shown(uiRows'[u]) : u \in 1 .. n + 1}
      BY <1>2, <3>2 DEF Placed
    <3>4. shown(uiRows'[n + 1]) = InColumns /\ \A u \in 1 .. n : shown(uiRows'[u]) = shown(uiRows[u])
      BY <1>2, <3>1
    <3> HIDE DEF shown
    <3>5. n + 1 \in 1 .. n + 1 /\ 1 .. n \subseteq 1 .. n + 1
      BY <1>2
    <3>. QED
      BY <1>12, <3>3, <3>4, <3>5
  <2>2. \A b \in Widgets : Behind(b)' => Behind(b)
    BY <1>1, <1>4 DEF Behind
  <2>. QED
    BY <1>10, <2>1, <2>2 DEF GridInv, NoneIsLost
<1>. QED
  BY <1>6, <1>7, <1>13, <1>14, <1>15 DEF GridInv

(* The invariant is kept by every step.                                    *)
LEMMA GridInvStep ==
  ASSUME LayoutInv, GridInv, [Next]_vars
  PROVE  GridInv'
<1>1. ASSUME UNCHANGED <<rows, rowDefs, processing, maxHeight, colHeights, columns, i, w, uiRows>>,
             UNCHANGED pc \/ (pc = "layout" /\ pc' = "done")
      PROVE  GridInv'
  <2>1. Frontier' = Frontier /\ Start' = Start /\ (InCall' <=> InCall)
    BY <1>1 DEF Frontier, Start, InCall
  <2>2. Widgets' = Widgets /\ Placed' = Placed /\ GridInOrder' /\ TopDown' /\ ColumnsFit'
    BY <1>1, <2>1, GridStands DEF GridInv
  <2>3. RowsInOrder'
    BY <1>1, <2>1 DEF GridInv, RowsInOrder
  <2>4. ColumnsInOrder'
    <3>1. \A c : Filled(c)' = Filled(c)
      BY <1>1 DEF Filled, Height
    <3>2. \A c : Descends(c)' <=> Descends(c)
      BY <2>2 DEF Descends
    <3>. QED
      BY <1>1, <2>1, <3>1, <3>2 DEF GridInv, ColumnsInOrder
  <2>5. NoneIsLost'
    <3>1. InColumns' = InColumns
      BY <1>1, <2>1 DEF InColumns, InColumn
    <3>2. \A a : Behind(a)' => Behind(a)
      BY <1>1, <2>1 DEF Behind
    <3>. QED
      BY <2>2, <3>1, <3>2 DEF GridInv, NoneIsLost
  <2>. QED
    BY <2>2, <2>3, <2>4, <2>5 DEF GridInv
<1>2. CASE LayoutMade \/ UNCHANGED vars
  BY <1>1, <1>2 DEF LayoutMade, vars
<1>. QED
  BY <1>2, GridProcessRow, GridPlaceWidget, GridHandBack, GridRowMade DEF Next

(* The invariant holds always.                                             *)
LEMMA GridInvariant == Spec => []GridInv
<1>1. LayoutInv /\ GridInv /\ [Next]_vars => GridInv'
  BY GridInvStep
<1>. QED
  BY GridInvInit, <1>1, LayoutInvariant, PTL DEF Spec

(* In every layout, the widgets of a column are together no taller than    *)
(* the row of the grid: the heights kept for the columns are the sums of   *)
(* their widgets' heights, and no widget is put where it does not fit.     *)
THEOREM LayoutColumnsFit == Spec => []ColumnsFit
<1>1. GridInv => ColumnsFit
  BY DEF GridInv
<1>. QED
  BY <1>1, GridInvariant, PTL

(* In every layout, a column shows earlier rows above later ones, and a    *)
(* row of the grid shows no row that comes before one shown above it,      *)
(* although rows are handed back.                                          *)
THEOREM LayoutIsTopDown == Spec => []TopDown
<1>1. GridInv => TopDown
  BY DEF GridInv
<1>. QED
  BY <1>1, GridInvariant, PTL

(* Every widget of the definition has a place when the layout is done,     *)
(* those of rows that were handed back included.                           *)
THEOREM LayoutPlacesEveryWidget == Spec => []EveryWidgetIsPlaced
<1>1. LayoutInv /\ GridInv /\ (pc = "done" => rowDefs = << >>) => EveryWidgetIsPlaced
  <2> SUFFICES ASSUME LayoutInv, GridInv, pc = "done", rowDefs = << >>, NEW a \in Widgets
               PROVE  a \in Placed
    BY DEF EveryWidgetIsPlaced
  <2>1. rows \in Seq(Seq(Nat \ {0}))
    BY DEF LayoutInv, LayoutTypeOK
  <2>2. a[1] \in DOMAIN rows
    BY <2>1, WidgetIs
  <2>3. Frontier = Len(rows) + 1
    BY <2>1 DEF Frontier
  <2>4. Behind(a)
    BY <2>1, <2>2, <2>3 DEF Behind
  <2>. QED
    BY <2>4 DEF GridInv, NoneIsLost, InColumns, InCall
<1>2. Init => (pc = "done" => rowDefs = << >>)
  BY DEF Init
<1>3. (pc = "done" => rowDefs = << >>) /\ [Next]_vars => (pc = "done" => rowDefs = << >>)'
  BY DEF Next, ProcessRow, PlaceWidget, HandBack, RowMade, LayoutMade, vars
<1>. QED
  BY <1>1, <1>2, <1>3, GridInvariant, LayoutInvariant, PTL DEF Spec
-----------------------------------------------------------------------------
(* A call has consumed its first row when it hands rows back.              *)
FirstIsBehind == pc = "made" => Start < Frontier

(* What a call places is behind the frontier's next widget.                *)
PlacedBehind ==
    pc = "place" => \A k \in DOMAIN columns : \A p \in DOMAIN columns[k] : Behind(columns[k][p])

(* No row of the grid shows a widget twice, the one that is made included. *)
EachOnce ==
    /\ InCall => OnceIn(columns)
    /\ \A u \in DOMAIN uiRows : OnceIn(uiRows[u].columns)

(* Only the last row of the grid shows the row that the call begins with.  *)
LastAlone ==
    \A u \in DOMAIN uiRows : u < Len(uiRows) => \A a \in RowsShown(u) : a < Start

TwiceInv == FirstIsBehind /\ PlacedBehind /\ EachOnce /\ LastAlone /\ AtMostTwice

(* The invariant holds of an empty grid.                                   *)
LEMMA TwiceInvInit == Init => TwiceInv
  BY DEF Init, TwiceInv, FirstIsBehind, PlacedBehind, EachOnce, LastAlone, AtMostTwice, InCall

(* What is shown only stands while the grid does.                          *)
LEMMA ShownStands ==
  ASSUME uiRows' = uiRows
  PROVE  /\ \A u : RowsShown(u)' = RowsShown(u)
         /\ \A u \in DOMAIN uiRows : OnceIn(uiRows[u].columns)' <=> OnceIn(uiRows[u].columns)
         /\ AtMostTwice' <=> AtMostTwice
<1>1. \A u : RowsShown(u)' = RowsShown(u)
  BY DEF RowsShown, InColumn
<1>2. \A u \in DOMAIN uiRows : OnceIn(uiRows[u].columns)' <=> OnceIn(uiRows[u].columns)
  BY DEF OnceIn
<1>3. AtMostTwice' <=> AtMostTwice
  BY <1>1, <1>2 DEF AtMostTwice
<1>. QED
  BY <1>1, <1>2, <1>3

(* The beginning of a call: nothing is placed, and it begins at the        *)
(* frontier.                                                               *)
LEMMA TwiceProcessRow ==
  ASSUME LayoutInv, GridInv, TwiceInv, ProcessRow
  PROVE  TwiceInv'
<1>1. /\ pc = "layout" /\ pc' = "place" /\ uiRows' = uiRows
      /\ columns' = [k \in DOMAIN rows[Head(rowDefs)] |-> << >>]
  BY DEF ProcessRow
<1>2. Start' = Start
  <2>1. rowDefs \in Seq(DOMAIN rows) /\ rowDefs # << >>
    BY DEF LayoutInv, LayoutTypeOK, ProcessRow
  <2>2. rowDefs[1] = (Len(rows) - Len(rowDefs)) + 1
    BY <2>1 DEF GridInv, RowsInOrder
  <2>3. processing'[1] = rowDefs[1]
    BY <2>1, RowsTaken
  <2>. QED
    BY <1>1, <2>2, <2>3 DEF Start, InCall, Frontier
<1>3. \A k \in DOMAIN columns' : columns'[k] = << >>
  BY <1>1
<1>4. FirstIsBehind' /\ PlacedBehind'
  BY <1>1, <1>3 DEF FirstIsBehind, PlacedBehind
<1>5. EachOnce'
  <2>1. OnceIn(columns)'
    BY <1>3 DEF OnceIn
  <2>. QED
    BY <1>1, <2>1, ShownStands DEF TwiceInv, EachOnce
<1>6. LastAlone' /\ AtMostTwice'
  BY <1>1, <1>2, ShownStands DEF TwiceInv, LastAlone
<1>. QED
  BY <1>4, <1>5, <1>6 DEF TwiceInv

(* A widget that is placed was not behind before, and is now.              *)
LEMMA TwicePlaceWidget ==
  ASSUME LayoutInv, GridInv, TwiceInv, PlaceWidget
  PROVE  TwiceInv'
<1> DEFINE a == <<processing[i], w>>
<1>1. /\ rows \in Seq(Seq(Nat \ {0})) /\ rowDefs \in Seq(DOMAIN rows) /\ processing \in Seq(DOMAIN rows)
      /\ colHeights \in Seq(Nat) /\ columns \in Seq(Seq(Nat \X Nat)) /\ DOMAIN columns = DOMAIN colHeights
      /\ i \in 1 .. Len(processing) /\ w \in 1 .. Len(Row) /\ pc = "place"
  BY DEF LayoutInv, LayoutTypeOK, PlaceWidget, NextWidget
<1>2. /\ UNCHANGED <<rows, rowDefs, processing, uiRows, pc>>
      /\ IF w < Len(Row) THEN w' = w + 1 /\ i' = i ELSE w' = 1 /\ i' = i + 1
  BY DEF PlaceWidget
<1>3. Start' = Start
  BY <1>1, <1>2 DEF Start, InCall
<1>4. w \in Nat /\ i \in Nat /\ Len(rows) \in Nat /\ Len(rowDefs) \in Nat /\ Len(processing) \in Nat
  <2>1. processing[i] \in DOMAIN rows
    BY <1>1
  <2>2. Row \in Seq(Nat \ {0})
    BY <1>1, <2>1 DEF Row
  <2>3. Len(Row) \in Nat
    BY <2>2
  <2>4. Len(rows) \in Nat /\ Len(rowDefs) \in Nat /\ Len(processing) \in Nat
    BY <1>1
  <2>. QED
    BY <1>1, <2>3, <2>4
<1>5. /\ Frontier = (Len(rows) - Len(rowDefs) - Len(processing)) + i /\ Frontier = processing[i]
      /\ Frontier' = (Len(rows) - Len(rowDefs) - Len(processing)) + i' /\ Frontier \in Int
  <2>1. Frontier = (Len(rows) - Len(rowDefs) - Len(processing)) + i
    BY <1>1 DEF Frontier
  <2>2. processing[i] = (Len(rows) - Len(rowDefs) - Len(processing)) + i
    BY <1>1 DEF GridInv, RowsInOrder
  <2>3. Frontier' = (Len(rows) - Len(rowDefs) - Len(processing)) + i'
    BY <1>1, <1>2 DEF Frontier
  <2>. QED
    BY <1>4, <2>1, <2>2, <2>3
<1>6. (Frontier' = Frontier /\ w' = w + 1) \/ Frontier' = Frontier + 1
  BY <1>2, <1>4, <1>5
<1>7. PICK k \in Fitting : columns' = [columns EXCEPT ![k] = Append(columns[k], a)]
  BY DEF PlaceWidget
<1>8. k \in DOMAIN columns
  <2>1. Len(colHeights) \in Nat /\ DOMAIN colHeights = 1 .. Len(colHeights)
    BY <1>1
  <2>2. k \in w .. Len(colHeights) /\ w >= 1
    BY <1>1, <1>7 DEF Fitting
  <2>. QED
    BY <1>1, <1>4, <2>1, <2>2
<1>9. a[1] = Frontier /\ a[2] = w
  BY <1>5
<1> HIDE DEF a
<1> DEFINE n == Len(columns[k])
<1>10. /\ DOMAIN columns' = DOMAIN columns
       /\ n \in Nat /\ DOMAIN columns[k] = 1 .. n /\ DOMAIN columns'[k] = 1 .. n + 1
       /\ columns'[k][n + 1] = a
       /\ \A p \in 1 .. n : columns'[k][p] = columns[k][p]
       /\ \A l \in DOMAIN columns : l # k => columns'[l] = columns[l]
  <2>1. columns[k] \in Seq(Nat \X Nat)
    BY <1>1, <1>8
  <2>2. /\ DOMAIN columns' = DOMAIN columns /\ columns'[k] = Append(columns[k], a)
        /\ \A l \in DOMAIN columns : l # k => columns'[l] = columns[l]
    BY <1>7, <1>8
  <2>. QED
    BY <2>1, <2>2
<1> HIDE DEF n
<1>11. \A l \in DOMAIN columns : \A p \in DOMAIN columns[l] :
         /\ Behind(columns[l][p]) /\ columns[l][p][1] \in Nat
         /\ columns[l][p] # a
  <2> SUFFICES ASSUME NEW l \in DOMAIN columns, NEW p \in DOMAIN columns[l]
               PROVE  /\ Behind(columns[l][p]) /\ columns[l][p][1] \in Nat
                      /\ columns[l][p] # a
    OBVIOUS
  <2>1. Behind(columns[l][p])
    BY <1>1 DEF TwiceInv, PlacedBehind
  <2>2. columns[l] \in Seq(Nat \X Nat)
    BY <1>1
  <2>3. columns[l][p] \in Nat \X Nat
    BY <2>2
  <2>4. columns[l][p] # a
    BY <1>4, <1>5, <1>9, <2>1 DEF Behind
  <2>. QED
    BY <2>1, <2>3, <2>4
<1>12. \A l \in DOMAIN columns : \A p \in DOMAIN columns'[l] :
          (l = k /\ p = n + 1 /\ columns'[l][p] = a) \/ (p \in DOMAIN columns[l] /\ columns'[l][p] = columns[l][p])
  <2> SUFFICES ASSUME NEW l \in DOMAIN columns, NEW p \in DOMAIN columns'[l], ~(l = k /\ p = n + 1)
               PROVE  p \in DOMAIN columns[l] /\ columns'[l][p] = columns[l][p]
    BY <1>10
  <2>1. CASE l = k
    BY <1>10, <2>1
  <2>2. CASE l # k
    BY <1>10, <2>2
  <2>. QED
    BY <2>1, <2>2
<1>13. PlacedBehind'
  <2> SUFFICES ASSUME NEW l \in DOMAIN columns, NEW p \in DOMAIN columns'[l]
               PROVE  \/ columns'[l][p][1] < Frontier'
                      \/ columns'[l][p][1] = Frontier' /\ columns'[l][p][2] < w'
    BY <1>1, <1>2, <1>10 DEF PlacedBehind, Behind
  <2>1. CASE columns'[l][p] = a
    BY <1>4, <1>5, <1>6, <1>9, <2>1
  <2>2. CASE columns'[l][p] # a
    <3>1. p \in DOMAIN columns[l] /\ columns'[l][p] = columns[l][p]
      BY <1>12, <2>2
    <3> DEFINE b == columns[l][p]
    <3>2. b[1] \in Nat /\ b[2] \in Nat
      <4>1. columns[l] \in Seq(Nat \X Nat)
        BY <1>1
      <4>. QED
        BY <3>1, <4>1
    <3>3. b[1] < Frontier \/ (b[1] = Frontier /\ b[2] < w)
      BY <1>11, <3>1 DEF Behind
    <3> HIDE DEF b
    <3>4. b[1] < Frontier' \/ (b[1] = Frontier' /\ b[2] < w')
      BY <1>4, <1>5, <1>6, <3>2, <3>3
    <3>. QED
      BY <3>1, <3>4 DEF b
  <2>. QED
    BY <2>1, <2>2
<1>14. OnceIn(columns)'
  <2>1. OnceIn(columns)
    BY <1>1 DEF TwiceInv, EachOnce, InCall
  <2> SUFFICES ASSUME NEW l \in DOMAIN columns, NEW m \in DOMAIN columns,
                      NEW p \in DOMAIN columns'[l], NEW q \in DOMAIN columns'[m],
                      columns'[l][p] = columns'[m][q]
               PROVE  l = m /\ p = q
    BY <1>10 DEF OnceIn
  <2>2. CASE columns'[l][p] = a
    <3>1. l = k /\ p = n + 1
      BY <1>11, <1>12, <2>2
    <3>2. m = k /\ q = n + 1
      <4>1. columns'[m][q] = a
        BY <2>2
      <4>. QED
        BY <1>11, <1>12, <4>1
    <3>. QED
      BY <3>1, <3>2
  <2>3. CASE columns'[l][p] # a
    BY <1>12, <2>1, <2>3 DEF OnceIn
  <2>. QED
    BY <2>2, <2>3
<1>15. FirstIsBehind' /\ EachOnce'
  BY <1>1, <1>2, <1>14, ShownStands DEF FirstIsBehind, TwiceInv, EachOnce
<1>16. LastAlone' /\ AtMostTwice'
  BY <1>2, <1>3, ShownStands DEF TwiceInv, LastAlone
<1>. QED
  BY <1>13, <1>15, <1>16 DEF TwiceInv

(* Rows are handed back after the first one, so the next call begins later.*)
LEMMA TwiceHandBack ==
  ASSUME LayoutInv, GridInv, TwiceInv, HandBack
  PROVE  TwiceInv'
<1>1. /\ rows \in Seq(Seq(Nat \ {0})) /\ rowDefs \in Seq(DOMAIN rows) /\ processing \in Seq(DOMAIN rows)
      /\ i \in 1 .. Len(processing) /\ pc = "place" /\ pc' = "made"
      /\ UNCHANGED <<rows, processing, columns, uiRows>>
  BY DEF LayoutInv, LayoutTypeOK, HandBack, NextWidget
<1>2. i # 1
  BY FirstRowFits
<1>3. Start' = Start /\ InCall
  BY <1>1 DEF Start, InCall
<1>4. Start < Frontier
  <2>1. /\ processing[1] = (Len(rows) - Len(rowDefs) - Len(processing)) + 1
        /\ Len(rows) \in Nat /\ Len(rowDefs) \in Nat /\ Len(processing) \in Nat
    BY <1>1 DEF GridInv, RowsInOrder
  <2>. QED
    BY <1>1, <1>2, <1>3, <2>1 DEF Start, Frontier
<1>5. Frontier' = Frontier
  <2>1. rowDefs' = SubSeq(processing, i, Len(processing)) \o rowDefs
    BY DEF HandBack
  <2>2. Len(rowDefs') = ((Len(processing) - i) + 1) + Len(rowDefs)
    <3>1. /\ SubSeq(processing, i, Len(processing)) \in Seq(DOMAIN rows)
          /\ Len(SubSeq(processing, i, Len(processing))) = (Len(processing) - i) + 1
      BY <1>1, RestOf
    <3>. QED
      BY <1>1, <2>1, <3>1
  <2>. QED
    BY <1>1, <2>2 DEF Frontier
<1>6. FirstIsBehind' /\ PlacedBehind'
  BY <1>1, <1>3, <1>4, <1>5 DEF FirstIsBehind, PlacedBehind
<1>7. EachOnce'
  <2>1. OnceIn(columns)'
    BY <1>1, <1>3 DEF TwiceInv, EachOnce, OnceIn
  <2>. QED
    BY <1>1, <2>1, ShownStands DEF TwiceInv, EachOnce
<1>8. LastAlone' /\ AtMostTwice'
  BY <1>1, <1>3, ShownStands DEF TwiceInv, LastAlone
<1>. QED
  BY <1>6, <1>7, <1>8 DEF TwiceInv

(* The new row of the grid shares rows of the definition with the one      *)
(* above it only, and the next call begins behind its first row.           *)
LEMMA TwiceRowMade ==
  ASSUME LayoutInv, GridInv, TwiceInv, RowMade
  PROVE  TwiceInv'
<1>1. /\ rows \in Seq(Seq(Nat \ {0})) /\ rowDefs \in Seq(DOMAIN rows) /\ processing \in Seq(DOMAIN rows)
      /\ uiRows \in Seq([height : Nat, columns : Seq(Seq(Nat \X Nat))])
      /\ columns \in Seq(Seq(Nat \X Nat)) /\ maxHeight \in Nat /\ i \in Nat
      /\ pc \in {"place", "made"} /\ pc' = "layout"
      /\ uiRows' = Append(uiRows, [height |-> maxHeight, columns |-> columns])
      /\ UNCHANGED <<rows, rowDefs, processing, i>>
  BY DEF LayoutInv, LayoutTypeOK, RowMade
<1> DEFINE n == Len(uiRows)
<1>2. /\ n \in Nat /\ DOMAIN uiRows = 1 .. n /\ DOMAIN uiRows' = 1 .. n + 1 /\ Len(uiRows') = n + 1
      /\ uiRows'[n + 1].columns = columns
      /\ \A u \in 1 .. n : uiRows'[u] = uiRows[u]
  BY <1>1
<1> HIDE DEF n
<1>3. InCall /\ ~InCall' /\ Start' = Frontier'
  BY <1>1 DEF InCall, Start
<1>4. Len(rows) \in Nat /\ Len(rowDefs) \in Nat /\ Len(processing) \in Nat
  BY <1>1
<1>5. Start \in Int /\ Frontier \in Int /\ Start < Frontier /\ Frontier' = Frontier
  <2>1. Start \in 1 .. Frontier /\ Frontier \in Int
    BY <1>4, <1>1 DEF GridInv, RowsInOrder, Frontier
  <2>2. CASE pc = "made"
    BY <1>1, <2>1, <2>2 DEF TwiceInv, FirstIsBehind, Frontier
  <2>3. CASE pc = "place"
    <3>1. i = Len(processing) + 1 /\ processing # << >>
      <4>1. i \in 1 .. Len(processing) + 1 /\ i > Len(processing) /\ processing # << >>
        BY <2>3 DEF RowMade, LayoutInv, NextWidget, Columns
      <4>. QED
        BY <1>4, <4>1
    <3>2. processing[1] = (Len(rows) - Len(rowDefs) - Len(processing)) + 1 /\ Len(processing) > 0
      <4>1. Len(processing) > 0 /\ 1 \in DOMAIN processing
        BY <1>1, <3>1
      <4>. QED
        BY <2>3, <4>1 DEF GridInv, RowsInOrder
    <3>3. Start = processing[1] /\ Frontier = (Len(rows) - Len(rowDefs) - Len(processing)) + i
      BY <1>3, <2>3 DEF Start, Frontier
    <3>4. Frontier' = (Len(rows) - Len(rowDefs)) + 1
      BY <1>1 DEF Frontier
    <3>. QED
      BY <1>4, <2>1, <3>1, <3>2, <3>3, <3>4
  <2>. QED
    BY <1>1, <2>2, <2>3
<1>6. \A u \in 1 .. n : RowsShown(u)' = RowsShown(u)
  BY <1>2 DEF RowsShown, InColumn
<1>7. \A u \in 1 .. n : \A b \in RowsShown(u) : b \in Nat /\ b <= Start
  <2> SUFFICES ASSUME NEW u \in 1 .. n, NEW b \in RowsShown(u) PROVE b \in Nat /\ b <= Start
    OBVIOUS
  <2>1. PICK k \in DOMAIN uiRows[u].columns : \E p \in DOMAIN uiRows[u].columns[k] :
            b = uiRows[u].columns[k][p][1]
    BY DEF RowsShown, InColumn
  <2>2. PICK p \in DOMAIN uiRows[u].columns[k] : b = uiRows[u].columns[k][p][1]
    BY <2>1
  <2>3. uiRows[u].columns[k][p] \in Widgets /\ b <= Start
    BY <1>2, <2>2 DEF GridInv, GridInOrder, Descends
  <2>. QED
    BY <1>1, <2>2, <2>3, WidgetIs
<1>8. \A u \in 1 .. n : u < n => \A b \in RowsShown(u) : b < Start
  BY <1>2 DEF TwiceInv, LastAlone, n
<1>9. ASSUME NEW v, v = n + 1, NEW b \in RowsShown(v)' PROVE b \in Int /\ b >= Start
  <2>0. uiRows'[v].columns = columns
    BY <1>2, <1>9
  <2>1. PICK k \in DOMAIN columns : \E p \in DOMAIN columns[k] : b = columns[k][p][1]
    BY <1>9, <2>0 DEF RowsShown, InColumn
  <2>2. b \in Start .. Frontier
    BY <1>3, <2>1 DEF GridInv, ColumnsInOrder
  <2>. QED
    BY <1>5, <2>2
<1>10. LastAlone'
  <2> SUFFICES ASSUME NEW u \in 1 .. n, NEW b \in RowsShown(u) PROVE b < Frontier
    BY <1>2, <1>3, <1>5, <1>6 DEF LastAlone
  <2>. QED
    BY <1>5, <1>7
<1>11. FirstIsBehind' /\ PlacedBehind'
  BY <1>1 DEF FirstIsBehind, PlacedBehind
<1>12. \A u \in 1 .. n + 1 : OnceIn(uiRows'[u].columns)
  <2> SUFFICES ASSUME NEW u \in 1 .. n + 1 PROVE OnceIn(uiRows'[u].columns)
    OBVIOUS
  <2>1. CASE u = n + 1
    BY <1>2, <1>3, <2>1 DEF TwiceInv, EachOnce
  <2>2. CASE u \in 1 .. n
    BY <1>2, <2>2 DEF TwiceInv, EachOnce
  <2>. QED
    BY <1>2, <2>1, <2>2
<1>13. EachOnce'
  <2>1. \A u \in 1 .. n + 1 : OnceIn(uiRows[u].columns)'
    BY <1>12 DEF OnceIn
  <2>. QED
    BY <1>2, <1>3, <2>1 DEF EachOnce
<1>14. AtMostTwice'
  <2> SUFFICES ASSUME NEW u \in 1 .. n + 1, NEW v \in 1 .. n + 1, u + 1 < v,
                      NEW b \in RowsShown(u)', b \in RowsShown(v)'
               PROVE  FALSE
    BY <1>2, <1>13 DEF AtMostTwice, EachOnce
  <2>1. u \in 1 .. n /\ u < n /\ b \in RowsShown(u)
    BY <1>2, <1>6
  <2>2. CASE v = n + 1
    <3>2. b \in Int /\ b >= Start
      BY <1>9, <2>2
    <3>3. b < Start
      BY <1>8, <2>1
    <3>. QED
      BY <1>5, <3>2, <3>3
  <2>3. CASE v \in 1 .. n
    BY <1>2, <1>6, <2>1, <2>3 DEF TwiceInv, AtMostTwice
  <2>. QED
    BY <1>2, <2>2, <2>3
<1>. QED
  BY <1>10, <1>11, <1>13, <1>14 DEF TwiceInv

(* The invariant is kept by every step.                                    *)
LEMMA TwiceInvStep ==
  ASSUME LayoutInv, GridInv, TwiceInv, [Next]_vars
  PROVE  TwiceInv'
<1>1. ASSUME UNCHANGED <<rows, rowDefs, processing, columns, i, w, uiRows>>,
             UNCHANGED pc \/ (pc = "layout" /\ pc' = "done")
      PROVE  TwiceInv'
  <2>1. Frontier' = Frontier /\ Start' = Start /\ (InCall' <=> InCall)
    BY <1>1 DEF Frontier, Start, InCall
  <2>2. FirstIsBehind'
    BY <1>1, <2>1 DEF TwiceInv, FirstIsBehind
  <2>3. PlacedBehind'
    BY <1>1, <2>1 DEF TwiceInv, PlacedBehind, Behind
  <2>4. EachOnce'
    BY <1>1, <2>1, ShownStands DEF TwiceInv, EachOnce, OnceIn
  <2>5. LastAlone' /\ AtMostTwice'
    BY <1>1, <2>1, ShownStands DEF TwiceInv, LastAlone
  <2>. QED
    BY <2>2, <2>3, <2>4, <2>5 DEF TwiceInv
<1>2. CASE LayoutMade \/ UNCHANGED vars
  BY <1>1, <1>2 DEF LayoutMade, vars
<1>. QED
  BY <1>2, TwiceProcessRow, TwicePlaceWidget, TwiceHandBack, TwiceRowMade DEF Next

(* In every layout, no row of the grid shows a widget twice, and a row of  *)
(* the definition is in two rows of the grid at most, neighbours, although *)
(* rows are handed back with widgets of theirs placed: a row handed back   *)
(* is the first of the next call, which it always fits.                    *)
THEOREM LayoutShowsAtMostTwice == Spec => []AtMostTwice
<1>1. LayoutInv /\ GridInv /\ TwiceInv /\ [Next]_vars => TwiceInv'
  BY TwiceInvStep
<1>2. TwiceInv => AtMostTwice
  BY DEF TwiceInv
<1>. QED
  BY TwiceInvInit, <1>1, <1>2, LayoutInvariant, GridInvariant, PTL DEF Spec
=============================================================================
