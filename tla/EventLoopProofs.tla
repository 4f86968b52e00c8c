-------------------------- MODULE EventLoopProofs --------------------------
(***************************************************************************)
(* Theorems about EventLoop, for every layout, every configuration and     *)
(* every sequence of events.                                               *)
(***************************************************************************)
EXTENDS EventLoop, TLAPS

(* Only a process widget's entry is ever edited. *)
EditingNeedsProc == editing => HasProc

(* The inductive invariant.  Exclusion of help and editing rests on        *)
(* EditingNeedsProc: without a process widget no event goes to the entry,  *)
(* so an entry that was edited then would not keep the key ? to itself.    *)
EventLoopInv ==
    /\ TypeOK
    /\ EditingNeedsProc
    /\ HelpExcludesEditing
    /\ EachDOnce
    /\ ScreenIsWhatIsVisible
    /\ ScalesAgree

LEMMA EventLoopInvInit == Init => EventLoopInv
  <1> SUFFICES ASSUME Init
               PROVE  EventLoopInv
    OBVIOUS
  <1>1. TypeOK
    <2>1. /\ scale \in Int
          /\ lineScale \in [Lines -> Int]
      BY EventLoopAssumption DEF Init
    <2>2. /\ sigTerm \in 0 .. 2
          /\ dPressed \in Nat
          /\ killedDD \in Nat /\ killedOther \in Nat
      <3>1. sigTerm = 0 /\ dPressed = 0 /\ killedDD = 0 /\ killedOther = 0
        BY DEF Init
      <3>. QED
        BY <3>1
    <2>3. /\ running \in BOOLEAN /\ editing \in BOOLEAN
          /\ mbps \in BOOLEAN
      BY DEF Init
    <2>4. HelpVisible \in BOOLEAN
      BY EventLoopAssumption DEF Init
    <2>5. screen \in {"grid", "help"} /\ previousKey \in Events \cup {""}
      BY DEF Init
    <2>. QED
      BY <2>1, <2>2, <2>3, <2>4, <2>5 DEF TypeOK
  <1>2. EditingNeedsProc /\ HelpExcludesEditing
    BY DEF Init, EditingNeedsProc, HelpExcludesEditing
  <1>3. EachDOnce
    <2>1. /\ killedDD = 0 /\ killedOther = 0
          /\ previousKey # "d"
          /\ dPressed = 0
      BY DEF Init
    <2>. QED
      BY <2>1 DEF EachDOnce, Held
  <1>4. ScreenIsWhatIsVisible
    BY DEF Init, ScreenIsWhatIsVisible
  <1>5. ScalesAgree
    <2>1. scale = InitScale /\ lineScale = [item \in Lines |-> InitScale]
      BY DEF Init
    <2>. QED
      BY <2>1, EventLoopAssumption DEF ScalesAgree
  <1>. QED
    BY <1>1, <1>2, <1>3, <1>4, <1>5 DEF EventLoopInv

(* The keys never lower a scale to zero or below: l stops above the step   *)
(* it takes.                                                               *)
LEMMA NewScaleBound ==
    ASSUME scale \in Int, NEW e
    PROVE  NewScale(e) \in Int /\ (NewScale(e) >= scale \/ NewScale(e) >= 1)
  BY DEF NewScale, graphHorizontalScaleDelta

(* What signals and the draw ticker leave alone. *)
LEMMA QuietFrame ==
    ASSUME Signal \/ Terminate \/ DrawTick \/ UNCHANGED vars
    PROVE  /\ HelpVisible' = HelpVisible
           /\ editing' = editing
           /\ previousKey' = previousKey
           /\ scale' = scale /\ lineScale' = lineScale
           /\ mbps' = mbps
           /\ killedDD' = killedDD /\ killedOther' = killedOther
           /\ dPressed' = dPressed
  <1>1. CASE Signal
    BY <1>1 DEF Signal, history
  <1>2. CASE Terminate
    BY <1>2 DEF Terminate, history
  <1>3. CASE DrawTick
    BY <1>3 DEF DrawTick, history
  <1>4. CASE UNCHANGED vars
    BY <1>4 DEF vars
  <1>. QED
    BY <1>1, <1>2, <1>3, <1>4

(* What the events other than those of the grid leave alone. *)
LEMMA OtherEventFrame ==
    ASSUME NEW e, EntryEvent(e) \/ Quit(e) \/ HelpEvent(e)
    PROVE  /\ previousKey' = previousKey
           /\ scale' = scale /\ lineScale' = lineScale
           /\ mbps' = mbps
           /\ killedDD' = killedDD /\ killedOther' = killedOther
  <1>1. CASE EntryEvent(e)
    BY <1>1 DEF EntryEvent, kills
  <1>2. CASE Quit(e)
    BY <1>2 DEF Quit, kills
  <1>3. CASE HelpEvent(e)
    BY <1>3 DEF HelpEvent, kills
  <1>. QED
    BY <1>1, <1>2, <1>3

LEMMA TakeFrame ==
    ASSUME NEW e, Take(e)
    PROVE  /\ dPressed' = IF e = "d" THEN dPressed + 1 ELSE dPressed
           /\ sigTerm' = sigTerm
  BY DEF Take

LEMMA EveryEventTakes ==
    ASSUME NEW e, UIEvent(e)
    PROVE  Take(e)
  BY DEF UIEvent, EntryEvent, Quit, HelpEvent, GridEvent

(* What an event of the grid does to the state without Boolean values. *)
LEMMA GridFrame ==
    ASSUME NEW e, GridEvent(e)
    PROVE  /\ scale' = NewScale(e)
           /\ lineScale' = IF NewScale(e) # scale THEN [item \in Lines |-> NewScale(e)] ELSE lineScale
           /\ killedDD' = IF Kills(e) /\ e = "d" THEN killedDD + 1 ELSE killedDD
           /\ killedOther' = IF Kills(e) /\ e # "d" THEN killedOther + 1 ELSE killedOther
           /\ previousKey' = KeyToRemember(e)
           /\ running' = running
  BY DEF GridEvent

LEMMA TypeStep == EventLoopInv /\ [Next]_vars => TypeOK'
  <1> SUFFICES ASSUME EventLoopInv, [Next]_vars
               PROVE  TypeOK'
    OBVIOUS
  <1>. TypeOK
    BY DEF EventLoopInv
  <1>0. /\ scale \in Int
        /\ lineScale \in [Lines -> Int]
        /\ sigTerm \in 0 .. 2
        /\ dPressed \in Nat
        /\ killedDD \in Nat /\ killedOther \in Nat
    BY DEF TypeOK
  <1>1. CASE Signal \/ Terminate \/ DrawTick \/ UNCHANGED vars
    <2>1. sigTerm' \in 0 .. 2
      BY <1>0, <1>1 DEF Signal, Terminate, DrawTick, vars
    <2>2. running' \in BOOLEAN
      BY <1>1 DEF TypeOK, Signal, Terminate, DrawTick, vars
    <2>3. screen' \in {"grid", "help"}
      BY <1>1 DEF TypeOK, Signal, Terminate, DrawTick, vars
    <2>. QED
      BY <1>1, <2>1, <2>2, <2>3, QuietFrame DEF TypeOK
  <1>2. ASSUME NEW e \in Events, Take(e)
        PROVE  /\ dPressed' \in Nat
               /\ sigTerm' \in 0 .. 2
    BY <1>0, <1>2, TakeFrame
  <1>3. ASSUME NEW e \in Events, EntryEvent(e) \/ Quit(e) \/ HelpEvent(e)
        PROVE  TypeOK'
    <2>1. dPressed' \in Nat /\ sigTerm' \in 0 .. 2
      BY <1>2, <1>3 DEF EntryEvent, Quit, HelpEvent
    <2>2. running' \in BOOLEAN
      BY <1>3 DEF TypeOK, EntryEvent, Quit, HelpEvent
    <2>3. HelpVisible' \in BOOLEAN
      BY <1>3 DEF TypeOK, EntryEvent, Quit, HelpEvent
    <2>4. editing' \in BOOLEAN
      BY <1>3 DEF TypeOK, EntryEvent, Quit, HelpEvent
    <2>5. screen' \in {"grid", "help"}
      BY <1>3 DEF TypeOK, EntryEvent, Quit, HelpEvent
    <2>. QED
      BY <1>3, <2>1, <2>2, <2>3, <2>4, <2>5, OtherEventFrame DEF TypeOK
  <1>4. ASSUME NEW e \in Events, GridEvent(e)
        PROVE  TypeOK'
    <2>1. scale' \in Int /\ lineScale' \in [Lines -> Int]
      BY <1>0, <1>4, NewScaleBound, GridFrame
    <2>2. killedDD' \in Nat /\ killedOther' \in Nat
      <3>1. killedDD' = killedDD \/ killedDD' = killedDD + 1
        BY <1>4, GridFrame
      <3>2. killedOther' = killedOther \/ killedOther' = killedOther + 1
        BY <1>4, GridFrame
      <3>. QED
        BY <1>0, <3>1, <3>2
    <2>3. previousKey' \in Events \cup {""}
      <3>1. previousKey' = "" \/ previousKey' = e
        BY <1>4, GridFrame DEF KeyToRemember
      <3>. QED
        BY <1>4, <3>1
    <2>4. /\ running' \in BOOLEAN /\ HelpVisible' \in BOOLEAN
          /\ editing' \in BOOLEAN /\ mbps' \in BOOLEAN
          /\ screen' \in {"grid", "help"}
      <3>1. running' \in BOOLEAN
        BY <1>4 DEF TypeOK, GridEvent
      <3>2. HelpVisible' \in BOOLEAN
        BY <1>4 DEF TypeOK, GridEvent
      <3>3. editing' \in BOOLEAN
        BY <1>4 DEF TypeOK, GridEvent
      <3>4. mbps' \in BOOLEAN
        BY <1>4 DEF TypeOK, GridEvent
      <3>5. screen' \in {"grid", "help"}
        BY <1>4 DEF TypeOK, GridEvent
      <3>. QED
        BY <3>1, <3>2, <3>3, <3>4, <3>5
    <2>5. dPressed' \in Nat /\ sigTerm' \in 0 .. 2
      BY <1>2, <1>4 DEF GridEvent
    <2>. QED
      BY <2>1, <2>2, <2>3, <2>4, <2>5 DEF TypeOK
  <1>. QED
    BY <1>1, <1>3, <1>4 DEF Next, UIEvent

LEMMA EditingStep ==
    EventLoopInv /\ [Next]_vars => EditingNeedsProc' /\ HelpExcludesEditing'
  <1> SUFFICES ASSUME EventLoopInv, [Next]_vars
               PROVE  EditingNeedsProc' /\ HelpExcludesEditing'
    OBVIOUS
  <1> USE DEF EventLoopInv, EditingNeedsProc, HelpExcludesEditing
  <1>1. CASE Signal \/ Terminate \/ DrawTick \/ UNCHANGED vars
    BY <1>1, QuietFrame
  <1>2. ASSUME NEW e \in Events, EntryEvent(e) \/ Quit(e)
        PROVE  EditingNeedsProc' /\ HelpExcludesEditing'
    <2>1. CASE EntryEvent(e)
      BY <2>1 DEF EntryEvent, ToEntry
    <2>2. CASE Quit(e)
      BY <2>2 DEF Quit
    <2>. QED
      BY <1>2, <2>1, <2>2
  <1>3. ASSUME NEW e \in Events, HelpEvent(e)
        PROVE  EditingNeedsProc' /\ HelpExcludesEditing'
    BY <1>3 DEF HelpEvent, ToEntry, RuneKeys
  <1>4. ASSUME NEW e \in Events, GridEvent(e)
        PROVE  EditingNeedsProc' /\ HelpExcludesEditing'
    BY <1>4 DEF GridEvent
  <1>. QED
    BY <1>1, <1>2, <1>3, <1>4 DEF Next, UIEvent

(* The count of presses: a kill by dd uses the press held and its own and  *)
(* leaves none held, one by d3 or d9 uses the press held.                  *)
LEMMA KillStep == EventLoopInv /\ [Next]_vars => EachDOnce'
  <1> SUFFICES ASSUME EventLoopInv, [Next]_vars
               PROVE  EachDOnce'
    OBVIOUS
  <1>1. /\ killedDD \in Nat /\ killedOther \in Nat
        /\ dPressed \in Nat
        /\ 2 * killedDD + killedOther + Held <= dPressed
    BY DEF EventLoopInv, TypeOK, EachDOnce
  <1>2. CASE Signal \/ Terminate \/ DrawTick \/ UNCHANGED vars
    <2>1. killedDD' = killedDD /\ killedOther' = killedOther /\ dPressed' = dPressed /\ previousKey' = previousKey
      BY <1>2, QuietFrame
    <2>. QED
      BY <1>1, <2>1 DEF EachDOnce, Held
  <1>3. ASSUME NEW e \in Events, EntryEvent(e) \/ Quit(e) \/ HelpEvent(e)
        PROVE  EachDOnce'
    <2>1. killedDD' = killedDD /\ killedOther' = killedOther /\ previousKey' = previousKey
      BY <1>3, OtherEventFrame
    <2>2. dPressed' = IF e = "d" THEN dPressed + 1 ELSE dPressed
      BY <1>3, EveryEventTakes, TakeFrame DEF UIEvent
    <2>. QED
      BY <1>1, <2>1, <2>2 DEF EachDOnce, Held
  <1>4. ASSUME NEW e \in Events, GridEvent(e)
        PROVE  EachDOnce'
    <2>1. dPressed' = IF e = "d" THEN dPressed + 1 ELSE dPressed
      BY <1>4, EveryEventTakes, TakeFrame DEF UIEvent
    <2>2. CASE e = "d" /\ Kills(e)
      <3>1. killedDD' = killedDD + 1 /\ killedOther' = killedOther
        BY <1>4, <2>2, GridFrame
      <3>2. previousKey = "d" /\ previousKey' # "d"
        BY <1>4, <2>2, GridFrame DEF Kills, KeyToRemember
      <3>. QED
        BY <1>1, <2>1, <2>2, <3>1, <3>2 DEF EachDOnce, Held
    <2>3. CASE e # "d" /\ Kills(e)
      <3>1. killedDD' = killedDD /\ killedOther' = killedOther + 1
        BY <1>4, <2>3, GridFrame
      <3>2. previousKey = "d" /\ previousKey' # "d"
        BY <1>4, <2>3, GridFrame DEF Kills, KeyToRemember
      <3>. QED
        BY <1>1, <2>1, <2>3, <3>1, <3>2 DEF EachDOnce, Held
    <2>4. CASE ~Kills(e)
      <3>1. killedDD' = killedDD /\ killedOther' = killedOther
        BY <1>4, <2>4, GridFrame
      <3>2. previousKey' = "d" => e = "d"
        BY <1>4, GridFrame DEF KeyToRemember
      <3>. QED
        BY <1>1, <2>1, <3>1, <3>2 DEF EachDOnce, Held
    <2>. QED
      BY <2>2, <2>3, <2>4
  <1>. QED
    BY <1>2, <1>3, <1>4 DEF Next, UIEvent

LEMMA ScreenStep == EventLoopInv /\ [Next]_vars => ScreenIsWhatIsVisible'
  <1> SUFFICES ASSUME EventLoopInv, [Next]_vars
               PROVE  ScreenIsWhatIsVisible'
    OBVIOUS
  <1> USE DEF EventLoopInv, TypeOK, ScreenIsWhatIsVisible
  <1>1. CASE Signal \/ Terminate \/ DrawTick \/ UNCHANGED vars
    BY <1>1 DEF Signal, Terminate, DrawTick, vars, history
  <1>2. ASSUME NEW e \in Events, EntryEvent(e) \/ Quit(e)
        PROVE  ScreenIsWhatIsVisible'
    BY <1>2 DEF EntryEvent, Quit
  <1>3. ASSUME NEW e \in Events, HelpEvent(e)
        PROVE  ScreenIsWhatIsVisible'
    BY <1>3 DEF HelpEvent
  <1>4. ASSUME NEW e \in Events, GridEvent(e)
        PROVE  ScreenIsWhatIsVisible'
    BY <1>4 DEF GridEvent
  <1>. QED
    BY <1>1, <1>2, <1>3, <1>4 DEF Next, UIEvent

LEMMA ScaleStep == EventLoopInv /\ [Next]_vars => ScalesAgree'
  <1> SUFFICES ASSUME EventLoopInv, [Next]_vars
               PROVE  ScalesAgree'
    OBVIOUS
  <1>1. /\ scale \in Int
        /\ ScalesAgree
    BY DEF EventLoopInv, TypeOK
  <1>2. CASE Signal \/ Terminate \/ DrawTick \/ UNCHANGED vars
    <2>1. scale' = scale /\ lineScale' = lineScale
      BY <1>2, QuietFrame
    <2>. QED
      BY <1>1, <2>1 DEF ScalesAgree
  <1>3. ASSUME NEW e \in Events, EntryEvent(e) \/ Quit(e) \/ HelpEvent(e)
        PROVE  ScalesAgree'
    <2>1. scale' = scale /\ lineScale' = lineScale
      BY <1>3, OtherEventFrame
    <2>. QED
      BY <1>1, <2>1 DEF ScalesAgree
  <1>4. ASSUME NEW e \in Events, GridEvent(e)
        PROVE  ScalesAgree'
    <2>1. scale' = NewScale(e)
      BY <1>4, GridFrame
    <2>2. NewScale(e) \in Int /\ (NewScale(e) >= scale \/ NewScale(e) >= 1)
      BY <1>1, NewScaleBound
    <2>4. InitScale \in Int
      BY EventLoopAssumption
    <2>3. ASSUME NEW item \in Lines
          PROVE  lineScale'[item] = NewScale(e)
      BY <1>1, <1>4, GridFrame DEF ScalesAgree
    <2>. QED
      BY <1>1, <2>1, <2>2, <2>3, <2>4 DEF ScalesAgree
  <1>. QED
    BY <1>2, <1>3, <1>4 DEF Next, UIEvent

LEMMA EventLoopInvariant == Spec => []EventLoopInv
  <1>1. EventLoopInv /\ [Next]_vars => EventLoopInv'
    BY TypeStep, EditingStep, KillStep, ScreenStep, ScaleStep DEF EventLoopInv
  <1>. QED
    BY <1>1, EventLoopInvInit, PTL DEF Spec
-----------------------------------------------------------------------------
(* Type correctness of the event loop. *)
THEOREM TypeCorrect == Spec => []TypeOK
  BY EventLoopInvariant, PTL DEF EventLoopInv

(* No press of d takes part in two kills, in any sequence of keys, help,   *)
(* editing, resizes and mouse events included.                             *)
THEOREM NoPressKillsTwice == Spec => []EachDOnce
  BY EventLoopInvariant, PTL DEF EventLoopInv

(* Help is never visible while the filter is edited. *)
THEOREM HelpNeverDuringEditing == Spec => []HelpExcludesEditing
  BY EventLoopInvariant, PTL DEF EventLoopInv

(* The screen shows what the loop takes to be visible. *)
THEOREM ScreenAgrees == Spec => []ScreenIsWhatIsVisible
  BY EventLoopInvariant, PTL DEF EventLoopInv

(* For any initial scale, all line graphs have the one scale, which the    *)
(* keys never bring from a positive number to one that is not, and never   *)
(* lower if it is not positive.                                            *)
THEOREM ScalesStayEqual == Spec => []ScalesAgree
  BY EventLoopInvariant, PTL DEF EventLoopInv

(* While the filter is edited no key quits and none kills. *)
THEOREM EditingKeysAreText == Spec => EditingIsSafe
  <1>1. EventLoopInv /\ [Next]_vars
        => [editing => UNCHANGED kills /\ (running' # running => sigTerm' < sigTerm)]_vars
    <2> SUFFICES ASSUME EventLoopInv, Next, editing
                 PROVE  UNCHANGED kills /\ (running' # running => sigTerm' < sigTerm)
      OBVIOUS
    <2>1. HasProc /\ sigTerm \in 0 .. 2
      BY DEF EventLoopInv, TypeOK, EditingNeedsProc
    <2>2. CASE Signal \/ DrawTick
      <3>1. UNCHANGED kills
        BY <2>2, QuietFrame DEF kills
      <3>2. running' = running
        BY <2>2 DEF Signal, DrawTick
      <3>. QED
        BY <3>1, <3>2
    <2>3. CASE Terminate
      <3>1. UNCHANGED kills
        BY <2>3, QuietFrame DEF kills
      <3>2. sigTerm' = sigTerm - 1
        BY <2>3 DEF Terminate
      <3>3. sigTerm' < sigTerm
        BY <2>1, <3>2
      <3>. QED
        BY <3>1, <3>3
    <2>4. ASSUME NEW e \in Events, EntryEvent(e) \/ HelpEvent(e)
          PROVE  UNCHANGED kills /\ running' = running
      BY <2>4 DEF EntryEvent, HelpEvent
    <2>5. ASSUME NEW e \in Events, Quit(e)
          PROVE  FALSE
      BY <2>1, <2>5 DEF Quit, ToEntry, RuneKeys, EntryKeys
    <2>6. ASSUME NEW e \in Events, GridEvent(e)
          PROVE  UNCHANGED kills /\ running' = running
      <3>1. ~Kills(e)
        BY <2>1, <2>6 DEF GridEvent, ToEntry, Kills, RuneKeys
      <3>. QED
        BY <2>6, <3>1, GridFrame DEF kills
    <2>. QED
      BY <2>2, <2>3, <2>4, <2>5, <2>6 DEF Next, UIEvent
  <1>. QED
    BY <1>1, EventLoopInvariant, PTL DEF Spec, EditingIsSafe
=============================================================================
