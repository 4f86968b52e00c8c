----------------------------- MODULE EventLoop -----------------------------
(***************************************************************************)
(* The event loop of cmd/gotop/main.go with the filter entry it feeds      *)
(* (termui/entry.go): one goroutine that selects among the termination     *)
(* signal, the draw ticker and the terminal's events, and handles one of   *)
(* them completely before it takes another.                                *)
(*                                                                         *)
(* The layout may have no process widget (HasProc FALSE) and no network    *)
(* widget.  The process widget's own operations are modelled in ProcWidget; *)
(* here they are the keys that reach them.  The handlers for the keys that *)
(* only scroll, sort or toggle differ in nothing the event loop keeps.     *)
(***************************************************************************)
EXTENDS Integers, Sequences, FiniteSets

CONSTANTS
    HasProc, HasNet,   \* which widgets the layout has placed
    Lines,             \* the line graphs, grid.Lines
    HelpAtStart,       \* HelpVisible in the configuration
    InitScale,         \* GraphHorizontalScale in the configuration, any integer
    MaxD,              \* bound on the keys d that are pressed
    MaxScale           \* bound on the scale the user reaches with h

graphHorizontalScaleDelta == 3

ASSUME EventLoopAssumption ==
    /\ HasProc \in BOOLEAN /\ HasNet \in BOOLEAN /\ HelpAtStart \in BOOLEAN
    /\ InitScale \in Int
    /\ MaxD \in Nat /\ MaxScale \in Nat

(* Events, by their ID.  The classes of keys the loop treats alike are one *)
(* member each: a letter without a handler, the scrolling letters, the     *)
(* other scrolling keys and the sort keys.  A key of one rune is text for  *)
(* an entry that is being edited.                                          *)
RuneKeys == {"q", "?", "h", "l", "b", "g", "d", "3", "9", "/", "letter", "scroll letter", "sort"}
EntryKeys == {"<C-c>", "<Escape>", "<Enter>", "<Backspace>", "<Space>"}
OtherKeys == {"<Resize>", "<MouseLeft>", "<Tab>", "scroll key", "other key"}
Events == RuneKeys \cup EntryKeys \cup OtherKeys

VARIABLES
    running,          \* the event loop has not returned
    HelpVisible,      \* c.HelpVisible
    editing,          \* the filter entry is being edited
    previousKey,
    scale,            \* c.GraphHorizontalScale
    lineScale,        \* HorizontalScale of each line graph
    mbps,             \* grid.Net.Mbps
    sigTerm,          \* signals in the channel sigTerm, which holds two
    screen,           \* what was drawn over the whole screen last
    killedDD,         \* history: the kills by two d
    killedOther,      \* history: the kills by d3 or d9
    dPressed          \* history: the keys d that were pressed

kills == <<killedDD, killedOther>>
history == <<killedDD, killedOther, dPressed>>
vars == <<running, HelpVisible, editing, previousKey, scale, lineScale, mbps,
          sigTerm, screen, killedDD, killedOther, dPressed>>

TypeOK ==
    /\ running \in BOOLEAN /\ HelpVisible \in BOOLEAN /\ editing \in BOOLEAN
    /\ previousKey \in Events \cup {""}
    /\ scale \in Int
    /\ lineScale \in [Lines -> Int]
    /\ mbps \in BOOLEAN
    /\ sigTerm \in 0 .. 2
    /\ screen \in {"grid", "help"}
    /\ killedDD \in Nat /\ killedOther \in Nat
    /\ dPressed \in Nat

(* eventLoop begins after run has rendered the grid, help or no help. *)
Init ==
    /\ running = TRUE
    /\ HelpVisible = HelpAtStart
    /\ editing = FALSE
    /\ previousKey = ""
    /\ scale = InitScale
    /\ lineScale = [item \in Lines |-> InitScale]
    /\ mbps \in BOOLEAN
    /\ sigTerm = 0
    /\ screen = "grid"
    /\ killedDD = 0 /\ killedOther = 0
    /\ dPressed = 0
-----------------------------------------------------------------------------
(* Mutants: a signal is queued without limit; the loop does not look at    *)
(* signals while the filter is edited; the draw ticker draws over the help. *)
SignalUnbounded ==
    /\ running /\ sigTerm < 5
    /\ sigTerm' = sigTerm + 1
    /\ UNCHANGED <<running, HelpVisible, editing, previousKey, scale, lineScale, mbps, screen, history>>

TerminateUnlessEditing ==
    /\ running /\ sigTerm > 0 /\ ~editing
    /\ sigTerm' = sigTerm - 1
    /\ running' = FALSE
    /\ UNCHANGED <<HelpVisible, editing, previousKey, scale, lineScale, mbps, screen, history>>

DrawTickAlways ==
    /\ running
    /\ screen' = "grid"
    /\ UNCHANGED <<running, HelpVisible, editing, previousKey, scale, lineScale, mbps, sigTerm, history>>

(* The runtime delivers a signal; one that finds the channel full is lost. *)
Signal ==
    /\ running
    /\ sigTerm' = IF sigTerm < 2 THEN sigTerm + 1 ELSE sigTerm
    /\ UNCHANGED <<running, HelpVisible, editing, previousKey, scale, lineScale, mbps, screen, history>>

(* case <-sigTerm *)
Terminate ==
    /\ running /\ sigTerm > 0
    /\ sigTerm' = sigTerm - 1
    /\ running' = FALSE
    /\ UNCHANGED <<HelpVisible, editing, previousKey, scale, lineScale, mbps, screen, history>>

(* case <-drawTicker *)
DrawTick ==
    /\ running
    /\ screen' = IF HelpVisible THEN screen ELSE "grid"
    /\ UNCHANGED <<running, HelpVisible, editing, previousKey, scale, lineScale, mbps, sigTerm, history>>

(* case e := <-uiEvents: what every event has in common. *)
Take(e) ==
    /\ running
    /\ e = "d" => dPressed < MaxD
    /\ dPressed' = IF e = "d" THEN dPressed + 1 ELSE dPressed
    /\ UNCHANGED sigTerm

(* Mutant: the entry leaves <C-c> to the loop. *)
ToEntryButCancel(e) == HasProc /\ editing /\ e \in (RuneKeys \cup EntryKeys) \ {"<C-c>"}

(* The entry handles the event: while it is edited, every rune and the     *)
(* entry's keys are its own.                                               *)
ToEntry(e) == HasProc /\ editing /\ e \in RuneKeys \cup EntryKeys

EntryEvent(e) ==
    /\ Take(e) /\ ToEntry(e)
    /\ editing' = (e \notin {"<C-c>", "<Escape>", "<Enter>"})
    /\ UNCHANGED <<running, HelpVisible, previousKey, scale, lineScale, mbps, screen, kills>>

Quit(e) ==
    /\ Take(e) /\ ~ToEntry(e) /\ e \in {"q", "<C-c>"}
    /\ running' = FALSE
    /\ UNCHANGED <<HelpVisible, editing, previousKey, scale, lineScale, mbps, screen, kills>>

(* The part of the loop for a visible help.  HelpVisible is tested after   *)
(* the key ? has flipped it.                                               *)
HelpEvent(e) ==
    LET visible == IF e = "?" THEN ~HelpVisible ELSE HelpVisible
    IN  /\ Take(e) /\ ~ToEntry(e) /\ e \notin {"q", "<C-c>"}
        /\ visible
        /\ HelpVisible' = (e # "<Escape>")
        /\ screen' = CASE e \in {"?", "<Resize>"} -> "help"
                       [] e = "<Escape>" -> "grid"
                       [] OTHER -> screen
        /\ UNCHANGED <<running, editing, previousKey, scale, lineScale, mbps, kills>>

(* Mutant: l goes one step too far. *)
NewScaleTooSmall(e) ==
    IF e = "h" THEN scale + graphHorizontalScaleDelta
    ELSE IF e = "l" /\ scale > 0
    THEN scale - graphHorizontalScaleDelta
    ELSE scale

(* h and l; l stops above zero. *)
NewScale(e) ==
    IF e = "h" THEN scale + graphHorizontalScaleDelta
    ELSE IF e = "l" /\ scale > graphHorizontalScaleDelta
    THEN scale - graphHorizontalScaleDelta
    ELSE scale

(* Mutant: a key that has completed a pair begins the next one. *)
KeyToRememberAlways(e) == e

(* A key pressed twice in a row completes a pair and is forgotten. *)
KeyToRemember(e) == IF previousKey = e THEN "" ELSE e

(* dd, d3 and d9 *)
Kills(e) == HasProc /\ e \in {"d", "3", "9"} /\ previousKey = "d"

GridEvent(e) ==
    LET visible == IF e = "?" THEN ~HelpVisible ELSE HelpVisible
    IN  /\ Take(e) /\ ~ToEntry(e) /\ e \notin {"q", "<C-c>"}
        /\ ~visible
        /\ e = "h" => scale < MaxScale
        /\ HelpVisible' = FALSE
        /\ scale' = NewScale(e)
        /\ lineScale' = IF NewScale(e) # scale THEN [item \in Lines |-> NewScale(e)] ELSE lineScale
        /\ mbps' = IF e = "b" /\ HasNet THEN ~mbps ELSE mbps
        /\ editing' = (editing \/ (e = "/" /\ HasProc))
        /\ screen' = IF e \in {"?", "h", "<Resize>"} THEN "grid" ELSE screen
        /\ killedDD' = IF Kills(e) /\ e = "d" THEN killedDD + 1 ELSE killedDD
        /\ killedOther' = IF Kills(e) /\ e # "d" THEN killedOther + 1 ELSE killedOther
        /\ previousKey' = KeyToRemember(e)
        /\ UNCHANGED running

UIEvent(e) == EntryEvent(e) \/ Quit(e) \/ HelpEvent(e) \/ GridEvent(e)

Next == Signal \/ Terminate \/ DrawTick \/ \E e \in Events : UIEvent(e)

(* select chooses at random among the ready cases, so a case that stays    *)
(* ready, as that of a signal in the channel does, is not passed over for  *)
(* ever.  The user and the sender of signals promise nothing.              *)
Spec == Init /\ [][Next]_vars /\ WF_vars(Terminate)
-----------------------------------------------------------------------------
(* A press of d takes part in one kill at most: three d kill once, d3 after *)
(* dd does not kill.  The press still held in previousKey is unused.       *)
Held == IF previousKey = "d" THEN 1 ELSE 0
EachDOnce == 2 * killedDD + killedOther + Held <= dPressed

(* The entry is edited only where its text is seen: help and editing       *)
(* exclude each other, although either is entered by keys of its own.      *)
HelpExcludesEditing == ~(HelpVisible /\ editing)

(* What is on the screen is what the loop believes to be there, so that    *)
(* keys act on what is shown, in every program that starts without help.   *)
ScreenIsWhatIsVisible == ~HelpAtStart => (HelpVisible <=> screen = "help")

(* Every line graph has the scale of the configuration, and the keys never *)
(* bring one that is positive to zero or below, where a graph has all its  *)
(* points in one column or to the right of its canvas.  (Neither the file  *)
(* nor --graphscale must name a positive one; l leaves such a scale alone, *)
(* h raises it.)                                                           *)
ScalesAgree ==
    /\ scale >= 1 \/ (InitScale < 1 /\ scale >= InitScale)
    /\ \A item \in Lines : lineScale[item] = scale

(* No key quits and none kills while the filter is being edited. *)
EditingIsSafe ==
    [][ editing => UNCHANGED kills /\ (running' # running => sigTerm' < sigTerm) ]_vars

(* A termination signal ends the loop, whatever the user goes on typing. *)
SignalTerminates == sigTerm > 0 ~> ~running
=============================================================================
