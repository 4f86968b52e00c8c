SPECIFICATION Spec
CONSTANTS
    HasProc = TRUE
    HasNet = TRUE
    Lines = {"cpu", "mem"}
    HelpAtStart = FALSE
    InitScale = 7
    MaxD = 4
    MaxScale = 10
CHECK_DEADLOCK FALSE
INVARIANTS
    TypeOK
    EachDOnce
    ScreenIsWhatIsVisible
    ScalesAgree
PROPERTIES
    EditingIsSafe
    SignalTerminates
