SPECIFICATION Spec
CONSTANTS
    NoItem = NoItem
    Cell <- MCCell
    RowLists <- MCRowLists
    Readings <- MCReadings
    Runes = {"x"}
    MaxFilter = 1
    Matches <- MCMatches
    Methods = {"c", "p"}
    Heights = {2, 3}
    MaxEvents = 3
CHECK_DEADLOCK FALSE
INVARIANTS
    ProcTypeOK
    CursorIsTarget
    OnlyOverlapCorrupts
PROPERTIES
    TableSpec
