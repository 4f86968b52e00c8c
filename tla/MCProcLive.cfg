SPECIFICATION Spec
CONSTANTS
    NoItem = NoItem
    Cell <- MCCell
    RowLists <- MCRowLists
    Readings <- MCFewReadings
    Runes = {"x"}
    MaxFilter = 1
    Matches <- MCMatches
    Methods = {"c", "p"}
    Heights = {2}
    MaxEvents = 2
CHECK_DEADLOCK FALSE
PROPERTIES
    Settles
    HandlerReturns
