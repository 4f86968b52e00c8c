SPECIFICATION TableSpec
CONSTANTS
    Cell <- MCCell
    NoItem = NoItem
    RowLists <- MCRowLists
    Heights <- MCHeights
INVARIANTS
    TableTypeOK
PROPERTIES
    CursorOnARow
    CursorInView
    JumpsRecover
    DrawFollowsItem
