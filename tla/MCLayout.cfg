SPECIFICATION Spec
CONSTANTS
    MaxRows = 3
    MaxWidgets = 3
    MaxSpan = 3
CHECK_DEADLOCK FALSE
INVARIANTS
    LayoutTypeOK
    ColumnsFit
    TopDown
    AtMostTwice
    EveryWidgetIsPlaced
    EachCallConsumes
