SPECIFICATION Spec
CONSTANTS
    MaxLogSize = 2
    Lengths = {1, 3}
    MaxFiles = 6
INVARIANTS
    LogTypeOK
    Bounded
    Retried
PROPERTIES
    LosesOnlyTheOldest
