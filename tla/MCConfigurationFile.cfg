CONSTANTS
    Numbers = {"7", "30", "1000000000"}
    Nanoseconds <- MCNanoseconds
    Durations = {"1s"}
    Strings = {"default", "all", "url"}
    Schemes = {"default", "nord", "unnamed", "mine"}
    NameOf <- MCNameOf
    Arguments <- MCArguments
    UserFiles <- MCUserFiles
    MaxWrites = 2
SPECIFICATION Spec
INVARIANTS
    OnlyGivenOverride
