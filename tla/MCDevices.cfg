SPECIFICATION Spec
CONSTANTS
    r1 = r1
    r2 = r2
    Gpus = {g1, g2}
    Remotes = {r1, r2}
    d = d
    keeper = keeper
    c1 = c1
    c2 = c2
    Domains = {d}
    Readers = {keeper, c1, c2}
    DomainOf <- OneDomain
    Keepers = {keeper}
    Configs <- Setups
    MaxReadings = 2
    Free = free
INVARIANTS
    DevTypeOK
    OneReading
    WholeCopy
PROPERTIES
    NeverOlder
    SensorsKnown
    StartupReturns
    UpdateReturns
