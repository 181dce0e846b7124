SPECIFICATION FairSpec
CONSTANTS
    t1 = t1
    t2 = t2
    h1 = h1
    h2 = h2
    h3 = h3
    plain = plain
    broken = broken
    Tasks = {t1, t2}
    HostRows = {h1, h2, h3}
    Settings = {plain, broken}
    BadSettings = {broken}
    JsonRow <- EdgeOnlyRow
    NoConfig = NoConfig
    NoFetch = NoFetch
    NoKey = NoKey
    Keep = 2
    MaxGen = 1
    MaxVersion = 4
    MaxOps = 2
    MaxWrites = 1
    MaxFaults = 1
INVARIANTS
    TypeOK
    OnlyValidatedServed
    SoloReloadServesDatabase
PROPERTIES
    HistoryNeverRegresses
    TraefikFollows
CHECK_DEADLOCK FALSE
