SPECIFICATION FairSpec
CONSTANTS
    t1 = t1
    t2 = t2
    h1 = h1
    h2 = h2
    h3 = h3
    plain = plain
    broken = broken
    Tasks = {t1, t2}
    HostRows = {h1, h2}
    Settings = {plain}
    BadSettings = {}
    JsonRow <- EdgeOnlyRow
    NoConfig = NoConfig
    NoFetch = NoFetch
    NoKey = NoKey
    Keep = 2
    MaxGen = 0
    MaxVersion = 3
    MaxOps = 2
    MaxWrites = 1
    MaxFaults = 0
PROPERTIES
    UnchangedSwapIsIdentical
CHECK_DEADLOCK FALSE
