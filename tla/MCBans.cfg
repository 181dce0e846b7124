SPECIFICATION FairSpec
CONSTANTS
    a1 = a1
    c1 = c1
    IPs = {a1}
    Calls = {c1}
    Worker = Worker
    Loop = Loop
    Pruner = Pruner
    NoIP = NoIP
    NoCache = NoCache
    Thresholds = {1, 2}
    DefaultThreshold = 2
    MaxEvents = 2
    MaxCalls = 1
    MaxFaults = 1
INVARIANTS
    TypeOK
    BansAreOwed
    LiftsAreOwed
    CacheAgrees
PROPERTY
    BansConverge
