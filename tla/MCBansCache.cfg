SPECIFICATION FairSpec
CONSTANTS
    a1 = a1
    c1 = c1
    IPs = {a1}
    Calls = {c1}
    Worker = Worker
    Loop = Loop
    Pruner = Pruner
    NoIP = NoIP
    NoCache = NoCache
    Thresholds = {2}
    DefaultThreshold = 2
    MaxEvents = 1
    MaxCalls = 2
    MaxFaults = 0
INVARIANT CacheIsSourceOfTruth
