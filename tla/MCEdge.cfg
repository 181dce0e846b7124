SPECIFICATION Spec
CONSTANTS
    d1 = d1
    u1 = u1
    u2 = u2
    u3 = u3
    ip1 = ip1
    ip2 = ip2
    lax = lax
    strict = strict
    Engines = {lax, strict}
    NoEngine = NoEngine
    FirstEngines = {lax, NoEngine}
    Slots = {s1, s2}
    Domains = {d1}
    Keys <- MCKeys
    Shapes <- MCShapes
    HostRows <- MCHostRows
    FirstRows <- MCFirstRows
    Responses <- MCResponses
    NoHost = NoHost
    KeyLen = 1
    Overhead = 1
    MaxBytes = 7
    MaxEntryBytes = 3
    MaxEntries = 2
    MaxTime = 2
    Strides = {2}
    FailClosed = TRUE
    MaxCountKeys = 1
    KeepCountKeys = 1
    MaxHours = 1
    RecentMax = 1
    ObserverQueue = 1
    MaxRequests = 3
    MaxChanges = 1
INVARIANTS
    TypeOK
    CacheAccounting
    NothingHarmfulServed
    EventsAccounted
PROPERTIES
    HitIsFaithful
    ImplementsBoundedCache
SYMMETRY SlotSymmetry
CHECK_DEADLOCK FALSE
