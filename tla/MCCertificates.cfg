SPECIFICATION Spec
CONSTANTS
    c1 = c1
    i1 = i1
    i2 = i2
    l1 = l1
    l2 = l2
    a1 = a1
    Certs = {c1}
    Initial = {c1}
    Instances = {i1, i2}
    Loops = {l1, l2}
    Calls = {a1}
    On <- MCOn
    Nobody = Nobody
    MaxIssued = 2
    MaxFaults = 1
    MaxCalls = 2
INVARIANTS
    TypeOK
    EnvIsOwners
    OneRenewer
    UnservedIsDue
PROPERTIES
    NewestKept
