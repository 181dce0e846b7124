SPECIFICATION FairSpec
CONSTANTS
    Recoveries = {r1, r2}
    Threshold = 2
    MaxFaults = 1
    MaxOps = 1
INVARIANT
    TypeOK

    
    
CHECK_DEADLOCK FALSE
