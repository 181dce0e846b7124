SPECIFICATION FairSpec
CONSTANTS
    q1 = q1
    v1 = v1
    Requests = {q1}
    Recoveries = {v1}
    Main = Main
    CrashThreshold = 2
    MaxRuns = 3
INVARIANT SingleProcess
CHECK_DEADLOCK FALSE
