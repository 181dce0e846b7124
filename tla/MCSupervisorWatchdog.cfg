SPECIFICATION FairSpec
CONSTANTS
    q1 = q1
    v1 = v1
    Requests = {q1}
    Recoveries = {}
    Main = Main
    CrashThreshold = 2
    MaxRuns = 2
PROPERTY WatchdogRestarts
CHECK_DEADLOCK FALSE
