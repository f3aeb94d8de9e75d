SPECIFICATION FairSpec
CONSTANTS
    s1 = s1
    s2 = s2
    Source <- OneSource
    MaxRuns = 2
    MaxCrashes = 2
    Faults <- AllFaults
PROPERTIES
    SyncResolved
CHECK_DEADLOCK FALSE
