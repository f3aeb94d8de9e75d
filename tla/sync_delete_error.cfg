SPECIFICATION Spec
CONSTANTS
    s1 = s1
    s2 = s2
    Source <- OneSource
    MaxRuns = 1
    MaxCrashes = 0
    Faults <- DeleteFault
INVARIANTS
    PublishedIsComplete
CHECK_DEADLOCK FALSE
