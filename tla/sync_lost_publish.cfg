SPECIFICATION Spec
CONSTANTS
    s1 = s1
    s2 = s2
    Source <- OneSource
    MaxRuns = 2
    MaxCrashes = 0
    Faults <- LostAck
INVARIANTS
    SnapshotStaysReadable
CHECK_DEADLOCK FALSE
