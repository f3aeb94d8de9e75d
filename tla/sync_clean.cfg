SPECIFICATION Spec
CONSTANTS
    s1 = s1
    s2 = s2
    Source <- TwoSources
    MaxRuns = 2
    MaxCrashes = 1
    Faults <- NoFaults
INVARIANTS
    PublishedIsComplete
    SnapshotStaysReadable
    NothingLeftBehind
PROPERTIES
    ImplementsIndex
CHECK_DEADLOCK FALSE
