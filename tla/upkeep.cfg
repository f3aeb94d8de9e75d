SPECIFICATION MCSpec
CONSTANTS
    a = a
    b = b
    c = c
    r1 = r1
    r2 = r2
    Upload <- ThreeUploads
    Old <- Replaces
    Git = {c}
    Refresher = {r1, r2}
    MaxGen = 2
    MaxFaults = 1
    \* Three pull requests, two on a page, two syncs, one touch, one fault.
    MaxPr = 3
    Sync = {"s1", "s2"}
    PageSize = 2
    MaxTouches = 1
    MaxPrFaults = 1
    \* Two documents, two failing statements or deaths of the process.
    Doc = {1, 2}
    MaxSchemaFaults = 2
INVARIANTS
    SummaryIsCurrent
    MarkIsHonest
    ServedWhole
PROPERTIES
    StaleRepaired
    OrderedPrJudged
    UpgradeConverges
CHECK_DEADLOCK FALSE
