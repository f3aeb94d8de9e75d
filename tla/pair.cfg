SPECIFICATION FairSpec
CONSTANTS
    u1 = u1
    u2 = u2
    u3 = u3
    p1 = p1
    p2 = p2
    x1 = x1
    n1 = n1
    n2 = n2
    n3 = n3
    Upload <- PairUploads
    Project <- OneProject
    User <- OneUser
    Name <- OneName
    ProjectOf <- PairProject
    UserOf <- PairUser
    NameOf <- PairName
    KindOf <- PairKind
    Size <- PairSize
    Bytes <- SumSizes
    ProjectLimit = 3
    UserLimit = 3
    CountLimit = 2
    SlowRequests = FALSE
    MaxFaults = 2
INVARIANTS
    TypeOK
    EveryFileOwned
    IndexedIsComplete
    NoVersionLost
PROPERTIES
    ReleasedMeansGone
    ImplementsLedger
    EventuallySettled
CHECK_DEADLOCK FALSE
