SPECIFICATION Spec
CONSTANTS
    u1 = u1
    u2 = u2
    u3 = u3
    p1 = p1
    p2 = p2
    x1 = x1
    n1 = n1
    n2 = n2
    n3 = n3
    Upload <- TrioUploads
    Project <- TwoProjects
    User <- OneUser
    Name <- ThreeNames
    ProjectOf <- TrioProject
    UserOf <- TrioUser
    NameOf <- TrioName
    KindOf <- TrioKind
    Size <- TrioSize
    Bytes <- SumSizes
    ProjectLimit = 2
    UserLimit = 3
    CountLimit = 1
    SlowRequests = TRUE
    MaxFaults = 1
INVARIANTS
    QuotaRespected
PROPERTIES
    TerminalStaysTerminal
CHECK_DEADLOCK FALSE
