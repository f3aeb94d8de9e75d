SPECIFICATION MCSpec
CONSTANTS
    Input <- Texts
    Telling <- Tellings
    ChunkSize = 5
    Overlap = 2
    Notice = 2
    \* Two syncs, one push, one failing request.
    MaxPushes = 1
    MaxSyncs = 2
    MaxRequestFaults = 1
    Dataset <- Questions
    Gold <- GoldenFiles
    Answers <- Given
    Grades <- Judged
    Split = "dev"
    MaxAttempts = 1
    MaxEdits = 1
    \* Two questions with two attempts each, asked up to four times, two faults.
    Question = {1, 2}
    MaxTries = 2
    MaxAsks = 4
    MaxDeaths = 2
    \* Two rows, two requests at a time, one decision of the repository,
    \* one change of a text, two faults.
    Row = {1, 2}
    RepoRow = {11}
    Thread = {1, 2}
    NoMemory <- Unset
    MaxText = 2
    MaxLosses = 2
    \* Two uploads, two faults.
    Queued = {1, 2}
    MaxFailures = 2
    Upload = {1, 2, 3}
    Project = {"p"}
    User = {"x"}
    Name = {"n"}
    ProjectOf <- OneProject
    UserOf <- OneUser
    NameOf <- OneName
    KindOf <- GitLogs
    Size <- OneByte
    Bytes <- Cardinality
    ProjectLimit = 3
    UserLimit = 3
    CountLimit = 3
    SlowRequests = TRUE
    MaxMishaps = 0
INVARIANTS
    StoredIsWhole
    RowTellsTheTruth
    ReportsPair
    PassIsDeserved
    RecordsSurvive
    
    CancelRemembered
    VersionsConverge
CHECK_DEADLOCK FALSE
