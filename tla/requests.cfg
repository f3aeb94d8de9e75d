SPECIFICATION MCSpec
CONSTANTS
    Doc = {"d1", "d2"}
    Users <- TwoUsers
    OwnerOf <- Uploader
    MaxTries = 2
    MaxFaults = 1
    \* One search, one state query and one unknown tool, in batches of at most two,
    \* for two rounds.
    Lookups = {"search"}
    Sql = {"sql"}
    Unknown = {"unknown"}
    MaxRounds = 2
    MaxBatch = 2
    MaxDecision = 4
    Soft = 1
    Hard = 2
    Dates <- TwoDatings
    Topics <- ThreeTopics
    Item = {"doc", "old", "first", "second"}
    Home <- FourHomes
    Docs = 9
    ItemGens = 2
    RowLimit = 2
    ChunkLimit = 1
    NoItem = "none"
    \* Three queries; two messages are always kept.
    Query = {"q1", "q2", "q3"}
    Keep = 2
    \* Two sessions, two threads, and a clock that outlasts session and grace.
    State = {1, 2}
    Asker = {"t1", "t2"}
    Ttl = 1
    Grace = 1
    MaxTime = 4
    \* Two probes for one worker, two requests.
    Checks = {"mysql", "chroma"}
    ReadyRequest = {"r1", "r2"}
    Workers = 1
    \* Three decisions, two generations, three suggestions and two requests; for
    \* actions two rows and two suggestions do.
    Category = {"decision", "action"}
    MaxSug = 3
    MaxTx = 2
    MaxRow = 3
    MaxGen = 2
    Kinds = {"supersede"}
    ActionRows = 2
    ActionGens = 1
    ActionKinds = {"set_due_date", "complete_action"}
    Machines = {"deletion", "loop", "history", "question", "chat", "github", "health",
                "decisions", "actions"}
INVARIANTS
    ProjectWhole
    DeletionNeverDeadlocks
    CallsResolvedOnce
    AnswerIsGrounded
    ChainsTellTheStory
    EvidenceFromOneGeneration
    SessionRemembers
    GoneStaysGone
    ReadyIsEarned
    HiddenHasVisibleSuccessor
    AcceptedStands
    PendingSupersedeActionable
CHECK_DEADLOCK FALSE
