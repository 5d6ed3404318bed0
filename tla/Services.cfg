CONSTANTS
    Prompts = {"p1", "p2"}
    LlmMaxCalls = 2
    LlmModes = {"auto", "frames_text"}
    ToolRounds = 1
    CuMaxSteps = 1
    ContextKeys = 1
    ContextNames = 3
    Fetches = {f1, f2}
    Bases = {b1, b2}
    Routes = 1
    FeedRetries = 1
    Threshold = 2
    BreakTime = 1
    ReorderTime = 2
    FeedClock = 3
    FeedPolls = 3
    CommentIds = {1, 2}
    TopN = 2
    RepliesPer = 2
    CommentRetries = 1
    CommentPages = 2
    Collections = 1
    Jobs = {j1}
    DayHours = 4
    TargetHour = 1
    Offsets <- SomeOffsets
    ChangeAt = 6
    Horizon = 12
    Starts = 2
    Runs = {1, 2}
    LlmStepNames <- OneLlmStep
    Requests = {r1}
    AuditFiles = {"trace.json", "shot.png", "notes.txt"}
    ModelRetries = 2
    Restarts = 2
    Rows = {1, 2, 3}
    Pending = {2}
    Dates = {1, 2}
    Limit = 1
    TopK = 2
    Changes = 3
    RetryAttempts = 2
    Calls = 2
    CliStarts = 2
SPECIFICATION Spec
INVARIANTS
    AnswerIsEarned
    FallbackStateIsSound
    CommentsKeepPolicy
    DigestEveryDay
    SucceededViewIsWhole
    AnsweredRunIsKept
    WriteTakesEffectOnce
PROPERTIES
    FeedPagesFit
\* A machine may have nothing left to do.
CHECK_DEADLOCK FALSE
