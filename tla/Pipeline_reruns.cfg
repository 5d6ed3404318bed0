CONSTANTS
    MaxRuns = 2
    MaxTroubles = 1
    Callers = {"direct"}
    Modes = {"full", "text_only", "refresh_comments", "refresh_llm"}
    Policies = {1, 2}
    HardPolicies = {1}
    ContentTypes = {"video", "article"}
    Platforms = {"youtube"}
    TransientRetries = 1
    RateLimitRetries = 2
    LlmMaxRetries = {}
    Faults = {"no_url", "step", "crash", "cancel", "cleanup"}
SPECIFICATION Spec
INVARIANTS
    GateAgreesWithStatus
    SucceededIsComplete
    DigestMatchesOutline
    NoRowLeftRunning
    CheckpointBacked
PROPERTIES
    LedgerIsKept
    RecordedWorkIsKept
    RunEnds
\* The job's last run has ended.
CHECK_DEADLOCK FALSE
