CONSTANTS
    Keys = {k1}
    Clients = {c1, c2, c3}
    ReconcileLimit = 1
    Faults = {"abandon", "start_error", "start_timeout", "slow_start", "activity_error", "lost_completion", "activity_stall"}
    OperatorStarts = TRUE
SPECIFICATION Spec
SYMMETRY Symmetry
INVARIANTS
    PipelineRunsOnce
    SucceededIsEarned
    DispatchedMeansStarted
    StageTellsResult
\* Every request may be answered and every job ended: nothing is left to do.
CHECK_DEADLOCK FALSE
