CONSTANTS
    Keys = {k1}
    Polls = {p1, p2}
    Workers = {w1, w2}
    Operator = operator
    OperatorStarts = TRUE
    Faults = {"poll_stall", "no_lock", "mark_error", "slow_start"}
SPECIFICATION Spec
SYMMETRY Symmetry
INVARIANTS
    OneDispatcher
    JobRunsOnce
    RunnerHasRow
PROPERTIES
    FollowsStatusMachine
\* Every poll may have ended and nothing be left to do.
CHECK_DEADLOCK FALSE
