CONSTANTS
    Keys = {k1}
    Clients = {c1, c2}
    ReconcileLimit = 1
    Faults = {"abandon", "start_error", "start_timeout", "slow_start"}
    OperatorStarts = TRUE
SPECIFICATION FairSpec
INVARIANTS
    RunningIsOwned
PROPERTIES
    JobConverges
\* Every request may be answered and every job ended: nothing is left to do.
CHECK_DEADLOCK FALSE
