CONSTANTS
    Keys = {k1, k2}
    Clients = {c1}
    ReconcileLimit = 2
    Faults = {"abandon", "start_error", "activity_error", "lost_completion"}
    OperatorStarts = FALSE
SPECIFICATION Spec
PROPERTIES
    FollowsStatusMachine
\* Every request may be answered and every job ended: nothing is left to do.
CHECK_DEADLOCK FALSE
