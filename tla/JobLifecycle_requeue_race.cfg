CONSTANTS
    Keys = {k1}
    Clients = {c1, c2}
    ReconcileLimit = 1
    Faults = {"start_error"}
    OperatorStarts = FALSE
SPECIFICATION Spec
PROPERTIES
    SucceededIsFinal
\* Every request may be answered and every job ended: nothing is left to do.
CHECK_DEADLOCK FALSE
