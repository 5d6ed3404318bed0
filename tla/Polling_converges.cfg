CONSTANTS
    Keys = {k1, k2}
    Polls = {p1}
    Workers = {w1, w2}
    Operator = operator
    OperatorStarts = FALSE
    Faults = {"poll_error", "poll_stall", "crash", "no_lock", "slow_start"}
SPECIFICATION FairSpec
PROPERTIES
    PolledJobConverges
\* The poll may have ended and nothing be left to do.
CHECK_DEADLOCK FALSE
