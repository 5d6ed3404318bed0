CONSTANTS
    Deliveries = {d1, d2}
    VideoDigests = {}
    DailyDigests = {day}
    ApiDigests = {report}
    Notices = {}
    Retriers = {r1, r2}
    ClaimLimit = 2
    DELIVERY_MAX_ATTEMPTS = 3
    Faults = {"sender_crash", "retrier_crash", "send_error", "lost_reply", "no_lock"}
SPECIFICATION Spec
SYMMETRY Symmetry
INVARIANTS
    QueuedIsReclaimable
    AttemptBound
    OneLivePerDigest
    WorkerMailsExplained
PROPERTIES
    SettledIsFinal
    FollowsRetriedMail
\* Every row may be settled and nothing be left to do.
CHECK_DEADLOCK FALSE
