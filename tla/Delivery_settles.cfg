CONSTANTS
    Deliveries = {d1}
    VideoDigests = {video}
    DailyDigests = {}
    ApiDigests = {report}
    Notices = {notice}
    Retriers = {r1, r2}
    ClaimLimit = 1
    DELIVERY_MAX_ATTEMPTS = 3
    Faults = {"sender_crash", "send_error", "lost_reply", "stall"}
SPECIFICATION FairSpec
INVARIANTS
    NoConcurrentRetry
    SentHasMail
PROPERTIES
    DeliverySettles
\* The row may be settled and nothing be left to do.
CHECK_DEADLOCK FALSE
