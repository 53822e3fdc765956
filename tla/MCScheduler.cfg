SPECIFICATION Spec
CONSTANTS
    Collectors = {c1}
    Intervals = {1, 5}
    Retries = {0, 2}
    RawStatuses = {"ok", "denied", "bogus"}
    RawQualities = {"fresh", "stale", "bogus"}
    NsPerMs = 2
    MaxBackoff = 3
    MaxInterval = 5
    DefaultRetry = 1
    FailureCap = 3
    MaxInteger = 12
    MaxClock = 8
INVARIANTS DueBounded VisitedNotDue HonestResult SleepIsExact
PROPERTY PendingNotPostponed
CHECK_DEADLOCK FALSE
