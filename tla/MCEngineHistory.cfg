SPECIFICATION EngineSpec
CONSTANTS
    Collectors = {hwmon}
    Proxied = {hwmon}
    Detail = {hwmon}
    Intervals = {1}
    Retries = {1, 2}
    RawStatuses = {"ok"}
    RawQualities = {"fresh"}
    ReplyStatuses = {"ok", "unavailable"}
    NsPerMs = 1
    MaxBackoff = 2
    MaxInterval = 3
    DefaultRetry = 1
    FailureCap = 1
    MaxInteger = 8
    MaxClock = 3
    PollMs = 1
    RetryMs = 2
    DeferNs = 1
    QueryNs = 2
    Floor <- MCFloor
    Target <- MCTarget
    StartInterval = 1
    HistoryCapacity = 2
INVARIANT HistoryMonotone
CHECK_DEADLOCK FALSE
