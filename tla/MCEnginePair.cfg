SPECIFICATION EngineSpec
CONSTANTS
    Collectors = {cpu, hwmon}
    Proxied = {hwmon}
    Detail = {}
    Intervals = {2}
    Retries = {1}
    RawStatuses = {"denied", "ok"}
    RawQualities = {"fresh"}
    ReplyStatuses = {"ok"}
    NsPerMs = 1
    MaxBackoff = 2
    MaxInterval = 2
    DefaultRetry = 1
    FailureCap = 1
    MaxInteger = 4
    MaxClock = 1
    PollMs = 1
    RetryMs = 1
    DeferNs = 1
    QueryNs = 1
    Floor <- MCFloor
    Target <- NoTarget
    StartInterval = 2
    HistoryCapacity = 1
INVARIANT PendingExact
CHECK_DEADLOCK FALSE
