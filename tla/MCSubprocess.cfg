SPECIFICATION LiveSpec
CONSTANTS
    Streams = {stdout, stderr}
    FirstStream = stdout
    Capacity = 1
    Output = 2
    Timeout = 1
    MaxTime = 2
    Endless = FALSE
    Escapes = TRUE
    MaxFd = 8
    Limit = 9
    Starts <- MCStarts
INVARIANTS OkIsComplete NothingLeftBehind NothingHeld HelperStreams
PROPERTY CallEnds
CHECK_DEADLOCK FALSE
