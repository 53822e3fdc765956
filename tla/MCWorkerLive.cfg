SPECIFICATION FairSpec
CONSTANTS
    s1 = s1
    s2 = s2
    j1 = j1
    j2 = j2
    f1 = f1
    f2 = f2
    f3 = f3
    page = page
    all = all
    Sources <- LiveSources
    Jobs = {j1, j2}
    Frames = {f1, f2}
    None = None
    QueryNs = 1
    FrameNs = 1
    RetryNs = 1
    GraceNs = 1
PROPERTIES RequestEnds ClosedJobFreed ImplementsPool
CHECK_DEADLOCK FALSE
