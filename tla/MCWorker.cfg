SPECIFICATION Spec
CONSTANTS
    s1 = s1
    s2 = s2
    j1 = j1
    j2 = j2
    f1 = f1
    f2 = f2
    f3 = f3
    page = page
    all = all
    Sources <- SafetySources
    Jobs = {j1, j2}
    Frames = {f1, f2, f3}
    None = None
    QueryNs = 1
    FrameNs = 1
    RetryNs = 1
    GraceNs = 1
SYMMETRY Heap_Symmetry
INVARIANTS RefsExact ReplyIsCurrent ReadersBounded NoLostWakeup
PROPERTIES UnreadReplyKept ImplementsSession
CHECK_DEADLOCK FALSE
