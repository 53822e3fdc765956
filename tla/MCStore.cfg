SPECIFICATION Spec
CONSTANTS
    p1 = p1
    p2 = p2
    Settings <- MCSettings
    MaxAttempts = 2
INVARIANTS NeverTorn NoLeftovers RefusedForCause Recoverable BackupTrails
PROPERTY ImplementsDurableFile
CHECK_DEADLOCK FALSE
