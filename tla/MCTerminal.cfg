SPECIFICATION Spec
CONSTANTS
    Platforms = {"linux", "macos"}
    EarlyExits = {"linux"}
INVARIANTS Restored ExactlyOnce NeverKilledDrawing
CHECK_DEADLOCK FALSE
