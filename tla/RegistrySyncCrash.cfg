CONSTANTS
    a = a
    b = b
    Fields = {f}
    Ids = {a, b}
    N = 2
    DeviceRow <- MCDeviceRow
    Budgets <- Crashes
    WallSteps = FALSE
SPECIFICATION Spec
CHECK_DEADLOCK FALSE
INVARIANTS CursorHonest WriteNotLost NoFalseReset QuietAgree
