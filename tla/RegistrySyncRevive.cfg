CONSTANTS
    a = a
    b = b
    Fields = {f}
    Ids = {a, b}
    N = 2
    DeviceRow <- MCDeviceRow
    Budgets <- Purges
    WallSteps = FALSE
SPECIFICATION Spec
CHECK_DEADLOCK FALSE
INVARIANTS NoResurrection
