CONSTANTS
    a = a
    b = b
    Fields = {f}
    Ids = {a, b}
    N = 2
    DeviceRow <- MCDeviceRow
    Budgets <- Drops
    WallSteps = FALSE
SPECIFICATION FairSpec
CHECK_DEADLOCK FALSE
INVARIANTS NoResurrection
PROPERTIES NoFlicker Converges
