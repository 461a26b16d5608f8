CONSTANTS
    N = 2
    Host = 1
    Budgets <- Gap
SPECIFICATION Spec
CHECK_DEADLOCK FALSE
INVARIANTS AllCaughtUp
