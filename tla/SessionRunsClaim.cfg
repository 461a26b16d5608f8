CONSTANTS
    m1 = m1
    m2 = m2
    Msgs = {m1, m2}
    MaxRuns = 4
    MaxResume = 1
    Budgets <- Quiet
SPECIFICATION Spec
CHECK_DEADLOCK FALSE
INVARIANTS SteerDelivered
