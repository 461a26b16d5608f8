CONSTANTS
    m1 = m1
    m2 = m2
    Msgs = {m1, m2}
    MaxRuns = 4
    MaxResume = 1
    Budgets <- Dying
SPECIFICATION Spec
CHECK_DEADLOCK FALSE
INVARIANTS OneRuntime
