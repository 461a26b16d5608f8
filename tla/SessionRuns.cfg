CONSTANTS
    m1 = m1
    m2 = m2
    Msgs = {m1, m2}
    MaxRuns = 4
    MaxResume = 1
    Budgets <- Faults
SPECIFICATION FairSpec
CHECK_DEADLOCK FALSE
INVARIANTS SteerKept RunsInMap StatusBacked AwaitingAnswerable StreamsSettle
PROPERTIES Answered InterruptSettles ComesToRest
