CONSTANTS
    N = 2
    Host = 1
    Budgets <- Faults
SPECIFICATION FairSpec
CHECK_DEADLOCK FALSE
INVARIANTS Recoverable CursorHonest CaughtUp NoEditLost
PROPERTIES ImplementsChatLog Settles
