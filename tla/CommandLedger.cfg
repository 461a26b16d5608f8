CONSTANTS
    old = old
    new = new
    Cmds = {old, new}
    Kind <- MCKind
    IssuedAt <- MCIssued
    Stale = {new}
    Expiring = {old}
    MaxFaults = 1
    MaxCrashes = 1
SPECIFICATION FairSpec
CHECK_DEADLOCK FALSE
INVARIANTS AtMostOnce OutcomeHonest
PROPERTY EveryCommandSettles
