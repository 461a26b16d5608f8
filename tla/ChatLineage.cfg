CONSTANTS
    main = main
    other = other
    cm = cm
    co = co
    Devices = {main, other}
    Host = main
    Cmds = {cm, co}
    By <- Sender
    Old = Old
    None = None
    Budgets <- Cutovers
SPECIFICATION FairSpec
CHECK_DEADLOCK FALSE
INVARIANTS OneLineage HistoryKept NothingForked CommandsKept
PROPERTIES Answered
