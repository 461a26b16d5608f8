SPECIFICATION FairSpec
CONSTANTS
  p1 = p1
  p2 = p2
  k1 = k1
  k2 = k2
  k3 = k3
  Callers = {p1, p2}
  Calls = {k1, k2, k3}
  By <- Owners
  Chats = {x, y}
  MaxDials = 2
  MaxPending = 1
  MaxSessions = 3
  Budgets <- Faults
  NoCall = NoCall
INVARIANTS
  ServersReaped
  OfflineTold
  NudgeAccounted
PROPERTIES
  NeverPinned
  Settles
  ComesBack
CHECK_DEADLOCK FALSE
