SPECIFICATION Spec
CONSTANTS
  c1 = c1
  c2 = c2
  c3 = c3
  NoCard = NoCard
  Prize <- MCPrize
  Cards = {c1, c2}
  UserOf <- MCUserShared
  PoolSize = 2
  MaxRetries = 2
  Attempts = 1
  BatchLimit = 2
  LateBinds = "none"
  Denied = {}
  MaxFaults = 0
INVARIANT
  DoneIsBound
CHECK_DEADLOCK FALSE
