SPECIFICATION FairSpec
CONSTANTS
  c1 = c1
  c2 = c2
  c3 = c3
  NoCard = NoCard
  Prize <- MCPrize
  Cards = {c1, c2}
  UserOf <- MCUserDistinct
  PoolSize = 2
  MaxRetries = 2
  Attempts = 2
  BatchLimit = 2
  LateBinds = "any"
  Denied = {"load", "plan", "bind", "observe"}
  MaxFaults = 2
INVARIANTS
  OneLeasePerCard
  IssuedIsReal
PROPERTY
  EventuallySettled
CHECK_DEADLOCK FALSE
