SPECIFICATION Spec
CONSTANTS
  c1 = c1
  c2 = c2
  c3 = c3
  NoCard = NoCard
  Prize <- MCPrize
  Cards = {c1, c2, c3}
  UserOf <- MCUserDistinct
  PoolSize = 2
  MaxRetries = 2
  Attempts = 1
  BatchLimit = 2
  LateBinds = "attempt"
  Denied = {"load", "bind"}
  MaxFaults = 2
INVARIANTS
  AtMostOneGrant
  RightQuota
  FaultFreeIsPaid
PROPERTY
  KeepsPromise
CHECK_DEADLOCK FALSE
