SPECIFICATION PartsSpec
CONSTANTS
  r1 = r1
  r2 = r2
  Reqs = {r1, r2}
  Totals = {1, 2}
  Prizes = {0, 1}
  RevealLimits = {1, 2}
  MaxRows = 2
  MaxReroutes = 1
  Parts = {"play", "ledger", "door"}
  Sub = Sub
  Key = Key
  NoTier = NoTier
  Subs <- MCSubs
  Keys <- MCKeys
  Tiers <- MCTiers
  Configs <- MCConfigs
  NoRow = NoRow
  MaxPrize = 2
  MaxChanges = 1
  MaxFaults = 1
  Cards = {k1, k2}
  CardLimit = 2
  ClientLimit = 3
  Window = 3
  Lockout = 3
  Delay = 1
  SearchLimit = 2
  SearchWindow = 3
  MaxTime = 7
INVARIANTS
  RoundsBounded
  OneActiveRow
  QueuedIsWon
  FinishedIsQueued
  DepositFollowsCard
  AttemptsBounded
PROPERTIES
  FrozenOnceQueued
  OverdraftHasCause
SYMMETRY ReqSymmetry
