SPECIFICATION FairSpec
CONSTANTS
  j1 = j1
  j2 = j2
  p1 = p1
  Jobs = {j1, j2}
  NoJob = NoJob
  Plans = {p1}
  PlanOf <- MCPlanOf
  Target <- MCTarget
  MaxUpload = 2
  MaxTimeouts = 2
  MaxPerPass = 1
  MaxSales = 2
  MaxFaults = 2
INVARIANTS
  StockWithinTarget
  FaultFreeSucceeds
PROPERTIES
  SettledForGood
  EventuallySettled
CHECK_DEADLOCK FALSE
