SPECIFICATION FairSpec
CONSTANTS
  Sources = {s1, s2}
  Merges = {m1, m2, m3}
  Guests = {m1, m2}
  MaxActive = 2
  MaxGuest = 1
  Removable = {m1}
  Lost = {"create", "rollback"}
  MaxFaults = 1
INVARIANTS
  LocksExact
  NoQuotaLost
  DuplicatesReported
  HalfwayNeedsFault
PROPERTY
  EveryMergeEnds
CHECK_DEADLOCK FALSE
