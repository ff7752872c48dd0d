SPECIFICATION Spec
CONSTANTS
  Sources = {s1, s2}
  Merges = {m1, m2}
  Guests = {m1}
  MaxActive = 2
  MaxGuest = 1
  Removable = {}
  Lost = {"delete"}
  MaxFaults = 1
INVARIANT
  UndoneIsIntact
CHECK_DEADLOCK FALSE
