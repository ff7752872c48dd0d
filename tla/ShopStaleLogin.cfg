SPECIFICATION PartsSpec
CONSTANTS
  Threads = {t1, t2, t3}
  Keys = {k1, k2}
  Entries = {e1, e2, e3}
  None = None
  Parts = {"shop"}
  Watched = {t1}
  Requests = {t1, t2}
  NoRequest = NoRequest
  Accounts = {a1, a2}
  First = a1
  NoCookie = NoCookie
  MaxExpired = 1
  MaxClashes = 1
  MaxChanges = 1
  MaxFaults = 1
INVARIANT
  CookieOfAccount
CHECK_DEADLOCK FALSE
