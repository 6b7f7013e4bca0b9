CONSTANTS
  r1 = r1  r2 = r2  r3 = r3  i1 = i1  i2 = i2  k1 = k1  k2 = k2  x1 = x1  x2 = x2
  Requests = {r1, r2}
  Issuers = {i1}
  Kids = {k1}
  Keys = {x1}
  Unimportable = {}
  Revoked = {}
  NoKey = NoKey  NoKid = NoKid  NoReq = NoReq
  TTL = 3  NegTTL = 1  Cooldown = 1  Deadline = 2
  MaxNegative = 2
  MaxClock = 4  MaxChanges = 0
CHECK_DEADLOCK FALSE
SPECIFICATION FairSpec
PROPERTIES FetchTimeoutIsUnavailable
