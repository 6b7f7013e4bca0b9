CONSTANTS
  r1 = r1  r2 = r2  r3 = r3  i1 = i1  i2 = i2  k1 = k1  k2 = k2  x1 = x1  x2 = x2
  Requests = {r1, r2}
  Issuers = {i1, i2}
  Kids = {k1}
  Keys = {x1, x2}
  Unimportable = {x2}
  Revoked <- RevokedOne
  NoKey = NoKey  NoKid = NoKid  NoReq = NoReq
  TTL = 2  NegTTL = 2  Cooldown = 1  Deadline = 1
  MaxNegative = 1
  MaxClock = 3  MaxChanges = 1
CHECK_DEADLOCK FALSE
SPECIFICATION FairSpec
INVARIANTS NegativeCapped
PROPERTIES EveryRequestEnds
