CONSTANTS
  r1 = r1  r2 = r2  r3 = r3  k1 = k1  k2 = k2  x1 = x1  x2 = x2
  Requests = {r1, r2}
  Kids = {k1}
  Keys = {x1, x2}
  Unimportable = {x2}
  NoKid = NoKid  NoKey = NoKey  NoReq = NoReq
  TTL = 1  Deadline = 1
  MaxClock = 3  MaxEdits = 1
CHECK_DEADLOCK FALSE
SPECIFICATION FairSpec
PROPERTIES MismatchIsConfiguration
