CONSTANTS
  Second = 2  Skew = 2  MaxTTL = 4  OutboundTTL = 2  Deadline = 2
  MaxClock = 10  MaxDrift = 3
CHECK_DEADLOCK FALSE
SPECIFICATION Spec
INVARIANTS TypeOK ExchangeIsBounded
PROPERTIES HonouredInTime RegularHonoured
