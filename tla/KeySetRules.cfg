CONSTANTS
  k1 = k1  k2 = k2
  Kids = {k1, k2}  NoKid = NoKid
  MaxKeys = 3
SYMMETRY KidSymmetry
CHECK_DEADLOCK FALSE
SPECIFICATION Spec
INVARIANTS TypeOK VerdictIgnoresOrder KidsResolve PublishedIsReadable
