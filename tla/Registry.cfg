CONSTANTS
  n1 = n1  n2 = n2  n3 = n3  bad = bad
  o1 = o1  o2 = o2  o3 = o3  jump = jump  unsafe = unsafe
  Ids = {n1, n2, n3, bad}
  Malformed = {bad}
  Tld <- TldOf
  Origins = {o1, o2, o3, jump, unsafe}
  Unsafe = {unsafe}
  Service = jump
  Nowhere = Nowhere
  MaxNodes = 3  MaxEdges = 2
CHECK_DEADLOCK FALSE
SPECIFICATION Spec
INVARIANTS TypeOK NothingLost
PROPERTIES WalksStayInside
