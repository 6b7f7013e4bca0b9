CONSTANTS
  r1 = r1  r2 = r2  r3 = r3  e1 = e1  e2 = e2  o1 = o1  o2 = o2  k1 = k1  k2 = k2  v1 = v1  x1 = x1  x2 = x2
  Requests = {r1, r2}
  Bundles = {e1, e2}
  Origins = {o1, o2}
  Revisions = {v1}  NoRevision = NoRevision
  Kids = {k1}
  Keys = {x1, x2}
  None = None
  MaxEdits = 2
SYMMETRY Symmetry
CHECK_DEADLOCK FALSE
SPECIFICATION Spec
INVARIANTS ServedAsValidated SignsWithOwn
PROPERTIES StaysWarm
