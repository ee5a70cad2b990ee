SPECIFICATION Spec
CONSTANTS
  b1 = b1  p1 = p1  p2 = p2  p3 = p3  s1 = s1  s2 = s2
  e1 = e1  e2 = e2  w1 = w1  w2 = w2
  Ids = {b1}
  Products = {p1, p2}
  Steps = {s1, s2}
  Editors = {e1, e2}
  Workers = {w1}
  None = None
  Deleted = Deleted
SYMMETRY Symmetry
INVARIANT OneInvariant
CHECK_DEADLOCK FALSE
