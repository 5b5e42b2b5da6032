CONSTANTS
  p1 = p1
  p2 = p2
  d1 = d1
  b1 = b1
  s1 = s1
  s2 = s2
  Plans = {p1, p2}
  Addons = {d1}
  Refs = {b1}
  Sessions = {s1, s2}
  Validity = 2
  MaxTime = 1
  Trial = Trial
  NoOrder = NoOrder
SPECIFICATION Spec
CONSTRAINT TwoOrders
SYMMETRY MCSymmetry
INVARIANTS PaidFor Covered
PROPERTY BooksOrders
CHECK_DEADLOCK FALSE
