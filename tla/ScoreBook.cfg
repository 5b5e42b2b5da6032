CONSTANTS
  h1 = h1
  h2 = h2
  c1 = c1
  c2 = c2
  u1 = u1
  u2 = u2
  t1 = t1
  t2 = t2
  x1 = x1
  x2 = x2
  Sheets = {h1}
  Students = {c1, c2}
  Users = {u1, u2}
  Scores = {x1, x2}
  Sessions = {t1, t2}
  NoOne = NoOne
  NoScore = NoScore
  MaxReleases = 2
  MaxWrites = 2
  MaxTasks = 2
  MaxBinds = 2
SPECIFICATION Spec
CONSTRAINT Quiet
SYMMETRY MCSymmetry
INVARIANTS NewestOnly NobodyElses PointsMatch
CHECK_DEADLOCK FALSE
