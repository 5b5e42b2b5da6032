CONSTANTS
  i1 = i1
  e1 = e1
  e2 = e2
  w1 = w1
  w2 = w2
  r1 = r1
  Items = {i1}
  Entries = {e1, e2}
  Workers = {w1, w2}
  Requests = {r1}
  NoTarget = NoTarget
  MaxPhotos = 2
  MaxCrashes = 1
  MaxReviews = 1
SPECIFICATION MCSpec
INVARIANTS VerdictOfPhoto ReviewedOnce
PROPERTY Answered
CHECK_DEADLOCK FALSE
