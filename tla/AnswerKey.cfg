CONSTANTS
  k1 = k1
  k2 = k2
  r1 = r1
  r2 = r2
  b1 = b1
  b2 = b2
  p1 = p1
  p2 = p2
  x1 = x1
  t1 = t1
  t2 = t2
  Keys = {k1}
  Regions = {r1, r2}
  Bodies = {b1, b2}
  Preps = {p1}
  Loose = {}
  Teachers = {t1, t2}
  NoKey = NoKey
  NoBody = NoBody
  NoRegion = NoRegion
  NoPrep = NoPrep
  MaxRevs = 2
  MaxRows = 2
  MaxSheets = 2
  MaxRedo = 1
SPECIFICATION KeySpec
CONSTRAINT LateSheets
SYMMETRY MCSymmetry
INVARIANTS OnlyConfirmed GradedByLock 
PROPERTY PublishedFrozen
CHECK_DEADLOCK FALSE
