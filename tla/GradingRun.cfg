CONSTANTS
  a = a
  b = b
  q = q
  w1 = w1
  w2 = w2
  c1 = c1
  c2 = c2
  r1 = r1
  r2 = r2
  r3 = r3
  NoResv = NoResv
  Questions = {q}
  Workers = {w1, w2}
  Sheets = {a, b}
  MaxTries = 2
  Rids = {r1, r2, r3}
  Clients = {c1, c2}
  MaxStarts = 1
  MaxCrashes = 1
  Uploads = TRUE
  Reconciles = TRUE
SPECIFICATION MCSpec
INVARIANTS BilledIsGraded EndedIsSettled
PROPERTIES GradedStays BillsOnce MessageServed
CHECK_DEADLOCK FALSE
