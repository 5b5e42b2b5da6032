CONSTANTS
  r1 = r1
  r2 = r2
  s1 = s1
  s2 = s2
  a = a
  b = b
  Sheets = {a, b}
  Grants <- MCGrants
  Sizes <- MCSizes
  Rids = {r1, r2}
  Sessions = {s1, s2}
SPECIFICATION CrossSpec
SYMMETRY MCSymmetry
INVARIANTS ChargesAccounted LedgerUncrossed
PROPERTY BillsOnce
CHECK_DEADLOCK FALSE
