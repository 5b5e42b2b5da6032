CONSTANTS
  r1 = r1
  r2 = r2
  k1 = k1
  k2 = k2
  s1 = s1
  s2 = s2
  s3 = s3
  Rids = {r1, r2}
  Keys = {k1, k2}
  Sessions = {s1, s2, s3}
  Estimates <- MCEstimates
  Costs <- MCCosts
  Quote = 1
  Cap = 4
  JobCap = 3
  MaxCalls = 3
  NoRid = NoRid
SPECIFICATION Spec
SYMMETRY MCSymmetry
INVARIANTS CallsCovered CapHolds ChargedInFull DeadlocksNamed
CHECK_DEADLOCK FALSE
