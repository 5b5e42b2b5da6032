CONSTANTS
  c1 = c1
  c2 = c2
  m1 = m1
  m2 = m2
  a1 = a1
  a2 = a2
  Channels = {c1}
  Models = {m1}
  Admins = {a1, a2}
  NoModel = NoModel
  MaxUrl = 1
  MaxUpstream = 0
  MaxVersions = 2
  MaxCalls = 1
SPECIFICATION Spec
CONSTRAINT AfterRaces
SYMMETRY MCSymmetry
INVARIANTS RoutesPublished PromisedIsPublished CallsChecked
 
CHECK_DEADLOCK FALSE
