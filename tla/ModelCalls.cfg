CONSTANTS
  p1 = p1
  p2 = p2
  o1 = o1
  c1 = c1
  c2 = c2
  Platform = Platform
  Calls = {p1, p2}
  Schools = {o1}
  Channels = {c1, c2}
  School <- MCSchool
  Route <- MCRoute
  SchoolLimit = 2
  ChannelLimit = 1
  PlatformLimit = 2
  Rate = 1
  Threshold = 2
  Passes = 1
  MaxFaults = 1
SPECIFICATION FairSpec
INVARIANTS WithinLimits CircuitExact CircuitBlamesUpstream
PROPERTY CallsEnd
CHECK_DEADLOCK FALSE
