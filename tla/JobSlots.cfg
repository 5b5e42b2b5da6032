CONSTANTS
  w1 = w1
  w2 = w2
  w3 = w3
  j1 = j1
  j2 = j2
  j3 = j3
  NoOne = NoOne
  Threads = {w1, w2, w3}
  Jobs = {j1, j2, j3}
  Limit = 2
  MaxSent = 2
  MaxDeaths = 1
SPECIFICATION MCSpec
INVARIANTS LeasesWithinLimit OneRunner RunnersWithinLimit
PROPERTY QueueDrains
CHECK_DEADLOCK FALSE
