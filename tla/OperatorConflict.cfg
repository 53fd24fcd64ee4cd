SPECIFICATION OperatorFairSpec
CONSTANTS
  j1 = j1
  w1 = w1
  w2 = w2
  c1 = c1
  Jobs = {j1}
  WebRequests = {w2}
  LocalRequests = {c1}
  JobOf <- MCJobOf
  ModeOf <- MCModeOf
  LEASE = 2
  PATIENCE = 1
  GRACE = 1
  DELAY = 1
  MaxTime = 4
  MaxFaults = 1
  MaxMoves = 2
  Listable = {1, 2}
  Versions = {"a", "b"}
  Unlisted = "-"
  NoList = NoList
  MUTATIONS = 1
  Count = 2
  Lanes = {n1, n2}
  Nobody = Nobody
  Queues <- MCQueues
  Outputs = {"o1", "o2"}
  MaxMishaps <- MCMishaps
  Commands = {"a", "b"}
  Sizes <- FourRows
  Original = "r0"
  Corrected = {"r1"}
  PAGE_ITEMS = 2
  PART_BYTES = 2
  TOTAL_BYTES = 5
  DISK_BYTES = 9
  MANIFEST = 1
  BACKOFF = 1
  MaxClock = 1
  MaxLosses = 2
CHECK_DEADLOCK FALSE
PROPERTIES ConflictMeansChanged
