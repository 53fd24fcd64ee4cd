SPECIFICATION SchedulerSpec
CONSTANTS
  NoJob = NoJob
  NoWorker = NoWorker
  Jobs = {job}
  Workers = {w1}
  TaskType <- MCTaskType
  IdRank <- MCIdRank
  LaneOf <- MCLaneOf
  PriorityOf <- MCPriorityOf
  PoolOf <- MCPoolOf
  Content <- MCContent
  Protected = {job}
  Legacy = {job}
  Churning = {job}
  Requests = {r1, r2}
  Modes = {"KEEP_ORIGINAL", "CUSTOM"}
  Delays = {2}
  LEASE = 1
  HEAD_START = 1
  IDLE_WAIT = 1
  PENDING_DELAY = 2
  LEGACY_RETRY = 3
  MaxTime = 3
  MaxAttempts = 2
  MaxCrashes = 0
  SharedLanes = {"l1", "l2"}
  SharedJobs = {"ann", "ann2", "ann3", "ann4", "imp"}
  SharedResults = {"OK", "MAINTENANCE", "DEFERRED"}
  SerialLanes = {"s1"}
  SerialJobs = {"live", "tit"}
  SerialResults = {"OK", "MAINTENANCE", "DEFERRED", "AUTH", "PRESSURE"}
  SerialRounds = 2
SYMMETRY MCSymmetry
CHECK_DEADLOCK FALSE
INVARIANTS RoundFair OverrideDiscipline
PROPERTIES MovesAreAuthorized
