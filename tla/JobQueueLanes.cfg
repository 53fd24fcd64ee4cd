SPECIFICATION FairSpec
CONSTANTS
  ann = ann
  imp = imp
  tit = tit
  c1 = c1
  c2 = c2
  NoWorker = NoWorker
  NoJob = NoJob
  TaskType <- MCTaskType
  IdRank <- MCIdRank
  LaneOf <- MCLaneOf
  PriorityOf <- MCPriorityOf
  Content <- MCContent
  PoolOf <- MCPoolOf
  Jobs = {ann, tit}
  Workers = {w1, w2}
  Protected = {ann}
  Legacy = {}
  Churning = {}
  Requests = {}
  Modes = {}
  Delays = {1}
  LEASE = 1
  HEAD_START = 1
  IDLE_WAIT = 1
  PENDING_DELAY = 1
  LEGACY_RETRY = 0
  MaxTime = 3
  MaxAttempts = 2
  MaxCrashes = 1
INVARIANTS LeaseShape FenceMatchesClaim
PROPERTIES ProhibitedStaysOut ClaimOrder ProductSettlesJob
