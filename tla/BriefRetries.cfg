SPECIFICATION UpkeepFairSpec
CONSTANTS
  Control = {"operator_retries"}
  Heavy <- MCHeavy
  Draining = {"news_evidence"}
  Owned = {"audit", "news_evidence"}
  Cadence <- MCCadence
  BACKOFF = 2
  INTERVAL = 1
  PAGES = 1
  MaxFaults = 1
  Incarnations = 2
  Concurrent = 1
  LastBackup = 3
  Daily = 2
  Weekly = 1
  Monthly = 1
  MaxSnapshots = 2
  MaxBytes = 2
  MaxAge = 1
  Bytes <- MCBytes
  Legacy = {1}
  Signed = TRUE
  MaxMishaps = 1
  LastBrief = 1
  Packets = {"p", "q"}
  NoPacket = "-"
  FAILURES = 2
  MaxReceipts = 2
  MaxEvents = 2
  Order <- FeedOrder
  Kind <- FeedKind
  Interval <- FeedInterval
  Credentialed = {}
  Items <- FeedItems
  Blocked = {"db", "gb", "gc"}
  Feed <- NoFeed
  LIMIT = 2
  TARGET = 1
  BUDGET = 2
  TRANSIENT <- MCTransient
  RATE <- MCRate
  AUTH = 3
  HISTORY = 2
  ITEM_DELAY = 4
  RetryAfters = {0, 1}
  POLL = 1
  MaxRound = 1
  MaxLosses = 1
CHECK_DEADLOCK FALSE
INVARIANTS FiniteRetries
