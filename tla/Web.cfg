SPECIFICATION WebFairSpec
CONSTANTS
  Content <- MCContent
  History <- MCHistory
  PAGE = 2
  PAGES = 1
  CLEAN = 1
  STEPS = 1
  Quick = FALSE
  MaxFaults = 1
  Requests <- MCFirst
  Workers = {"w1"}
  PerOwner = 2
  Global = 10
  Rate = 5
  TTL = 4
  LEASE = 2
  BACKOFF = 1
  MAX_ATTEMPTS = 2
  SendUntil = 0
  LastTick = 5
  MaxLapses = 1
CHECK_DEADLOCK FALSE
INVARIANTS EvidenceExact TurnConsistent
PROPERTIES EvidenceImplementsArchive WebSettles
