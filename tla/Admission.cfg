SPECIFICATION AdmissionSpec
CONSTANTS
  Lanes = {l1, l2}
  Accounts = {"a1"}
  Classes = {"ANNOTATION"}
  ClassRank <- MCClassRank
  Asks <- QuotaAsks
  Pressures <- FlatPressure
  LiveSignals = {TRUE, FALSE}
  Answers = {"PROVIDER_SUCCEEDED", "PROVIDER_THROTTLED", "PROVIDER_FAILED"}
  WINDOW = 1000
  DAY = 1400
  DAILY = 3
  RPM = 2
  TPM = 3
  RESERVE = 1
  FORECAST = 1
  HEADROOM = 1
  SHARE = 10
  PRESSURE_WINDOW = 1000
  INITIAL = 500
  MINIMUM = 500
  MAXIMUM = 1000
  TTL = 0
  SECOND = 1000
  MAX_WAIT = 86400000
  RetryAfters <- OneRetryAfter
  Reports = {0, 3}
  Absent <- MCAbsent
  Steps = {500}
  MaxTime = 1501
  MaxRequests = 3
  RotationLanes = {g1}
  RotationMaxTime = 501
SYMMETRY LaneSymmetry
CHECK_DEADLOCK FALSE
INVARIANTS QuotaKept DispatchSpacing FairRotation2
PROPERTIES RetryAfterHonoured RetrievalKept
