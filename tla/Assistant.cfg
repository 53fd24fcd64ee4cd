SPECIFICATION AssistantSpec
CONSTANTS
  Workers = {w1, w2}
  Conversations = {"c"}
  Owner <- MCOwner
  RECENT = 1
  BATCH = 2
  PER_OWNER = 1
  GLOBAL = 1
  MAX_PINS = 1
  GENERATED = 1
  Machine = TRUE
  MAX_ATTEMPTS = 2
  MaxTurns = 3
  MaxJobs = 2
  MaxSystemPins = 1
  MaxPlans = 2
  Crashes = TRUE
  Chats = {"c", "d"}
  Indexers = {"i1", "i2"}
  MaxMessages = 2
  MaxIndexTime = 1
  Owners = {"o"}
  Answerers = {"q1", "q2"}
  Keys = {"k", "l"}
  Texts = {"t"}
  QUESTIONS_PER_OWNER = 1
  QUESTIONS_GLOBAL = 1
  RATE = 2
  MaxQuestions = 2
  MaxDays = 1
  Profiles <- MCProfiles
  Reasoning = "SIMPLE"
  Tools <- MCTools
  Allowed <- MCAllowed
  CallIds = {"1", "2"}
  NewsItems <- MCNewsItems
  CUTOFF = 1
  ENVELOPE = 10
  OUTPUT = 50
  MAX_EVIDENCE = 2
  MAX_PER_CLAIM = 2
  MAX_CLAIMS = 2
  NEWS_PAGE = 2
  MAX_CARDS = 1
  Replies <- MCReplies
  Answers <- MCAnswers
  Sizes <- MCSizes
  MAX_TURNS = 3
  MAX_CALLS = 3
  MAX_PARALLEL = 2
  RESULT_TOKENS = 150
  CONTEXT = 400
  BASE = 100
  WRAP = 10
  ATTEMPTS = 2
  RouteWorkers = {w1, w2}
  Pools <- MCPools
  PoolType <- MCType
  PoolKeys <- MCKeys
  PoolRank <- MCRank
  PlanModels <- MCPlan
  Templates <- MCTemplates
  Registry = {}
  Services = {"INTERACTIVE"}
  Estimates = {1}
  Actuals = {2}
  MINUTE = 2
  DAY = 3
  MAX_ROUTE_ATTEMPTS = 3
  SCALE = 16
  MaxTime = 1
  MaxRows = 3
  MaxNews = 1
  MaxCrashes = 1
SYMMETRY WorkerSymmetry
CHECK_DEADLOCK FALSE
INVARIANTS SummariesExact  RecallHonest QuestionsExact BudgetsKept RunSound
PROPERTIES OwnerTitleStands
