SPECIFICATION MCSpec
CONSTANTS
  Unknown = Unknown
  MaxLost = 1
  MaxAsked = 2
  MaxReloads = 1
  MaxRuns = 2
  MaxBuilds = 2
  MaxPieces = 2
  Processes = {p1, p2}
  MaxPlans = 2
  MaxJobs = 2
  MaxBoots = 3
  Places = {"goa", "agra"}
  Fares = {1, 2}
  MaxTurns = 2
  MaxLogged = 2
  Agents <- TheAgents
  AnswerCosts = {0, 1, 2}
  CostLimit = 2
  MaxAnswers = 1
  Writers = {w1, w2}
  Diets = {"vegan", "halal"}
  Homes = {"pune"}
  ListLimit = 1
  StyleInterests = {"nature"}
  Deadlines <- TheDeadlines
  MaxSlow = 1
  Horizon = 4
  MaxCalls = 3
  MeteredRuns = {"one", "two"}
  MAX_SENT_BACK = 1
INVARIANTS
  TypeOK
  PageReadsTrue
  EmbeddingsKept
  TripKeptTrue
PROPERTIES
  NothingTakenAway
  PageComesToRest
CHECK_DEADLOCK FALSE
