\* One wallet, one round, one or two agents: a small instance of each component.
CONSTANTS
  Solutions <- MCSolutions
  SponsorRubrics <- MCRubrics
  PassSets <- MCPassSets
  Processes = {p0}
  Requests = {q1, q2}
  PrivateRequests = {q1}
  LastPhase = 2
  Agents = {1}
  Results <- MCResults
  Keys = {k1}
  WalletKey = k1
  Sponsor = sponsor
  Nobody = nobody
  NoKey = NoKey
  MAX_POLLS = 1
  MaxTriggers = 2
  V1Triggers = {"error"}
  Faults = TRUE
  Wallets = {w1}
  Callers = {w1, w2}
  Texts = {t1, t2}
  NoText = NoText
  MaxKeyPairs = 2
  MaxKeys = 2
  Amounts = {1, 2}
  SINGLE_TX_THRESHOLD = 2
  CUMULATIVE_THRESHOLD = 5
  RAPID_TX_COUNT = 2
  RAPID_TX_WINDOW = 2
  Workers = 1
  MaxClock = 4
  MaxTransactions = 3
  MaxSubmissions = 2
  Addresses = {x1, x2}
  Unnamed = Unnamed
  Listed = {x2}
  Reports <- MCReports
  SESSION_MAX_AGE = 2
  CSRF_MAX_AGE = 1
  LOCKOUT_SECONDS = 2
  MAX_ATTEMPTS = 2
  MAX_KEYS_PER_AGENT = 1
  MaxHour = 3
  MaxTokens = 3
  MaxSessions = 2
  Clients = {c1, c2}
  max_count = 2
  window_sec = 3
  STORE_SIZE = 1
  MaxSecond = 4
  Pages = {p1}
  Deposits = {2}
  MAX_INTEGER = 5
  LastDay = 3
  MaxEvents = 3
SPECIFICATION ServicesSpec
INVARIANTS
  GatesHold
  BetterNeverScoresLess
  PayloadComplete
  IndexIsTrue
  AtMostOneBounty
  RubricStaysPrivate
  VaultMatchesChain
  ProblemNeedsEntry
  ScoredAsServed
  HighRiskIsQueued
  OneOpenSubmission
  NoObjectionIsLost
  EndedStaysEnded
  WindowHolds
  RowMatchesLog
PROPERTIES
  DualPassIsConservative
  EveryRequestAnswers
  PullersEnd
CHECK_DEADLOCK FALSE
