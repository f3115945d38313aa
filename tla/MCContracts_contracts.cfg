\* One round with its deadlines under weak fairness, the loops of its finalize(),
\* the contracts around it, and the threads of the service that scores it.
CONSTANTS
  Wallets = {w1, w2}
  NoWallet = NoWallet
  MaxRegistered = 3
  MaxStables = 2
  a1 = a1  a2 = a2  a3 = a3  w1 = w1  w2 = w2  sp = sp  tr = tr  s1 = s1  r1 = r1
  NoPayload = NoPayload
  NoStable = NoStable
  Agents <- MCAgents
  Addresses <- MCAddresses
  Wallet <- MCWallet
  Sponsor = sp
  Treasury = tr
  Stables <- MCStables
  StableOwner <- MCStableOwner
  RevenueShareBps <- MCRevenueShareBps
  PrizeDistribution <- UnevenSlots
  ProtocolFeeBps = 200
  AcceptanceThreshold = 7000
  GraduatedPayouts = TRUE
  LoopDeposits = {7, 1003}
  Fees = {6}
  LoopResults <- LoopCalls
  RegistryAnswers <- MCMemberships
  Factory = Factory
  Rejecting = {w2}
  Eligible <- MCAgents
  Results <- MCResults
  NoResult = NoResult
  Deposits = {0, 6, 107}
  MinBountyDeposit = 7
  EntryFee = 3
  MaxAgents = 2
  CommitDuration = 1
  ScoringTimeout = 1
  ClaimExpiry = 1
  MaxElapsed = 2
  FactoryCancels = FALSE
  Proposers <- MCProposers
  Contributors <- MCContributors
  RefusesEth = {w2}
  NoProposer = tr
  Contributions = {50, 60}
  PROPOSAL_DEPOSIT = 3
  MIN_BOUNTY_DEPOSIT = 50
  PROTOCOL_FEE_BPS = 200
  MIN_FUNDING_DURATION = 1
  MAX_FUNDING_DURATION = 2
  Terms <- MCTerms
  MaxProposals = 2
  MaxTime = 3
  Competitors <- MCAgents
  MAX_LEADERBOARD_SIZE = 2
  SEASON_DURATION = 1
  Rankings <- MCRankings
  MaxSeasons = 2
  MaxSeasonTime = 2
  MaxPoints = 100
  MaxPool = 1
  Arbitrators <- MCArbitrators
  Openers = {sp}
  Rounds <- MCDisputeRounds
  Refusing = {a3}
  Nobody = tr
  ARBITRATOR_COUNT = 2
  Stakes = {2}
  Bonds = {3}
  MIN_STAKE_AGE = 1
  REVEAL_WINDOW = 0
  ARBITRATION_WINDOW = 0
  MaxPending = 2
  MaxDisputes = 2
  MaxTimestamp = 1
SPECIFICATION ContractsSpec
INVARIANTS
  TypeOK
  Solvent
  ClaimsBacked
  CashBook
  RefundsExact
  NothingLost
  ClosedForm
  MembershipAgrees
  BoardIsTop
  MarketBacked
  DisputesStand
PROPERTIES
  EntitlementsFrozen
  OneWayOut
  NoRugPull
  ImplementsEscrow
  RoundIsDecided
  MoneyLeaves
  ScoringEnds
CHECK_DEADLOCK FALSE
