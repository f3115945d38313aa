\* Goals from the smallest one allowed; nobody refuses ETH.
CONSTANTS
  p1 = p1  c1 = c1  c2 = c2
  Proposers <- MCProposers
  Contributors <- MCContributors
  RefusesEth = {}
  NoProposer = NoProposer
  Terms <- MCTerms
  Contributions = {50, 60}
  PROPOSAL_DEPOSIT = 3
  MIN_BOUNTY_DEPOSIT = 50
  PROTOCOL_FEE_BPS = 200
  MIN_FUNDING_DURATION = 1
  MAX_FUNDING_DURATION = 2
  MaxProposals = 1
  MaxTime = 2
SPECIFICATION MarketSpec
PROPERTY NoFundLockup
CHECK_DEADLOCK FALSE
