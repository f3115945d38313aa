\* What the comment of dispute() promises.
CONSTANTS
  a1 = a1  a2 = a2  a3 = a3  w1 = w1  w2 = w2  sp = sp  tr = tr  s1 = s1
  Agents <- MCAgents
  Addresses <- MCAddresses
  Wallet <- MCWallet
  Sponsor = sp
  Treasury = tr
  Stables <- MCStables
  StableOwner <- MCStableOwner
  RevenueShareBps <- MCRevenueShareBps
  NoStable = NoStable
  PrizeDistribution <- TwoSlots
  ProtocolFeeBps = 200
  AcceptanceThreshold = 7000
  GraduatedPayouts = FALSE
  Factory = Factory
  Rejecting = {w2}
  Eligible <- MCAgents
  Results <- MCResults
  NoResult = NoResult
  Deposits = {107}
  MinBountyDeposit = 7
  EntryFee = 3
  MaxAgents = 0
  CommitDuration = 1
  ScoringTimeout = 1
  ClaimExpiry = 1
  MaxElapsed = 2
  FactoryCancels = FALSE
SPECIFICATION FairSpec
PROPERTIES
  DisputesAreResolved
CHECK_DEADLOCK FALSE
