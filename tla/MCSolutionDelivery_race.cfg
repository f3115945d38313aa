\* Two agents, nothing fails, a puller that asks twice.
CONSTANTS
  Agents = {1, 2}
  Results <- MCResults
  Keys = {k1}
  WalletKey = k1
  Sponsor = sponsor
  Nobody = nobody
  NoKey = NoKey
  MAX_POLLS = 2
  MaxTriggers = 2
  V1Triggers = {}
  Faults = FALSE
SPECIFICATION DeliverySpec
INVARIANT WinnersDelivered
CHECK_DEADLOCK FALSE
