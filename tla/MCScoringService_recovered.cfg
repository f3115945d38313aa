\* What the recovery at startup promises.
CONSTANTS
  r1 = r1  a1 = a1  a2 = a2
  Rounds = {r1}
  Agents = {a1}
  PublicRounds = {}
  Scores = {0}
  NoPayload = NoPayload
  MaxConcurrentScoring = 1
  OperatorWaits = TRUE
  TaskIds <- TwoTasks
  MaxRequests = 1
  MaxGenerations = 2
  MaxRestarts = 1
SPECIFICATION FairSpec
PROPERTIES
  RecoveredRoundsGoOn
CHECK_DEADLOCK FALSE
