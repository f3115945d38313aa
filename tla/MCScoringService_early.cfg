\* What the relay's documentation says of the start of scoring.
CONSTANTS
  r1 = r1  a1 = a1  a2 = a2
  Rounds = {r1}
  Agents = {a1, a2}
  PublicRounds = {}
  Scores = {0, 1}
  NoPayload = NoPayload
  MaxConcurrentScoring = 1
  OperatorWaits = TRUE
  TaskIds <- TwoTasks
  MaxRequests = 1
  MaxGenerations = 2
  MaxRestarts = 0
SPECIFICATION Spec
INVARIANTS
  ScoresAfterCommitPhase
CHECK_DEADLOCK FALSE
