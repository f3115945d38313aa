\* Two agents, both scoring paths and a restart between any two steps.
CONSTANTS
  r1 = r1  a1 = a1  a2 = a2
  Rounds = {r1}
  Agents = {a1, a2}
  PublicRounds = {}
  Scores = {0}
  NoPayload = NoPayload
  MaxConcurrentScoring = 1
  OperatorWaits = FALSE
  TaskIds <- TwoTasks
  MaxRequests = 2
  MaxGenerations = 2
  MaxRestarts = 1
SPECIFICATION BoundedSpec
INVARIANTS
  SubmittedIsOnChain
  SlotsConserved
  NoSolutionIsLost
PROPERTIES
  ImplementsLedger
SYMMETRY Symmetry
CHECK_DEADLOCK FALSE
