\* Two requests on two workers.
CONSTANTS
  w1 = w1  w2 = w2  q1 = q1  q2 = q2
  Processes = {w1, w2}
  Requests = {q1, q2}
  PrivateRequests = {q1}
  LastPhase = 1
SPECIFICATION CreationSpec
INVARIANT ResponseIsOwnBounty
CHECK_DEADLOCK FALSE
