SPECIFICATION FairSpec
CONSTANTS
  w1 = w1
  w2 = w2
  owner = owner
  q1 = q1
  q2 = q2
  k1 = k1
  k2 = k2
  ann = ann
  None = None
  Requests = {q1, q2}
  Intents <- KeyIntents
  Callers = {w1}
  Workers = {w1}
  Owners = {}
  NamedKinds = {}
  Checks = {"v"}
  Accepted = TRUE
  RateLimit = 1
  RateWindow = 0
  IdemWindow = 0
  MaxTime = 1
  MaxPauses = 0
  MaxFaults = 1
INVARIANTS
  OneCommandPerKey
  AnswersAreTrue
  RateIsHeld
PROPERTIES
  CommandEnds
  QueuedIsClaimed
CHECK_DEADLOCK FALSE
