SPECIFICATION Spec
CONSTANTS
  w1 = w1
  w2 = w2
  owner = owner
  q1 = q1
  q2 = q2
  k1 = k1
  k2 = k2
  ann = ann
  None = None
  Requests = {q1, q2}
  Intents <- WorkIntents
  Callers = {w1, owner}
  Workers = {w1}
  Owners = {owner}
  NamedKinds = {"response", "command"}
  Checks = {"v"}
  Accepted = TRUE
  RateLimit = 2
  RateWindow = 0
  IdemWindow = 0
  MaxTime = 0
  MaxPauses = 0
  MaxFaults = 0
INVARIANT OwnerTakesNoCommand
CHECK_DEADLOCK FALSE
