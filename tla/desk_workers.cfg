SPECIFICATION Spec
CONSTANTS
  w1 = w1
  w2 = w2
  owner = owner
  q1 = q1
  q2 = q2
  k1 = k1
  k2 = k2
  ann = ann
  None = None
  Requests = {q1, q2}
  Intents <- WorkIntents
  Callers = {w1, w2, owner}
  Workers = {w1, w2}
  Owners = {owner}
  NamedKinds = {"response"}
  Checks = {"v"}
  Accepted = TRUE
  RateLimit = 2
  RateWindow = 0
  IdemWindow = 0
  MaxTime = 0
  MaxPauses = 1
  MaxFaults = 1
SYMMETRY Interchangeable
INVARIANTS
  TypeOK
  AuditIsHistory
  RunOnce
  OneAtATime
  DoneMeansDone
  ConsumedWasShown
PROPERTY PauseIsRespected
CHECK_DEADLOCK FALSE
