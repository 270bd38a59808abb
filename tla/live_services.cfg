SPECIFICATION FairSpec
CONSTANTS
  Parts = {"waha", "dispatch", "composite"}
  Passes <- TwoPasses
  Polls = 2
  MaxWahaFaults = 2
  Plans <- FourPlans
  Quiet <- OneAnalyst
  Gos <- TwoGos
  Agents = {"claude", "deepseek"}
  MaxDispatchFaults = 1
  Cap <- OneSlot
  Home = "pro"
  Target = "pro"
  Names = {"site"}
  Requests <- AllRequests
  MaxRequests = 2
  MaxRows = 5
  PlanShapes <- ThreeShapes
  MaxSteps = 2
  MaxRetries = 2
  None = None
INVARIANTS
  DependenciesFirst
  EditorsRaceOnlyAstray
  StepsBounded
PROPERTIES
  WahaComesBack
  DispatchEnds
  CompositesEnd
\* Every part may come to its end.
CHECK_DEADLOCK FALSE
