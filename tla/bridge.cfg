SPECIFICATION FairSpec
CONSTANTS
  Messages <- TwoMessages
  Tasks <- TwoTasks
  Chats = {owner, relative}
  Owner = owner
  relative = relative
  Says <- MixedSays
  None = None
  HistMax = 3
  MaxFaults = 1
INVARIANTS
  OneTaskPerMessage
  NoOutcomeLost
  RepeatsNeedAnError
PROPERTIES
  EveryTaskSettled
\* Nothing more need be written.
CHECK_DEADLOCK FALSE
