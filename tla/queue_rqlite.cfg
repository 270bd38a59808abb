SPECIFICATION Spec
CONSTANTS
  mini = mini
  pad = pad
  None = None
  Tasks = {1, 2}
  Workers <- MCWorkers
  Caps <- MCCaps
  Bodies <- MCBodies
  Primary = mini
  PreferPrimary <- MCPrefer
  Backend = "rqlite"
  MaxConcurrent = 1
  Endpoints = 2
  MaxSends = 1
  MaxEpochs = 1
  MaxFaults = 1
  Reliable = {}
INVARIANTS
  TypeOK
  OneHandoutPerEpoch
  OutcomeKept
  WorkIsAnnounced
  CapUnlessReopened
  SlotsAreFreed
