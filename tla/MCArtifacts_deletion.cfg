SPECIFICATION Spec
CONSTANTS
  minAdjustment <- MinusOne
  maxAdjustment = 1
  Upgrades <- NewInstalls
  MaxJobs = 2
  MaxDrafts = 1
  MaxCrashes = 1
INVARIANT LiveRowKeepsItsFiles
CHECK_DEADLOCK FALSE
