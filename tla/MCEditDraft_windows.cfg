\* Two windows edit the same draft over an unreliable connection.
SPECIFICATION Spec
CONSTANTS
  Windows = {w1, w2}
  Contents = {a, b}
  TooLong = {}
  MaxActs = 5
  MaxLosses = 1
  MaxJobs = 2
SYMMETRY Symmetry
CHECK_DEADLOCK FALSE
INVARIANTS
  TypeOK
  EveryRevisionBuildsOnTheLast
  WindowKnowsARevision
  AppliedAsShown
  NothingToLoseWhileTheServerWorks
