\* The comment on EnqueueProcessingRerun against what a rerun does.
SPECIFICATION Spec
CONSTANTS
  Sermons = {s1}
  Workers = {w1}
  MaxAttempts = 2
  Databases <- NewInstalls
  RerunParts = {"title", "transcription"}
  MaxRequests = 1
  MaxCrashes = 0
  MaxFaults = 0
INVARIANT
  RerunRestoresTheState
