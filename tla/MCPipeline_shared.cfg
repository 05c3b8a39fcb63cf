\* Two sermons share two workers, which are fair.
SPECIFICATION LiveSpec
CONSTANTS
  Sermons = {s1, s2}
  Workers = {w1, w2}
  MaxAttempts = 2
  Databases <- SharedStarts
  RerunParts = {"transcription"}
  MaxRequests = 1
  MaxCrashes = 1
  MaxFaults = 0
INVARIANT
  RunningJobHasOneWorker
PROPERTIES
  ImplementsWorkflow
  BusySermonSettles
  ImplementsFairWorkflow
