\* One sermon, followed through long sequences of requests.
SPECIFICATION Spec
CONSTANTS
  Sermons = {s1}
  Workers = {w1, w2}
  MaxAttempts = 2
  Databases <- FirstStarts
  RerunParts = {"title", "transcription"}
  MaxRequests = 3
  MaxCrashes = 1
  MaxFaults = 1
SYMMETRY Symmetry
VIEW LiveCounters
INVARIANTS
  TypeOK
  OneJobPerBusySermon
  RetryFindsTheFailure
  AttemptsCountErrors
  ReturnIsToThePipeline
  SavedDraftIsKept
