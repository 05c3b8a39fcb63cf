\* One window, fair timers and answers: clicks and edits come to an end.
SPECIFICATION LiveSpec
CONSTANTS
  Windows = {w1}
  Contents = {a, long}
  TooLong = {long}
  MaxActs = 4
  MaxLosses = 1
  MaxJobs = 2
CHECK_DEADLOCK FALSE
PROPERTIES
  EditIsSavedOrReported
  ApplyEnds
