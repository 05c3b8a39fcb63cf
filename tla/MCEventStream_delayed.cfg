\* The comment on PublishDeleted against a window that reconnects.
SPECIFICATION Spec
CONSTANTS
  Sermons = {s1}
  Windows = {w1, w2}
  BufferSize = 2
  Asking = {}
  MaxVersion = 3
  MaxBreaks = 1
  Look <- Recurring
CHECK_DEADLOCK FALSE
INVARIANT
  DelayedEventCannotRecreate
