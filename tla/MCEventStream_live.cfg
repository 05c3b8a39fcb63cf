\* One window that selects and retries, a channel of one event, two breaks: each change
\* comes to be shown although a row says again what it said before.
SPECIFICATION LiveSpec
CONSTANTS
  Sermons = {s1}
  Windows = {w1}
  BufferSize = 1
  Asking = {"scriptures", "retry"}
  MaxVersion = 5
  MaxBreaks = 2
  Look <- Recurring
CHECK_DEADLOCK FALSE
PROPERTY
  PublishedIsShown
