\* Two toggles of a selection against an extraction and a failure, and
\* every list of three references.
SPECIFICATION MCSpec
CONSTANTS
  Passages <- AllPassages
  Answers <- AllAnswers
  maxScriptureOptions = 3
  MaxToggles = 2
  MaxExtractions = 1
  MaxFailures = 1
  MaxMentions = 3
INVARIANTS
  SelectionIsAvailable
  OfferedIsAccepted
  ToggleIsNotLost
  NormalizedIsExact
PROPERTY
  SavingEnds
CHECK_DEADLOCK FALSE
