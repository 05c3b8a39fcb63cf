SPECIFICATION Spec
CONSTANTS
  minAdjustment <- MinusOne
  maxAdjustment = 1
  Upgrades <- Upgraded
  MaxJobs = 5
  MaxDrafts = 2
  MaxCrashes = 1
INVARIANT TypeOK
INVARIANT RecognisedIsWhole
INVARIANT AudioIsNeverLost
INVARIANT InputsOfJobExist
INVARIANT PlaysWhatIsApplied
INVARIANT ExportIsWhatWasPlaying
INVARIANT DeletedLeavesNoAudio
CHECK_DEADLOCK FALSE
