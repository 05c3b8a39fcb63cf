\* Every timeline two changes by hand away, under any of five transcriptions.
SPECIFICATION Spec
CONSTANTS
  Duration = 10
  MinGap = 2
  LongPause = 3
  PhraseGap = 1
  Transcripts <- AllTranscripts
  Upgrades <- FirstVersions
  MaxEdits = 2
INVARIANTS
  TypeOK
  DraftsAreAccepted
  DecisionsSurvive
  RegeneratingSettles
  GeneratedDraftKeepsSpeech
  TranscriptFollowsTheAudio
  PhrasesDoNotCrossCuts
CHECK_DEADLOCK FALSE
