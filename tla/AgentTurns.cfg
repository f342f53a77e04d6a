SPECIFICATION AudioSpec
CONSTANTS
  MaxTurns = 20
  HalfDuplex = FALSE
  Mode = "production"
  Greets = {TRUE}
  MaxToolRounds = 0
  Faults = {"tts"}
  Limited = FALSE
  MaxSaid = 2
  MaxEnds = 2
  MaxTriggers = 0
  MaxFrames = 1
  MaxCalls = 1
INVARIANTS
  CallerSpeechExactlyOnce
  SpeakingFlagExact
  InterruptionOwned
  OnlyOwnMarkCompletes
  InterruptedRecordsAreCut
PROPERTIES
  OneGenerationAtATime
  HeardAsPromised
CHECK_DEADLOCK FALSE
