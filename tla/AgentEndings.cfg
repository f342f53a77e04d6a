SPECIFICATION Spec
CONSTANTS
  MaxTurns = 20
  HalfDuplex = FALSE
  Mode = "production"
  Greets = {FALSE}
  MaxToolRounds = 1
  Faults = {"connect", "socket", "tts", "sink", "cancel"}
  Limited = FALSE
  MaxSaid = 1
  MaxEnds = 1
  MaxTriggers = 1
  MaxFrames = 1
  MaxCalls = 1
INVARIANTS
  CleanEnd
PROPERTIES
  CallsAreEnded
  CallerHeardAgain
CHECK_DEADLOCK FALSE
