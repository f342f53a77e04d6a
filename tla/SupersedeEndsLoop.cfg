SPECIFICATION Spec
CONSTANTS
  MaxTurns = 20
  HalfDuplex = FALSE
  Mode = "production"
  Greets = {FALSE}
  MaxToolRounds = 1
  Faults = {}
  Limited = FALSE
  MaxSaid = 2
  MaxEnds = 2
  MaxTriggers = 0
  MaxFrames = 1
  MaxCalls = 1
INVARIANTS
  SupersedingKeepsTheLoop
CHECK_DEADLOCK FALSE
