SPECIFICATION Spec
CONSTANTS
  MaxTurns = 1
  HalfDuplex = FALSE
  Mode = "fd-transcript"
  Greets = {TRUE, FALSE}
  MaxToolRounds = 1
  Faults = {"llm", "tool"}
  Limited = TRUE
  MaxSaid = 2
  MaxEnds = 2
  MaxTriggers = 0
  MaxFrames = 1
  MaxCalls = 2
INVARIANTS
  HistoryWellFormed
  RecentTurnsKept
  BudgetToldOnce
PROPERTIES
  NoTurnAfterEnding
CHECK_DEADLOCK FALSE
