SPECIFICATION InboundSpec
CONSTANTS
  MaxReconnects = 1
  FeedMax = 2
  CallbackRaises = TRUE
  MaxFrames = 4
  MaxMessages = 1
  HalfDuplex = TRUE
  Guard = 3
  MaxGap = 1
  OnsetFrames = 2
  RearmFrames = 1
INVARIANTS
  FeedIsNewest
  BudgetExact
  NothingLeftOpen
  EchoSilenced
PROPERTIES
  RecoveryEnds
CHECK_DEADLOCK FALSE
