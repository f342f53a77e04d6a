SPECIFICATION Spec
CONSTANTS
  LeadFrames = 2
  MaxUtterances = 2
  MaxFrames = 3
  MaxFlushes = 2
INVARIANTS
  SilentAfterClear
PROPERTIES
  ImplementsPlayback
  ProducerReleased
CHECK_DEADLOCK FALSE
