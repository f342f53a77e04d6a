SPECIFICATION Spec
CONSTANTS
  Streaming = {TRUE, FALSE}
  FrameChunks = 3
  MaxChunks = 7
INVARIANTS
  WholeReply
  TornDown
PROPERTIES
  SynthesisAnswers
  ThreadEnds
CHECK_DEADLOCK FALSE
