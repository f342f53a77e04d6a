SPECIFICATION Spec
CONSTANTS
  Modes = {"measurement", "no-stimulus", "echo-control", "agent-only", "phase3"}
  Horizon = 26
  StateTimeout = 4
  GreetingHorizon = 9
  DeliveryTimeout = 5
  StallBound = 8
  Observation = 5
  Offset = 5
  Arm = 3
  Hold = 2
  Sep = 1
  Fixture = 2
  Search = 2
  Poll = 2
  Depth = 1
  Pad = 2
  MaxVoids = 1
  Lag = 1
  MaxRing = 0
  MaxChanges = 2
  MaxLost = 4
  MaxLate = 1
  MaxFaults = 1
INVARIANTS
  SilenceIsReal
  JudgedIsReal
  CompleteIsSound
