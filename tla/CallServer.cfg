SPECIFICATION Spec
CONSTANTS
  Calls = {c1, c2}
  MaxSockets = 3
  MaxConcurrent = 2
  MaxPending = 1
  Benchmark = {TRUE, FALSE}
  MaxWebhooks = 3
INVARIANTS
  SlotsExact
  TokensExact
  AgentsAccounted
PROPERTIES
  SlotReturned
CHECK_DEADLOCK FALSE
