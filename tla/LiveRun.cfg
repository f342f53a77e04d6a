SPECIFICATION LiveSpec
CONSTANTS
  Trials = 2
  MaxRuns = 3
  MaxDefects = 1
INVARIANTS
  EligibleServedByOwnServer
  WebhookRestored
CHECK_DEADLOCK FALSE
