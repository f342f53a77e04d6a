SPECIFICATION CaptureSpec
CONSTANTS
  Maximum = 1
  Ttl = 2
  MaxRows = 3
  MaxBytes = 2
  MaxTokens = 2
  MaxNow = 3
  Sent = 3
  MaxReceived = 3
INVARIANTS
  LossLeavesATrace
PROPERTIES
  TokenAdmitsOnce
CHECK_DEADLOCK FALSE
