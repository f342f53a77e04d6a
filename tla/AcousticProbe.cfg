SPECIFICATION Spec
CONSTANTS
  ReceiveOnly = {TRUE, FALSE}
INVARIANTS
  BridgeOnce
  MeasuredInOrder
PROPERTIES
  CallsEnd
CHECK_DEADLOCK FALSE
