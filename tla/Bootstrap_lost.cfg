SPECIFICATION Spec
CONSTANTS
  Rows = 2
  Live = 2
  Times <- T4
  OutOfOrder = 0
  Lateness = 0
  Window = 2
  Runs = 2
  MaxLost = 1
  MaxRestarts = 1
  MaxQueue = 2
INVARIANT SuccessIsDelivered
CHECK_DEADLOCK FALSE
