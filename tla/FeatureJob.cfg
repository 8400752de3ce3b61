SPECIFICATION JobSpec
CONSTANTS
  ta = ta  tb = tb  tc = tc  td = td  te = te
  Tx <- Parsed
  EventTime <- ScenarioTime
  Malformed = {}
  Copies <- Once
  StateKey <- Users
  KeysOf <- UsersOf
  StdKey <- Users
  Overflows <- Failing
  Subtask = {1}
  SubtaskOf <- OneSubtask
  Idling = {}
  OutOfOrder = 0  Lateness = 0  Window = 2  HistoryTtl = 2
  Expiring = {}
  MaxRetries = 1  MaxRestarts = 1  MaxBuffer = 1
  Rows = 2  Live = 2
  Times <- FourTimes
  Runs = 2  MaxLost = 1  MaxQueue = 2
INVARIANTS ReadIsKept RowsAreCounted LiveIsLeft
PROPERTIES AcceptedOnce PublishesEligible HandsOver
CHECK_DEADLOCK FALSE
