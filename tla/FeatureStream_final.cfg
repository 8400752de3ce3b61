SPECIFICATION UntilRestart
CONSTANTS
  ta = ta  tb = tb  tc = tc  td = td  te = te
  Tx <- All
  EventTime <- ScenarioTime
  Malformed <- Unparsed
  Copies <- Twice
  StateKey <- Views
  KeysOf <- ViewsOf
  StdKey <- Users
  Overflows <- Failing
  Subtask <- Two
  SubtaskOf <- TwoSubtasks
  Idling = {2}
  OutOfOrder = 1  Lateness = 1  Window = 2  HistoryTtl = 2
  Expiring = {tb}
  MaxRetries = 1  MaxRestarts = 0  MaxBuffer = 1
INVARIANTS SnapshotsStayFinal LateStaysOffline
CHECK_DEADLOCK FALSE
