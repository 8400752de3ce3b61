SPECIFICATION Spec
CONSTANTS
  ta = ta  tb = tb  tc = tc  td = td  te = te
  Tx = {ta, tb, tc, td}
  EventTime <- ScenarioTime
  Malformed = {}
  Copies <- Once
  StateKey <- Users
  KeysOf <- UsersOf
  StdKey <- Users
  Overflows = {ta}
  Subtask = {1}
  SubtaskOf <- OneSubtask
  Idling = {}
  OutOfOrder = 0  Lateness = 0  Window = 2  HistoryTtl = 2
  Expiring = {}
  MaxRetries = 3  MaxRestarts = 0  MaxBuffer = 2
INVARIANT FailuresAreAnswered
CHECK_DEADLOCK FALSE
