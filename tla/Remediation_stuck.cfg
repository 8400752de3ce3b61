SPECIFICATION Spec
CONSTANTS
  Shards = 1
  Operator = {p}
  Foreigners = FALSE
  MaxFaults = 1
INVARIANT RollBackFirstWorks
CHECK_DEADLOCK FALSE
