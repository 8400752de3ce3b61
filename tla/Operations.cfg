SPECIFICATION OperationsSpec
CONSTANTS
  Shards = 1
  Operator = {p, q}
  Foreigners = TRUE
  MaxFaults = 2
  s1 = s1  s2 = s2  s3 = s3
  x = x  y = y  z = z
  Stages <- BothStages
  Steps <- GoldSteps
  RecoveryFaults = 1
  Publisher <- Runs
  Name <- Names
  FilesOf <- Files
  Marker = marker
  NoObject = none
INVARIANTS OneAttempt WinnersAreDue CompletionIsTrue
INVARIANTS NoPaidLaunch SuccessIsWhole
INVARIANTS LedgerIsTrue ReplacedIsRecorded
PROPERTIES FailsOnlyWithItsBatch ChainCompletes ForeignIsKept RollsBack
CHECK_DEADLOCK FALSE
