SPECIFICATION FairSpec
CONSTANTS
  Owner = {h1, h2}
  Fingerprint = {f1, f2}
  Lease = 1
  CompletedTtl = 1
  WaitFor = 1
  MaxFaults = 1
  RedisCrashes = TRUE
  MaxTime = 3
CHECK_DEADLOCK FALSE
PROPERTY Terminates
