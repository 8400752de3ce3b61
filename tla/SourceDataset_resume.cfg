SPECIFICATION ResumedSpec
CONSTANTS
  Publisher = {p1, p2}
  oneHost = oneHost
  Host = {p1, p2}
  HostOf <- OwnHost
  Plan = {q1}
  Build = {b1}
  ShardCount = 2  Workers = 2  MaxFaults = 1
  Table = {t1}
  None = None
INVARIANT TypeOK DatasetIsTrue
PROPERTY Resumes
CHECK_DEADLOCK FALSE
