SPECIFICATION Spec
CONSTANTS
  Publisher = {p1, p2}
  oneHost = oneHost
  Host = {oneHost}
  HostOf <- SameHost
  Plan = {q1, q2}
  Build = {b1, b2}
  ShardCount = 1  Workers = 1  MaxFaults = 1
  Table = {t1, t2}
  None = None
SYMMETRY Symmetric
INVARIANT ManifestsAreTrue OnePlan
PROPERTY NeverOverwritten
CHECK_DEADLOCK FALSE
