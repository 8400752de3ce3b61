SPECIFICATION AgentsSpec
CONSTANTS
  Execution <- Executions
  DataOf <- Requests
  NoAnswer = none
  Owner = {o1, o2, o3}
  Fingerprint = {f1, f2}
  Lease = 1
  CompletedTtl = 2
  MaxTime = 5
  Task = {t1, t2}
  Threads = 1
  e1 = e1  e2 = e2  e3 = e3
INVARIANTS SameUntilParted OneEvidence ReportedEarlyIsNotDelegated
CHECK_DEADLOCK FALSE
