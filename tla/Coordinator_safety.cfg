SPECIFICATION Spec
CONSTANTS
  Owner = {h1, h2, h3}
  Fingerprint = {f1, f2}
  Lease = 1
  CompletedTtl = 1
  WaitFor = 1
  MaxFaults = 2
  RedisCrashes = FALSE
  MaxTime = 3
SYMMETRY Symmetry
CHECK_DEADLOCK FALSE
INVARIANTS
  TypeOK
  AtMostOnce
  SingleInDoubt
  AmbiguousIsFinal
  InDoubtIsKept AnswerIsOwn
PROPERTY KeepsPromise
