SPECIFICATION FairSpec
CONSTANTS
  Callers = {c1, c2, c3, c4, c5}
  MaxConcurrency = 3
  FailureThreshold = 2
  CooldownMs = 3
  Closed = Closed
INVARIANTS
  TypeOK
  LimiterIsExact
  OpenMeansRepeatedFailures
PROPERTY EveryCallerIsServed
CHECK_DEADLOCK FALSE
