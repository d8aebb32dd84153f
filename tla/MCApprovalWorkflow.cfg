SPECIFICATION Spec
CONSTANTS
  Commands = {c1}
  Requests = {r1, r2, r3, r4}
  NoCall = NoCall
  MaxClock = 1
SYMMETRY RequestSymmetry
INVARIANTS
  TypeOK
  OneWinnerPerStatus
  GovernedReady
  AuditTimesFollowLifecycle
  ReadyIsAudited
  ResponseTruthful
PROPERTY
  ImplementsLifecycle
CHECK_DEADLOCK FALSE
