SPECIFICATION Spec
CONSTANTS
  Readings = {r1, r2, r3}
  Unknown = Unknown
  Malformed = Malformed
  NoAnswer = NoAnswer
  MaxRetries = 2
  MaxItems = 3
INVARIANTS
  TypeOK
  EveryReadingHasOneOutcome
PROPERTIES
  AcceptedIsFinal
CHECK_DEADLOCK FALSE
