SPECIFICATION FairSpec
CONSTANTS
  Workers = {w1, w2}
  NoWorker = NoWorker
  MaxDisturbances = 2
  a = a
  b = b
  Readings = {a, b}
  Invalid = Invalid
  Log <- MCLog
  MaxReadings = 2
INVARIANTS
  TypeOK
  OffsetsAreDurable
  MappingsAreAudited
PROPERTIES
  EnrichesStoredOnce
  ReportsUnmappedOnce
  EverythingIsSettled
CHECK_DEADLOCK FALSE
